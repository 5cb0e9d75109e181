--------------------------- MODULE FrameSyncProofs ---------------------------
(***************************************************************************)
(* The safety of the frame loop for every number of sync objects: the      *)
(* inductive invariant of FrameSyncInv is one, and it implies the          *)
(* properties of FrameSync.                                                *)
(***************************************************************************)
EXTENDS FrameSyncInv, TLAPS

USE DEF Objs, Imgs, Ending

LEMMA TypeInit == Init => TypeOK
  BY NSyncAssumption DEF Init, TypeOK, InitialFences

LEMMA TypeStep == TypeOK /\ [Next]_vars => TypeOK'
<1> SUFFICES ASSUME TypeOK, [Next]_vars PROVE TypeOK'
  OBVIOUS
<1> USE NSyncAssumption DEF TypeOK, host, device, engine
<1>0. CASE WaitFences
  BY <1>0 DEF WaitFences
<1>1. CASE ResetFence \/ WaitIdle \/ Destroy
  BY <1>1 DEF ResetFence, WaitIdle, Destroy
<1>2. CASE FenceStatus
  <2>1. obj' \in Objs
    BY <1>2 DEF FenceStatus
  <2>2. pc' \in {"scan", "reset"}
    BY <1>2 DEF FenceStatus
  <2> QED
    BY <1>2, <2>1, <2>2 DEF FenceStatus
<1>3. ASSUME NEW m \in Imgs, Acquire(m) \/ AcquireSuboptimal(m) PROVE TypeOK'
  <2>1. Acquisition(obj, m) \in [sem : Objs, img : Imgs]
    BY DEF Acquisition
  <2>2. TakeImage(m) /\ pc' \in {"submit", "idle"}
    BY <1>3 DEF Acquire, AcquireSuboptimal, Fails
  <2> QED
    BY <2>1, <2>2 DEF TakeImage
<1>4. CASE Submit
  <2>1. Batch(obj, img) \in [wait : Objs, cmd : Imgs, sem : Imgs, fence : Objs]
    BY DEF Batch, WaitSem, PipeSem
  <2> QED
    BY <1>4, <2>1 DEF Submit
<1>5. CASE \/ WaitFencesError \/ FenceStatusError \/ ResetFenceError
           \/ AcquireError \/ SubmitError \/ PresentError
  BY <1>5 DEF WaitFencesError, FenceStatusError, ResetFenceError, AcquireError,
              SubmitError, PresentError, Fails
<1>6. CASE Present \/ PresentSuboptimal
  <2>1. Request(obj, img) \in [sem : Imgs, img : Imgs]
    BY DEF Request, PipeSem
  <2> QED
    BY <1>6, <2>1 DEF Present, PresentSuboptimal, EnqueuePresent, Fails
<1>7. ASSUME NEW b \in Batches, Start(b) \/ Finish(b) PROVE TypeOK'
  BY <1>7 DEF Start, Finish
<1>8. ASSUME NEW s \in Imgs, SignalSem(s) \/ SignalFence(s) PROVE TypeOK'
  BY <1>8 DEF SignalSem, SignalFence
<1>9. ASSUME NEW a \in Acquisitions, SignalAcquire(a) PROVE TypeOK'
  BY <1>9 DEF SignalAcquire
<1>10. ASSUME NEW p \in Requests, TakePresent(p) PROVE TypeOK'
  BY <1>10 DEF TakePresent
<1>11. ASSUME NEW m \in Imgs, Release(m) PROVE TypeOK'
  BY <1>11 DEF Release
<1>12. CASE UNCHANGED vars
  BY <1>12 DEF vars
<1> QED
  BY <1>0, <1>1, <1>2, <1>3, <1>4, <1>5, <1>6, <1>7, <1>8, <1>9, <1>10, <1>11, <1>12
  DEF Next, HostSucceeds, HostFails, Device, Engine, Stopped

\* Every variable keeps its type, whatever the number of sync objects.
THEOREM TypeCorrect == Spec => []TypeOK
  BY TypeInit, TypeStep, PTL DEF Spec

-----------------------------------------------------------------------------
(* The conjuncts below whose proof takes more than one leaf.               *)

LEMMA WaitFencesScan ==
  ASSUME WaitFences, IndInv, TypeOK'
  PROVE  ScanFindsFence'
<1> USE NSyncAssumption DEF IndInv
<1>1. PICK f \in signaled : TRUE
  BY DEF WaitFences
<1>2. f \in Nat
  BY DEF TypeOK
<1>3. obj' = 0 /\ signaled' = signaled
  BY DEF WaitFences
<1> QED
  BY <1>1, <1>2, <1>3 DEF ScanFindsFence

LEMMA TakeReading ==
  ASSUME NEW m \in Imgs, TakeImage(m), IndInv, TypeOK'
  PROVE  Reading'
<1> USE DEF IndInv
<1>1. \A n \in reading' : \/ image'[n] \in {"held", "free"}
                          \/ \E a \in acquiring' : a.img = n
  <2> TAKE n \in reading'
  <2>1. CASE n = m
    <3>1. Acquisition(obj, m) \in acquiring'
      BY DEF TakeImage
    <3>2. Acquisition(obj, m).img = n
      BY <2>1 DEF Acquisition
    <3> QED
      BY <3>1, <3>2
  <2>2. CASE n # m
    <3>1. n \in reading
      BY DEF TakeImage
    <3>2. image'[n] = image[n]
      BY <2>2 DEF TakeImage, TypeOK
    <3>3. acquiring \subseteq acquiring'
      BY DEF TakeImage
    <3> QED
      BY <3>1, <3>2, <3>3 DEF Reading
  <2> QED
    BY <2>1, <2>2
<1>2. \A b \in running' : b.cmd \notin reading'
  BY DEF TakeImage, Reading, device
<1> QED
  BY <1>1, <1>2 DEF Reading

LEMMA SubmitAcquireSems ==
  ASSUME Submit, IndInv, TypeOK'
  PROVE  AcquireSems'
<1> USE DEF IndInv
<1> DEFINE new == Batch(obj, img)
<1>1. /\ queued' = queued \cup {new} /\ acquiring' = acquiring /\ ready' = ready
      /\ pc = "submit"
  BY DEF Submit
<1>2. new.wait = obj /\ new.cmd = img
  BY DEF Batch, WaitSem
<1> HIDE DEF new
<1>3. \A a \in acquiring' : a.sem \notin ready'
  BY <1>1 DEF AcquireSems
<1>4. \A a, c \in acquiring' : a.sem = c.sem \/ a.img = c.img => a = c
  BY <1>1 DEF AcquireSems
<1>5. \A a \in acquiring' : \E b \in queued' : b.wait = a.sem /\ b.cmd = a.img
  BY <1>1, <1>2 DEF AcquireSems
<1>6. \A o \in ready' : \E b \in queued' : b.wait = o
  BY <1>1, <1>2 DEF AcquireSems
<1> QED
  BY <1>3, <1>4, <1>5, <1>6 DEF AcquireSems

LEMMA SubmitRequestsFed ==
  ASSUME Submit, IndInv, TypeOK'
  PROVE  RequestsFed'
<1> USE DEF IndInv
<1>1. Batch(obj, img) \in InFlight' /\ Batch(obj, img).sem = img
  BY DEF Submit, Batch, PipeSem, InFlight
<1>2. \A s : Drawn(s) => Drawn(s)'
  BY DEF Submit, Drawn, InFlight
<1>3. image' = image /\ img' = img
  BY DEF Submit, engine
<1>4. Drawn(img)'
  BY <1>1, <1>3 DEF Drawn
<1> QED
  BY <1>2, <1>3, <1>4 DEF RequestsFed

-----------------------------------------------------------------------------
(* The invariant is inductive: one lemma per action.                       *)

\* sync_request leaves vkWaitForFences with a signaled fence ahead of the scan.
LEMMA WaitFencesKeeps ==
  ASSUME WaitFences, IndInv, TypeOK'
  PROVE  IndInv'
<1> USE NSyncAssumption DEF IndInv
<1>1. ScanFindsFence'
  BY WaitFencesScan
<1>2. Shape' /\ Unique' /\ Fences' /\ AcquireSems' /\ BatchesFed' /\
      Reading' /\ Images' /\ PipeSems' /\ RequestsFed' /\ DestroyIdle'
  BY DEF Shape, Unique, Fences, AcquireSems, BatchesFed, Reading, Images,
         PipeSems, RequestsFed, DestroyIdle, Unsubmitted, Drawn, WaitFences,
         InFlight, device, engine
<1> QED
  BY <1>1, <1>2

\* The scan stops at a signaled fence, or that fence is still ahead.
LEMMA FenceStatusKeeps ==
  ASSUME FenceStatus, IndInv, TypeOK'
  PROVE  IndInv'
<1> USE NSyncAssumption DEF IndInv
<1>1. Fences'
  BY DEF Fences, FenceStatus, InFlight, device
<1>2. ScanFindsFence'
  BY DEF ScanFindsFence, TypeOK, FenceStatus
<1>3. Shape' /\ Unique' /\ AcquireSems' /\ BatchesFed' /\ Reading' /\
      Images' /\ PipeSems' /\ RequestsFed' /\ DestroyIdle'
  BY DEF Shape, Unique, AcquireSems, BatchesFed, Reading, Images, PipeSems,
         RequestsFed, DestroyIdle, Unsubmitted, Drawn, FenceStatus, InFlight,
         device, engine
<1> QED
  BY <1>1, <1>2, <1>3

\* The fence the scan found is now the host's.
LEMMA ResetFenceKeeps ==
  ASSUME ResetFence, IndInv, TypeOK'
  PROVE  IndInv'
<1> USE NSyncAssumption DEF IndInv
<1>1. Fences'
  BY DEF Fences, ResetFence, InFlight, device
<1>2. Shape' /\ Unique' /\ AcquireSems' /\ BatchesFed' /\ Reading' /\
      Images' /\ PipeSems' /\ RequestsFed' /\ ScanFindsFence' /\
      DestroyIdle'
  BY DEF Shape, Unique, AcquireSems, BatchesFed, Reading, Images, PipeSems,
         RequestsFed, ScanFindsFence, DestroyIdle, Unsubmitted, Drawn,
         ResetFence, InFlight, device, engine
<1> QED
  BY <1>1, <1>2

\* vkAcquireNextImageKHR: the fence obj_f[obj] vouches for obj_s[obj].
LEMMA TakeKeeps ==
  ASSUME NEW m \in Imgs, TakeImage(m), pc' \in {"submit", "idle"}, IndInv, TypeOK'
  PROVE  IndInv'
<1> USE NSyncAssumption DEF IndInv
<1>1. AcquireSems'
  BY DEF AcquireSems, Shape, Fences, Images, Unsubmitted, Acquisition,
         TakeImage, InFlight, device
<1>2. BatchesFed'
  BY DEF BatchesFed, TakeImage, device
<1>3. Reading'
  BY TakeReading
<1>4. Images'
  BY DEF Images, PipeSems, TypeOK, TakeImage, InFlight, device
<1>5. PipeSems'
  BY DEF PipeSems, TakeImage, InFlight, device
<1>6. Shape' /\ Unique' /\ Fences' /\ RequestsFed' /\ ScanFindsFence' /\
      DestroyIdle'
  BY DEF Shape, Unique, Fences, RequestsFed, ScanFindsFence, DestroyIdle,
         Drawn, TakeImage, InFlight, device
<1> QED
  BY <1>1, <1>2, <1>3, <1>4, <1>5, <1>6

\* vkQueueSubmit2: the acquisition gets the batch that waits for it.
LEMMA SubmitKeeps ==
  ASSUME Submit, IndInv, TypeOK'
  PROVE  IndInv'
<1> USE NSyncAssumption DEF IndInv
<1>1. Shape'
  BY DEF Shape, Submit, Batch, WaitSem, PipeSem, InFlight, engine
<1>2. Unique'
  BY DEF Unique, Fences, Images, Submit, Batch, InFlight
<1>3. Fences'
  BY DEF Fences, Submit, Batch, InFlight
<1>4. AcquireSems'
  BY SubmitAcquireSems
<1>5. BatchesFed'
  BY DEF BatchesFed, Fences, AcquireSems, Acquisition, Submit, Batch, WaitSem
<1>6. Images'
  BY DEF Images, Submit, Batch, InFlight, engine
<1>7. PipeSems'
  BY DEF PipeSems, Images, Submit, Batch, PipeSem, InFlight, engine
<1>8. RequestsFed'
  BY SubmitRequestsFed
<1>9. Reading' /\ ScanFindsFence' /\ DestroyIdle'
  BY DEF Reading, ScanFindsFence, DestroyIdle, Unsubmitted, Submit, engine
<1> QED
  BY <1>1, <1>2, <1>3, <1>4, <1>5, <1>6, <1>7, <1>8, <1>9

\* vkQueuePresentKHR: the request waits for the batch just submitted.
LEMMA EnqueueKeeps ==
  ASSUME EnqueuePresent, pc' \in {"wait", "idle"}, IndInv, TypeOK'
  PROVE  IndInv'
<1> USE NSyncAssumption DEF IndInv
<1>1. Shape'
  BY DEF Shape, EnqueuePresent, Request, PipeSem, InFlight, device
<1>2. Reading'
  BY DEF Reading, AcquireSems, Images, BatchesFed, EnqueuePresent, device
<1>3. Images'
  BY DEF Images, TypeOK, EnqueuePresent, Request, InFlight, device
<1>4. PipeSems'
  BY DEF PipeSems, EnqueuePresent, InFlight, device
<1>5. RequestsFed'
  BY DEF RequestsFed, Drawn, EnqueuePresent, InFlight, device
<1>6. Unique' /\ Fences' /\ AcquireSems' /\ BatchesFed' /\ ScanFindsFence'
      /\ DestroyIdle'
  BY DEF Unique, Fences, AcquireSems, BatchesFed, ScanFindsFence, DestroyIdle,
         Unsubmitted, EnqueuePresent, InFlight, device
<1> QED
  BY <1>1, <1>2, <1>3, <1>4, <1>5, <1>6

\* A call that fails and changes nothing but the control.
LEMMA QuitKeeps ==
  ASSUME pc \in {"wait", "scan", "reset", "acquire", "submit", "present"}, pc' = "idle",
         UNCHANGED <<obj, img, signaled, acquiring, ready, device, rendered, engine>>, IndInv, TypeOK'
  PROVE  IndInv'
<1> USE NSyncAssumption DEF IndInv
<1>1. Shape' /\ Unique' /\ Fences' /\ AcquireSems' /\ BatchesFed' /\
      Reading' /\ Images' /\ PipeSems' /\ RequestsFed' /\ ScanFindsFence' /\
      DestroyIdle'
  BY DEF Shape, Unique, Fences, AcquireSems, BatchesFed, Reading, Images,
         PipeSems, RequestsFed, ScanFindsFence, DestroyIdle, Unsubmitted,
         Drawn, InFlight, device, engine
<1> QED
  BY <1>1

\* vkDeviceWaitIdle returns.
LEMMA WaitIdleKeeps ==
  ASSUME WaitIdle, IndInv, TypeOK'
  PROVE  IndInv'
<1> USE NSyncAssumption DEF IndInv
<1>1. DestroyIdle'
  BY DEF DestroyIdle, WaitIdle, InFlight, device
<1>2. Shape' /\ Unique' /\ Fences' /\ AcquireSems' /\ BatchesFed' /\
      Reading' /\ Images' /\ PipeSems' /\ RequestsFed' /\ ScanFindsFence'
  BY DEF Shape, Unique, Fences, AcquireSems, BatchesFed, Reading, Images,
         PipeSems, RequestsFed, ScanFindsFence, Unsubmitted, Drawn, WaitIdle,
         InFlight, device, engine
<1> QED
  BY <1>1, <1>2

\* Nothing that is still in use is destroyed.
LEMMA DestroyKeeps ==
  ASSUME Destroy, IndInv, TypeOK'
  PROVE  IndInv'
<1> USE NSyncAssumption DEF IndInv
<1>1. Shape' /\ Unique' /\ Fences' /\ AcquireSems' /\ BatchesFed' /\
      Reading' /\ Images' /\ PipeSems' /\ RequestsFed' /\ ScanFindsFence' /\
      DestroyIdle'
  BY DEF Shape, Unique, Fences, AcquireSems, BatchesFed, Reading, Images,
         PipeSems, RequestsFed, ScanFindsFence, DestroyIdle, Unsubmitted,
         Drawn, Destroy, InFlight, device, engine
<1> QED
  BY <1>1

\* A batch starts when its image is acquired and no longer read.
LEMMA StartKeeps ==
  ASSUME NEW b \in Batches, Start(b), IndInv, TypeOK'
  PROVE  IndInv'
<1> USE NSyncAssumption DEF IndInv
<1>1. Unique'
  BY DEF Unique, Start, InFlight
<1>2. AcquireSems'
  BY DEF AcquireSems, Start, InFlight, host
<1>3. BatchesFed'
  BY DEF BatchesFed, Shape, Unique, Fences, Start, InFlight, host
<1>4. Reading'
  BY DEF Reading, Unique, AcquireSems, Images, Start, InFlight, engine
<1>5. Shape' /\ Fences' /\ Images' /\ PipeSems' /\ RequestsFed' /\
      ScanFindsFence' /\ DestroyIdle'
  BY DEF Shape, Fences, Images, PipeSems, RequestsFed, ScanFindsFence,
         DestroyIdle, Drawn, Start, InFlight, host, engine
<1> QED
  BY <1>1, <1>2, <1>3, <1>4, <1>5

\* A batch is done, and its fence and semaphore will be signaled.
LEMMA FinishKeeps ==
  ASSUME NEW b \in Batches, Finish(b), IndInv, TypeOK'
  PROVE  IndInv'
<1> USE NSyncAssumption DEF IndInv
<1>1. Unique'
  BY DEF Unique, Finish, InFlight
<1>2. Fences'
  BY DEF Fences, Unique, Finish, InFlight, host
<1>3. Images'
  BY DEF Images, Shape, Finish, InFlight, host, engine
<1>4. PipeSems'
  BY DEF PipeSems, Shape, Unique, Images, Finish, InFlight, engine
<1>5. RequestsFed'
  BY DEF RequestsFed, Drawn, Finish, InFlight, host, engine
<1>6. Shape' /\ AcquireSems' /\ BatchesFed' /\ Reading' /\ ScanFindsFence'
      /\ DestroyIdle'
  BY DEF Shape, AcquireSems, BatchesFed, Reading, ScanFindsFence, DestroyIdle,
         Finish, InFlight, host, engine
<1> QED
  BY <1>1, <1>2, <1>3, <1>4, <1>5, <1>6

\* The render-done semaphore is signaled.
LEMMA SignalSemKeeps ==
  ASSUME NEW s \in Imgs, SignalSem(s), IndInv, TypeOK'
  PROVE  IndInv'
<1> USE NSyncAssumption DEF IndInv
<1>1. Images'
  BY DEF Images, SignalSem, InFlight, host, engine
<1>2. PipeSems'
  BY DEF PipeSems, SignalSem, InFlight, engine
<1>3. RequestsFed'
  BY DEF RequestsFed, Drawn, SignalSem, InFlight, host, engine
<1>4. Shape' /\ Unique' /\ Fences' /\ AcquireSems' /\ BatchesFed' /\
      Reading' /\ ScanFindsFence' /\ DestroyIdle'
  BY DEF Shape, Unique, Fences, AcquireSems, BatchesFed, Reading,
         ScanFindsFence, DestroyIdle, SignalSem, InFlight, host, engine
<1> QED
  BY <1>1, <1>2, <1>3, <1>4

\* The fence is signaled.
LEMMA SignalFenceKeeps ==
  ASSUME NEW f \in Objs, SignalFence(f), IndInv, TypeOK'
  PROVE  IndInv'
<1> USE NSyncAssumption DEF IndInv
<1>1. Fences'
  BY DEF Fences, SignalFence, InFlight, host
<1>2. ScanFindsFence'
  BY DEF ScanFindsFence, SignalFence, host
<1>3. Shape' /\ Unique' /\ AcquireSems' /\ BatchesFed' /\ Reading' /\
      Images' /\ PipeSems' /\ RequestsFed' /\ DestroyIdle'
  BY DEF Shape, Unique, AcquireSems, BatchesFed, Reading, Images, PipeSems,
         RequestsFed, DestroyIdle, Drawn, SignalFence, InFlight, host, engine
<1> QED
  BY <1>1, <1>2, <1>3

\* The engine stops reading an acquired image.
LEMMA SignalAcquireKeeps ==
  ASSUME NEW a \in Acquisitions, SignalAcquire(a), IndInv, TypeOK'
  PROVE  IndInv'
<1> USE NSyncAssumption DEF IndInv
<1>1. AcquireSems'
  BY DEF AcquireSems, SignalAcquire, InFlight, host, device
<1>2. BatchesFed'
  BY DEF BatchesFed, Acquisition, SignalAcquire, host, device
<1>3. Reading'
  BY DEF Reading, AcquireSems, SignalAcquire, device
<1>4. Shape' /\ Unique' /\ Fences' /\ Images' /\ PipeSems' /\ RequestsFed'
      /\ ScanFindsFence' /\ DestroyIdle'
  BY DEF Shape, Unique, Fences, Images, PipeSems, RequestsFed, ScanFindsFence,
         DestroyIdle, Drawn, SignalAcquire, InFlight, host, device
<1> QED
  BY <1>1, <1>2, <1>3, <1>4

\* The engine takes an image that is drawn.
LEMMA TakePresentKeeps ==
  ASSUME NEW p \in Requests, TakePresent(p), IndInv, TypeOK'
  PROVE  IndInv'
<1> USE NSyncAssumption DEF IndInv
<1>1. Shape'
  BY DEF Shape, TakePresent, InFlight, device
<1>2. Reading'
  BY DEF Reading, Shape, AcquireSems, PipeSems, TypeOK, TakePresent, InFlight,
         device
<1>3. Images'
  BY DEF Images, Shape, PipeSems, TypeOK, TakePresent, InFlight, host, device
<1>4. PipeSems'
  BY DEF PipeSems, Shape, TakePresent, InFlight, device
<1>5. RequestsFed'
  BY DEF RequestsFed, Shape, Images, Drawn, TypeOK, TakePresent, InFlight,
         host, device
<1>6. Unique' /\ Fences' /\ AcquireSems' /\ BatchesFed' /\ ScanFindsFence'
      /\ DestroyIdle'
  BY DEF Unique, Fences, AcquireSems, BatchesFed, ScanFindsFence, DestroyIdle,
         TakePresent, InFlight, host, device
<1> QED
  BY <1>1, <1>2, <1>3, <1>4, <1>5, <1>6

\* The engine gives an image up.
LEMMA ReleaseKeeps ==
  ASSUME NEW m \in Imgs, Release(m), IndInv, TypeOK'
  PROVE  IndInv'
<1> USE NSyncAssumption DEF IndInv
<1>1. Reading'
  BY DEF Reading, AcquireSems, Release, device
<1>2. Images'
  BY DEF Images, Release, InFlight, host, device
<1>3. PipeSems'
  BY DEF PipeSems, Release, InFlight, device
<1>4. Shape' /\ Unique' /\ Fences' /\ AcquireSems' /\ BatchesFed' /\
      RequestsFed' /\ ScanFindsFence' /\ DestroyIdle'
  BY DEF Shape, Unique, Fences, AcquireSems, BatchesFed, RequestsFed,
         ScanFindsFence, DestroyIdle, Drawn, Release, InFlight, host, device
<1> QED
  BY <1>1, <1>2, <1>3, <1>4

-----------------------------------------------------------------------------
LEMMA IndInit == Init => IndInv
<1> SUFFICES ASSUME Init PROVE IndInv
  OBVIOUS
<1>1. TypeOK
  BY TypeInit
<1>2. /\ Shape /\ Unique /\ Fences /\ AcquireSems /\ BatchesFed /\ Reading
      /\ PipeSems /\ ScanFindsFence /\ DestroyIdle
  BY DEF Init, Shape, Unique, Fences, AcquireSems, BatchesFed, Reading, PipeSems,
         ScanFindsFence, DestroyIdle, InFlight
<1>3. Images /\ RequestsFed
  BY DEF Init, Images, RequestsFed, InFlight
<1> QED
  BY <1>1, <1>2, <1>3 DEF IndInv

\* A step that changes no variable.
LEMMA StutterKeeps ==
  ASSUME UNCHANGED vars, IndInv
  PROVE  IndInv'
BY DEF vars, host, device, engine, IndInv, TypeOK, Shape, Unique, Fences, AcquireSems,
       BatchesFed, Reading, Images, PipeSems, RequestsFed, Drawn, ScanFindsFence,
       DestroyIdle, InFlight, Unsubmitted

LEMMA IndStep == IndInv /\ [Next]_vars => IndInv'
<1> SUFFICES ASSUME IndInv, [Next]_vars PROVE IndInv'
  OBVIOUS
<1>0. TypeOK'
  BY TypeStep DEF IndInv
<1>1. CASE HostSucceeds
  <2>1. ASSUME NEW m \in Imgs, Acquire(m) PROVE IndInv'
    BY <2>1, <1>0, TakeKeeps DEF Acquire
  <2>2. CASE Present
    BY <2>2, <1>0, EnqueueKeeps DEF Present
  <2> QED
    BY <1>0, <1>1, <2>1, <2>2, WaitFencesKeeps, FenceStatusKeeps, ResetFenceKeeps,
       SubmitKeeps, WaitIdleKeeps, DestroyKeeps DEF HostSucceeds
<1>2. CASE HostFails
  <2>1. ASSUME NEW m \in Imgs, AcquireSuboptimal(m) PROVE IndInv'
    BY <2>1, <1>0, TakeKeeps DEF AcquireSuboptimal, Fails
  <2>2. CASE PresentSuboptimal
    BY <2>2, <1>0, EnqueueKeeps DEF PresentSuboptimal, Fails
  <2>3. CASE \/ WaitFencesError \/ FenceStatusError \/ ResetFenceError
             \/ AcquireError \/ SubmitError \/ PresentError
    BY <2>3, <1>0, QuitKeeps
    DEF WaitFencesError, FenceStatusError, ResetFenceError, AcquireError,
        SubmitError, PresentError, Fails
  <2> QED
    BY <1>2, <2>1, <2>2, <2>3 DEF HostFails
<1>3. CASE Device
  BY <1>0, <1>3, StartKeeps, FinishKeeps, SignalSemKeeps, SignalFenceKeeps DEF Device
<1>4. CASE Engine
  BY <1>0, <1>4, SignalAcquireKeeps, TakePresentKeeps, ReleaseKeeps DEF Engine
<1>5. CASE Stopped \/ UNCHANGED vars
  BY <1>5, StutterKeeps DEF Stopped
<1> QED
  BY <1>1, <1>2, <1>3, <1>4, <1>5 DEF Next

\* The invariant of FrameSyncInv holds in every reachable state.
THEOREM Invariance == Spec => []IndInv
  BY IndInit, IndStep, PTL DEF Spec

-----------------------------------------------------------------------------
(* What the invariant says about the calls of graph_draw and graph_destroy. *)

LEMMA IndImplies ==
  ASSUME IndInv
  PROVE  /\ ResetFenceIdle /\ AcquireSemFresh /\ AcquireMayBlock /\ SubmitFresh
         /\ RenderExclusive /\ ShowsCompleteFrames /\ WaitsAreFed
         /\ ScanFindsFence /\ DestroyIdle
<1> USE DEF IndInv
<1>1. ResetFenceIdle
  BY DEF ResetFenceIdle, Fences
<1>2. AcquireSemFresh
  BY DEF AcquireSemFresh, Fences, Shape, AcquireSems, Unsubmitted, InFlight
<1>3. AcquireMayBlock
  BY DEF AcquireMayBlock, Images
<1>4. SubmitFresh
  BY DEF SubmitFresh, Fences, Shape, BatchesFed, Images, WaitSem, PipeSem
<1>5. RenderExclusive
  BY DEF RenderExclusive, Unique, Images, Reading
<1>6. ShowsCompleteFrames
  BY DEF ShowsCompleteFrames, Shape, PipeSems
<1>7. WaitsAreFed
  <2>1. \A b \in queued : b.wait \in ready \/ \E a \in acquiring : a.sem = b.wait
    BY DEF BatchesFed, Acquisition
  <2>2. \A p \in presents : p.img \in Imgs /\ image[p.img] = "presented" /\ p.sem = p.img
    BY DEF TypeOK, Images, Shape
  <2>3. \A p \in presents : Drawn(p.sem)
    BY <2>2 DEF RequestsFed
  <2> QED
    BY <2>1, <2>3 DEF WaitsAreFed, Drawn
<1> QED
  BY <1>1, <1>2, <1>3, <1>4, <1>5, <1>6, <1>7

\* The scan of sync_request terminates: a signaled fence is always ahead of it.
THEOREM ScanTerminates == Spec => []ScanFindsFence
  BY Invariance, IndImplies, PTL

\* sync_request resets a fence only while no batch is to signal it.
THEOREM FencesResetIdle == Spec => []ResetFenceIdle
  BY Invariance, IndImplies, PTL

\* The semaphore that vkAcquireNextImageKHR is given is neither signaled nor in
\* use: the batch that waited for it last is done.
THEOREM AcquiresFresh == Spec => []AcquireSemFresh
  BY Invariance, IndImplies, PTL

\* A batch signals a fence and a semaphore that nothing else is signaling.
THEOREM SubmitsFresh == Spec => []SubmitFresh
  BY Invariance, IndImplies, PTL

\* The host never waits for an image while it keeps one back.
THEOREM AcquiresMayBlock == Spec => []AcquireMayBlock
  BY Invariance, IndImplies, PTL

\* No wait of the device or the engine is for a semaphore nobody will signal.
THEOREM NoWaitInVain == Spec => []WaitsAreFed
  BY Invariance, IndImplies, PTL

\* An image is drawn to by one batch at a time, and not while the engine reads it.
THEOREM ImagesExclusive == Spec => []RenderExclusive
  BY Invariance, IndImplies, PTL

\* What the engine shows is a frame that has been drawn to the end.
THEOREM FramesComplete == Spec => []ShowsCompleteFrames
  BY Invariance, IndImplies, PTL

\* sync_destroy finds the device idle.
THEOREM DestroySafe == Spec => []DestroyIdle
  BY Invariance, IndImplies, PTL

=============================================================================
