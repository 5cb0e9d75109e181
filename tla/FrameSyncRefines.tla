-------------------------- MODULE FrameSyncRefines ---------------------------
(***************************************************************************)
(* The frame loop implements SwapImages, for every number of images: each  *)
(* step of the host, the device or the engine passes one image on, to the  *)
(* owner whose turn it is, or leaves every owner as it was.                *)
(***************************************************************************)
EXTENDS FrameSyncProofs

\* SwapImages' variable, as FrameSyncInv maps it.
Owners == [m \in Imgs |-> Owner(m)]

LEMMA RefInit == Init => Swap!Init
  BY DEF Init, Swap!Init, Owner

\* Image n, and no other, changes hands.
LEMMA Passed ==
  ASSUME NEW n \in Imgs, NEW from, NEW to,
         Owner(n) = from, Owner(n)' = to,
         \A m \in Imgs \ {n} : Owner(m)' = Owner(m)
  PROVE  Swap!Pass(n, from, to)
  BY DEF Swap!Pass

\* Steps that pass no image on.
LEMMA SameOwners ==
  ASSUME \A m \in Imgs : Owner(m)' = Owner(m)
  PROVE  UNCHANGED Owners
  BY DEF Owners

\* At vkAcquireNextImageKHR no image is with the host.
LEMMA NoneAtHost ==
  ASSUME IndInv, pc = "acquire"
  PROVE  \A m \in Imgs : Owner(m) # "host"
<1> TAKE m \in Imgs
<1> USE DEF IndInv
<1>1. image[m] \in {"free", "held", "presented"}
  BY DEF TypeOK, Images, Ending
<1>2. image[m] = "presented" => Drawn(m)
  BY DEF RequestsFed
<1>3. \A b \in InFlight : b.sem = m => b.cmd = m
  BY DEF Shape
<1> QED
  BY <1>1, <1>2, <1>3 DEF Owner, Drawn

LEMMA TakeRefines ==
  ASSUME NEW m \in Imgs, TakeImage(m), IndInv, IndInv'
  PROVE  Swap!Take(m)
<1> USE DEF IndInv
<1>1. \A n \in Imgs : Owner(n) # "host"
  BY NoneAtHost DEF TakeImage
<1>2. Owner(m) = "engine"
  BY DEF TakeImage, Owner
<1>3. Owner(m)' = "host"
  <2>1. image'[m] = "acquired"
    BY DEF TakeImage, TypeOK
  <2>2. /\ \A b \in InFlight : b.cmd # m
        /\ m \notin semOps \cup rendered
    BY DEF TakeImage, Images, PipeSems
  <2> QED
    BY <2>1, <2>2 DEF TakeImage, Owner, InFlight, device
<1>4. \A n \in Imgs \ {m} : Owner(n)' = Owner(n)
  BY DEF TakeImage, TypeOK, Owner, InFlight, device
<1>5. Swap!Pass(m, "engine", "host")
  BY <1>2, <1>3, <1>4, Passed
<1> QED
  BY <1>1, <1>5 DEF Swap!Take

LEMMA SubmitRefines ==
  ASSUME NEW m \in Imgs, m = img, Submit, IndInv
  PROVE  Swap!Hand(m)
<1> USE DEF IndInv
<1>1. image[m] = "acquired" /\ image' = image
  BY DEF Submit, TypeOK, Images, engine
<1>2. InFlight' = InFlight \cup {Batch(obj, img)} /\ Batch(obj, img).cmd = m
  BY DEF Submit, InFlight, Batch
<1>3. Owner(m) = "host"
  BY <1>1 DEF Submit, Images, Owner
<1>4. Owner(m)' = "gpu"
  BY <1>1, <1>2 DEF Submit, Owner
<1>5. \A n \in Imgs \ {m} : Owner(n)' = Owner(n)
  BY <1>1, <1>2 DEF Submit, Owner
<1> QED
  BY <1>1, <1>3, <1>4, <1>5, Passed DEF Swap!Hand

LEMMA FinishRefines ==
  ASSUME NEW b \in Batches, Finish(b), IndInv
  PROVE  Swap!Finish(b.cmd)
<1> USE DEF IndInv
<1>1. /\ b \in InFlight /\ b.cmd \in Imgs /\ b.sem = b.cmd
      /\ image[b.cmd] \in {"acquired", "presented"} /\ image' = image
  BY DEF Finish, InFlight, TypeOK, Shape, Images, engine
<1>2. InFlight' = InFlight \ {b}
  BY DEF Finish, InFlight, Unique
<1>3. semOps' = semOps \cup {b.sem} /\ rendered' = rendered
  BY DEF Finish
<1>4. \A c \in InFlight : c.cmd = b.cmd => c = b
  BY <1>1 DEF Unique
<1>5. Owner(b.cmd) = "gpu"
  BY <1>1 DEF Owner
<1>6. Owner(b.cmd)' = "done"
  BY <1>1, <1>2, <1>3, <1>4 DEF Owner
<1>7. \A n \in Imgs \ {b.cmd} : Owner(n)' = Owner(n)
  BY <1>1, <1>2, <1>3 DEF Owner
<1> QED
  BY <1>1, <1>5, <1>6, <1>7, Passed DEF Swap!Finish

LEMMA TakePresentRefines ==
  ASSUME NEW p \in Requests, TakePresent(p), IndInv
  PROVE  Swap!Show(p.img)
<1> USE DEF IndInv
<1>1. p.img \in Imgs /\ p.sem = p.img /\ image[p.img] = "presented"
  BY DEF TakePresent, TypeOK, Shape, Images
<1>2. \A b \in InFlight : b.cmd # p.img
  BY <1>1 DEF TakePresent, Shape, PipeSems
<1>3. image' = [image EXCEPT ![p.img] = "held"] /\ rendered' = rendered \ {p.sem}
      /\ InFlight' = InFlight /\ semOps' = semOps
  BY DEF TakePresent, InFlight, device
<1>4. Owner(p.img) = "done"
  BY <1>1, <1>2 DEF TakePresent, Owner
<1>5. Owner(p.img)' = "engine"
  BY <1>1, <1>3 DEF Owner, TypeOK
<1>6. \A n \in Imgs \ {p.img} : Owner(n)' = Owner(n)
  BY <1>1, <1>3 DEF Owner, TypeOK
<1> QED
  BY <1>1, <1>4, <1>5, <1>6, Passed DEF Swap!Show

\* Presenting an image leaves it with its batch.
LEMMA EnqueueStutters ==
  ASSUME EnqueuePresent, IndInv
  PROVE  UNCHANGED Owners
<1> USE DEF IndInv
<1>1. \A m \in Imgs : Owner(m)' = Owner(m)
  BY DEF EnqueuePresent, TypeOK, Images, Owner, InFlight, device
<1> QED
  BY <1>1, SameOwners

\* So do the steps that leave image, InFlight and semOps \cup rendered alone.
LEMMA QuietStutters ==
  ASSUME image' = image, InFlight' = InFlight,
         semOps' \cup rendered' = semOps \cup rendered
  PROVE  UNCHANGED Owners
<1>1. \A m \in Imgs : Owner(m)' = Owner(m)
  BY DEF Owner
<1> QED
  BY <1>1, SameOwners

LEMMA StartStutters ==
  ASSUME NEW b \in Batches, Start(b)
  PROVE  UNCHANGED Owners
<1>1. InFlight' = InFlight
  BY DEF Start, InFlight
<1> QED
  BY <1>1, QuietStutters DEF Start, engine

LEMMA ReleaseStutters ==
  ASSUME NEW n \in Imgs, Release(n), IndInv
  PROVE  UNCHANGED Owners
<1>1. \A m \in Imgs : Owner(m)' = Owner(m)
  BY DEF Release, IndInv, TypeOK, Owner, InFlight, device
<1> QED
  BY <1>1, SameOwners

LEMMA RefStep ==
  IndInv /\ IndInv' /\ [Next]_vars => [Swap!Next]_Owners
<1> SUFFICES ASSUME IndInv, IndInv', [Next]_vars PROVE Swap!Next \/ UNCHANGED Owners
  OBVIOUS
<1>1. ASSUME NEW m \in Imgs, Acquire(m) \/ AcquireSuboptimal(m) PROVE Swap!Next
  BY <1>1, TakeRefines DEF Acquire, AcquireSuboptimal, Swap!Next
<1>2. CASE Submit
  <2>1. img \in Imgs
    BY DEF IndInv, TypeOK
  <2> QED
    BY <1>2, <2>1, SubmitRefines DEF Swap!Next
<1>3. CASE Present \/ PresentSuboptimal
  BY <1>3, EnqueueStutters DEF Present, PresentSuboptimal
<1>4. CASE \/ WaitFences \/ FenceStatus \/ ResetFence \/ WaitIdle \/ Destroy
           \/ WaitFencesError \/ FenceStatusError \/ ResetFenceError
           \/ AcquireError \/ SubmitError \/ PresentError
           \/ Stopped \/ UNCHANGED vars
  <2>1. UNCHANGED <<device, rendered, engine>>
    BY <1>4 DEF WaitFences, FenceStatus, ResetFence, WaitIdle, Destroy,
                WaitFencesError, FenceStatusError, ResetFenceError,
                AcquireError, SubmitError, PresentError, Stopped, vars
  <2> QED
    BY <2>1, QuietStutters DEF device, engine, InFlight
<1>5. ASSUME NEW b \in Batches, Start(b) PROVE UNCHANGED Owners
  BY <1>5, StartStutters
<1>6. ASSUME NEW b \in Batches, Finish(b) PROVE Swap!Next
  BY <1>6, FinishRefines DEF Finish, IndInv, TypeOK, Swap!Next
<1>7. ASSUME NEW s \in Imgs, SignalSem(s) PROVE UNCHANGED Owners
  BY <1>7, QuietStutters DEF SignalSem, InFlight, engine
<1>8. ASSUME NEW f \in Objs, SignalFence(f) PROVE UNCHANGED Owners
  BY <1>8, QuietStutters DEF SignalFence, InFlight, engine
<1>9. ASSUME NEW a \in Acquisitions, SignalAcquire(a) PROVE UNCHANGED Owners
  BY <1>9, QuietStutters DEF SignalAcquire, InFlight, device
<1>10. ASSUME NEW p \in Requests, TakePresent(p) PROVE Swap!Next
  BY <1>10, TakePresentRefines DEF TakePresent, IndInv, TypeOK, Swap!Next
<1>11. ASSUME NEW m \in Imgs, Release(m) PROVE UNCHANGED Owners
  BY <1>11, ReleaseStutters
<1> QED
  BY <1>1, <1>2, <1>3, <1>4, <1>5, <1>6, <1>7, <1>8, <1>9, <1>10, <1>11
  DEF Next, HostSucceeds, HostFails, Device, Engine

\* Every behaviour of the frame loop is one of SwapImages.
THEOREM Refinement == Spec => ImplementsSwapImages
<1>1. Spec => Swap!Init /\ [][Swap!Next]_Owners
  BY RefInit, RefStep, Invariance, PTL DEF Spec
<1> QED
  BY <1>1, PTL DEF ImplementsSwapImages, Swap!Spec, Owners
=============================================================================
