------------------------------ MODULE FrameSync ------------------------------
(***************************************************************************)
(* The frame loop of GTE: main() calls graph_draw() until it fails, then   *)
(* graph_destroy().  Three actors run concurrently:                        *)
(*                                                                         *)
(*   - the host thread (src/main.c, src/graph/draw.c, src/graph/sync.c),   *)
(*   - the graphics queue of the device, which executes submitted batches, *)
(*   - the presentation engine, which owns the swapchain's images.         *)
(*                                                                         *)
(* They synchronise through the fences obj_f, the acquire semaphores obj_s *)
(* (both indexed by "obj") and the semaphores grps[.][PIPE_SEM] (indexed   *)
(* by image) of struct Sync.  The device and the engine are Vulkan's, and  *)
(* are modelled by what the calls of src/ may rely on and nothing more:    *)
(* batches may start, run and signal in any order.                         *)
(***************************************************************************)
EXTENDS Integers, FiniteSets

CONSTANTS
    NSync,      \* sync->nsync: as many sync objects as swapchain images
    MinImages,  \* caps.minImageCount: the engine keeps fewer than this many
    MayFail     \* the Vulkan calls that may return something but VK_SUCCESS

Calls == {"vkWaitForFences", "vkGetFenceStatus", "vkResetFences",
          "vkAcquireNextImageKHR", "vkQueueSubmit2", "vkQueuePresentKHR"}

ASSUME NSyncAssumption     == NSync \in Nat \ {0}
ASSUME MinImagesAssumption == MinImages \in 1 .. NSync
ASSUME MayFailAssumption   == MayFail \subseteq Calls

Objs == 0 .. NSync - 1      \* indexes obj_f and obj_s
Imgs == 0 .. NSync - 1      \* indexes grps, bufs and the swapchain's images

VARIABLES
    pc,         \* the call the host thread makes next
    obj,        \* sync_request's i, later graph_draw's sync_obj
    img,        \* graph_draw's img
    signaled,   \* the fences obj_f that are signaled
    acquiring,  \* acquisitions whose semaphore obj_s is still to be signaled
    ready,      \* the semaphores obj_s that are signaled
    queued,     \* batches submitted and not started
    running,    \* batches rendering
    semOps,     \* semaphores grps[.] a rendered batch is about to signal
    fenceOps,   \* fences a rendered batch is about to signal
    rendered,   \* the semaphores grps[.][PIPE_SEM] that are signaled
    presents,   \* presentation requests waiting for their semaphore
    image,      \* who has each image, as the swapchain sees it
    reading     \* images whose content the engine may still be reading

host   == <<pc, obj, img>>
device == <<queued, running, semOps, fenceOps>>
engine == <<presents, image, reading>>
vars   == <<host, signaled, acquiring, ready, device, rendered, engine>>

-----------------------------------------------------------------------------
(* What the host hands to the device and to the engine.                    *)

\* Mutant of WaitSem: the neighbour's semaphore.
WaitSemNext(o) == (o + 1) % NSync

\* wait_sem_img.semaphore: the acquire semaphore a batch waits for.
WaitSem(o) == o

\* Mutant of PipeSem: indexed, as obj_f and obj_s are, by the sync object.
PipeSemByObj(o, m) == o

\* sig_sem_pipe.semaphore: the semaphore that says "image m is rendered".
PipeSem(o, m) == m

\* Mutants of Batch: the wait semaphore, or the fence, indexed by the image.
BatchWaitByImg(o, m) ==
    [wait |-> m, cmd |-> m, sem |-> PipeSem(o, m), fence |-> o]
BatchFenceByImg(o, m) ==
    [wait |-> WaitSem(o), cmd |-> m, sem |-> PipeSem(o, m), fence |-> m]

\* One vkQueueSubmit2 of bufs[m]; its fence is obj_f[o].
Batch(o, m) == [wait |-> WaitSem(o), cmd |-> m, sem |-> PipeSem(o, m), fence |-> o]

\* Mutant of Request: the present waits for grps[sync_obj].
RequestByObj(o, m) == [sem |-> o, img |-> m]

\* One vkQueuePresentKHR of image m.
Request(o, m) == [sem |-> PipeSem(o, m), img |-> m]

\* One vkAcquireNextImageKHR that returned image m.
Acquisition(o, m) == [sem |-> o, img |-> m]

InFlight == queued \cup running

-----------------------------------------------------------------------------
(* sync_init creates every fence VK_FENCE_CREATE_SIGNALED_BIT and every    *)
(* semaphore unsignaled; the engine has every image.                       *)

\* Mutants of InitialFences: created unsignaled; numbered from 1.
FencesUnsignaled == {}
FencesFromOne    == 1 .. NSync

InitialFences == Objs

Init ==
    /\ pc = "wait"
    /\ obj = 0
    /\ img = 0
    /\ signaled = InitialFences
    /\ acquiring = {} /\ ready = {}
    /\ queued = {} /\ running = {} /\ semOps = {} /\ fenceOps = {}
    /\ rendered = {}
    /\ presents = {}
    /\ image = [m \in Imgs |-> "free"]
    /\ reading = {}

-----------------------------------------------------------------------------
(* The host thread.  Any result but VK_SUCCESS makes graph_draw return 1,  *)
(* and main() goes on to graph_destroy().                                  *)

Fails(call) == call \in MayFail /\ pc' = "idle"

\* Mutant of WaitFences: VK_TIMEOUT taken for success.
WaitFencesTimeout ==
    /\ pc = "wait"
    /\ pc' = "scan"
    /\ obj' = 0
    /\ UNCHANGED <<img, signaled, acquiring, ready, device, rendered, engine>>

\* sync_request: block until some fence is signaled, start the scan at 0.
\* The retry on VK_TIMEOUT changes nothing and is a stuttering step.
WaitFences ==
    /\ pc = "wait"
    /\ signaled # {}
    /\ pc' = "scan"
    /\ obj' = 0
    /\ UNCHANGED <<img, signaled, acquiring, ready, device, rendered, engine>>

WaitFencesError ==
    /\ pc = "wait"
    /\ Fails("vkWaitForFences")
    /\ UNCHANGED <<obj, img, signaled, acquiring, ready, device, rendered, engine>>

\* Mutant of FenceStatus: VK_NOT_READY leaves the loop as VK_SUCCESS does.
FenceStatusBreak ==
    /\ pc = "scan"
    /\ pc' = "reset"
    /\ UNCHANGED <<obj, img, signaled, acquiring, ready, device, rendered, engine>>

\* sync_request's loop: leave it at a signaled fence, else (i + 1) % nsync.
FenceStatus ==
    /\ pc = "scan"
    /\ IF obj \in signaled
         THEN pc' = "reset" /\ obj' = obj
         ELSE pc' = "scan" /\ obj' = IF obj + 1 = NSync THEN 0 ELSE obj + 1
    /\ UNCHANGED <<img, signaled, acquiring, ready, device, rendered, engine>>

FenceStatusError ==
    /\ pc = "scan"
    /\ Fails("vkGetFenceStatus")
    /\ UNCHANGED <<obj, img, signaled, acquiring, ready, device, rendered, engine>>

\* Mutant of ResetFence: every fence is reset.
ResetFenceAll ==
    /\ pc = "reset"
    /\ signaled' = {}
    /\ pc' = "acquire"
    /\ UNCHANGED <<obj, img, acquiring, ready, device, rendered, engine>>

ResetFence ==
    /\ pc = "reset"
    /\ signaled' = signaled \ {obj}
    /\ pc' = "acquire"
    /\ UNCHANGED <<obj, img, acquiring, ready, device, rendered, engine>>

ResetFenceError ==
    /\ pc = "reset"
    /\ Fails("vkResetFences")
    /\ UNCHANGED <<obj, img, signaled, acquiring, ready, device, rendered, engine>>

\* The effect of a successful acquisition: the host has image m at once, the
\* semaphore obj_s[obj] is signaled when the engine stops reading it.
TakeImage(m) ==
    /\ pc = "acquire"
    /\ image[m] = "free"
    /\ image' = [image EXCEPT ![m] = "acquired"]
    /\ img' = m
    /\ acquiring' = acquiring \cup {Acquisition(obj, m)}
    /\ UNCHANGED <<obj, signaled, ready, device, rendered, presents, reading>>

Acquire(m) == TakeImage(m) /\ pc' = "submit"

\* VK_SUBOPTIMAL_KHR: the image is acquired and graph_draw fails all the same.
AcquireSuboptimal(m) == TakeImage(m) /\ Fails("vkAcquireNextImageKHR")

AcquireError ==
    /\ pc = "acquire"
    /\ Fails("vkAcquireNextImageKHR")
    /\ UNCHANGED <<obj, img, signaled, acquiring, ready, device, rendered, engine>>

Submit ==
    /\ pc = "submit"
    /\ queued' = queued \cup {Batch(obj, img)}
    /\ pc' = "present"
    /\ UNCHANGED <<obj, img, signaled, acquiring, ready, running, semOps,
                   fenceOps, rendered, engine>>

\* Mutant of SubmitError: the frame is skipped and the loop goes on.
SubmitErrorSkips ==
    /\ pc = "submit"
    /\ "vkQueueSubmit2" \in MayFail
    /\ pc' = "wait"
    /\ UNCHANGED <<obj, img, signaled, acquiring, ready, device, rendered, engine>>

SubmitError ==
    /\ pc = "submit"
    /\ Fails("vkQueueSubmit2")
    /\ UNCHANGED <<obj, img, signaled, acquiring, ready, device, rendered, engine>>

\* The effect of a presentation request the swapchain accepts.
EnqueuePresent ==
    /\ pc = "present"
    /\ presents' = presents \cup {Request(obj, img)}
    /\ image' = [image EXCEPT ![img] = "presented"]
    /\ UNCHANGED <<obj, img, signaled, acquiring, ready, device, rendered, reading>>

Present == EnqueuePresent /\ pc' = "wait"

\* VK_SUBOPTIMAL_KHR and VK_ERROR_OUT_OF_DATE_KHR: the request's semaphore is
\* waited for, and graph_draw fails.
PresentSuboptimal == EnqueuePresent /\ Fails("vkQueuePresentKHR")

PresentError ==
    /\ pc = "present"
    /\ Fails("vkQueuePresentKHR")
    /\ UNCHANGED <<obj, img, signaled, acquiring, ready, device, rendered, engine>>

\* Mutants of WaitIdle: nothing is waited for; every fence is.
WaitIdleSkipped ==
    /\ pc = "idle"
    /\ pc' = "destroy"
    /\ UNCHANGED <<obj, img, signaled, acquiring, ready, device, rendered, engine>>
WaitIdleByFences ==
    /\ pc = "idle"
    /\ signaled = Objs
    /\ pc' = "destroy"
    /\ UNCHANGED <<obj, img, signaled, acquiring, ready, device, rendered, engine>>

\* graph_destroy: vkDeviceWaitIdle waits for every submission to complete,
\* and for nothing the presentation engine does.
WaitIdle ==
    /\ pc = "idle"
    /\ InFlight = {} /\ semOps = {} /\ fenceOps = {}
    /\ pc' = "destroy"
    /\ UNCHANGED <<obj, img, signaled, acquiring, ready, device, rendered, engine>>

\* sync_destroy and the destructors that follow it.
Destroy ==
    /\ pc = "destroy"
    /\ pc' = "gone"
    /\ UNCHANGED <<obj, img, signaled, acquiring, ready, device, rendered, engine>>

HostSucceeds ==
    \/ WaitFences \/ FenceStatus \/ ResetFence
    \/ \E m \in Imgs : Acquire(m)
    \/ Submit \/ Present
    \/ WaitIdle \/ Destroy

HostFails ==
    \/ WaitFencesError \/ FenceStatusError \/ ResetFenceError
    \/ \E m \in Imgs : AcquireSuboptimal(m)
    \/ AcquireError \/ SubmitError
    \/ PresentSuboptimal \/ PresentError

-----------------------------------------------------------------------------
(* The graphics queue.                                                     *)

Start(b) ==
    /\ b \in queued
    /\ b.wait \in ready
    /\ ready' = ready \ {b.wait}
    /\ queued' = queued \ {b}
    /\ running' = running \cup {b}
    /\ UNCHANGED <<host, signaled, acquiring, semOps, fenceOps, rendered, engine>>

Finish(b) ==
    /\ b \in running
    /\ running' = running \ {b}
    /\ semOps' = semOps \cup {b.sem}
    /\ fenceOps' = fenceOps \cup {b.fence}
    /\ UNCHANGED <<host, signaled, acquiring, ready, queued, rendered, engine>>

SignalSem(s) ==
    /\ s \in semOps
    /\ semOps' = semOps \ {s}
    /\ rendered' = rendered \cup {s}
    /\ UNCHANGED <<host, signaled, acquiring, ready, queued, running, fenceOps, engine>>

SignalFence(f) ==
    /\ f \in fenceOps
    /\ fenceOps' = fenceOps \ {f}
    /\ signaled' = signaled \cup {f}
    /\ UNCHANGED <<host, acquiring, ready, queued, running, semOps, rendered, engine>>

-----------------------------------------------------------------------------
(* The presentation engine; it stops when the swapchain is destroyed.      *)

SignalAcquire(a) ==
    /\ pc # "gone"
    /\ a \in acquiring
    /\ acquiring' = acquiring \ {a}
    /\ ready' = ready \cup {a.sem}
    /\ reading' = reading \ {a.img}
    /\ UNCHANGED <<host, signaled, device, rendered, presents, image>>

TakePresent(p) ==
    /\ pc # "gone"
    /\ p \in presents
    /\ p.sem \in rendered
    /\ rendered' = rendered \ {p.sem}
    /\ presents' = presents \ {p}
    /\ image' = [image EXCEPT ![p.img] = "held"]
    /\ reading' = reading \cup {p.img}
    /\ UNCHANGED <<host, signaled, acquiring, ready, device>>

\* An image that is no longer wanted (replaced in the mailbox, or no longer on
\* screen) may be acquired again, even while the engine still reads it.
Release(m) ==
    /\ pc # "gone"
    /\ image[m] = "held"
    /\ image' = [image EXCEPT ![m] = "free"]
    /\ UNCHANGED <<host, signaled, acquiring, ready, device, rendered, presents, reading>>

\* The engine may keep fewer than MinImages images for as long as it likes.
Surplus == Cardinality({m \in Imgs : image[m] = "held"}) >= MinImages

-----------------------------------------------------------------------------

Stopped == pc = "gone" /\ UNCHANGED vars

Batches      == {Batch(o, m) : o \in Objs, m \in Imgs}
Requests     == {Request(o, m) : o \in Objs, m \in Imgs}
Acquisitions == {Acquisition(o, m) : o \in Objs, m \in Imgs}

Device ==
    \/ \E b \in Batches : Start(b) \/ Finish(b)
    \/ \E s \in Imgs : SignalSem(s)
    \/ \E f \in Objs : SignalFence(f)

Engine ==
    \/ \E a \in Acquisitions : SignalAcquire(a)
    \/ \E p \in Requests : TakePresent(p)
    \/ \E m \in Imgs : Release(m)

Next == HostSucceeds \/ HostFails \/ Device \/ Engine \/ Stopped

Spec == Init /\ [][Next]_vars

\* The thread keeps running, the device completes what it may start, and the
\* engine honours minImageCount.  No failure is ever forced.
Fairness ==
    /\ WF_vars(HostSucceeds)
    /\ \A b \in Batches : WF_vars(Start(b)) /\ WF_vars(Finish(b))
    /\ \A s \in Imgs : WF_vars(SignalSem(s))
    /\ \A f \in Objs : WF_vars(SignalFence(f))
    /\ \A a \in Acquisitions : WF_vars(SignalAcquire(a))
    /\ \A p \in Requests : WF_vars(TakePresent(p))
    /\ WF_vars(Surplus /\ \E m \in Imgs : Release(m))

FairSpec == Spec /\ Fairness

-----------------------------------------------------------------------------

Ending == {"idle", "destroy", "gone"}

\* Every variable keeps its type.
TypeOK ==
    /\ pc \in {"wait", "scan", "reset", "acquire", "submit", "present"} \cup Ending
    /\ obj \in Objs
    /\ img \in Imgs
    /\ signaled \subseteq Objs
    /\ acquiring \subseteq [sem : Objs, img : Imgs]
    /\ ready \subseteq Objs
    /\ queued \subseteq [wait : Objs, cmd : Imgs, sem : Imgs, fence : Objs]
    /\ running \subseteq [wait : Objs, cmd : Imgs, sem : Imgs, fence : Objs]
    /\ semOps \subseteq Imgs
    /\ fenceOps \subseteq Objs
    /\ rendered \subseteq Imgs
    /\ presents \subseteq [sem : Imgs, img : Imgs]
    /\ image \in [Imgs -> {"free", "acquired", "presented", "held"}]
    /\ reading \subseteq Imgs

\* sync_request's loop has no exit but a signaled fence, and main() blocks in
\* nothing while it spins: once vkWaitForFences has returned, some fence at or
\* after the scan's position is signaled, so the scan never wraps around.
ScanFindsFence == pc = "scan" => \E f \in signaled : obj <= f

\* vkResetFences is only called on a fence no submission will still signal.
ResetFenceIdle ==
    pc = "reset" =>
        /\ obj \in signaled
        /\ obj \notin fenceOps
        /\ \A b \in InFlight : b.fence # obj

\* vkAcquireNextImageKHR gets a semaphore that is unsignaled and that nobody
\* will signal or wait for: the fence obj_f[obj] vouches for obj_s[obj].
AcquireSemFresh ==
    pc = "acquire" =>
        /\ obj \notin ready
        /\ \A a \in acquiring : a.sem # obj
        /\ \A b \in queued : b.wait # obj

\* vkAcquireNextImageKHR waits without a timeout (UINT64_MAX): the host may
\* only do so while it keeps no image back.
AcquireMayBlock == pc = "acquire" => \A m \in Imgs : image[m] # "acquired"

\* vkQueueSubmit2 gets a fence that is unsignaled and unused, a wait semaphore
\* that has been or will be signaled by the acquisition of this very image, and
\* a signal semaphore that is unsignaled and has no operation pending: neither
\* an earlier batch to signal it nor an earlier present to wait for it.
SubmitFresh ==
    pc = "submit" =>
        /\ obj \notin signaled \cup fenceOps
        /\ \A b \in InFlight : b.fence # obj /\ b.sem # PipeSem(obj, img)
        /\ WaitSem(obj) \in ready \/ Acquisition(WaitSem(obj), img) \in acquiring
        /\ PipeSem(obj, img) \notin semOps \cup rendered
        /\ \A p \in presents : p.sem # PipeSem(obj, img)

\* A framebuffer and its command buffer are used by one batch at a time
\* (SIMULTANEOUS_USE is never exercised), only while the image is out of the
\* engine's hands, and never rendered to while the engine still reads it.
RenderExclusive ==
    /\ \A b, c \in InFlight : b.cmd = c.cmd => b = c
    /\ \A b \in InFlight : image[b.cmd] \in {"acquired", "presented"}
    /\ \A b \in running : b.cmd \notin reading

\* The engine only ever takes an image whose rendering is complete.
ShowsCompleteFrames ==
    \A p \in presents : p.sem \in rendered =>
        \A b \in InFlight : b.cmd # p.img

\* No binary semaphore is waited for that nobody is going to signal: every
\* queued batch will find its image acquired, every request its frame rendered.
WaitsAreFed ==
    /\ \A b \in queued : b.wait \in ready \/ \E a \in acquiring : a.sem = b.wait
    /\ \A p \in presents : \/ p.sem \in semOps \cup rendered
                           \/ \E b \in InFlight : b.sem = p.sem

\* sync_destroy runs only when no submission can still touch what it destroys.
DestroyIdle ==
    pc \in {"destroy", "gone"} => InFlight = {} /\ semOps = {} /\ fenceOps = {}

-----------------------------------------------------------------------------

\* The frame loop never blocks for ever: when no call fails, frame after frame
\* is submitted and presented.
FramesKeepComing == []<>(pc = "present")

\* A fence that sync_request reset is signaled again, or the program quits:
\* no path of graph_draw leaks a sync object and lives on.
FenceReturns == \A o \in Objs : o \notin signaled ~> (o \in signaled \/ pc = "gone")

\* Every presented image reaches the engine, or the program quits.
PresentsArrive ==
    \A m \in Imgs : image[m] = "presented" ~> (image[m] = "held" \/ pc = "gone")

\* After a failed draw vkDeviceWaitIdle returns and everything is destroyed.
ShutsDown == pc = "idle" ~> pc = "gone"

=============================================================================
