---------------------------- MODULE FrameSyncInv -----------------------------
(***************************************************************************)
(* Why the frame loop is right: the inductive invariant behind the safety  *)
(* properties of FrameSync, one named part per kind of object, and the     *)
(* mapping to SwapImages.                                                  *)
(***************************************************************************)
EXTENDS FrameSync

\* An acquisition, or its semaphore, that the host has not passed on: it is
\* about to submit, or a failure between vkAcquireNextImageKHR and the batch
\* left it behind.
Unsubmitted == {"submit"} \cup Ending

\* Batches and requests are what graph_draw makes them: the fence of a batch is
\* that of its acquire semaphore, its image that of its signal semaphore.
Shape ==
    /\ \A b \in InFlight : b.wait = b.fence /\ b.sem = b.cmd
    /\ \A p \in presents : p.sem = p.img

\* No two batches in flight share a sync object or an image.
Unique ==
    /\ \A b, c \in InFlight : b.fence = c.fence \/ b.cmd = c.cmd => b = c
    /\ queued \cap running = {}

\* A fence is signaled, about to be, in the hands of a batch, or of the host.
Fences ==
    /\ \A b \in InFlight : b.fence \notin signaled \cup fenceOps
    /\ fenceOps \cap signaled = {}
    /\ pc = "reset" => obj \in signaled
    /\ pc \in {"acquire", "submit"} =>
        /\ obj \notin signaled \cup fenceOps
        /\ \A b \in InFlight : b.fence # obj

\* An acquire semaphore with an operation, or signaled, has one batch that
\* waits for it, queued or about to be.
AcquireSems ==
    /\ \A a \in acquiring : a.sem \notin ready
    /\ \A a, c \in acquiring : a.sem = c.sem \/ a.img = c.img => a = c
    /\ \A a \in acquiring :
        \/ \E b \in queued : b.wait = a.sem /\ b.cmd = a.img
        \/ /\ pc \in Unsubmitted /\ obj = a.sem /\ img = a.img
           /\ \A b \in InFlight : b.cmd # img
    /\ \A o \in ready :
        \/ \E b \in queued : b.wait = o
        \/ pc \in Unsubmitted /\ obj = o

\* And the batch finds its acquisition.
BatchesFed ==
    /\ \A b \in queued : b.wait \in ready \/ Acquisition(b.wait, b.cmd) \in acquiring
    /\ pc = "submit" => obj \in ready \/ Acquisition(obj, img) \in acquiring

\* The engine reads an image it has, or whose acquire semaphore is pending.
Reading ==
    /\ \A m \in reading : \/ image[m] \in {"held", "free"}
                          \/ \E a \in acquiring : a.img = m
    /\ \A b \in running : b.cmd \notin reading

\* Only out of the engine's hands is an image drawn to; the host has one.
Images ==
    /\ \A b \in InFlight : image[b.cmd] \in {"acquired", "presented"}
    /\ \A m \in Imgs : image[m] = "acquired" =>
        pc \in {"submit", "present"} \cup Ending /\ img = m
    /\ pc \in {"submit", "present"} => image[img] = "acquired"
    /\ pc = "submit" => /\ \A b \in InFlight : b.cmd # img
                        /\ img \notin semOps \cup rendered
    /\ \A p \in presents : image[p.img] = "presented"

\* A render-done semaphore is signaled, or about to be, after its batch and
\* before its image goes back to the engine.
PipeSems ==
    /\ \A m \in semOps \cup rendered :
        /\ \A b \in InFlight : b.sem # m
        /\ image[m] \in {"acquired", "presented"}
    /\ semOps \cap rendered = {}

\* Semaphore m was or will be signaled by a batch.
Drawn(m) == m \in semOps \cup rendered \/ \E b \in InFlight : b.sem = m

\* What is, or is about to be, presented is drawn.
RequestsFed ==
    /\ \A m \in Imgs : image[m] = "presented" => Drawn(m)
    /\ pc = "present" => Drawn(img)

\* The inductive invariant: all of the above, and the two properties of
\* FrameSync that are inductive as they stand.
IndInv ==
    /\ TypeOK
    /\ Shape /\ Unique /\ Fences
    /\ AcquireSems /\ BatchesFed /\ Reading
    /\ Images /\ PipeSems /\ RequestsFed
    /\ ScanFindsFence /\ DestroyIdle

-----------------------------------------------------------------------------

\* Who may touch image m, read off the state of the frame loop.
Owner(m) ==
    IF image[m] \in {"free", "held"} THEN "engine"
    ELSE IF \E b \in InFlight : b.cmd = m THEN "gpu"
    ELSE IF m \in semOps \cup rendered THEN "done"
    ELSE "host"

Swap == INSTANCE SwapImages WITH owner <- [m \in Imgs |-> Owner(m)]

\* The frame loop implements the image life cycle: no step of the host, the
\* device or the engine takes an image from another's hands.
ImplementsSwapImages == Swap!Spec

\* When no call fails, every image the host took is also handed over, drawn
\* and shown.
ImplementsFairSwapImages == Swap!FairSpec

=============================================================================
