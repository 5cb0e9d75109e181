----------------------------- MODULE SwapImages ------------------------------
(***************************************************************************)
(* What the frame loop promises about the images of the swapchain, without *)
(* a fence or a semaphore in sight: each image has one owner at a time and *)
(* goes round engine -> host -> gpu -> done -> engine, one image at a time *)
(* in the host's hands.                                                    *)
(***************************************************************************)
CONSTANT Imgs

VARIABLE owner      \* who may touch each image now

Init == owner = [m \in Imgs |-> "engine"]

Pass(m, from, to) ==
    /\ owner[m] = from
    /\ owner' = [owner EXCEPT ![m] = to]

Take(m) ==
    /\ \A n \in Imgs : owner[n] # "host"
    /\ Pass(m, "engine", "host")

Hand(m)   == Pass(m, "host", "gpu")
Finish(m) == Pass(m, "gpu", "done")
Show(m)   == Pass(m, "done", "engine")

Next == \E m \in Imgs : Take(m) \/ Hand(m) \/ Finish(m) \/ Show(m)

Spec == Init /\ [][Next]_owner

\* When nothing fails no image gets stuck on its way round.
FairSpec ==
    /\ Spec
    /\ \A m \in Imgs : /\ WF_owner(Hand(m))
                       /\ WF_owner(Finish(m))
                       /\ WF_owner(Show(m))

=============================================================================
