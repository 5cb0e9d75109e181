--------------------------- MODULE BuildPoolProofs ---------------------------
(***************************************************************************)
(* The job pool of make for any number of jobs and slots: the count kept   *)
(* by hand is the number of children, nothing incomplete is linked, and a  *)
(* failure that was noticed stops the build.                               *)
(***************************************************************************)
EXTENDS BuildPool, FiniteSetTheorems, TLAPS

Children == running \cup ended

Shape ==
    /\ pc \in {"compile", "drain", "abort", "link", "done", "failed", "cut"}
    /\ next \in 1 .. NJobs + 1
    /\ threads \in 0 .. max_threads
    /\ r \in {0, 1}
    /\ running \subseteq 1 .. next - 1
    /\ ended \subseteq 1 .. next - 1
    /\ broken \subseteq 1 .. next - 1
    /\ running \cap ended = {}
    /\ running \cap broken = {}

Counted == IsFiniteSet(Children) /\ threads = Cardinality(Children)

\* What waitall and set -e know of the jobs that failed: as long as no wait -n
\* has returned a failure, every one of them is still to be waited for.
Noticed ==
    /\ pc = "compile" => broken \subseteq ended
    /\ pc = "drain" /\ r = 0 => broken \subseteq ended
    /\ pc \in {"link", "done"} => broken = {}
    /\ pc \in {"link", "done", "failed"} => Children = {}
    /\ pc \in {"compile", "link", "done"} => r = 0

IInv == Shape /\ Counted /\ Noticed

-----------------------------------------------------------------------------
(* What a set of children loses and gains.                                 *)

LEMMA Joined ==
    ASSUME NEW S, IsFiniteSet(S), NEW x, x \notin S
    PROVE  IsFiniteSet(S \cup {x}) /\ Cardinality(S \cup {x}) = Cardinality(S) + 1
  BY FS_AddElement

LEMMA Left ==
    ASSUME NEW S, IsFiniteSet(S), NEW x \in S
    PROVE  IsFiniteSet(S \ {x}) /\ Cardinality(S \ {x}) = Cardinality(S) - 1
  BY FS_RemoveElement

\* A wait -n that finds a child to wait for returns one.
LEMMA ReturnsChild ==
    ASSUME IInv, threads # 0, NEW j \in Returned
    PROVE  /\ j \in ended
           /\ j \in Failed <=> j \in broken
           /\ IsFiniteSet(Children \ {j})
           /\ Cardinality(Children \ {j}) = threads - 1
           /\ running \cup (ended \ {j}) = Children \ {j}
<1>1. Children # {}
  BY FS_EmptySet DEF IInv, Counted
<1>2. j \in ended
  BY <1>1 DEF Returned, Children
<1>3. j # NoJob /\ j \notin running
  BY <1>2 DEF IInv, Shape, NoJob
<1>4. IsFiniteSet(Children \ {j}) /\ Cardinality(Children \ {j}) = threads - 1
  BY <1>2, Left DEF IInv, Counted, Children
<1> QED
  BY <1>2, <1>3, <1>4 DEF Failed, Children

-----------------------------------------------------------------------------

LEMMA InvInit == Init => IInv
<1> SUFFICES ASSUME Init PROVE IInv
  OBVIOUS
<1>1. Shape
  BY JobsAssumption, ThreadsAssumption DEF Init, Shape
<1>2. Counted
  BY FS_EmptySet DEF Init, Counted, Children
<1>3. Noticed
  BY DEF Init, Noticed
<1> QED
  BY <1>1, <1>2, <1>3 DEF IInv

LEMMA InvStep == IInv /\ [Next]_vars => IInv'
<1> SUFFICES ASSUME IInv, [Next]_vars PROVE IInv'
  OBVIOUS
<1> USE JobsAssumption, ThreadsAssumption, MayFailAssumption DEF Jobs
<1>1. CASE SubmitFree
  <2> USE <1>1 DEF SubmitFree, Launch
  <2>1. next \notin Children /\ Children' = Children \cup {next}
    BY DEF IInv, Shape, Children
  <2>2. Counted'
    <3>1. IsFiniteSet(Children') /\ Cardinality(Children') = threads + 1
      BY <2>1, Joined DEF IInv, Counted
    <3> QED
      BY <3>1 DEF Counted
  <2>3. Shape'
    BY DEF IInv, Shape
  <2>4. Noticed'
    BY DEF IInv, Shape, Noticed
  <2> QED
    BY <2>2, <2>3, <2>4 DEF IInv
<1>2. ASSUME NEW j \in Returned, SubmitWaits(j) PROVE IInv'
  <2> USE <1>2 DEF SubmitWaits, Launch
  <2>1. /\ j \in ended /\ j \notin broken
        /\ IsFiniteSet(Children \ {j})
        /\ Cardinality(Children \ {j}) = threads - 1
    BY ReturnsChild DEF IInv, Shape
  <2>2. next \notin Children \ {j} /\ Children' = (Children \ {j}) \cup {next}
    BY <2>1 DEF IInv, Shape, Children
  <2>3. Counted'
    <3>1. IsFiniteSet(Children') /\ Cardinality(Children') = threads - 1 + 1
      BY <2>1, <2>2, Joined
    <3> QED
      BY <3>1 DEF IInv, Shape, Counted
  <2>4. Shape'
    <3>1. ended' \subseteq ended /\ UNCHANGED <<threads, r, broken>>
      OBVIOUS
    <3>2. next \in 1 .. NJobs /\ next' = next + 1 /\ running' = running \cup {next}
      OBVIOUS
    <3>3. pc' \in {"drain", "compile"}
      OBVIOUS
    <3> HIDE <1>2 DEF SubmitWaits, Launch
    <3> QED
      BY <3>1, <3>2, <3>3 DEF IInv, Shape
  <2>5. Noticed'
    BY <2>1 DEF IInv, Shape, Noticed
  <2> QED
    BY <2>3, <2>4, <2>5 DEF IInv
<1>3. ASSUME NEW j \in Returned, SubmitFails(j) PROVE IInv'
  <2> USE <1>3 DEF SubmitFails
  <2>1. /\ IsFiniteSet(Children \ {j})
        /\ Cardinality(Children \ {j}) = threads - 1
        /\ Children' = Children \ {j}
    BY ReturnsChild DEF IInv, Shape, Children
  <2>2. Counted'
    BY <2>1 DEF Counted
  <2>3. Shape'
    <3>1. ended' \subseteq ended /\ UNCHANGED <<next, running, broken>>
      OBVIOUS
    <3>2. threads' \in 0 .. max_threads
      BY DEF IInv, Shape
    <3>3. r' \in {0, 1} /\ pc' \in {"abort"}
      BY DEF IInv, Shape
    <3> HIDE <1>3 DEF SubmitFails
    <3> QED
      BY <3>1, <3>2, <3>3 DEF IInv, Shape
  <2>4. Noticed'
    BY DEF Noticed
  <2> QED
    BY <2>2, <2>3, <2>4 DEF IInv
<1>4. ASSUME NEW j \in Returned, Collect(j) PROVE IInv'
  <2> USE <1>4 DEF Collect
  <2>1. /\ j \in Failed <=> j \in broken
        /\ IsFiniteSet(Children \ {j})
        /\ Cardinality(Children \ {j}) = threads - 1
        /\ Children' = Children \ {j}
    BY ReturnsChild DEF Children
  <2>2. Counted'
    BY <2>1 DEF Counted
  <2>3. Shape'
    <3>1. ended' \subseteq ended /\ UNCHANGED <<next, running, broken>>
      OBVIOUS
    <3>2. threads' \in 0 .. max_threads
      BY DEF IInv, Shape
    <3>3. r' \in {0, 1} /\ pc' \in {"drain", "abort"}
      BY DEF IInv, Shape
    <3> HIDE <1>4 DEF Collect
    <3> QED
      BY <3>1, <3>2, <3>3 DEF IInv, Shape
  <2>4. Noticed'
    BY <2>1 DEF IInv, Shape, Noticed
  <2> QED
    BY <2>2, <2>3, <2>4 DEF IInv
<1>5. CASE Collected
  <2> USE <1>5 DEF Collected
  <2>1. Children = {} /\ Children' = Children
    BY FS_EmptySet DEF IInv, Counted, Children
  <2>2. Counted' /\ Shape'
    BY <2>1 DEF IInv, Counted, Shape
  <2>3. Noticed'
    BY <2>1 DEF IInv, Shape, Noticed, Children
  <2> QED
    BY <2>2, <2>3 DEF IInv
<1>6. CASE Link \/ LinkFails \/ StepFails
  <2> USE <1>6 DEF Link, LinkFails, StepFails
  <2>1. Children' = Children
    BY DEF Children
  <2>2. Counted' /\ Shape'
    BY <2>1 DEF IInv, Counted, Shape
  <2>3. Noticed'
    BY <2>1 DEF IInv, Shape, Noticed
  <2> QED
    BY <2>2, <2>3 DEF IInv
<1>7. ASSUME NEW j \in Jobs, Exit(j) PROVE IInv'
  <2> USE <1>7 DEF Exit
  <2>1. Children' = Children /\ j \in Children
    BY DEF Children
  <2>2. Counted'
    BY <2>1 DEF IInv, Counted
  <2>3. Shape'
    BY DEF IInv, Shape
  <2>4. Noticed'
    BY <2>1 DEF IInv, Shape, Noticed
  <2> QED
    BY <2>2, <2>3, <2>4 DEF IInv
<1>8. CASE UNCHANGED vars
  BY <1>8 DEF vars, IInv, Shape, Counted, Noticed, Children
<1> QED
  BY <1>1, <1>2, <1>3, <1>4, <1>5, <1>6, <1>7, <1>8 DEF Next, Shell, Over

\* The inductive invariant of the pool, for any number of jobs and slots and
\* whatever fails.
THEOREM PoolInvariance == Spec => []IInv
<1>1. Init => IInv
  BY InvInit
<1>2. IInv /\ [Next]_vars => IInv'
  BY InvStep
<1> QED
  BY <1>1, <1>2, PTL DEF Spec

\* submit and waitall count right: threads is the number of children that no
\* wait -n has returned, and max_threads jobs run at most.
THEOREM CountRight == Spec => []SlotsCounted
<1>1. IInv => SlotsCounted
  <2> SUFFICES ASSUME IInv PROVE SlotsCounted
    OBVIOUS
  <2>1. Cardinality(running) <= Cardinality(Children)
    BY FS_Subset DEF IInv, Counted, Children
  <2>2. IsFiniteSet(running) /\ Cardinality(running) \in Nat
    BY FS_Subset, FS_CardinalityType DEF IInv, Counted, Children
  <2> QED
    BY <2>1, <2>2, ThreadsAssumption DEF IInv, Shape, Counted, Children, SlotsCounted
<1> QED
  BY <1>1, PoolInvariance, PTL

\* Nothing is linked of which a part failed or is not done, and a script that
\* stops because of a job or of the link leaves no job running.
THEOREM LinkSafe == Spec => []LinksComplete
<1>1. IInv => LinksComplete
  BY DEF IInv, Noticed, Children, LinksComplete
<1> QED
  BY <1>1, PoolInvariance, PTL

\* No job is started once a wait -n has returned a failure.
THEOREM FailureSeen == Spec => FailureStops
<1>1. IInv /\ [Next]_vars => [running' \subseteq running \/ broken \subseteq ended]_vars
  <2> SUFFICES ASSUME IInv, Next PROVE running' \subseteq running \/ broken \subseteq ended
    OBVIOUS
  <2>1. CASE pc = "compile"
    BY <2>1 DEF IInv, Noticed
  <2>2. CASE pc # "compile"
    BY <2>2 DEF Next, Shell, SubmitFree, SubmitWaits, SubmitFails, Collect, Collected, Link,
                LinkFails, StepFails, Exit, Over, vars
  <2> QED
    BY <2>1, <2>2
<1> QED
  BY <1>1, PoolInvariance, PTL DEF Spec, FailureStops

=============================================================================
