------------------------------ MODULE BuildPool ------------------------------
(***************************************************************************)
(* make: the background jobs of the build script.  compile submits one job *)
(* per source, submit keeps the number of unfinished ones at max_threads   *)
(* by hand, waitall collects what is left before a link.  main runs twice: *)
(* in the subshell of gen_size, for the tool that measures the cache line, *)
(* and then for the program; the subshell starts from the count 0 it       *)
(* inherits and is collected before it ends.                               *)
(***************************************************************************)
EXTENDS Naturals, FiniteSets

CONSTANTS
    NJobs,          \* the jobs of both calls of main, numbered in order
    Lasts,          \* the last job of each call of main
    max_threads,
    MayFail         \* "job": the command of a job; "step": one the shell runs itself

ASSUME JobsAssumption    == NJobs \in Nat /\ NJobs \in Lasts /\ Lasts \subseteq 1 .. NJobs
ASSUME ThreadsAssumption == max_threads \in Nat \ {0}
ASSUME MayFailAssumption == MayFail \subseteq {"job", "step"}

Jobs == 1 .. NJobs

VARIABLES
    pc,         \* "compile", "drain" (main's waitall), "abort" (submit's waitall), "link",
                \* "done"; "failed": set -e has ended the script after a job or the link
                \* failed; "cut": after another command failed
    next,       \* the next job that compile submits
    threads,
    r,          \* waitall's: whether a job it waited for failed
    running,    \* jobs under way
    ended,      \* jobs that have exited and that no wait -n has returned yet
    broken      \* jobs that exited with a status other than 0

vars == <<pc, next, threads, r, running, ended, broken>>

Init ==
    /\ pc = "compile"
    /\ next = 1
    /\ threads = 0
    /\ r = 0
    /\ running = {} /\ ended = {} /\ broken = {}

\* What wait -n may return: a job that has exited, or no job when there is none
\* to wait for, with a status (127) like that of a job that failed.
NoJob    == 0
Returned == IF running \cup ended = {} THEN {NoJob} ELSE ended
Failed   == broken \cup {NoJob}

\* "$@" &, and compile goes on to the next source or returns to main.
Launch ==
    /\ next \in Jobs
    /\ running' = running \cup {next}
    /\ next' = next + 1
    /\ pc' = IF next \in Lasts THEN "drain" ELSE "compile"

\* Mutant of SubmitFree: -le for -lt.
SubmitFreeLe ==
    /\ pc = "compile"
    /\ threads <= max_threads
    /\ threads' = threads + 1
    /\ Launch
    /\ UNCHANGED <<r, ended, broken>>

\* submit, with a slot free.
SubmitFree ==
    /\ pc = "compile"
    /\ threads < max_threads
    /\ threads' = threads + 1
    /\ Launch
    /\ UNCHANGED <<r, ended, broken>>

\* Mutant of SubmitWaits: the status of wait -n is not looked at.
SubmitWaitsBlind(j) ==
    /\ pc = "compile"
    /\ threads >= max_threads
    /\ j \in Returned
    /\ ended' = ended \ {j}
    /\ Launch
    /\ UNCHANGED <<threads, r, broken>>

\* submit, with none free: wait -n returns the status of some job that has
\* exited, and the new job takes over its slot and its place in the count.
SubmitWaits(j) ==
    /\ pc = "compile"
    /\ threads >= max_threads
    /\ j \in Returned \ Failed
    /\ ended' = ended \ {j}
    /\ Launch
    /\ UNCHANGED <<threads, r, broken>>

\* wait -n || { threads=$(($threads - 1)); waitall; return 1; }
SubmitFails(j) ==
    /\ pc = "compile"
    /\ threads >= max_threads
    /\ j \in Returned \cap Failed
    /\ ended' = ended \ {j}
    /\ threads' = threads - 1
    /\ pc' = "abort"
    /\ r' = 0
    /\ UNCHANGED <<next, running, broken>>

\* Mutant of Collect: r is the status of the last job.
CollectLast(j) ==
    /\ pc \in {"drain", "abort"}
    /\ threads # 0
    /\ j \in Returned
    /\ ended' = ended \ {j}
    /\ threads' = threads - 1
    /\ r' = IF j \in Failed THEN 1 ELSE 0
    /\ UNCHANGED <<pc, next, running, broken>>

\* Mutant of Collect: the count stays.
CollectKeeps(j) ==
    /\ pc \in {"drain", "abort"}
    /\ threads # 0
    /\ j \in Returned
    /\ ended' = ended \ {j}
    /\ r' = IF j \in Failed THEN 1 ELSE r
    /\ UNCHANGED <<pc, next, threads, running, broken>>

\* One turn of the loop of waitall.
Collect(j) ==
    /\ pc \in {"drain", "abort"}
    /\ threads # 0
    /\ j \in Returned
    /\ ended' = ended \ {j}
    /\ threads' = threads - 1
    /\ r' = IF j \in Failed THEN 1 ELSE r
    /\ UNCHANGED <<pc, next, running, broken>>

\* waitall has returned r.  For submit any status ends in "return 1"; set -e
\* then ends the script.
Collected ==
    /\ pc \in {"drain", "abort"}
    /\ threads = 0
    /\ pc' = IF pc = "drain" /\ r = 0 THEN "link" ELSE "failed"
    /\ UNCHANGED <<next, threads, r, running, ended, broken>>

\* The link, and in gen_size the run of the tool it made.  waitall's r is local.
Link ==
    /\ pc = "link"
    /\ pc' = IF next \in Jobs THEN "compile" ELSE "done"
    /\ r' = 0
    /\ UNCHANGED <<next, threads, running, ended, broken>>

LinkFails ==
    /\ pc = "link"
    /\ "step" \in MayFail
    /\ pc' = "failed"
    /\ UNCHANGED <<next, threads, r, running, ended, broken>>

\* compile's mkdir, or one of shader/conf's commands: set -e ends the script
\* there and then.
StepFails ==
    /\ pc = "compile"
    /\ "step" \in MayFail
    /\ pc' = "cut"
    /\ UNCHANGED <<next, threads, r, running, ended, broken>>

\* A job exits, whatever has become of the shell.
Exit(j) ==
    /\ j \in running
    /\ running' = running \ {j}
    /\ ended' = ended \cup {j}
    /\ \/ UNCHANGED broken
       \/ "job" \in MayFail /\ broken' = broken \cup {j}
    /\ UNCHANGED <<pc, next, threads, r>>

Over == pc \in {"done", "failed", "cut"} /\ running = {} /\ UNCHANGED vars

Shell ==
    \/ SubmitFree
    \/ \E j \in Returned : SubmitWaits(j) \/ SubmitFails(j) \/ Collect(j)
    \/ Collected \/ Link

Next ==
    \/ Shell \/ LinkFails \/ StepFails
    \/ \E j \in Jobs : Exit(j)
    \/ Over

Spec == Init /\ [][Next]_vars

\* The shell runs on, and every job exits some day; no failure is forced.
FairSpec == Spec /\ WF_vars(Shell) /\ \A j \in Jobs : WF_vars(Exit(j))

-----------------------------------------------------------------------------

\* The count kept by hand is the number of children that no wait -n has
\* returned, so that no more than max_threads jobs ever run at once and waitall
\* stops neither early nor late.
SlotsCounted ==
    /\ threads = Cardinality(running \cup ended)
    /\ Cardinality(running) <= max_threads

\* A link finds every object there: each job submitted so far has exited, with
\* status 0.  And a script that stops because of a job or a link leaves no job
\* behind that still writes to the build directory, which the next build removes.
LinksComplete ==
    /\ pc \in {"link", "done"} => broken = {} /\ running \cup ended = {}
    /\ pc = "failed" => running = {}

\* Once a wait -n has returned a failure no further job is started, however
\* many sources are left.
FailureStops == [][running' \subseteq running \/ broken \subseteq ended]_vars

\* The build ends, with every job exiting in its own time.
Ends == <>(pc \in {"done", "failed", "cut"})

=============================================================================
