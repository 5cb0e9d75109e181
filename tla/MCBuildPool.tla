----------------------------- MODULE MCBuildPool -----------------------------
(* BuildPool for TLC: one job in gen_size's call of main, which compiles    *)
(* cache/main.c; in the second enough to fill make's four slots twice.      *)
EXTENDS BuildPool

CacheThenProgram == {1, NJobs}
Anything         == {"job", "step"}

=============================================================================
