------------------------------- MODULE MCHash --------------------------------
(* Hash for TLC.  The load factor is the default 0.8.                      *)
EXTENDS Hash

\* Every function from the keys is in HashFns: the keys are interchangeable.
KeySymmetry == Permutations(Keys)

Malloc  == {"malloc"}
Nothing == {}

\* nameset.c, blockset.c, buff.c and the check_ functions never unset.
ProgramUses == Interface \ {"unset"}

\* What changes the table, and what keeps it from being changed.
Changes == {"set", "unset", "iterate", "free"}

\* Every way to share out the keys among the five buckets of a table with a
\* hint of 3; and among those of one that grows from three to six.
AllFns5 == [Keys -> 0 .. 4]
AllFns6 == [Keys -> 0 .. 5]

=============================================================================
