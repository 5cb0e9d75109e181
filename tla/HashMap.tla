------------------------------- MODULE HashMap -------------------------------
(***************************************************************************)
(* What include/hash.h promises to nameset.c, blockset.c and buff.c: a map *)
(* with iterators, under which nothing is set or unset while an iteration  *)
(* is under way.  A call may always fail for want of memory, and then      *)
(* changes nothing.                                                        *)
(***************************************************************************)
EXTENDS Naturals, FiniteSets

CONSTANTS Keys, Vals, Iters

VARIABLES
    map,    \* the values of the keys that are set
    open,   \* the iterators between hash_begin and hash_end
    left,   \* the keys each of them has not given out
    reply   \* the last call, its key if it has one, and what it returned

vars == <<map, open, left, reply>>

Init ==
    /\ map = <<>>
    /\ open = {}
    /\ left = [i \in Iters |-> {}]
    /\ reply = <<"init">>

Set(k, v) ==
    /\ open = {}
    /\ map' = [j \in DOMAIN map \cup {k} |-> IF j = k THEN v ELSE map[j]]
    /\ reply' = <<"set", k, 0>>
    /\ UNCHANGED <<open, left>>

SetFails(k) == reply' = <<"set", k, 1>> /\ UNCHANGED <<map, open, left>>

Unset(k) ==
    /\ open = {}
    /\ map' = [j \in DOMAIN map \ {k} |-> map[j]]
    /\ reply' = <<"unset", k, 0>>
    /\ UNCHANGED <<open, left>>

UnsetFails(k) ==
    /\ open # {}
    /\ reply' = <<"unset", k, 1>>
    /\ UNCHANGED <<map, open, left>>

Get(k) ==
    /\ reply' = IF k \in DOMAIN map THEN <<"get", k, 0, map[k]>> ELSE <<"get", k, 1>>
    /\ UNCHANGED <<map, open, left>>

Size ==
    /\ reply' = <<"size", Cardinality(DOMAIN map)>>
    /\ UNCHANGED <<map, open, left>>

Begin(i) ==
    /\ i \notin open
    /\ open' = open \cup {i}
    /\ left' = [left EXCEPT ![i] = DOMAIN map]
    /\ reply' = <<"begin", i>>
    /\ UNCHANGED map

Give(i, k) ==
    /\ i \in open /\ k \in left[i]
    /\ left' = [left EXCEPT ![i] = @ \ {k}]
    /\ reply' = <<"next", k, map[k]>>
    /\ UNCHANGED <<map, open>>

GiveNone(i) ==
    /\ i \in open /\ left[i] = {}
    /\ reply' = <<"next">>
    /\ UNCHANGED <<map, open, left>>

End(i) ==
    /\ i \in open
    /\ open' = open \ {i}
    /\ left' = [left EXCEPT ![i] = {}]
    /\ reply' = <<"end", i>>
    /\ UNCHANGED map

ToArray ==
    /\ \E arr \in [1 .. Cardinality(DOMAIN map) -> {<<k>> : k \in DOMAIN map}] :
        /\ {arr[n] : n \in DOMAIN arr} = {<<k>> : k \in DOMAIN map}
        /\ reply' = <<"to_array", 0, arr>>
    /\ UNCHANGED <<map, open, left>>

ToArrayFails == reply' = <<"to_array", 1>> /\ UNCHANGED <<map, open, left>>

\* Nothing is called afterwards.
Free ==
    /\ open = {}
    /\ map' = <<>>
    /\ reply' = <<"free">>
    /\ UNCHANGED <<open, left>>

Call ==
    \/ \E k \in Keys : \/ \E v \in Vals : Set(k, v)
                       \/ SetFails(k) \/ Unset(k) \/ UnsetFails(k) \/ Get(k)
    \/ Size \/ ToArray \/ ToArrayFails \/ Free
    \/ \E i \in Iters : Begin(i) \/ GiveNone(i) \/ End(i) \/ \E k \in Keys : Give(i, k)

Next == reply # <<"free">> /\ Call

Spec == Init /\ [][Next]_vars

=============================================================================
