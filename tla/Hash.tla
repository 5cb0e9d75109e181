-------------------------------- MODULE Hash ---------------------------------
(***************************************************************************)
(* include/hash.h, the chained hash table that nameset.c and blockset.c    *)
(* instantiate.  The first node of a bucket, its head, is part of the      *)
(* table's array and may be empty; the others are malloc'ed, and a new one *)
(* comes right after the head.  Each call of the interface is one action:  *)
(* the table has one thread.                                               *)
(***************************************************************************)
EXTENDS Naturals, Sequences, SequencesExt, FiniteSets

CONSTANTS
    Keys, Vals,
    Iters,      \* iterators
    Hint,       \* hash_init's size_hint
    ThreshNum,  \* the load factor thresh is ThreshNum / ThreshDen
    ThreshDen,
    MaxElts,    \* bound: a table of so many elements is given no new key
    HashFns,    \* the functions hash_fn may be, before "% maxhash"
    Uses,       \* the functions of the interface that the caller calls
    MayFail     \* {"malloc"} when memory may run out

Interface == {"set", "unset", "get", "size", "iterate", "to_array", "free"}

\* hash_init: a hint of 0 stands for 16.
SizeHint(hint) == IF hint = 0 THEN 16 ELSE hint

\* float holds the integers below 2^24.
FloatExact == 16777215

\* The sizes are such that float holds them; hash_init returns no table without
\* a bucket.
ASSUME SizesAssumption ==
    /\ {Hint, 2 * MaxElts} \subseteq 0 .. FloatExact
    /\ {ThreshNum, ThreshDen} \subseteq Nat \ {0}
    /\ (SizeHint(Hint) + 1) * ThreshDen >= ThreshNum
ASSUME HashFnsAssumption == HashFns \subseteq [Keys -> Nat]
ASSUME UsesAssumption    == Uses \subseteq Interface
ASSUME MayFailAssumption == MayFail \subseteq {"malloc"}

VARIABLES
    hash_fn,    \* one of HashFns, the same throughout
    elts,       \* table->elts
    data,       \* table->data, indexed 0 .. table->buckets - 1
    at,         \* where each iterator's d points, or closed
    table,      \* "up"; "broken": rehash followed a pointer that is not one;
                \* "freed"
    lost,       \* a malloc'ed node is in no chain and was not freed, or was twice
    reply       \* the last call, its key if it has one, and what it returned

vars == <<hash_fn, elts, data, at, table, lost, reply>>

-----------------------------------------------------------------------------
(* Buckets and nodes.                                                      *)

Node(k, v)  == [key |-> k, val |-> v]
EmptyBucket == [head |-> <<>>, chain |-> <<>>]      \* as calloc leaves it
Nodes(b)    == b.head \o b.chain

\* table->buckets
Buckets(d) == Cardinality(DOMAIN d)

\* Mutant of NewData: "+ 1" is forgotten.
NewDataTight(hint) ==
    [i \in 0 .. (SizeHint(hint) * ThreshDen) \div ThreshNum - 1 |-> EmptyBucket]

\* hash_init: (size_hint + 1) / thresh buckets.
NewData(hint) ==
    [i \in 0 .. ((SizeHint(hint) + 1) * ThreshDen) \div ThreshNum - 1 |-> EmptyBucket]

\* lookup: the bucket of k, and whether k is in it.
Index(k, d)  == hash_fn[k] % Buckets(d)
Has(ns, k)   == \E n \in ToSet(ns) : n.key = k
First(ns, k) == SelectInSeq(ns, LAMBDA n : n.key = k)
Found(k, d)  == Has(Nodes(d[Index(k, d)]), k)
Value(k, d)  == LET ns == Nodes(d[Index(k, d)]) IN ns[First(ns, k)].val

\* Mutant of Inserted: a full head is overwritten.
InsertedOver(b, n) == [b EXCEPT !.head = <<n>>]

\* hash_set, a new key: into the head or, if that is filled, into a new node
\* after it.  An empty head is given "next = NULL" whatever it pointed to.
Inserted(b, n) ==
    IF b.head = <<>> THEN [head |-> <<n>>, chain |-> <<>>]
                     ELSE [b EXCEPT !.chain = <<n>> \o @]

\* hash_set, a key that is there: it.d->val = val.
Updated(b, n) ==
    IF Has(b.head, n.key)
      THEN [b EXCEPT !.head = <<n>>]
      ELSE [b EXCEPT !.chain[First(b.chain, n.key)] = n]

\* Mutant of Removed: only heads are.
RemovedHead(b, k) ==
    IF Has(b.head, k) THEN [b EXCEPT !.head = <<>>] ELSE b

\* hash_unset: a head is marked empty, any other node unlinked and freed.
Removed(b, k) ==
    IF Has(b.head, k)
      THEN [b EXCEPT !.head = <<>>]
      ELSE [b EXCEPT !.chain = RemoveAt(@, First(@, k))]

\* hash_set where nothing else may happen, as in rehash.
Stored(d, n) ==
    LET i == Index(n.key, d)
    IN  [d EXCEPT ![i] = IF Found(n.key, d) THEN Updated(@, n) ELSE Inserted(@, n)]

-----------------------------------------------------------------------------
(* Iterators.  Slot <<i, 0>> is the head of bucket i, <<i, j>> the j-th    *)
(* node of its chain, <<Buckets, 0>> the end.                              *)

closed == <<>>
Locked == \E i \in Iters : at[i] # closed       \* table->locked

Slots(b)  == (IF b.head = <<>> THEN {} ELSE {0}) \cup DOMAIN b.chain
Filled(d) == UNION {{<<i, j>> : j \in Slots(d[i])} : i \in DOMAIN d}

NotBefore(p, q) == p[1] > q[1] \/ (p[1] = q[1] /\ p[2] >= q[2])

NodeIn(b, j) == IF j = 0 THEN b.head[1] ELSE b.chain[j]
NodeAt(d, p) == NodeIn(d[p[1]], p[2])

\* it->d->next, or the head of the next bucket.
After(d, p) ==
    IF p[2] < Len(d[p[1]].chain) THEN <<p[1], p[2] + 1>> ELSE <<p[1] + 1, 0>>

Ahead(d, p) == {q \in Filled(d) : NotBefore(q, p)}

-----------------------------------------------------------------------------
(* rehash: every node, in the order of an iteration, set in a table of     *)
(* twice the size.                                                         *)

Size(d)   == Cardinality(Filled(d))
Nth(d, n) == CHOOSE p \in Filled(d) :
                Cardinality({q \in Filled(d) : ~NotBefore(q, p)}) = n - 1
Walk(d)   == [n \in 1 .. Size(d) |-> NodeAt(d, Nth(d, n))]

\* The table d after hash_set has been called with each node of walk in turn.
StoredAll(d, walk) ==
    LET new[n \in 0 .. Len(walk)] == IF n = 0 THEN d ELSE Stored(new[n - 1], walk[n])
    IN  new[Len(walk)]

\* Mutants of Rehashed: the table does not grow; the chains are not walked.
RehashedSame(d)  == StoredAll(NewData(Hint), Walk(d))
RehashedHeads(d) ==
    StoredAll(NewData(elts * 2), Walk([i \in DOMAIN d |-> [d[i] EXCEPT !.chain = <<>>]]))

Rehashed(d) == StoredAll(NewData(elts * 2), Walk(d))

Chained(d)   == \E i \in DOMAIN d : d[i].chain # <<>>
Overloads(n, d) == n * ThreshDen > ThreshNum * Buckets(d)

\* new_load > table->thresh
NeedsRehash == Overloads(elts + 1, data)

\* The nodes of d that were malloc'ed, and what becomes of them in a call that
\* makes so many and frees so many.
ChainNodes(d) == Size(d) - Cardinality({i \in DOMAIN d : d[i].head # <<>>})
InChain(k, d) == Found(k, d) /\ ~Has(d[Index(k, d)].head, k)
NewNode(b) == IF b.head = <<>> THEN 0 ELSE 1

Accounts(made, freed) ==
    lost' = (lost \/ ChainNodes(data) + made - freed # ChainNodes(data'))

-----------------------------------------------------------------------------

Init ==
    /\ hash_fn \in HashFns
    /\ elts = 0
    /\ data = NewData(Hint)
    /\ at = [i \in Iters |-> closed]
    /\ table = "up"
    /\ lost = FALSE
    /\ reply = <<"init">>

\* A call of the interface, on a table that is still one.
Call(use) == use \in Uses /\ table = "up"

SetLocked(k) ==
    /\ Call("set")
    /\ Locked
    /\ reply' = <<"set", k, 1>>
    /\ UNCHANGED <<hash_fn, elts, data, at, table, lost>>

SetFound(k, v) ==
    /\ Call("set")
    /\ ~Locked /\ Found(k, data)
    /\ data' = [data EXCEPT ![Index(k, data)] = Updated(@, Node(k, v))]
    /\ reply' = <<"set", k, 0>>
    /\ UNCHANGED <<hash_fn, elts, at, table, lost>>

SetNew(k, v) ==
    /\ Call("set")
    /\ ~Locked /\ ~Found(k, data) /\ ~NeedsRehash
    /\ elts < MaxElts
    /\ data' = [data EXCEPT ![Index(k, data)] = Inserted(@, Node(k, v))]
    /\ elts' = elts + 1
    /\ Accounts(NewNode(data[Index(k, data)]), 0)
    /\ reply' = <<"set", k, 0>>
    /\ UNCHANGED <<hash_fn, at, table>>

\* Mutant of SetGrows: the new key is not counted.
SetGrowsUncounted(k, v) ==
    /\ Call("set")
    /\ ~Locked /\ ~Found(k, data) /\ NeedsRehash
    /\ elts < MaxElts
    /\ LET new == Rehashed(data)
       IN  /\ data' = [new EXCEPT ![Index(k, data)] = Inserted(@, Node(k, v))]
           /\ elts' = Size(new)
           /\ Accounts(ChainNodes(new) + NewNode(new[Index(k, data)]), ChainNodes(data))
    /\ reply' = <<"set", k, 0>>
    /\ UNCHANGED <<hash_fn, at, table>>

\* The new key goes to it.index, which lookup found in the old table.
SetGrows(k, v) ==
    /\ Call("set")
    /\ ~Locked /\ ~Found(k, data) /\ NeedsRehash
    /\ elts < MaxElts
    /\ LET new == Rehashed(data)
       IN  /\ data' = [new EXCEPT ![Index(k, data)] = Inserted(@, Node(k, v))]
           /\ elts' = Size(new) + 1
           /\ Accounts(ChainNodes(new) + NewNode(new[Index(k, data)]), ChainNodes(data))
    /\ reply' = <<"set", k, 0>>
    /\ UNCHANGED <<hash_fn, at, table>>

\* Mutant of SetNoMemory: the failure of malloc is not reported.
SetNoMemorySilent(k) ==
    /\ Call("set")
    /\ "malloc" \in MayFail
    /\ ~Locked /\ ~Found(k, data)
    /\ NeedsRehash \/ data[Index(k, data)].head # <<>>
    /\ reply' = <<"set", k, 0>>
    /\ UNCHANGED <<hash_fn, elts, data, at, table, lost>>

\* No memory for rehash's table or iterator, or for a node of a chain: the
\* table is as it was, or has grown.
SetNoMemory(k) ==
    /\ Call("set")
    /\ "malloc" \in MayFail
    /\ ~Locked /\ ~Found(k, data)
    /\ \/ /\ NeedsRehash \/ data[Index(k, data)].head # <<>>
          /\ UNCHANGED <<elts, data, lost>>
       \/ /\ NeedsRehash
          /\ Rehashed(data)[Index(k, data)].head # <<>>
          /\ data' = Rehashed(data)
          /\ elts' = Size(data')
          /\ Accounts(ChainNodes(data'), ChainNodes(data))
    /\ reply' = <<"set", k, 1>>
    /\ UNCHANGED <<hash_fn, at, table>>

\* No memory for a node of the new table: rehash gives hash_end the iterator
\* where it wants the address of one, and hash_end takes the table for it.
SetCrashes(k) ==
    /\ Call("set")
    /\ "malloc" \in MayFail
    /\ ~Locked /\ ~Found(k, data) /\ NeedsRehash
    /\ Chained(Rehashed(data))
    /\ table' = "broken"
    /\ reply' = <<"set", k>>
    /\ UNCHANGED <<hash_fn, elts, data, at, lost>>

UnsetLocked(k) ==
    /\ Call("unset")
    /\ Locked
    /\ reply' = <<"unset", k, 1>>
    /\ UNCHANGED <<hash_fn, elts, data, at, table, lost>>

\* elts stays as it is.
Unset(k) ==
    /\ Call("unset")
    /\ ~Locked
    /\ data' = IF Found(k, data)
                 THEN [data EXCEPT ![Index(k, data)] = Removed(@, k)]
                 ELSE data
    /\ Accounts(0, IF InChain(k, data) THEN 1 ELSE 0)
    /\ reply' = <<"unset", k, 0>>
    /\ UNCHANGED <<hash_fn, elts, at, table>>

Get(k) ==
    /\ Call("get")
    /\ reply' = IF Found(k, data) THEN <<"get", k, 0, Value(k, data)>> ELSE <<"get", k, 1>>
    /\ UNCHANGED <<hash_fn, elts, data, at, table, lost>>

GetSize ==
    /\ Call("size")
    /\ reply' = <<"size", elts>>
    /\ UNCHANGED <<hash_fn, elts, data, at, table, lost>>

\* Without memory for an Iter nothing happens.
Begin(i) ==
    /\ Call("iterate")
    /\ at[i] = closed
    /\ at' = [at EXCEPT ![i] = <<0, 0>>]
    /\ reply' = <<"begin", i>>
    /\ UNCHANGED <<hash_fn, elts, data, table, lost>>

\* hash_next gives out the first filled node from d on, and leaves d behind it.
NextFilled(i) ==
    /\ Call("iterate")
    /\ at[i] # closed
    /\ \E p \in Ahead(data, at[i]) :
        /\ \A q \in Ahead(data, at[i]) : NotBefore(q, p)
        /\ at' = [at EXCEPT ![i] = After(data, p)]
        /\ reply' = <<"next", NodeAt(data, p).key, NodeAt(data, p).val>>
    /\ UNCHANGED <<hash_fn, elts, data, table, lost>>

NextNone(i) ==
    /\ Call("iterate")
    /\ at[i] # closed
    /\ Ahead(data, at[i]) = {}
    /\ at' = [at EXCEPT ![i] = <<Buckets(data), 0>>]
    /\ reply' = <<"next">>
    /\ UNCHANGED <<hash_fn, elts, data, table, lost>>

End(i) ==
    /\ Call("iterate")
    /\ at[i] # closed
    /\ at' = [at EXCEPT ![i] = closed]
    /\ reply' = <<"end", i>>
    /\ UNCHANGED <<hash_fn, elts, data, table, lost>>

\* nameset_to_array: an array of hash_size elements, and an iteration that
\* fills it.  What it does not fill stays as malloc left it.
ToArray ==
    /\ Call("to_array")
    /\ reply' = <<"to_array", 0,
                  [n \in 1 .. elts |->
                      IF n <= Size(data) THEN <<Walk(data)[n].key>> ELSE <<>>]>>
    /\ UNCHANGED <<hash_fn, elts, data, at, table, lost>>

\* No memory for the array or for the iterator.
ToArrayFails ==
    /\ Call("to_array")
    /\ "malloc" \in MayFail
    /\ reply' = <<"to_array", 1>>
    /\ UNCHANGED <<hash_fn, elts, data, at, table, lost>>

\* Mutant of Free: hash_free_impl without its loop.
FreeData ==
    /\ Call("free")
    /\ ~Locked
    /\ data' = <<>> /\ elts' = 0
    /\ table' = "freed"
    /\ Accounts(0, 0)
    /\ reply' = <<"free">>
    /\ UNCHANGED <<hash_fn, at>>

\* hash_free.  Its callers have ended their iterations, which it does not ask.
Free ==
    /\ Call("free")
    /\ ~Locked
    /\ data' = <<>> /\ elts' = 0
    /\ table' = "freed"
    /\ Accounts(0, ChainNodes(data))
    /\ reply' = <<"free">>
    /\ UNCHANGED <<hash_fn, at>>

Over == table # "up" /\ UNCHANGED vars

Next ==
    \/ \E k \in Keys :
        \/ \E v \in Vals : SetFound(k, v) \/ SetNew(k, v) \/ SetGrows(k, v)
        \/ SetLocked(k) \/ SetNoMemory(k) \/ SetCrashes(k)
        \/ Unset(k) \/ UnsetLocked(k)
        \/ Get(k)
    \/ GetSize
    \/ \E i \in Iters : Begin(i) \/ NextFilled(i) \/ NextNone(i) \/ End(i)
    \/ ToArray \/ ToArrayFails \/ Free
    \/ Over

Spec == Init /\ [][Next]_vars

-----------------------------------------------------------------------------

Contents == [k \in {j \in Keys : data # <<>> /\ Found(j, data)} |-> Value(k, data)]

Map == INSTANCE HashMap WITH
    map  <- Contents,
    open <- {i \in Iters : at[i] # closed},
    left <- [i \in Iters |->
                IF at[i] = closed THEN {}
                ELSE {NodeAt(data, p).key : p \in Ahead(data, at[i])}]

\* The table is a map: what hash_set said it stored is found, with its last
\* value, until it is unset; other keys are left alone; hash_size counts; an
\* iteration gives out every key once.
ImplementsHashMap == Map!Spec

\* hash_init's size holds the keys its hint announced: a caller that has no
\* more of them, and unsets none, never meets rehash.
HintSuffices ==
    [][Cardinality(Keys) <= SizeHint(Hint) /\ table' # "freed" =>
        Buckets(data') = Buckets(data)]_vars

\* hash_size, by which nameset_to_array sizes its array, is never less than
\* what the iteration after it gives out, and is the same if nothing was unset.
SizeCovers ==
    /\ elts >= Size(data)
    /\ "unset" \notin Uses => elts = Size(data)

\* Every key that was stored is given out by an iteration, even one that
\* hash_get does not find: close_buff frees every block.
KeysListed ==
    reply[1] = "set" /\ Len(reply) = 3 /\ reply[3] = 0 =>
        \E p \in Filled(data) : NodeAt(data, p).key = reply[2]

Headed(d) == \A i \in DOMAIN d : d[i].head = <<>> => d[i].chain = <<>>
AllHeaded == Headed(data)

\* A call loses no key but the one it is about, whether or not the table grows
\* and whether or not memory runs out; unless, that is, a head with a chain was
\* unset, which the next key to be set there cuts off.
OthersKept ==
    [][AllHeaded /\ table' # "freed" =>
        \A k \in Keys :
            Found(k, data) /\ reply' # <<"unset", k, 0>> => Found(k, data)']_vars

\* Whoever grows, unsets or frees the table frees the nodes it takes out of the
\* chains, once, and no others; again unless a head with a chain was unset.
NodesOwned == [][AllHeaded => lost' = lost]_vars

\* In a table that has not grown no key comes up but by being set, and one that
\* was unset is gone, wherever in its bucket it was.
NoneAppears ==
    [][DOMAIN data' = DOMAIN NewData(Hint) => \A k \in Keys :
        /\ Found(k, data)' /\ ~Found(k, data) => reply' = <<"set", k, 0>>
        /\ reply' = <<"unset", k, 0>> => ~Found(k, data)']_vars

\* rehash's own calls of hash_set never rehash, and it.index, from before,
\* is an index of the new table.
RehashFits ==
    table = "up" /\ NeedsRehash =>
        /\ ~Overloads(Size(data), Rehashed(data))
        /\ Buckets(Rehashed(data)) >= Buckets(data)

=============================================================================
