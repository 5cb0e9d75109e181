------------------------------ MODULE HashProofs -------------------------------
(***************************************************************************)
(* The hash table for any keys, hash function, hint and load factor: its   *)
(* shape and its count, which keys and nodes a call keeps, whether or not  *)
(* it grows; and that, if the hint announced all the keys, it does not     *)
(* grow and is a map.                                                      *)
(***************************************************************************)
EXTENDS Hash, SequenceTheorems, FiniteSetTheorems, NatLemmas, TLAPS

NodeSet == [key : Keys, val : Vals]
Cells   == {b \in [head : Seq(NodeSet), chain : Seq(NodeSet)] : Len(b.head) <= 1}

IsTable(d, n) == d \in [0 .. n - 1 -> Cells] /\ IsFiniteSet(Filled(d))

Shape ==
    /\ hash_fn \in [Keys -> Nat]
    /\ elts \in Nat
    /\ \E n \in Nat : IsTable(data, n) /\ (table # "freed" => n # 0)

\* elts counts the nodes, but not what is unset or, later, cut off.
Counted ==
    /\ Size(data) <= elts
    /\ "unset" \notin Uses => elts = Size(data) /\ AllHeaded

IInv == Shape /\ Counted /\ KeysListed

\* A caller that unsets nothing and has no more keys than the hint announced.
Roomy ==
    /\ "unset" \notin Uses
    /\ IsFiniteSet(Keys) /\ Cardinality(Keys) <= SizeHint(Hint)
    /\ ThreshNum <= ThreshDen

KeysOnce(b) == \A i, j \in Slots(b) : NodeIn(b, i).key = NodeIn(b, j).key => i = j

\* Every key is in its bucket, and there once.
Placed(d) ==
    \A i \in DOMAIN d :
        /\ KeysOnce(d[i])
        /\ \A j \in Slots(d[i]) : Index(NodeIn(d[i], j).key, d) = i

\* Its table is the one that hash_init made.
InPlace == DOMAIN data = DOMAIN NewData(Hint) /\ Placed(data)

RoomInv == IInv /\ (Roomy /\ table # "freed" => InPlace)

-----------------------------------------------------------------------------
(* Buckets.                                                                *)

\* First finds a node with the key if there is one.
LEMMA FirstFinds ==
    ASSUME NEW ns \in Seq(NodeSet), NEW k, Has(ns, k)
    PROVE  First(ns, k) \in 1 .. Len(ns) /\ ns[First(ns, k)].key = k
<1> DEFINE I == {j \in 1 .. Len(ns) : ns[j].key = k}
<1>1. First(ns, k) = IF I # {} THEN CHOOSE x \in I : \A y \in I : x <= y ELSE 0
  BY DEF First, SelectInSeq, Min
<1>2. I # {} /\ I \subseteq Nat
  BY DEF Has, ToSet
<1> HIDE DEF I
<1>3. \E x \in I : \A y \in I : x <= y
  BY <1>2, Least
<1>4. First(ns, k) \in I
  BY <1>1, <1>2, <1>3
<1> QED
  BY <1>4 DEF I

LEMMA CellParts ==
    ASSUME NEW b \in Cells
    PROVE  /\ b.head \in Seq(NodeSet) /\ b.chain \in Seq(NodeSet)
           /\ Len(b.head) = 0 \/ Len(b.head) = 1
           /\ Len(b.chain) \in Nat
           /\ b.head = <<>> <=> Len(b.head) = 0
           /\ DOMAIN b.chain = 1 .. Len(b.chain)
           /\ b.head # <<>> => b.head[1] \in NodeSet
<1>1. b.head \in Seq(NodeSet) /\ b.chain \in Seq(NodeSet) /\ Len(b.head) <= 1
  BY DEF Cells
<1>2. Len(b.head) \in Nat /\ Len(b.chain) \in Nat /\ DOMAIN b.chain = 1 .. Len(b.chain)
  BY <1>1, LenProperties
<1>3. b.head = <<>> <=> Len(b.head) = 0
  BY <1>1, EmptySeq
<1>4. b.head # <<>> => b.head[1] \in NodeSet
  <2>1. b.head # <<>> => 1 \in 1 .. Len(b.head)
    BY <1>2, <1>3
  <2> QED
    BY <1>1, <2>1, ElementOfSeq
<1>5. Len(b.head) = 0 \/ Len(b.head) = 1
  <2>1. \A l \in Nat : l <= 1 => l = 0 \/ l = 1
    OBVIOUS
  <2> QED
    BY <1>1, <1>2, <2>1
<1> QED
  BY <1>1, <1>2, <1>3, <1>4, <1>5

LEMMA MakeCell ==
    ASSUME NEW h \in Seq(NodeSet), Len(h) <= 1, NEW c \in Seq(NodeSet)
    PROVE  [head |-> h, chain |-> c] \in Cells
  BY DEF Cells

LEMMA EmptyCell == EmptyBucket \in Cells /\ Slots(EmptyBucket) = {}
<1>1. <<>> \in Seq(NodeSet) /\ Len(<<>>) = 0 /\ DOMAIN <<>> = {}
  BY EmptySeq
<1>2. EmptyBucket \in Cells
  BY <1>1 DEF Cells, EmptyBucket
<1> QED
  BY <1>1, <1>2 DEF EmptyBucket, Slots

LEMMA SlotNodes ==
    ASSUME NEW b \in Cells, NEW j \in Slots(b)
    PROVE  j \in Nat /\ NodeIn(b, j) \in NodeSet
<1>1. CASE j = 0 /\ b.head # <<>>
  BY <1>1, CellParts DEF NodeIn
<1>2. CASE j \in 1 .. Len(b.chain)
  <2>1. b.chain[j] \in NodeSet
    BY <1>2, CellParts, ElementOfSeq
  <2> QED
    BY <1>2, <2>1 DEF NodeIn
<1> QED
  BY <1>1, <1>2, CellParts DEF Slots

\* A key is in a bucket if a slot of it has the key.
LEMMA HasSlot ==
    ASSUME NEW b \in Cells, NEW k
    PROVE  /\ Has(b.head, k) <=> b.head # <<>> /\ b.head[1].key = k
           /\ Has(b.chain, k) <=> \E j \in DOMAIN b.chain : b.chain[j].key = k
           /\ Has(Nodes(b), k) <=> \E j \in Slots(b) : NodeIn(b, j).key = k
<1> DEFINE h == b.head
           c == b.chain
           ns == Nodes(b)
<1>1. /\ h \in Seq(NodeSet) /\ c \in Seq(NodeSet)
      /\ Len(h) = 0 \/ Len(h) = 1
      /\ Len(c) \in Nat
      /\ h = <<>> <=> Len(h) = 0
      /\ DOMAIN c = 1 .. Len(c)
  BY CellParts
<1>2. ns = h \o c
  BY DEF Nodes
<1>3. (\E j \in Slots(b) : NodeIn(b, j).key = k) <=>
            \/ h # <<>> /\ h[1].key = k
            \/ \E j \in DOMAIN c : c[j].key = k
  BY <1>1 DEF Slots, NodeIn
<1> HIDE DEF h, c, ns
<1>4. Has(h, k) <=> h # <<>> /\ h[1].key = k
  BY <1>1 DEF Has, ToSet
<1>5. Has(c, k) <=> \E j \in DOMAIN c : c[j].key = k
  BY DEF Has, ToSet
<1>6. CASE h = <<>>
  <2>1. ns = c
    BY <1>1, <1>2, <1>6, ConcatEmptySeq
  <2> QED
    BY <1>3, <1>4, <1>5, <1>6, <2>1 DEF h, c, ns
<1>7. CASE h # <<>>
  <2>1. Len(h) = 1
    BY <1>1, <1>7
  <2>2. /\ Len(ns) = 1 + Len(c) /\ DOMAIN ns = 1 .. 1 + Len(c)
        /\ ns[1] = h[1] /\ \A j \in 1 .. Len(c) : ns[1 + j] = c[j]
    <3>1. /\ ns \in Seq(NodeSet) /\ Len(ns) = 1 + Len(c)
          /\ \A j \in 1 .. 1 + Len(c) : ns[j] = IF j <= 1 THEN h[j] ELSE c[j - 1]
      BY <1>1, <1>2, <2>1, ConcatProperties
    <3>2. ns[1] = h[1]
      BY <1>1, <3>1
    <3>3. ASSUME NEW j \in 1 .. Len(c) PROVE ns[1 + j] = c[j]
      BY <1>1, <3>1
    <3>4. DOMAIN ns = 1 .. 1 + Len(c)
      BY <3>1, LenProperties
    <3> QED
      BY <3>1, <3>2, <3>3, <3>4
  <2>3. \A j \in DOMAIN ns : j = 1 \/ (j - 1 \in DOMAIN c /\ j = 1 + (j - 1))
    BY <1>1, <2>2
  <2>4. \A j \in DOMAIN c : 1 + j \in DOMAIN ns
    BY <1>1, <2>2
  <2>5. Has(ns, k) <=> \E j \in DOMAIN ns : ns[j].key = k
    BY DEF Has, ToSet
  <2>6. 1 \in DOMAIN ns
    BY <1>1, <2>2
  <2>7. Has(ns, k) <=> h[1].key = k \/ \E j \in DOMAIN c : c[j].key = k
    <3>1. ASSUME Has(ns, k) PROVE h[1].key = k \/ \E j \in DOMAIN c : c[j].key = k
      <4>1. PICK j \in DOMAIN ns : ns[j].key = k
        BY <2>5, <3>1
      <4>2. CASE j = 1
        BY <2>2, <4>1, <4>2
      <4>3. CASE j - 1 \in DOMAIN c /\ j = 1 + (j - 1)
        BY <1>1, <2>2, <4>1, <4>3
      <4> QED
        BY <2>3, <4>2, <4>3
    <3>2. ASSUME h[1].key = k PROVE Has(ns, k)
      BY <2>2, <2>5, <2>6, <3>2
    <3>3. ASSUME NEW j \in DOMAIN c, c[j].key = k PROVE Has(ns, k)
      BY <1>1, <2>2, <2>4, <2>5, <3>3
    <3> QED
      BY <3>1, <3>2, <3>3
  <2> QED
    BY <1>3, <1>4, <1>5, <1>7, <2>7 DEF h, c, ns
<1> QED
  BY <1>6, <1>7

\* What hash_set and hash_unset do to a bucket, slot by slot.
LEMMA UpdatedCell ==
    ASSUME NEW b \in Cells, NEW n \in NodeSet, Has(Nodes(b), n.key)
    PROVE  /\ Updated(b, n) \in Cells
           /\ Slots(Updated(b, n)) = Slots(b)
           /\ \E s \in Slots(b) :
                /\ NodeIn(b, s).key = n.key /\ NodeIn(Updated(b, n), s) = n
                /\ \A j \in Slots(b) \ {s} : NodeIn(Updated(b, n), j) = NodeIn(b, j)
<1> DEFINE i == First(b.chain, n.key)
           u == Updated(b, n)
<1>1. /\ b \in [head : Seq(NodeSet), chain : Seq(NodeSet)]
      /\ b.head \in Seq(NodeSet) /\ b.chain \in Seq(NodeSet)
      /\ Len(b.head) <= 1 /\ Len(b.chain) \in Nat
      /\ DOMAIN b.chain = 1 .. Len(b.chain)
  BY CellParts DEF Cells
<1>2. CASE Has(b.head, n.key)
  <2>1. b.head # <<>> /\ b.head[1].key = n.key
    BY <1>2, HasSlot
  <2>2. <<n>> \in Seq(NodeSet) /\ Len(<<n>>) = 1 /\ <<n>> # <<>> /\ <<n>>[1] = n
    OBVIOUS
  <2>3. u = [head |-> <<n>>, chain |-> b.chain]
    BY <1>1, <1>2 DEF Updated
  <2>4. u \in Cells
    <3>1. Len(<<n>>) <= 1
      BY <2>2
    <3>2. [head |-> <<n>>, chain |-> b.chain] \in Cells
      BY <1>1, <2>2, <3>1, MakeCell, Zenon
    <3> QED
      BY <2>3, <3>2
  <2>5. u.head = <<n>> /\ u.chain = b.chain
    BY <2>3
  <2>6. Slots(u) = Slots(b)
    BY <2>1, <2>2, <2>5 DEF Slots
  <2>7. 0 \in Slots(b) /\ NodeIn(b, 0).key = n.key /\ NodeIn(u, 0) = n
    BY <2>1, <2>2, <2>5 DEF Slots, NodeIn
  <2>8. \A j \in Slots(b) \ {0} : NodeIn(u, j) = NodeIn(b, j)
    BY <2>5 DEF NodeIn
  <2> QED
    BY <2>4, <2>6, <2>7, <2>8
<1>3. CASE ~Has(b.head, n.key)
  <2> DEFINE c == [b.chain EXCEPT ![i] = n]
  <2>1. Has(b.chain, n.key)
    BY <1>1, <1>3, HasSlot DEF Slots, NodeIn
  <2>2. i \in 1 .. Len(b.chain) /\ b.chain[i].key = n.key
    BY <1>1, <2>1, FirstFinds
  <2>3. /\ c \in Seq(NodeSet) /\ Len(c) = Len(b.chain)
        /\ \A j \in 1 .. Len(b.chain) : c[j] = IF j = i THEN n ELSE b.chain[j]
    BY <1>1, <2>2, ExceptSeq
  <2>4. DOMAIN c = DOMAIN b.chain
    BY <1>1, <2>3, LenProperties
  <2>5. u = [head |-> b.head, chain |-> c]
    BY <1>1, <1>3 DEF Updated
  <2> HIDE DEF c, i
  <2>6. u \in Cells
    BY <1>1, <2>3, <2>5, MakeCell
  <2>7. u.head = b.head /\ u.chain = c
    BY <2>5
  <2> HIDE DEF u
  <2>8. Slots(u) = Slots(b)
    BY <2>4, <2>7 DEF Slots
  <2>9. i \in Slots(b) /\ NodeIn(b, i).key = n.key /\ NodeIn(u, i) = n
    BY <1>1, <2>2, <2>3, <2>7 DEF Slots, NodeIn
  <2>10. ASSUME NEW j \in Slots(b) \ {i} PROVE NodeIn(u, j) = NodeIn(b, j)
    <3>1. CASE j = 0
      BY <2>7, <3>1 DEF NodeIn
    <3>2. CASE j # 0
      <4>1. j \in 1 .. Len(b.chain)
        BY <1>1, <2>10, <3>2 DEF Slots
      <4>2. c[j] = b.chain[j]
        BY <2>3, <2>10, <4>1
      <4> QED
        BY <2>7, <3>2, <4>2 DEF NodeIn
    <3> QED
      BY <3>1, <3>2
  <2> QED
    BY <2>6, <2>8, <2>9, <2>10 DEF u
<1> QED
  BY <1>2, <1>3

LEMMA InsertedCell ==
    ASSUME NEW b \in Cells, NEW n \in NodeSet
    PROVE  /\ Inserted(b, n) \in Cells
           /\ \E s \in Nat \ Slots(b) :
                /\ Slots(Inserted(b, n)) \subseteq Slots(b) \cup {s}
                /\ Slots(b) = {} \/ 0 \in Slots(b) =>
                      Slots(Inserted(b, n)) = Slots(b) \cup {s}
           /\ 0 \in Slots(Inserted(b, n))
           /\ \E j \in Slots(Inserted(b, n)) : NodeIn(Inserted(b, n), j) = n
<1> DEFINE u == Inserted(b, n)
<1>1. /\ b \in [head : Seq(NodeSet), chain : Seq(NodeSet)]
      /\ b.head \in Seq(NodeSet) /\ b.chain \in Seq(NodeSet)
      /\ Len(b.head) <= 1 /\ Len(b.chain) \in Nat
      /\ DOMAIN b.chain = 1 .. Len(b.chain)
  BY CellParts DEF Cells
<1>2. /\ <<n>> \in Seq(NodeSet) /\ Len(<<n>>) = 1 /\ <<n>> # <<>> /\ <<n>>[1] = n
      /\ <<>> \in Seq(NodeSet) /\ DOMAIN <<>> = {}
  OBVIOUS
<1>3. CASE b.head = <<>>
  <2>1. u = [head |-> <<n>>, chain |-> <<>>]
    BY <1>3 DEF Inserted
  <2>2. u \in Cells
    <3>1. Len(<<n>>) <= 1
      BY <1>2
    <3>2. [head |-> <<n>>, chain |-> <<>>] \in Cells
      BY <1>2, <3>1, MakeCell, Zenon
    <3> QED
      BY <2>1, <3>2
  <2>3. u.head = <<n>> /\ u.chain = <<>>
    BY <2>1
  <2>4. Slots(u) = {0}
    BY <1>2, <2>3 DEF Slots
  <2>5. 0 \notin Slots(b)
    BY <1>1, <1>3 DEF Slots
  <2>6. NodeIn(u, 0) = n
    BY <1>2, <2>3 DEF NodeIn
  <2> HIDE DEF u
  <2>7. \E s \in Nat \ Slots(b) :
                /\ Slots(u) \subseteq Slots(b) \cup {s}
                /\ Slots(b) = {} \/ 0 \in Slots(b) => Slots(u) = Slots(b) \cup {s}
    BY <2>4, <2>5
  <2>8. \E j \in Slots(u) : NodeIn(u, j) = n
    BY <2>4, <2>6
  <2> QED
    BY <2>2, <2>4, <2>7, <2>8 DEF u
<1>4. CASE b.head # <<>>
  <2> DEFINE c == <<n>> \o b.chain
             s == 1 + Len(b.chain)
  <2>1. /\ c \in Seq(NodeSet) /\ Len(c) = s
        /\ \A j \in 1 .. s : c[j] = IF j <= 1 THEN <<n>>[j] ELSE b.chain[j - 1]
    BY <1>1, <1>2, ConcatProperties
  <2>2. DOMAIN c = 1 .. s
    BY <2>1, LenProperties
  <2>3. u = [head |-> b.head, chain |-> c]
    BY <1>1, <1>4 DEF Inserted
  <2> HIDE DEF c
  <2>4. u \in Cells
    BY <1>1, <2>1, <2>3, MakeCell
  <2>5. u.head = b.head /\ u.chain = c
    BY <2>3
  <2> HIDE DEF u
  <2>6. s \in Nat \ Slots(b)
    BY <1>1 DEF Slots
  <2>7. 1 .. s = DOMAIN b.chain \cup {s}
    BY <1>1
  <2>8. Slots(u) = Slots(b) \cup {s}
    BY <1>4, <2>2, <2>5, <2>7 DEF Slots
  <2>9. 0 \in Slots(u)
    BY <1>4, <2>5 DEF Slots
  <2>10. 1 \in Slots(u) /\ NodeIn(u, 1) = n
    <3>1. 1 \in 1 .. s
      BY <1>1
    <3>2. c[1] = n
      BY <1>2, <2>1, <3>1
    <3> QED
      BY <2>2, <2>5, <3>1, <3>2 DEF Slots, NodeIn
  <2> HIDE DEF s
  <2>11. \E t \in Nat \ Slots(b) :
                /\ Slots(u) \subseteq Slots(b) \cup {t}
                /\ Slots(b) = {} \/ 0 \in Slots(b) => Slots(u) = Slots(b) \cup {t}
    BY <2>6, <2>8
  <2> QED
    BY <2>4, <2>9, <2>10, <2>11 DEF u
<1> QED
  BY <1>3, <1>4

\* A new key joins those of its bucket, if no chain is cut off.
LEMMA InsertedNodes ==
    ASSUME NEW b \in Cells, NEW n \in NodeSet
    PROVE  /\ KeysOnce(b) /\ ~Has(Nodes(b), n.key) => KeysOnce(Inserted(b, n))
           /\ (b.head = <<>> => b.chain = <<>>) =>
                 \A s \in Slots(b) : \E j \in Slots(Inserted(b, n)) :
                    NodeIn(Inserted(b, n), j) = NodeIn(b, s)
           /\ \A j \in Slots(Inserted(b, n)) :
                 \/ NodeIn(Inserted(b, n), j) = n
                 \/ \E s \in Slots(b) : NodeIn(b, s) = NodeIn(Inserted(b, n), j)
<1> DEFINE u == Inserted(b, n)
<1>1. /\ b \in [head : Seq(NodeSet), chain : Seq(NodeSet)]
      /\ b.chain \in Seq(NodeSet) /\ Len(b.chain) \in Nat
      /\ DOMAIN b.chain = 1 .. Len(b.chain)
  BY CellParts DEF Cells
<1>2. <<n>> \in Seq(NodeSet) /\ Len(<<n>>) = 1 /\ <<n>> # <<>> /\ <<n>>[1] = n
  OBVIOUS
<1>3. ~Has(Nodes(b), n.key) => \A s \in Slots(b) : NodeIn(b, s).key # n.key
  BY HasSlot
<1>4. CASE b.head = <<>>
  <2>1. u = [head |-> <<n>>, chain |-> <<>>]
    BY <1>4 DEF Inserted
  <2>2. u.head = <<n>> /\ u.chain = <<>> /\ DOMAIN <<>> = {}
    BY <2>1
  <2>3. Slots(u) = {0} /\ NodeIn(u, 0) = n
    BY <1>2, <2>2 DEF Slots, NodeIn
  <2>4. b.chain = <<>> => Slots(b) = {}
    BY <1>4 DEF Slots
  <2> HIDE DEF u
  <2> QED
    BY <1>4, <2>3, <2>4 DEF KeysOnce, u
<1>5. CASE b.head # <<>>
  <2> DEFINE c == <<n>> \o b.chain
             l == 1 + Len(b.chain)
  <2>1. /\ c \in Seq(NodeSet) /\ Len(c) = l
        /\ \A j \in 1 .. l : c[j] = IF j <= 1 THEN <<n>>[j] ELSE b.chain[j - 1]
    BY <1>1, <1>2, ConcatProperties
  <2>2. DOMAIN c = 1 .. l
    BY <2>1, LenProperties
  <2>3. u = [head |-> b.head, chain |-> c]
    BY <1>1, <1>5 DEF Inserted
  <2> HIDE DEF c
  <2>4. u.head = b.head /\ u.chain = c
    BY <2>3
  <2> HIDE DEF u
  <2>5. Slots(u) = {0} \cup 1 .. l /\ Slots(b) = {0} \cup 1 .. Len(b.chain)
    BY <1>1, <1>5, <2>2, <2>4 DEF Slots
  <2>6. NodeIn(u, 0) = NodeIn(b, 0) /\ 0 \in Slots(b)
    BY <2>4, <2>5 DEF NodeIn
  <2>7. NodeIn(u, 1) = n
    <3>1. 1 \in 1 .. l
      BY <1>1
    <3> QED
      BY <1>2, <2>1, <2>4, <3>1 DEF NodeIn
  <2>8. ASSUME NEW j \in Slots(u), j # 0, j # 1
        PROVE  j - 1 \in Slots(b) /\ j - 1 # 0 /\ j \in Nat /\ NodeIn(u, j) = NodeIn(b, j - 1)
    <3>1. j \in 1 .. l /\ j - 1 \in 1 .. Len(b.chain) /\ ~(j <= 1) /\ j - 1 # 0 /\ j \in Nat
      BY <1>1, <2>5, <2>8
    <3>2. c[j] = b.chain[j - 1]
      BY <2>1, <3>1
    <3> QED
      BY <2>4, <2>5, <2>8, <3>1, <3>2 DEF NodeIn
  <2>9. ASSUME KeysOnce(b), ~Has(Nodes(b), n.key),
               NEW i \in Slots(u), NEW j \in Slots(u), NodeIn(u, i).key = NodeIn(u, j).key
        PROVE  i = j
    <3>1. \A s, t \in Slots(b) : NodeIn(b, s).key = NodeIn(b, t).key => s = t
      BY <2>9 DEF KeysOnce
    <3>2. CASE i = 0
      BY <1>3, <2>6, <2>7, <2>8, <2>9, <3>1, <3>2
    <3>3. CASE i = 1
      BY <1>3, <2>6, <2>7, <2>8, <2>9, <3>3
    <3>4. CASE i # 0 /\ i # 1
      <4>1. j # 1
        BY <1>3, <2>7, <2>8, <2>9, <3>4
      <4>2. j # 0
        BY <2>6, <2>8, <2>9, <3>1, <3>4
      <4>3. i - 1 = j - 1 /\ i \in Nat /\ j \in Nat
        BY <2>8, <2>9, <3>1, <3>4, <4>1, <4>2
      <4> QED
        BY <4>3
    <3> QED
      BY <3>2, <3>3, <3>4
  <2>10. ASSUME NEW s \in Slots(b) PROVE \E j \in Slots(u) : NodeIn(u, j) = NodeIn(b, s)
    <3>1. CASE s = 0
      BY <2>5, <2>6, <3>1
    <3>2. CASE s # 0
      <4>1. s + 1 \in Slots(u) /\ s + 1 # 0 /\ s + 1 # 1 /\ (s + 1) - 1 = s
        BY <1>1, <2>5, <3>2
      <4> QED
        BY <2>8, <4>1
    <3> QED
      BY <3>1, <3>2
  <2> QED
    BY <2>6, <2>7, <2>8, <2>9, <2>10 DEF KeysOnce, u
<1> QED
  BY <1>4, <1>5

\* RemoveAt takes out one node and keeps the others.
LEMMA RemovedChain ==
    ASSUME NEW c \in Seq(NodeSet), NEW i \in 1 .. Len(c)
    PROVE  /\ RemoveAt(c, i) \in Seq(NodeSet) /\ Len(RemoveAt(c, i)) = Len(c) - 1
           /\ DOMAIN RemoveAt(c, i) = 1 .. Len(c) - 1
           /\ \A j \in 1 .. Len(c) - 1 : RemoveAt(c, i)[j] = IF j < i THEN c[j] ELSE c[j + 1]
<1> DEFINE l == SubSeq(c, 1, i - 1)
           r == SubSeq(c, i + 1, Len(c))
           e == l \o r
<1>1. Len(c) \in Nat /\ \A j \in 1 .. Len(c) : c[j] \in NodeSet
  BY LenProperties, ElementOfSeq
<1>2. /\ l \in Seq(NodeSet) /\ Len(l) = i - 1
      /\ \A j \in 1 .. i - 1 : l[j] = c[j]
  <2>1. 1 \in Int /\ i - 1 \in Int /\ \A j \in 1 .. i - 1 : c[j] \in NodeSet
    BY <1>1
  <2>2. /\ l \in Seq(NodeSet)
        /\ Len(l) = IF 1 <= i - 1 THEN (i - 1) - 1 + 1 ELSE 0
        /\ \A j \in 1 .. (i - 1) - 1 + 1 : l[j] = c[1 + j - 1]
    BY <2>1, SubSeqProperties
  <2> HIDE DEF l
  <2>3. \A j \in 1 .. i - 1 : j \in 1 .. (i - 1) - 1 + 1 /\ 1 + j - 1 = j
    BY <1>1
  <2> QED
    BY <1>1, <2>2, <2>3
<1>3. /\ r \in Seq(NodeSet) /\ Len(r) = Len(c) - i
      /\ \A j \in 1 .. Len(c) - i : r[j] = c[i + j]
  <2>1. /\ i + 1 \in Int /\ Len(c) \in Int
        /\ \A j \in i + 1 .. Len(c) : c[j] \in NodeSet
    BY <1>1
  <2>2. /\ r \in Seq(NodeSet)
        /\ Len(r) = IF i + 1 <= Len(c) THEN Len(c) - (i + 1) + 1 ELSE 0
        /\ \A j \in 1 .. Len(c) - (i + 1) + 1 : r[j] = c[(i + 1) + j - 1]
    BY <2>1, SubSeqProperties
  <2> HIDE DEF r
  <2>3. \A j \in 1 .. Len(c) - i :
            j \in 1 .. Len(c) - (i + 1) + 1 /\ (i + 1) + j - 1 = i + j
    BY <1>1
  <2> QED
    BY <1>1, <2>2, <2>3
<1>4. RemoveAt(c, i) = e
  BY DEF RemoveAt
<1> HIDE DEF l, r
<1>5. /\ e \in Seq(NodeSet) /\ Len(e) = Len(l) + Len(r)
      /\ \A j \in 1 .. Len(l) + Len(r) : e[j] = IF j <= Len(l) THEN l[j] ELSE r[j - Len(l)]
  BY <1>2, <1>3, ConcatProperties
<1>6. Len(e) = Len(c) - 1 /\ DOMAIN e = 1 .. Len(e)
  BY <1>1, <1>2, <1>3, <1>5, LenProperties
<1> HIDE DEF e
<1>7. ASSUME NEW j \in 1 .. Len(c) - 1 PROVE e[j] = IF j < i THEN c[j] ELSE c[j + 1]
  <2>1. e[j] = IF j <= Len(l) THEN l[j] ELSE r[j - Len(l)]
    BY <1>1, <1>2, <1>3, <1>5
  <2>2. CASE j < i
    <3>1. j \in 1 .. i - 1 /\ j <= Len(l)
      BY <1>1, <1>2, <2>2
    <3> QED
      BY <1>2, <2>1, <2>2, <3>1
  <2>3. CASE ~(j < i)
    <3>1. /\ ~(j <= Len(l)) /\ j - Len(l) \in 1 .. Len(c) - i
          /\ i + (j - Len(l)) = j + 1
      BY <1>1, <1>2, <2>3
    <3>2. r[j - Len(l)] = c[i + (j - Len(l))]
      BY <1>3, <3>1
    <3> QED
      BY <2>1, <2>3, <3>1, <3>2
  <2> QED
    BY <2>2, <2>3
<1> QED
  BY <1>4, <1>5, <1>6, <1>7

\* Unsetting a key takes one node out of its bucket, the head or one of the
\* chain; the other nodes are still there.
LEMMA RemovedCell ==
    ASSUME NEW b \in Cells, NEW k, Has(Nodes(b), k)
    PROVE  /\ Removed(b, k) \in Cells
           /\ Removed(b, k).head = IF Has(b.head, k) THEN <<>> ELSE b.head
           /\ \E s \in Slots(b) \ Slots(Removed(b, k)) : Slots(b) = Slots(Removed(b, k)) \cup {s}
           /\ \E f \in [Slots(Removed(b, k)) -> Slots(b)] :
                /\ \A i, j \in Slots(Removed(b, k)) : f[i] = f[j] => i = j
                /\ \A j \in Slots(Removed(b, k)) : NodeIn(Removed(b, k), j) = NodeIn(b, f[j])
                /\ \E t \in Slots(b) :
                      /\ NodeIn(b, t).key = k
                      /\ \A i \in Slots(b) \ {t} : \E j \in Slots(Removed(b, k)) : f[j] = i
                      /\ \A j \in Slots(Removed(b, k)) : f[j] # t
<1> DEFINE t == First(b.chain, k)
           u == Removed(b, k)
           n == Len(b.chain)
<1>1. /\ b \in [head : Seq(NodeSet), chain : Seq(NodeSet)]
      /\ b.head \in Seq(NodeSet) /\ b.chain \in Seq(NodeSet)
      /\ Len(b.head) <= 1 /\ n \in Nat
      /\ DOMAIN b.chain = 1 .. n
  BY CellParts DEF Cells
<1>2. CASE Has(b.head, k)
  <2>1. u = [head |-> <<>>, chain |-> b.chain]
    BY <1>1, <1>2 DEF Removed
  <2>2. <<>> \in Seq(NodeSet) /\ Len(<<>>) <= 1
    OBVIOUS
  <2>3. u \in Cells
    <3>1. [head |-> <<>>, chain |-> b.chain] \in Cells
      BY <1>1, <2>2, MakeCell, Zenon
    <3> QED
      BY <2>1, <3>1
  <2>4. u.head = <<>> /\ u.chain = b.chain
    BY <2>1
  <2>5. b.head # <<>> /\ b.head[1].key = k
    BY <1>2, HasSlot
  <2> HIDE DEF u
  <2>6. Slots(u) = 1 .. n /\ Slots(b) = {0} \cup 1 .. n
    BY <1>1, <2>4, <2>5 DEF Slots
  <2>7. 0 \in Slots(b) \ Slots(u) /\ Slots(b) = Slots(u) \cup {0} /\ NodeIn(b, 0).key = k
    BY <2>5, <2>6 DEF NodeIn
  <2> DEFINE f == [j \in Slots(u) |-> j]
  <2>8. /\ f \in [Slots(u) -> Slots(b)]
        /\ \A i, j \in Slots(u) : f[i] = f[j] => i = j
        /\ \A i \in Slots(b) \ {0} : \E j \in Slots(u) : f[j] = i
        /\ \A j \in Slots(u) : f[j] # 0
    BY <2>7
  <2>9. \A j \in Slots(u) : NodeIn(u, j) = NodeIn(b, f[j])
    BY <2>4, <2>6 DEF NodeIn
  <2> HIDE DEF f
  <2> QED
    BY <1>2, <2>3, <2>4, <2>7, <2>8, <2>9 DEF u
<1>3. CASE ~Has(b.head, k)
  <2> DEFINE c == RemoveAt(b.chain, t)
  <2>1. Has(b.chain, k)
    BY <1>1, <1>3, HasSlot DEF Slots, NodeIn
  <2>2. t \in 1 .. n /\ b.chain[t].key = k
    BY <1>1, <2>1, FirstFinds
  <2>3. u = [head |-> b.head, chain |-> c]
    BY <1>1, <1>3 DEF Removed
  <2> HIDE DEF t
  <2>4. /\ c \in Seq(NodeSet) /\ DOMAIN c = 1 .. n - 1
        /\ \A j \in 1 .. n - 1 : c[j] = IF j < t THEN b.chain[j] ELSE b.chain[j + 1]
    BY <1>1, <2>2, RemovedChain
  <2> HIDE DEF c
  <2>5. u \in Cells
    BY <1>1, <2>3, <2>4, MakeCell
  <2>6. u.head = b.head /\ u.chain = c
    BY <2>3
  <2> HIDE DEF u
  <2>7. \E Z \in {{}, {0}} : Slots(u) = Z \cup 1 .. n - 1 /\ Slots(b) = Z \cup 1 .. n
    BY <1>1, <2>4, <2>6 DEF Slots
  <2>8. n \in Slots(b) \ Slots(u) /\ Slots(b) = Slots(u) \cup {n}
    BY <1>1, <2>2, <2>7
  <2> DEFINE f == [j \in Slots(u) |-> IF j < t THEN j ELSE j + 1]
  <2>9. /\ f \in [Slots(u) -> Slots(b)]
        /\ \A i, j \in Slots(u) : f[i] = f[j] => i = j
        /\ \A j \in Slots(u) : f[j] # t
        /\ t \in Slots(b)
    BY <1>1, <2>2, <2>7
  <2>10. ASSUME NEW i \in Slots(b) \ {t} PROVE \E j \in Slots(u) : f[j] = i
    <3>1. CASE i < t
      <4>1. i \in Slots(u)
        BY <1>1, <2>2, <2>7, <3>1
      <4> QED
        BY <3>1, <4>1
    <3>2. CASE ~(i < t)
      <4>1. i - 1 \in Slots(u) /\ ~(i - 1 < t) /\ (i - 1) + 1 = i
        BY <1>1, <2>2, <2>7, <3>2
      <4> QED
        BY <4>1
    <3> QED
      BY <3>1, <3>2
  <2>11. \A j \in Slots(u) : NodeIn(u, j) = NodeIn(b, f[j])
    BY <1>1, <2>2, <2>4, <2>6, <2>7 DEF NodeIn
  <2>12. NodeIn(b, t).key = k
    BY <1>1, <2>2 DEF NodeIn
  <2> HIDE DEF f
  <2> QED
    BY <1>3, <2>5, <2>6, <2>8, <2>9, <2>10, <2>11, <2>12 DEF u
<1> QED
  BY <1>2, <1>3

LEMMA HeadedSlots ==
    ASSUME NEW b \in Cells
    PROVE  (b.head = <<>> => b.chain = <<>>) <=> (Slots(b) = {} \/ 0 \in Slots(b))
<1>1. b.chain \in Seq(NodeSet) /\ Len(b.chain) \in Nat /\ DOMAIN b.chain = 1 .. Len(b.chain)
  BY CellParts
<1>2. b.chain = <<>> <=> DOMAIN b.chain = {}
  <2>1. Len(b.chain) = 0 <=> 1 .. Len(b.chain) = {}
    <3>1. \A l \in Nat : l = 0 <=> 1 .. l = {}
      <4>1. \A l \in Nat : l # 0 => 1 \in 1 .. l
        OBVIOUS
      <4> QED
        BY <4>1
    <3> QED
      BY <1>1, <3>1
  <2>2. b.chain = <<>> <=> Len(b.chain) = 0
    BY <1>1, EmptySeq
  <2> QED
    BY <1>1, <2>1, <2>2
<1>3. 0 \notin DOMAIN b.chain
  BY <1>1
<1> QED
  BY <1>2, <1>3 DEF Slots

-----------------------------------------------------------------------------
(* Tables.                                                                 *)

LEMMA TableParts ==
    ASSUME NEW n \in Nat, NEW d, IsTable(d, n)
    PROVE  /\ d \in [0 .. n - 1 -> Cells] /\ DOMAIN d = 0 .. n - 1
           /\ Buckets(d) = n /\ Size(d) \in Nat
<1>1. d \in [0 .. n - 1 -> Cells] /\ DOMAIN d = 0 .. n - 1 /\ IsFiniteSet(Filled(d))
  BY DEF IsTable
<1>2. Cardinality(0 .. n - 1) = IF 0 > n - 1 THEN 0 ELSE (n - 1) - 0 + 1
  BY FS_Interval
<1>3. (IF 0 > n - 1 THEN 0 ELSE (n - 1) - 0 + 1) = n
  OBVIOUS
<1>4. Size(d) \in Nat
  BY <1>1, FS_CardinalityType DEF Size
<1> QED
  BY <1>1, <1>2, <1>3, <1>4 DEF Buckets

LEMMA FilledSlots ==
    ASSUME NEW n \in Nat, NEW d, IsTable(d, n)
    PROVE  /\ \A p : p \in Filled(d) <=>
                        \E i \in 0 .. n - 1 : \E j \in Slots(d[i]) : p = <<i, j>>
           /\ \A i \in 0 .. n - 1 : \A j \in Slots(d[i]) :
                 j \in Nat /\ NodeAt(d, <<i, j>>) = NodeIn(d[i], j)
           /\ \A p \in Filled(d) : p \in Nat \X Nat /\ NodeAt(d, p) \in NodeSet
<1>1. d \in [0 .. n - 1 -> Cells] /\ DOMAIN d = 0 .. n - 1
  BY TableParts
<1>2. \A p : p \in Filled(d) <=> \E i \in 0 .. n - 1 : \E j \in Slots(d[i]) : p = <<i, j>>
  BY <1>1 DEF Filled
<1>3. ASSUME NEW i \in 0 .. n - 1, NEW j \in Slots(d[i])
      PROVE  j \in Nat /\ NodeIn(d[i], j) \in NodeSet
  BY <1>1, SlotNodes
<1>4. \A i \in 0 .. n - 1 : \A j \in Slots(d[i]) :
        j \in Nat /\ NodeAt(d, <<i, j>>) = NodeIn(d[i], j)
  BY <1>3 DEF NodeAt
<1>5. ASSUME NEW p \in Filled(d) PROVE p \in Nat \X Nat /\ NodeAt(d, p) \in NodeSet
  <2>1. PICK i \in 0 .. n - 1 : \E j \in Slots(d[i]) : p = <<i, j>>
    BY <1>2
  <2> QED
    BY <1>3, <1>4, <2>1
<1> QED
  BY <1>2, <1>4, <1>5

With(d, i, b) == [d EXCEPT ![i] = b]

\* What becomes of a table when one of its buckets changes.
LEMMA BucketChange ==
    ASSUME NEW n \in Nat, NEW d, IsTable(d, n), NEW i \in 0 .. n - 1, NEW c \in Cells,
           NEW e, e = With(d, i, c)
    PROVE  /\ \A s : Slots(c) \subseteq Slots(d[i]) \cup {s} =>
                        IsTable(e, n) /\ Size(e) <= Size(d) + 1
           /\ Slots(c) \subseteq Slots(d[i]) => IsTable(e, n) /\ Size(e) <= Size(d)
           /\ \A s : s \notin Slots(d[i]) /\ Slots(c) = Slots(d[i]) \cup {s} =>
                        Size(e) = Size(d) + 1
           /\ Slots(c) = Slots(d[i]) => Filled(e) = Filled(d)
           /\ Headed(d) /\ (Slots(c) = {} \/ 0 \in Slots(c)) => Headed(e)
<1>1. d \in [0 .. n - 1 -> Cells] /\ DOMAIN d = 0 .. n - 1 /\ Size(d) \in Nat
  BY TableParts
<1>2. /\ e \in [0 .. n - 1 -> Cells] /\ DOMAIN e = 0 .. n - 1 /\ e[i] = c
      /\ \A j \in 0 .. n - 1 : j # i => e[j] = d[j]
  BY <1>1 DEF With
<1>3. \A p : p \in Filled(d) <=> \E j \in 0 .. n - 1 : \E t \in Slots(d[j]) : p = <<j, t>>
  BY <1>1 DEF Filled
<1>4. \A p : p \in Filled(e) <=> \E j \in 0 .. n - 1 : \E t \in Slots(e[j]) : p = <<j, t>>
  BY <1>2 DEF Filled
<1>5. IsFiniteSet(Filled(d))
  BY DEF IsTable
<1>6. ASSUME NEW s, Slots(c) \subseteq Slots(d[i]) \cup {s}
      PROVE  IsTable(e, n) /\ Size(e) <= Size(d) + 1
  <2>1. Filled(e) \subseteq Filled(d) \cup {<<i, s>>}
    <3>1. ASSUME NEW p \in Filled(e) PROVE p \in Filled(d) \cup {<<i, s>>}
      <4>1. PICK j \in 0 .. n - 1 : \E t \in Slots(e[j]) : p = <<j, t>>
        BY <1>4
      <4> QED
        BY <1>2, <1>3, <1>6, <4>1
    <3> QED
      BY <3>1
  <2>2. /\ IsFiniteSet(Filled(d) \cup {<<i, s>>})
        /\ Cardinality(Filled(d) \cup {<<i, s>>}) \in Nat
        /\ Cardinality(Filled(d) \cup {<<i, s>>}) <= Size(d) + 1
    <3>1. /\ IsFiniteSet(Filled(d) \cup {<<i, s>>})
          /\ Cardinality(Filled(d) \cup {<<i, s>>}) =
                IF <<i, s>> \in Filled(d) THEN Cardinality(Filled(d))
                                         ELSE Cardinality(Filled(d)) + 1
      BY <1>5, FS_AddElement
    <3> QED
      BY <1>1, <3>1 DEF Size
  <2>3. /\ IsFiniteSet(Filled(e))
        /\ Cardinality(Filled(e)) <= Cardinality(Filled(d) \cup {<<i, s>>})
    BY <2>1, <2>2, FS_Subset
  <2>4. Cardinality(Filled(e)) \in Nat
    BY <2>3, FS_CardinalityType
  <2> QED
    BY <1>1, <1>2, <2>2, <2>3, <2>4 DEF IsTable, Size
<1>7. ASSUME Slots(c) \subseteq Slots(d[i]) PROVE IsTable(e, n) /\ Size(e) <= Size(d)
  <2>1. Filled(e) \subseteq Filled(d)
    <3>1. ASSUME NEW p \in Filled(e) PROVE p \in Filled(d)
      <4>1. PICK j \in 0 .. n - 1 : \E t \in Slots(e[j]) : p = <<j, t>>
        BY <1>4
      <4> QED
        BY <1>2, <1>3, <1>7, <4>1
    <3> QED
      BY <3>1
  <2>2. IsFiniteSet(Filled(e)) /\ Cardinality(Filled(e)) <= Cardinality(Filled(d))
    BY <1>5, <2>1, FS_Subset
  <2> QED
    BY <1>2, <2>2 DEF IsTable, Size
<1>8. ASSUME NEW s, s \notin Slots(d[i]), Slots(c) = Slots(d[i]) \cup {s}
      PROVE  Size(e) = Size(d) + 1
  <2>1. Filled(e) = Filled(d) \cup {<<i, s>>}
    <3>1. ASSUME NEW p \in Filled(e) PROVE p \in Filled(d) \cup {<<i, s>>}
      <4>1. PICK j \in 0 .. n - 1 : \E t \in Slots(e[j]) : p = <<j, t>>
        BY <1>4
      <4> QED
        BY <1>2, <1>3, <1>8, <4>1
    <3>2. ASSUME NEW p \in Filled(d) PROVE p \in Filled(e)
      <4>1. PICK j \in 0 .. n - 1 : \E t \in Slots(d[j]) : p = <<j, t>>
        BY <1>3
      <4> QED
        BY <1>2, <1>4, <1>8, <4>1
    <3>3. <<i, s>> \in Filled(e)
      BY <1>2, <1>4, <1>8
    <3> QED
      BY <3>1, <3>2, <3>3
  <2>2. <<i, s>> \notin Filled(d)
    BY <1>3, <1>8
  <2>3. Cardinality(Filled(d) \cup {<<i, s>>}) = Cardinality(Filled(d)) + 1
    BY <1>5, <2>2, FS_AddElement
  <2> QED
    BY <2>1, <2>3 DEF Size
<1>9. ASSUME Slots(c) = Slots(d[i]) PROVE Filled(e) = Filled(d)
  <2>1. \A j \in 0 .. n - 1 : Slots(e[j]) = Slots(d[j])
    BY <1>2, <1>9
  <2> QED
    BY <1>1, <1>2, <2>1 DEF Filled
<1>10. ASSUME Headed(d), Slots(c) = {} \/ 0 \in Slots(c) PROVE Headed(e)
  <2>1. c.head = <<>> => c.chain = <<>>
    BY <1>10, HeadedSlots
  <2> QED
    BY <1>1, <1>2, <1>10, <2>1 DEF Headed
<1> QED
  BY <1>6, <1>7, <1>8, <1>9, <1>10

LEMMA IndexInTable ==
    ASSUME hash_fn \in [Keys -> Nat], NEW n \in Nat \ {0}, NEW d, IsTable(d, n),
           NEW k \in Keys
    PROVE  Index(k, d) \in 0 .. n - 1 /\ d[Index(k, d)] \in Cells
<1>1. d \in [0 .. n - 1 -> Cells] /\ Buckets(d) = n
  BY TableParts
<1>2. hash_fn[k] % n \in 0 .. n - 1
  <2>1. hash_fn[k] \in Nat
    OBVIOUS
  <2> QED
    BY <2>1, Division
<1> QED
  BY <1>1, <1>2 DEF Index

LEMMA FoundSlot ==
    ASSUME hash_fn \in [Keys -> Nat], NEW n \in Nat \ {0}, NEW d, IsTable(d, n),
           NEW k \in Keys
    PROVE  Found(k, d) <=> \E j \in Slots(d[Index(k, d)]) : NodeIn(d[Index(k, d)], j).key = k
  BY IndexInTable, HasSlot DEF Found

\* A new key takes one more slot, if no head with a chain is empty; its node
\* is in the table.
LEMMA InsertGrows ==
    ASSUME NEW n \in Nat, NEW d, IsTable(d, n), NEW i \in 0 .. n - 1,
           NEW nd \in NodeSet, NEW e, e = With(d, i, Inserted(d[i], nd))
    PROVE  /\ IsTable(e, n) /\ Size(e) <= Size(d) + 1
           /\ Headed(d) => Headed(e) /\ Size(e) = Size(d) + 1
           /\ \E p \in Filled(e) : NodeAt(e, p) = nd
<1> DEFINE c == Inserted(d[i], nd)
<1>1. d \in [0 .. n - 1 -> Cells] /\ DOMAIN d = 0 .. n - 1 /\ d[i] \in Cells
  BY TableParts
<1>2. c \in Cells /\ 0 \in Slots(c)
  BY <1>1, InsertedCell
<1>3. PICK s \in Nat \ Slots(d[i]) :
        /\ Slots(c) \subseteq Slots(d[i]) \cup {s}
        /\ Slots(d[i]) = {} \/ 0 \in Slots(d[i]) => Slots(c) = Slots(d[i]) \cup {s}
  BY <1>1, InsertedCell
<1>4. PICK j \in Slots(c) : NodeIn(c, j) = nd
  BY <1>1, InsertedCell
<1> HIDE DEF c
<1>5. e = With(d, i, c)
  BY DEF c
<1>6. IsTable(e, n) /\ Size(e) <= Size(d) + 1
  BY <1>2, <1>3, <1>5, BucketChange
<1>7. ASSUME Headed(d) PROVE Headed(e) /\ Size(e) = Size(d) + 1
  <2>1. Slots(d[i]) = {} \/ 0 \in Slots(d[i])
    BY <1>1, <1>7, HeadedSlots DEF Headed
  <2> QED
    BY <1>2, <1>3, <1>5, <1>7, <2>1, BucketChange
<1>8. e[i] = c
  BY <1>1, <1>5 DEF With
<1>9. \E p \in Filled(e) : NodeAt(e, p) = nd
  <2>1. j \in Slots(e[i])
    BY <1>8
  <2>2. <<i, j>> \in Filled(e) /\ NodeAt(e, <<i, j>>) = NodeIn(e[i], j)
    BY <1>6, <2>1, FilledSlots
  <2> QED
    BY <1>4, <1>8, <2>2
<1> QED
  BY <1>6, <1>7, <1>9

\* A key that is there keeps its slot, and so do the others.
LEMMA UpdateKeeps ==
    ASSUME hash_fn \in [Keys -> Nat], NEW n \in Nat \ {0}, NEW d, IsTable(d, n),
           NEW nd \in NodeSet, Found(nd.key, d),
           NEW e, e = With(d, Index(nd.key, d), Updated(d[Index(nd.key, d)], nd))
    PROVE  /\ IsTable(e, n) /\ Filled(e) = Filled(d)
           /\ Headed(d) => Headed(e)
           /\ \E p \in Filled(d) :
                /\ NodeAt(d, p).key = nd.key /\ NodeAt(e, p) = nd
                /\ \A q \in Filled(d) \ {p} : NodeAt(e, q) = NodeAt(d, q)
<1> DEFINE i == Index(nd.key, d)
           c == Updated(d[i], nd)
<1>1. nd.key \in Keys
  BY DEF NodeSet
<1>2. i \in 0 .. n - 1 /\ d[i] \in Cells
  BY <1>1, IndexInTable
<1>3. Has(Nodes(d[i]), nd.key)
  BY DEF Found
<1>4. c \in Cells /\ Slots(c) = Slots(d[i])
  BY <1>2, <1>3, UpdatedCell
<1>5. PICK s \in Slots(d[i]) :
        /\ NodeIn(d[i], s).key = nd.key /\ NodeIn(c, s) = nd
        /\ \A j \in Slots(d[i]) \ {s} : NodeIn(c, j) = NodeIn(d[i], j)
  BY <1>2, <1>3, UpdatedCell
<1>6. e = With(d, i, c)
  OBVIOUS
<1>7. d \in [0 .. n - 1 -> Cells] /\ DOMAIN d = 0 .. n - 1
  BY TableParts
<1> HIDE DEF i, c
<1>8. IsTable(e, n) /\ Filled(e) = Filled(d)
  <2>1. n \in Nat /\ Slots(c) \subseteq Slots(d[i])
    BY <1>4
  <2>2. IsTable(e, n)
    BY <1>2, <1>4, <1>6, <2>1, BucketChange
  <2>3. Filled(e) = Filled(d)
    BY <1>2, <1>4, <1>6, <2>1, BucketChange
  <2> QED
    BY <2>2, <2>3
<1>9. ASSUME Headed(d) PROVE Headed(e)
  <2>1. Slots(d[i]) = {} \/ 0 \in Slots(d[i])
    BY <1>2, <1>7, <1>9, HeadedSlots DEF Headed
  <2> QED
    BY <1>2, <1>4, <1>6, <1>9, <2>1, BucketChange
<1>10. ASSUME NEW q \in Filled(d), q # <<i, s>> PROVE NodeAt(e, q) = NodeAt(d, q)
  <2>1. PICK l \in 0 .. n - 1 : \E j \in Slots(d[l]) : q = <<l, j>>
    BY FilledSlots
  <2>2. PICK j \in Slots(d[l]) : q = <<l, j>>
    BY <2>1
  <2>3. NodeAt(d, q) = NodeIn(d[l], j) /\ NodeAt(e, q) = NodeIn(e[l], j)
    BY <2>2 DEF NodeAt
  <2>4. CASE l = i
    BY <1>2, <1>5, <1>6, <1>7, <1>10, <2>2, <2>3, <2>4 DEF With
  <2>5. CASE l # i
    BY <1>2, <1>6, <1>7, <2>3, <2>5 DEF With
  <2> QED
    BY <2>4, <2>5
<1>11. /\ <<i, s>> \in Filled(d) /\ NodeAt(d, <<i, s>>).key = nd.key
       /\ NodeAt(e, <<i, s>>) = nd
  <2>1. <<i, s>> \in Filled(d) /\ NodeAt(d, <<i, s>>) = NodeIn(d[i], s)
    BY <1>2, <1>5, FilledSlots
  <2>2. NodeAt(e, <<i, s>>) = NodeIn(e[i], s) /\ e[i] = c
    BY <1>2, <1>6, <1>7 DEF NodeAt, With
  <2> QED
    BY <1>5, <2>1, <2>2
<1> QED
  BY <1>8, <1>9, <1>10, <1>11

-----------------------------------------------------------------------------
(* Which keys are found.                                                   *)

\* One bucket changed: the keys are in place if those of the bucket are, and
\* the others are found where they were.
LEMMA BucketPlaced ==
    ASSUME hash_fn \in [Keys -> Nat], NEW n \in Nat \ {0}, NEW d, IsTable(d, n),
           NEW i \in 0 .. n - 1, NEW c \in Cells, NEW e, e = With(d, i, c)
    PROVE  /\ \A k : Index(k, e) = Index(k, d)
           /\ Placed(d) /\ KeysOnce(c) /\ (\A j \in Slots(c) : Index(NodeIn(c, j).key, d) = i)
                => Placed(e)
           /\ \A k \in Keys : Index(k, d) # i => (Found(k, e) <=> Found(k, d))
           /\ \A k \in Keys : Index(k, d) = i =>
                /\ Found(k, e) <=> \E j \in Slots(c) : NodeIn(c, j).key = k
                /\ Found(k, d) <=> \E j \in Slots(d[i]) : NodeIn(d[i], j).key = k
<1>1. d \in [0 .. n - 1 -> Cells] /\ DOMAIN d = 0 .. n - 1
  BY TableParts
<1>2. /\ DOMAIN e = DOMAIN d /\ e[i] = c
      /\ \A l \in DOMAIN d : l # i => e[l] = d[l]
  BY <1>1 DEF With
<1>3. \A k : Index(k, e) = Index(k, d)
  BY <1>2 DEF Index, Buckets
<1>4. ASSUME Placed(d), KeysOnce(c), \A j \in Slots(c) : Index(NodeIn(c, j).key, d) = i
      PROVE  Placed(e)
  <2>1. ASSUME NEW l \in DOMAIN e
        PROVE  /\ KeysOnce(e[l])
               /\ \A j \in Slots(e[l]) : Index(NodeIn(e[l], j).key, d) = l
    BY <1>2, <1>4 DEF Placed
  <2> QED
    BY <1>3, <2>1 DEF Placed
<1>5. ASSUME NEW k \in Keys, Index(k, d) # i PROVE Found(k, e) <=> Found(k, d)
  <2>1. Index(k, d) \in DOMAIN d
    BY <1>1, IndexInTable
  <2>2. e[Index(k, d)] = d[Index(k, d)]
    BY <1>2, <1>5, <2>1
  <2> QED
    BY <1>3, <2>2 DEF Found
<1>6. ASSUME NEW k \in Keys, Index(k, d) = i
      PROVE  /\ Found(k, e) <=> \E j \in Slots(c) : NodeIn(c, j).key = k
             /\ Found(k, d) <=> \E j \in Slots(d[i]) : NodeIn(d[i], j).key = k
  <2>1. Found(k, e) <=> Has(Nodes(c), k)
    BY <1>2, <1>3, <1>6 DEF Found
  <2> QED
    BY <1>6, <2>1, HasSlot, FoundSlot
<1> QED
  BY <1>3, <1>4, <1>5, <1>6

\* A new node in whatever bucket hides no key, if no chain is cut off.
LEMMA InsertFinds ==
    ASSUME hash_fn \in [Keys -> Nat], NEW n \in Nat \ {0}, NEW d, IsTable(d, n),
           NEW nd \in NodeSet, NEW i \in 0 .. n - 1, NEW e, e = With(d, i, Inserted(d[i], nd))
    PROVE  /\ Headed(d) => \A k \in Keys : Found(k, d) => Found(k, e)
           /\ \A k \in Keys : Found(k, e) => Found(k, d) \/ k = nd.key
           /\ i = Index(nd.key, d) => Found(nd.key, e)
           /\ i = Index(nd.key, d) /\ ~Found(nd.key, d) /\ Placed(d) => Placed(e)
<1> DEFINE c == Inserted(d[i], nd)
<1>1. d[i] \in Cells /\ DOMAIN d = 0 .. n - 1 /\ nd.key \in Keys
  BY TableParts DEF NodeSet
<1>2. c \in Cells /\ \E j \in Slots(c) : NodeIn(c, j) = nd
  BY <1>1, InsertedCell
<1>3. /\ KeysOnce(d[i]) /\ ~Has(Nodes(d[i]), nd.key) => KeysOnce(c)
      /\ (d[i].head = <<>> => d[i].chain = <<>>) =>
            \A s \in Slots(d[i]) : \E j \in Slots(c) : NodeIn(c, j) = NodeIn(d[i], s)
      /\ \A j \in Slots(c) :
            NodeIn(c, j) = nd \/ \E s \in Slots(d[i]) : NodeIn(d[i], s) = NodeIn(c, j)
  BY <1>1, InsertedNodes
<1> HIDE DEF c
<1>4. e = With(d, i, c)
  BY DEF c
<1>5. /\ \A k : Index(k, e) = Index(k, d)
      /\ Placed(d) /\ KeysOnce(c) /\ (\A j \in Slots(c) : Index(NodeIn(c, j).key, d) = i)
            => Placed(e)
      /\ \A k \in Keys : Index(k, d) # i => (Found(k, e) <=> Found(k, d))
      /\ \A k \in Keys : Index(k, d) = i =>
            /\ Found(k, e) <=> \E j \in Slots(c) : NodeIn(c, j).key = k
            /\ Found(k, d) <=> \E j \in Slots(d[i]) : NodeIn(d[i], j).key = k
  BY <1>2, <1>4, BucketPlaced
<1>6. Headed(d) => \A s \in Slots(d[i]) : \E j \in Slots(c) : NodeIn(c, j) = NodeIn(d[i], s)
  BY <1>1, <1>3 DEF Headed
<1>7. ASSUME NEW k \in Keys
      PROVE  /\ Headed(d) /\ Found(k, d) => Found(k, e)
             /\ Found(k, e) => Found(k, d) \/ k = nd.key
  <2>1. CASE Index(k, d) # i
    BY <1>5, <2>1
  <2>2. CASE Index(k, d) = i
    <3>1. ASSUME Headed(d), Found(k, d) PROVE Found(k, e)
      <4>1. PICK s \in Slots(d[i]) : NodeIn(d[i], s).key = k
        BY <1>5, <2>2, <3>1
      <4>2. PICK j \in Slots(c) : NodeIn(c, j) = NodeIn(d[i], s)
        BY <1>6, <3>1
      <4> QED
        BY <1>5, <2>2, <4>1, <4>2
    <3>2. ASSUME Found(k, e), k # nd.key PROVE Found(k, d)
      <4>1. PICK j \in Slots(c) : NodeIn(c, j).key = k
        BY <1>5, <2>2, <3>2
      <4>2. PICK s \in Slots(d[i]) : NodeIn(d[i], s) = NodeIn(c, j)
        BY <1>3, <3>2, <4>1
      <4> QED
        BY <1>5, <2>2, <4>1, <4>2
    <3> QED
      BY <3>1, <3>2
  <2> QED
    BY <2>1, <2>2
<1>8. ASSUME i = Index(nd.key, d) PROVE Found(nd.key, e)
  BY <1>1, <1>2, <1>5, <1>8
<1>9. ASSUME i = Index(nd.key, d), ~Found(nd.key, d), Placed(d) PROVE Placed(e)
  <2>1. KeysOnce(d[i]) /\ \A s \in Slots(d[i]) : Index(NodeIn(d[i], s).key, d) = i
    BY <1>1, <1>9 DEF Placed
  <2>2. ~Has(Nodes(d[i]), nd.key)
    BY <1>9 DEF Found
  <2>3. \A j \in Slots(c) : Index(NodeIn(c, j).key, d) = i
    BY <1>3, <1>9, <2>1
  <2> QED
    BY <1>3, <1>5, <1>9, <2>1, <2>2, <2>3
<1> QED
  BY <1>7, <1>8, <1>9

\* A new value changes no key.
LEMMA UpdateFinds ==
    ASSUME hash_fn \in [Keys -> Nat], NEW n \in Nat \ {0}, NEW d, IsTable(d, n),
           NEW nd \in NodeSet, Found(nd.key, d),
           NEW e, e = With(d, Index(nd.key, d), Updated(d[Index(nd.key, d)], nd))
    PROVE  /\ \A k \in Keys : Found(k, e) <=> Found(k, d)
           /\ Placed(d) => Placed(e)
<1> DEFINE i == Index(nd.key, d)
           c == Updated(d[i], nd)
<1>1. nd.key \in Keys
  BY DEF NodeSet
<1>2. i \in 0 .. n - 1 /\ d[i] \in Cells /\ DOMAIN d = 0 .. n - 1
  BY <1>1, IndexInTable, TableParts
<1>3. Has(Nodes(d[i]), nd.key)
  BY DEF Found
<1>4. /\ c \in Cells /\ Slots(c) = Slots(d[i])
      /\ \A j \in Slots(d[i]) : NodeIn(c, j).key = NodeIn(d[i], j).key
  <2>1. PICK s \in Slots(d[i]) :
            /\ NodeIn(d[i], s).key = nd.key /\ NodeIn(c, s) = nd
            /\ \A j \in Slots(d[i]) \ {s} : NodeIn(c, j) = NodeIn(d[i], j)
    BY <1>2, <1>3, UpdatedCell
  <2>2. c \in Cells /\ Slots(c) = Slots(d[i])
    BY <1>2, <1>3, UpdatedCell
  <2> HIDE DEF c, i
  <2>3. \A j \in Slots(d[i]) : NodeIn(c, j).key = NodeIn(d[i], j).key
    BY <2>1
  <2> QED
    BY <2>2, <2>3
<1>5. e = With(d, i, c)
  OBVIOUS
<1> HIDE DEF c, i
<1>6. /\ Placed(d) /\ KeysOnce(c) /\ (\A j \in Slots(c) : Index(NodeIn(c, j).key, d) = i)
            => Placed(e)
      /\ \A k \in Keys : Index(k, d) # i => (Found(k, e) <=> Found(k, d))
      /\ \A k \in Keys : Index(k, d) = i =>
            /\ Found(k, e) <=> \E j \in Slots(c) : NodeIn(c, j).key = k
            /\ Found(k, d) <=> \E j \in Slots(d[i]) : NodeIn(d[i], j).key = k
  BY <1>2, <1>4, <1>5, BucketPlaced
<1>7. \A k \in Keys : Found(k, e) <=> Found(k, d)
  BY <1>4, <1>6
<1>8. ASSUME Placed(d) PROVE Placed(e)
  <2>1. KeysOnce(d[i]) /\ \A j \in Slots(d[i]) : Index(NodeIn(d[i], j).key, d) = i
    BY <1>2, <1>8 DEF Placed
  <2>2. KeysOnce(c) /\ \A j \in Slots(c) : Index(NodeIn(c, j).key, d) = i
    BY <1>4, <2>1 DEF KeysOnce
  <2> QED
    BY <1>6, <1>8, <2>2
<1> QED
  BY <1>7, <1>8

\* Unsetting a key hides no other, and if it is there once, it is gone.
LEMMA RemoveFinds ==
    ASSUME hash_fn \in [Keys -> Nat], NEW n \in Nat \ {0}, NEW d, IsTable(d, n),
           NEW k \in Keys, Found(k, d),
           NEW e, e = With(d, Index(k, d), Removed(d[Index(k, d)], k))
    PROVE  /\ \A j \in Keys : j # k /\ Found(j, d) => Found(j, e)
           /\ \A j \in Keys : Found(j, e) => Found(j, d)
           /\ Placed(d) => Placed(e) /\ ~Found(k, e)
<1> DEFINE i == Index(k, d)
           c == Removed(d[i], k)
<1>1. i \in 0 .. n - 1 /\ d[i] \in Cells /\ DOMAIN d = 0 .. n - 1
  BY IndexInTable, TableParts
<1>2. Has(Nodes(d[i]), k)
  BY DEF Found
<1>3. /\ c \in Cells
      /\ \E f \in [Slots(c) -> Slots(d[i])] :
            /\ \A a, b \in Slots(c) : f[a] = f[b] => a = b
            /\ \A a \in Slots(c) : NodeIn(c, a) = NodeIn(d[i], f[a])
            /\ \E t \in Slots(d[i]) :
                  /\ NodeIn(d[i], t).key = k
                  /\ \A a \in Slots(d[i]) \ {t} : \E b \in Slots(c) : f[b] = a
                  /\ \A a \in Slots(c) : f[a] # t
  BY <1>1, <1>2, RemovedCell
<1>4. e = With(d, i, c) /\ i = Index(k, d) /\ c \in Cells
  BY <1>3
<1> HIDE DEF c, i
<1>5. /\ \A l : Index(l, e) = Index(l, d)
      /\ Placed(d) /\ KeysOnce(c) /\ (\A j \in Slots(c) : Index(NodeIn(c, j).key, d) = i)
            => Placed(e)
      /\ \A l \in Keys : Index(l, d) # i => (Found(l, e) <=> Found(l, d))
      /\ \A l \in Keys : Index(l, d) = i =>
            /\ Found(l, e) <=> \E j \in Slots(c) : NodeIn(c, j).key = l
            /\ Found(l, d) <=> \E j \in Slots(d[i]) : NodeIn(d[i], j).key = l
  <2>1. i \in 0 .. n - 1 /\ c \in Cells /\ e = With(d, i, c)
    BY <1>1, <1>4
  <2> QED
    BY <2>1, BucketPlaced
<1>6. PICK f \in [Slots(c) -> Slots(d[i])] :
        /\ \A a, b \in Slots(c) : f[a] = f[b] => a = b
        /\ \A a \in Slots(c) : NodeIn(c, a) = NodeIn(d[i], f[a])
        /\ \E t \in Slots(d[i]) :
              /\ NodeIn(d[i], t).key = k
              /\ \A a \in Slots(d[i]) \ {t} : \E b \in Slots(c) : f[b] = a
              /\ \A a \in Slots(c) : f[a] # t
  BY <1>3
<1>7. PICK t \in Slots(d[i]) :
        /\ NodeIn(d[i], t).key = k
        /\ \A a \in Slots(d[i]) \ {t} : \E b \in Slots(c) : f[b] = a
        /\ \A a \in Slots(c) : f[a] # t
  BY <1>6
<1>8. ASSUME NEW j \in Keys
      PROVE  /\ j # k /\ Found(j, d) => Found(j, e)
             /\ Found(j, e) => Found(j, d)
  <2>1. CASE Index(j, d) # i
    BY <1>5, <2>1
  <2>2. CASE Index(j, d) = i
    <3>1. ASSUME j # k, NEW a \in Slots(d[i]), NodeIn(d[i], a).key = j
          PROVE  \E b \in Slots(c) : NodeIn(c, b).key = j
      BY <1>6, <1>7, <3>1
    <3>2. ASSUME NEW b \in Slots(c), NodeIn(c, b).key = j
          PROVE  \E a \in Slots(d[i]) : NodeIn(d[i], a).key = j
      BY <1>6, <3>2
    <3> QED
      BY <1>5, <2>2, <3>1, <3>2
  <2> QED
    BY <2>1, <2>2
<1>9. ASSUME Placed(d) PROVE Placed(e) /\ ~Found(k, e)
  <2>1. KeysOnce(d[i]) /\ \A a \in Slots(d[i]) : Index(NodeIn(d[i], a).key, d) = i
    BY <1>1, <1>9 DEF Placed
  <2>2. \A a, b \in Slots(d[i]) : NodeIn(d[i], a).key = NodeIn(d[i], b).key => a = b
    BY <2>1 DEF KeysOnce
  <2>3. KeysOnce(c)
    <3>1. ASSUME NEW a \in Slots(c), NEW b \in Slots(c), NodeIn(c, a).key = NodeIn(c, b).key
          PROVE  a = b
      BY <1>6, <2>2, <3>1
    <3> QED
      BY <3>1 DEF KeysOnce
  <2>4. \A a \in Slots(c) : Index(NodeIn(c, a).key, d) = i
    BY <1>6, <2>1
  <2>5. \A a \in Slots(c) : NodeIn(c, a).key # k
    BY <1>6, <1>7, <2>2
  <2> QED
    BY <1>4, <1>5, <1>9, <2>3, <2>4, <2>5
<1> QED
  BY <1>8, <1>9

-----------------------------------------------------------------------------
(* rehash.                                                                 *)

LEMMA StoredTable ==
    ASSUME hash_fn \in [Keys -> Nat], NEW n \in Nat \ {0}, NEW d, IsTable(d, n), Headed(d),
           NEW nd \in NodeSet
    PROVE  /\ IsTable(Stored(d, nd), n) /\ Headed(Stored(d, nd))
           /\ Placed(d) => Placed(Stored(d, nd))
           /\ \A k \in Keys : Found(k, Stored(d, nd)) <=> Found(k, d) \/ k = nd.key
<1> DEFINE i == Index(nd.key, d)
           e == Stored(d, nd)
<1>1. nd.key \in Keys
  BY DEF NodeSet
<1>2. i \in 0 .. n - 1
  BY <1>1, IndexInTable
<1>3. CASE Found(nd.key, d)
  <2>1. e = With(d, i, Updated(d[i], nd))
    BY <1>3 DEF Stored, With
  <2> HIDE DEF e
  <2> QED
    BY <1>3, <2>1, UpdateKeeps, UpdateFinds DEF e
<1>4. CASE ~Found(nd.key, d)
  <2>1. e = With(d, i, Inserted(d[i], nd))
    BY <1>4 DEF Stored, With
  <2> HIDE DEF e
  <2>2. IsTable(e, n) /\ Headed(e)
    BY <1>2, <2>1, InsertGrows
  <2>3. /\ \A k \in Keys : Found(k, d) => Found(k, e)
        /\ \A k \in Keys : Found(k, e) => Found(k, d) \/ k = nd.key
        /\ Found(nd.key, e)
        /\ Placed(d) => Placed(e)
    BY <1>2, <1>4, <2>1, InsertFinds
  <2> QED
    BY <2>2, <2>3 DEF e
<1> QED
  BY <1>3, <1>4

\* The table after every prefix of the nodes.
Stores(d, walk, l, f) ==
    f = [n \in 0 .. l |-> IF n = 0 THEN d ELSE Stored(f[n - 1], walk[n])]

LEMMA StoresExist ==
    ASSUME NEW d, NEW walk, NEW l \in Nat
    PROVE  \E f : Stores(d, walk, l, f)
<1> DEFINE S == {m \in Nat : ~\E f : Stores(d, walk, m, f)}
<1>1. SUFFICES ASSUME S # {} PROVE FALSE
  OBVIOUS
<1>2. PICK m \in S : \A o \in S : m <= o
  BY <1>1, Least
<1>3. m \in Nat /\ ~\E f : Stores(d, walk, m, f)
  OBVIOUS
<1>4. m # 0
  <2> DEFINE f == [n \in 0 .. 0 |-> d]
  <2>1. f = [n \in 0 .. 0 |-> IF n = 0 THEN d ELSE Stored(f[n - 1], walk[n])]
    OBVIOUS
  <2> HIDE DEF f
  <2>2. Stores(d, walk, 0, f)
    BY <2>1 DEF Stores
  <2> QED
    BY <1>3, <2>2
<1>5. PICK f : Stores(d, walk, m - 1, f)
  <2>1. m - 1 \in Nat /\ ~(m <= m - 1)
    BY <1>3, <1>4
  <2>2. m - 1 \notin S
    BY <1>2, <2>1
  <2> QED
    BY <2>1, <2>2
<1> HIDE DEF S
<1> DEFINE g == [n \in 0 .. m |-> IF n < m THEN f[n] ELSE Stored(f[n - 1], walk[n])]
<1>6. ASSUME NEW n \in 0 .. m
      PROVE  g[n] = IF n = 0 THEN d ELSE Stored(g[n - 1], walk[n])
  <2>1. \A o \in 0 .. m - 1 : f[o] = IF o = 0 THEN d ELSE Stored(f[o - 1], walk[o])
    BY <1>5 DEF Stores
  <2>2. CASE n < m
    <3>1. n \in 0 .. m - 1 /\ (n # 0 => n - 1 \in 0 .. m /\ n - 1 < m)
      BY <1>3, <2>2
    <3>2. g[n] = f[n] /\ (n # 0 => g[n - 1] = f[n - 1])
      BY <2>2, <3>1
    <3> QED
      BY <2>1, <3>1, <3>2
  <2>3. CASE n = m
    <3>1. n - 1 \in 0 .. m /\ n - 1 < m /\ ~(n < m) /\ n # 0
      BY <1>3, <1>4, <2>3
    <3>2. g[n] = Stored(f[n - 1], walk[n]) /\ g[n - 1] = f[n - 1]
      BY <3>1
    <3> QED
      BY <3>1, <3>2
  <2> QED
    BY <1>3, <2>2, <2>3
<1>7. g = [n \in 0 .. m |-> g[n]]
  OBVIOUS
<1> HIDE DEF g
<1>8. g = [n \in 0 .. m |-> IF n = 0 THEN d ELSE Stored(g[n - 1], walk[n])]
  BY <1>6, <1>7
<1> QED
  BY <1>3, <1>8 DEF Stores

LEMMA StoredAllTable ==
    ASSUME hash_fn \in [Keys -> Nat], NEW n \in Nat \ {0}, NEW d, IsTable(d, n), Headed(d),
           Placed(d), NEW walk \in Seq(NodeSet)
    PROVE  /\ IsTable(StoredAll(d, walk), n) /\ Headed(StoredAll(d, walk))
           /\ Placed(StoredAll(d, walk))
           /\ \A k \in Keys : Found(k, StoredAll(d, walk)) <=>
                Found(k, d) \/ \E o \in 1 .. Len(walk) : walk[o].key = k
<1> DEFINE l == Len(walk)
           f == CHOOSE f : Stores(d, walk, l, f)
           Good(m) == /\ IsTable(f[m], n) /\ Headed(f[m]) /\ Placed(f[m])
                      /\ \A k \in Keys : Found(k, f[m]) <=>
                            Found(k, d) \/ \E o \in 1 .. m : walk[o].key = k
           Bad == {m \in 0 .. l : ~Good(m)}
<1>1. l \in Nat
  BY LenProperties
<1>2. Stores(d, walk, l, f)
  BY <1>1, StoresExist
<1>3. StoredAll(d, walk) = f[l]
  BY DEF StoredAll, Stores
<1> HIDE DEF f
<1>4. \A m \in 0 .. l : f[m] = IF m = 0 THEN d ELSE Stored(f[m - 1], walk[m])
  BY <1>2 DEF Stores
<1>5. Bad = {}
  <2>1. SUFFICES ASSUME Bad # {} PROVE FALSE
    OBVIOUS
  <2>2. Bad \subseteq Nat
    OBVIOUS
  <2>3. PICK m \in Bad : \A o \in Bad : m <= o
    BY <2>1, <2>2, Least
  <2>4. m \in 0 .. l /\ ~Good(m)
    OBVIOUS
  <2>5. m # 0 /\ 0 \in 0 .. l
    <3>1. 0 \in 0 .. l /\ 1 .. 0 = {}
      BY <1>1
    <3>2. f[0] = d
      BY <1>4, <3>1
    <3>3. Good(0)
      BY <3>1, <3>2
    <3> HIDE DEF Good
    <3> QED
      BY <2>4, <3>1, <3>3
  <2>6. m - 1 \in 0 .. l /\ ~(m <= m - 1) /\ m \in 1 .. l
    BY <1>1, <2>4, <2>5
  <2>7. m - 1 \notin Bad
    BY <2>3, <2>6
  <2>8. Good(m - 1)
    BY <2>6, <2>7
  <2>9. walk[m] \in NodeSet
    BY <2>6, ElementOfSeq
  <2>10. f[m] = Stored(f[m - 1], walk[m])
    BY <1>4, <2>4, <2>5
  <2>11. /\ IsTable(f[m], n) /\ Headed(f[m]) /\ Placed(f[m])
         /\ \A k \in Keys : Found(k, f[m]) <=> Found(k, f[m - 1]) \/ k = walk[m].key
    BY <2>8, <2>9, <2>10, StoredTable
  <2>12. 1 .. m = (1 .. m - 1) \cup {m}
    BY <2>6
  <2>13. Good(m)
    BY <2>8, <2>11, <2>12
  <2> HIDE DEF Good
  <2> QED
    BY <2>4, <2>13
<1>6. l \in 0 .. l
  BY <1>1
<1>7. Good(l)
  BY <1>5, <1>6
<1> QED
  BY <1>3, <1>7

\* How many of the slots in S come before p.
Rank(S, p) == Cardinality({q \in S : ~NotBefore(q, p)})

\* Each number of slots before it is that of one filled slot, and of no other.
LEMMA Ranks ==
    ASSUME NEW S, S \subseteq Nat \X Nat, IsFiniteSet(S)
    PROVE  /\ \A m \in 0 .. Cardinality(S) - 1 : \E p \in S : Rank(S, p) = m
           /\ \A p \in S : Rank(S, p) \in 0 .. Cardinality(S) - 1
           /\ \A p, q \in S : Rank(S, p) = Rank(S, q) => p = q
<1> DEFINE Before(p) == {q \in S : ~NotBefore(q, p)}
           f == [p \in S |-> Cardinality(Before(p))]
           T == 0 .. Cardinality(S) - 1
<1>1. Cardinality(S) \in Nat
  BY FS_CardinalityType
<1>2. \A p, q \in S : NotBefore(p, q) <=> p[1] > q[1] \/ (p[1] = q[1] /\ p[2] >= q[2])
  BY DEF NotBefore
<1>3. \A p \in S : p[1] \in Nat /\ p[2] \in Nat /\ p = <<p[1], p[2]>>
  OBVIOUS
<1>4. ASSUME NEW p \in S PROVE f[p] \in T /\ IsFiniteSet(Before(p))
  <2>1. NotBefore(p, p)
    BY <1>2, <1>3
  <2>2. Before(p) \in SUBSET (S \ {p})
    BY <2>1
  <2>3. IsFiniteSet(S \ {p}) /\ Cardinality(S \ {p}) = Cardinality(S) - 1
    BY FS_RemoveElement
  <2>4. IsFiniteSet(Before(p)) /\ Cardinality(Before(p)) <= Cardinality(S) - 1
    BY <2>2, <2>3, FS_Subset
  <2>5. Cardinality(Before(p)) \in Nat
    BY <2>4, FS_CardinalityType
  <2> QED
    BY <1>1, <2>4, <2>5
<1>5. ASSUME NEW p \in S, NEW q \in S, p # q PROVE f[p] # f[q]
  <2>1. ASSUME NEW r \in S, NEW s \in S, ~NotBefore(r, s) PROVE f[r] # f[s]
    <3>1. ASSUME NEW u \in Before(r) PROVE u \in Before(s)
      BY <1>2, <1>3, <2>1, <3>1
    <3>2. r \notin Before(r) /\ r \in Before(s)
      BY <1>2, <1>3, <2>1
    <3>3. Before(r) \cup {r} \in SUBSET Before(s)
      BY <3>1, <3>2
    <3> HIDE DEF Before
    <3>4. /\ IsFiniteSet(Before(r) \cup {r})
          /\ Cardinality(Before(r) \cup {r}) = Cardinality(Before(r)) + 1
      BY <1>4, <3>2, FS_AddElement
    <3>5. Cardinality(Before(r) \cup {r}) <= Cardinality(Before(s))
      BY <1>4, <3>3, FS_Subset
    <3>6. f[r] \in Nat /\ f[s] \in Nat
      BY <1>4
    <3> QED
      BY <3>4, <3>5, <3>6
  <2>2. ~NotBefore(p, q) \/ ~NotBefore(q, p)
    <3>1. p[1] # q[1] \/ p[2] # q[2]
      BY <1>3, <1>5
    <3> QED
      BY <1>2, <1>3, <3>1
  <2> QED
    BY <2>1, <2>2
<1>6. f \in Injection(S, T)
  BY <1>4, <1>5 DEF Injection, IsInjective
<1>7. IsFiniteSet(T) /\ Cardinality(T) = Cardinality(S)
  <2>1. 0 \in Int /\ Cardinality(S) - 1 \in Int
    BY <1>1
  <2>2. /\ IsFiniteSet(T)
        /\ Cardinality(T) =
              IF 0 > Cardinality(S) - 1 THEN 0 ELSE (Cardinality(S) - 1) - 0 + 1
    BY <2>1, FS_Interval, Zenon
  <2> QED
    BY <1>1, <2>2
<1>8. f \in Surjection(S, T)
  <2> HIDE DEF f, T
  <2> QED
    BY <1>6, <1>7, FS_Injection
<1>9. \A m \in T : \E p \in S : f[p] = m
  BY <1>8 DEF Surjection
<1>10. \A p \in S : f[p] = Rank(S, p)
  BY DEF Rank
<1> HIDE DEF f
<1> QED
  BY <1>4, <1>5, <1>9, <1>10

\* An iteration gives out every node, and nothing else.
LEMMA WalkNodes ==
    ASSUME NEW n \in Nat, NEW d, IsTable(d, n)
    PROVE  /\ Walk(d) \in Seq(NodeSet) /\ Len(Walk(d)) = Size(d)
           /\ \A m \in 1 .. Size(d) : \E p \in Filled(d) : Walk(d)[m] = NodeAt(d, p)
           /\ \A p \in Filled(d) : \E m \in 1 .. Size(d) : Walk(d)[m] = NodeAt(d, p)
<1>1. Size(d) \in Nat /\ IsFiniteSet(Filled(d)) /\ Size(d) = Cardinality(Filled(d))
  BY TableParts DEF IsTable, Size
<1>2. Filled(d) \subseteq Nat \X Nat /\ \A p \in Filled(d) : NodeAt(d, p) \in NodeSet
  BY FilledSlots
<1>3. /\ \A m \in 0 .. Size(d) - 1 : \E p \in Filled(d) : Rank(Filled(d), p) = m
      /\ \A p \in Filled(d) : Rank(Filled(d), p) \in 0 .. Size(d) - 1
      /\ \A p, q \in Filled(d) : Rank(Filled(d), p) = Rank(Filled(d), q) => p = q
  BY <1>1, <1>2, Ranks
<1>4. \A m : Nth(d, m) = CHOOSE p \in Filled(d) : Rank(Filled(d), p) = m - 1
  BY DEF Nth, Rank
<1>5. ASSUME NEW m \in 1 .. Size(d)
      PROVE  /\ Nth(d, m) \in Filled(d) /\ Rank(Filled(d), Nth(d, m)) = m - 1
             /\ NodeAt(d, Nth(d, m)) \in NodeSet
  <2>1. m - 1 \in 0 .. Size(d) - 1
    BY <1>1
  <2>2. \E p \in Filled(d) : Rank(Filled(d), p) = m - 1
    BY <1>3, <2>1
  <2> QED
    BY <1>2, <1>4, <2>2
<1>6. /\ Walk(d) \in [1 .. Size(d) -> NodeSet]
      /\ \A m \in 1 .. Size(d) : Walk(d)[m] = NodeAt(d, Nth(d, m))
  BY <1>5 DEF Walk
<1>7. Walk(d) \in Seq(NodeSet) /\ Len(Walk(d)) = Size(d)
  <2>1. DOMAIN Walk(d) = 1 .. Size(d)
    BY <1>6
  <2>2. Walk(d) \in Seq(NodeSet)
    BY <1>1, <1>6
  <2> QED
    BY <1>1, <2>1, <2>2, LenProperties
<1>8. ASSUME NEW p \in Filled(d)
      PROVE  \E m \in 1 .. Size(d) : Walk(d)[m] = NodeAt(d, p)
  <2>1. Rank(Filled(d), p) + 1 \in 1 .. Size(d) /\ (Rank(Filled(d), p) + 1) - 1 = Rank(Filled(d), p)
    BY <1>1, <1>3
  <2>2. Nth(d, Rank(Filled(d), p) + 1) = p
    BY <1>3, <1>5, <2>1
  <2> QED
    BY <1>6, <2>1, <2>2
<1> QED
  BY <1>5, <1>6, <1>7, <1>8

\* The keys of its nodes are found, if they are in place; and no others.
LEMMA NodeFound ==
    ASSUME hash_fn \in [Keys -> Nat], NEW n \in Nat \ {0}, NEW d, IsTable(d, n),
           NEW k \in Keys
    PROVE  /\ Found(k, d) => \E p \in Filled(d) : NodeAt(d, p).key = k
           /\ Placed(d) /\ (\E p \in Filled(d) : NodeAt(d, p).key = k) => Found(k, d)
<1>1. Index(k, d) \in 0 .. n - 1 /\ DOMAIN d = 0 .. n - 1
  BY IndexInTable, TableParts
<1>2. ASSUME Found(k, d) PROVE \E p \in Filled(d) : NodeAt(d, p).key = k
  <2>1. PICK j \in Slots(d[Index(k, d)]) : NodeIn(d[Index(k, d)], j).key = k
    BY <1>2, FoundSlot
  <2>2. /\ <<Index(k, d), j>> \in Filled(d)
        /\ NodeAt(d, <<Index(k, d), j>>) = NodeIn(d[Index(k, d)], j)
    BY <1>1, FilledSlots
  <2> QED
    BY <2>1, <2>2
<1>3. ASSUME Placed(d), NEW p \in Filled(d), NodeAt(d, p).key = k PROVE Found(k, d)
  <2>1. PICK i \in 0 .. n - 1 : \E j \in Slots(d[i]) : p = <<i, j>>
    BY FilledSlots
  <2>2. PICK j \in Slots(d[i]) : p = <<i, j>>
    BY <2>1
  <2>3. NodeIn(d[i], j).key = k
    BY <1>3, <2>2, FilledSlots
  <2>4. Index(k, d) = i
    BY <1>1, <1>3, <2>3 DEF Placed
  <2> QED
    BY <2>3, <2>4, FoundSlot
<1> QED
  BY <1>2, <1>3

\* A table that is placed has one node of each key found, with its value.
LEMMA PlacedOnce ==
    ASSUME NEW n \in Nat, NEW d, IsTable(d, n), Placed(d),
           NEW p \in Filled(d), NEW q \in Filled(d), NodeAt(d, p).key = NodeAt(d, q).key
    PROVE  p = q
<1>1. PICK i \in 0 .. n - 1 : \E j \in Slots(d[i]) : p = <<i, j>>
  BY FilledSlots
<1>2. PICK j \in Slots(d[i]) : p = <<i, j>>
  BY <1>1
<1>3. PICK r \in 0 .. n - 1 : \E s \in Slots(d[r]) : q = <<r, s>>
  BY FilledSlots
<1>4. PICK s \in Slots(d[r]) : q = <<r, s>>
  BY <1>3
<1>5. NodeIn(d[i], j).key = NodeIn(d[r], s).key
  BY <1>2, <1>4, FilledSlots
<1>6. DOMAIN d = 0 .. n - 1
  BY TableParts
<1>7. i = r
  BY <1>5, <1>6 DEF Placed
<1>8. j = s
  BY <1>5, <1>6, <1>7 DEF Placed, KeysOnce
<1> QED
  BY <1>2, <1>4, <1>7, <1>8

LEMMA NewDataTable ==
    ASSUME NEW h \in Nat,
           NEW n \in Nat, n = ((SizeHint(h) + 1) * ThreshDen) \div ThreshNum
    PROVE  /\ IsTable(NewData(h), n) /\ Headed(NewData(h)) /\ Size(NewData(h)) = 0
           /\ Filled(NewData(h)) = {} /\ Placed(NewData(h))
<1> DEFINE d == NewData(h)
<1>1. d = [i \in 0 .. n - 1 |-> EmptyBucket]
  BY DEF NewData
<1>2. d \in [0 .. n - 1 -> Cells] /\ DOMAIN d = 0 .. n - 1
      /\ \A i \in 0 .. n - 1 : Slots(d[i]) = {} /\ d[i] = EmptyBucket
  BY <1>1, EmptyCell
<1> HIDE DEF d
<1>3. Filled(d) = {}
  BY <1>2 DEF Filled
<1>4. IsTable(d, n) /\ Size(d) = 0
  BY <1>2, <1>3, FS_EmptySet DEF IsTable, Size
<1>5. Headed(d)
  BY <1>2 DEF Headed, EmptyBucket
<1>6. Placed(d)
  BY <1>2 DEF Placed, KeysOnce
<1> QED
  BY <1>3, <1>4, <1>5, <1>6 DEF d

\* A table for twice the elements has room for them, and no fewer buckets.
LEMMA Doubling ==
    ASSUME NEW e \in Nat, NEW h \in Nat, h >= 2 * e,
           NEW num \in Nat \ {0}, NEW den \in Nat, NEW n \in Nat \ {0},
           (e + 1) * den > num * n,
           NEW m \in Nat, NEW r \in 0 .. num - 1, (h + 1) * den = num * m + r
    PROVE  m >= n /\ e * den <= num * m
<1>1. \A a, b, c \in Nat : a <= b => c * a <= c * b /\ c * a \in Nat /\ c * b \in Nat
  OBVIOUS
<1>2. (e + 1) * den = e * den + den /\ (h + 1) * den = h * den + den
  OBVIOUS
<1>3. h * den >= (2 * e) * den /\ (2 * e) * den = e * den + e * den
  <2>1. den * h >= den * (2 * e)
    BY <1>1
  <2>2. den * (2 * e) = den * e + den * e
    OBVIOUS
  <2>3. den * h = h * den /\ den * e = e * den /\ den * (2 * e) = (2 * e) * den
    OBVIOUS
  <2> QED
    BY <2>1, <2>2, <2>3
<1>4. e * den \in Nat /\ h * den \in Nat /\ num * m \in Nat /\ num * n \in Nat
  OBVIOUS
<1>5. num * n >= num
  <2>1. num * 1 <= num * n
    BY <1>1
  <2> QED
    BY <1>4, <2>1
<1>6. e * den <= num * m
  BY <1>2, <1>3, <1>4, <1>5
<1>7. m >= n
  <2>1. SUFFICES ASSUME m <= n - 1 PROVE FALSE
    OBVIOUS
  <2>2. num * m <= num * (n - 1)
    BY <1>1, <2>1
  <2>3. num * (n - 1) = num * n - num
    OBVIOUS
  <2> QED
    BY <1>2, <1>3, <1>4, <2>2, <2>3
<1> QED
  BY <1>6, <1>7

LEMMA RehashedTable ==
    ASSUME hash_fn \in [Keys -> Nat], elts \in Nat, Size(data) <= elts, NeedsRehash,
           NEW n \in Nat \ {0}, IsTable(data, n)
    PROVE  \E m \in Nat \ {0} :
                /\ m >= n /\ Size(data) * ThreshDen <= ThreshNum * m
                /\ IsTable(Rehashed(data), m) /\ Headed(Rehashed(data))
                /\ Placed(Rehashed(data))
                /\ \A k \in Keys : Found(k, Rehashed(data)) <=>
                        \E p \in Filled(data) : NodeAt(data, p).key = k
<1> DEFINE h == SizeHint(elts * 2)
           m == ((h + 1) * ThreshDen) \div ThreshNum
           r == ((h + 1) * ThreshDen) % ThreshNum
<1>1. ThreshNum \in Nat \ {0} /\ ThreshDen \in Nat
  BY SizesAssumption
<1>2. elts * 2 \in Nat /\ h \in Nat /\ h >= 2 * elts
  BY DEF SizeHint
<1>3. Size(data) \in Nat /\ Buckets(data) = n
  BY TableParts
<1>4. (elts + 1) * ThreshDen > ThreshNum * n
  BY <1>3 DEF NeedsRehash, Overloads
<1>5. (h + 1) * ThreshDen \in Nat
  BY <1>1, <1>2
<1>6. m \in Nat /\ r \in 0 .. ThreshNum - 1 /\ (h + 1) * ThreshDen = ThreshNum * m + r
  BY <1>1, <1>5, Division
<1>7. /\ IsTable(NewData(elts * 2), m) /\ Headed(NewData(elts * 2))
      /\ Filled(NewData(elts * 2)) = {} /\ Placed(NewData(elts * 2))
  BY <1>2, <1>6, NewDataTable
<1> HIDE DEF h, m, r
<1>8. m >= n /\ elts * ThreshDen <= ThreshNum * m
  BY <1>1, <1>2, <1>4, <1>6, Doubling
<1>9. Size(data) * ThreshDen <= elts * ThreshDen
  BY <1>1, <1>3
<1>10. m \in Nat \ {0} /\ Size(data) * ThreshDen <= ThreshNum * m
  <2>1. Size(data) * ThreshDen \in Nat /\ elts * ThreshDen \in Nat /\ ThreshNum * m \in Nat
    BY <1>1, <1>3, <1>6
  <2> QED
    BY <1>6, <1>8, <1>9, <2>1
<1>11. /\ Walk(data) \in Seq(NodeSet) /\ Len(Walk(data)) = Size(data)
       /\ \A o \in 1 .. Size(data) : \E p \in Filled(data) : Walk(data)[o] = NodeAt(data, p)
       /\ \A p \in Filled(data) : \E o \in 1 .. Size(data) : Walk(data)[o] = NodeAt(data, p)
  BY WalkNodes
<1>12. /\ IsTable(Rehashed(data), m) /\ Headed(Rehashed(data)) /\ Placed(Rehashed(data))
       /\ \A k \in Keys : Found(k, Rehashed(data)) <=>
            Found(k, NewData(elts * 2)) \/ \E o \in 1 .. Size(data) : Walk(data)[o].key = k
  BY <1>7, <1>10, <1>11, StoredAllTable DEF Rehashed
<1>13. \A k \in Keys : ~Found(k, NewData(elts * 2))
  BY <1>7, <1>10, NodeFound
<1>14. \A k \in Keys : Found(k, Rehashed(data)) <=>
            \E p \in Filled(data) : NodeAt(data, p).key = k
  BY <1>11, <1>12, <1>13
<1> QED
  BY <1>8, <1>10, <1>12, <1>14

-----------------------------------------------------------------------------
(* The inductive invariant.                                                *)

\* hash_init's table.
LEMMA HintTable ==
    \E n \in Nat \ {0} :
        /\ IsTable(NewData(Hint), n) /\ Headed(NewData(Hint)) /\ Placed(NewData(Hint))
        /\ Size(NewData(Hint)) = 0
        /\ DOMAIN NewData(Hint) = 0 .. n - 1 /\ Buckets(NewData(Hint)) = n
<1> DEFINE x == (SizeHint(Hint) + 1) * ThreshDen
           n == x \div ThreshNum
<1>1. /\ ThreshNum \in Nat \ {0} /\ ThreshDen \in Nat /\ Hint \in Nat
      /\ x >= ThreshNum
  BY SizesAssumption
<1>2. x \in Nat
  BY <1>1 DEF SizeHint
<1>3. n = ((SizeHint(Hint) + 1) * ThreshDen) \div ThreshNum
  OBVIOUS
<1> HIDE DEF x
<1>4. n \in Nat /\ x % ThreshNum \in 0 .. ThreshNum - 1 /\ x = ThreshNum * n + (x % ThreshNum)
  BY <1>1, <1>2, Division
<1> HIDE DEF n
<1>5. n # 0
  BY <1>1, <1>2, <1>4
<1>6. /\ IsTable(NewData(Hint), n) /\ Headed(NewData(Hint)) /\ Placed(NewData(Hint))
      /\ Size(NewData(Hint)) = 0
  BY <1>1, <1>3, <1>4, NewDataTable
<1> QED
  BY <1>4, <1>5, <1>6, TableParts

LEMMA InvInit == Init => IInv
<1> SUFFICES ASSUME Init PROVE IInv
  OBVIOUS
<1>1. /\ hash_fn \in HashFns /\ elts = 0 /\ data = NewData(Hint)
      /\ table = "up" /\ reply = <<"init">>
  BY DEF Init
<1>2. PICK n \in Nat \ {0} : IsTable(data, n) /\ Headed(data) /\ Size(data) = 0
  BY <1>1, HintTable
<1>3. Shape
  BY <1>1, <1>2, HashFnsAssumption DEF Shape
<1>4. Counted
  BY <1>1, <1>2 DEF Counted, AllHeaded
<1>5. KeysListed
  BY <1>1 DEF KeysListed
<1> QED
  BY <1>3, <1>4, <1>5 DEF IInv

\* A call that leaves the table as it is.
LEMMA TableSame ==
    ASSUME IInv, UNCHANGED <<hash_fn, elts, data>>, table' = table \/ table = "up"
    PROVE  Shape' /\ Counted'
<1>1. PICK n \in Nat : IsTable(data, n) /\ (table # "freed" => n # 0)
  BY DEF IInv, Shape
<1>2. Shape'
  BY <1>1 DEF IInv, Shape
<1>3. Counted'
  BY DEF IInv, Counted, AllHeaded
<1> QED
  BY <1>2, <1>3

\* The reply says of no key that it was stored.
Silent(r) == ~(r[1] = "set" /\ Len(r) = 3 /\ r[3] = 0)

LEMMA Replies ==
    ASSUME NEW x, NEW y, NEW z, NEW s \in {"get", "size", "begin", "next", "end", "to_array",
                                        "free", "unset"}
    PROVE  /\ Silent(<<s>>) /\ Silent(<<s, x>>) /\ Silent(<<s, x, y>>)
           /\ Silent(<<s, x, y, z>>) /\ Silent(<<"set", x>>) /\ Silent(<<"set", x, 1>>)
  BY DEF Silent

LEMMA SilentListed ==
    ASSUME Silent(reply') PROVE KeysListed'
  BY DEF Silent, KeysListed

LEMMA StoredListed ==
    ASSUME NEW k, reply' = <<"set", k, 0>>,
           \E p \in Filled(data') : NodeAt(data', p).key = k
    PROVE  KeysListed'
  BY DEF KeysListed

LEMMA InvSetFound ==
    ASSUME IInv, NEW k \in Keys, NEW v \in Vals, SetFound(k, v) PROVE IInv'
<1> DEFINE nd == Node(k, v)
<1>1. /\ table = "up" /\ Found(k, data)
      /\ data' = [data EXCEPT ![Index(k, data)] = Updated(data[Index(k, data)], nd)]
      /\ reply' = <<"set", k, 0>>
      /\ hash_fn' = hash_fn /\ elts' = elts /\ table' = table
  BY DEF SetFound, Call
<1>2. nd \in NodeSet /\ nd.key = k
  BY DEF Node, NodeSet
<1> HIDE DEF nd
<1>3. /\ data' = With(data, Index(nd.key, data), Updated(data[Index(nd.key, data)], nd))
      /\ Found(nd.key, data)
  BY <1>1, <1>2 DEF With
<1>4. hash_fn \in [Keys -> Nat] /\ elts \in Nat
  BY DEF IInv, Shape
<1>5. PICK n \in Nat \ {0} : IsTable(data, n)
  BY <1>1 DEF IInv, Shape
<1>6. /\ IsTable(data', n) /\ Filled(data') = Filled(data)
      /\ Headed(data) => Headed(data')
      /\ \E p \in Filled(data') : NodeAt(data', p).key = nd.key
  BY <1>2, <1>3, <1>4, <1>5, UpdateKeeps
<1>7. Shape'
  BY <1>1, <1>4, <1>6 DEF Shape
<1>8. Counted'
  BY <1>1, <1>6 DEF IInv, Counted, AllHeaded, Size
<1>9. KeysListed'
  BY <1>1, <1>2, <1>6, StoredListed
<1> QED
  BY <1>7, <1>8, <1>9 DEF IInv

LEMMA InvSetNew ==
    ASSUME IInv, NEW k \in Keys, NEW v \in Vals, SetNew(k, v) PROVE IInv'
<1> DEFINE nd == Node(k, v)
<1>1. /\ table = "up"
      /\ data' = [data EXCEPT ![Index(k, data)] = Inserted(data[Index(k, data)], nd)]
      /\ elts' = elts + 1 /\ reply' = <<"set", k, 0>>
      /\ hash_fn' = hash_fn /\ table' = table
  BY DEF SetNew, Call
<1>2. nd \in NodeSet /\ nd.key = k
  BY DEF Node, NodeSet
<1> HIDE DEF nd
<1>3. data' = With(data, Index(k, data), Inserted(data[Index(k, data)], nd))
  BY <1>1 DEF With
<1>4. hash_fn \in [Keys -> Nat] /\ elts \in Nat
  BY DEF IInv, Shape
<1>5. PICK n \in Nat \ {0} : IsTable(data, n)
  BY <1>1 DEF IInv, Shape
<1>6. Index(k, data) \in 0 .. n - 1
  BY <1>4, <1>5, IndexInTable
<1>7. /\ IsTable(data', n) /\ Size(data') <= Size(data) + 1
      /\ Headed(data) => Headed(data') /\ Size(data') = Size(data) + 1
      /\ \E p \in Filled(data') : NodeAt(data', p) = nd
  BY <1>2, <1>3, <1>5, <1>6, InsertGrows
<1>8. Size(data) \in Nat /\ Size(data') \in Nat
  BY <1>5, <1>7, TableParts
<1>9. Shape'
  BY <1>1, <1>4, <1>7 DEF Shape
<1>10. Counted'
  BY <1>1, <1>4, <1>7, <1>8 DEF IInv, Counted, AllHeaded
<1>11. KeysListed'
  BY <1>1, <1>2, <1>7, StoredListed
<1> QED
  BY <1>9, <1>10, <1>11 DEF IInv

LEMMA InvSetGrows ==
    ASSUME IInv, NEW k \in Keys, NEW v \in Vals, SetGrows(k, v) PROVE IInv'
<1> DEFINE nd  == Node(k, v)
           new == Rehashed(data)
           i   == Index(k, data)
<1>1. /\ table = "up" /\ NeedsRehash
      /\ data' = [new EXCEPT ![i] = Inserted(new[i], nd)]
      /\ elts' = Size(new) + 1 /\ reply' = <<"set", k, 0>>
      /\ hash_fn' = hash_fn /\ table' = table
  BY DEF SetGrows, Call
<1>2. nd \in NodeSet /\ nd.key = k
  BY DEF Node, NodeSet
<1>3. hash_fn \in [Keys -> Nat] /\ elts \in Nat /\ Size(data) <= elts
  BY DEF IInv, Shape, Counted
<1>4. PICK n \in Nat \ {0} : IsTable(data, n)
  BY <1>1 DEF IInv, Shape
<1>5. PICK m \in Nat \ {0} : m >= n /\ IsTable(new, m) /\ Headed(new)
  BY <1>1, <1>3, <1>4, RehashedTable
<1>6. i \in 0 .. n - 1
  BY <1>3, <1>4, IndexInTable
<1> HIDE DEF nd, new, i
<1>7. i \in 0 .. m - 1
  BY <1>5, <1>6
<1>8. data' = With(new, i, Inserted(new[i], nd))
  BY <1>1 DEF With
<1>9. /\ IsTable(data', m) /\ Headed(data') /\ Size(data') = Size(new) + 1
      /\ \E p \in Filled(data') : NodeAt(data', p) = nd
  BY <1>2, <1>5, <1>7, <1>8, InsertGrows
<1>10. Size(new) \in Nat
  BY <1>5, TableParts
<1>11. Shape'
  BY <1>1, <1>3, <1>9, <1>10 DEF Shape
<1>12. Counted'
  BY <1>1, <1>9, <1>10 DEF Counted, AllHeaded
<1>13. KeysListed'
  BY <1>1, <1>2, <1>9, StoredListed
<1> QED
  BY <1>11, <1>12, <1>13 DEF IInv

LEMMA InvSetNoMemory ==
    ASSUME IInv, NEW k \in Keys, SetNoMemory(k) PROVE IInv'
<1>1. /\ table = "up" /\ reply' = <<"set", k, 1>>
      /\ hash_fn' = hash_fn /\ table' = table
      /\ \/ elts' = elts /\ data' = data
         \/ NeedsRehash /\ data' = Rehashed(data) /\ elts' = Size(data')
  BY DEF SetNoMemory, Call
<1>2. KeysListed'
  BY <1>1, Replies, SilentListed
<1>3. CASE elts' = elts /\ data' = data
  BY <1>1, <1>2, <1>3, TableSame DEF IInv
<1>4. CASE NeedsRehash /\ data' = Rehashed(data) /\ elts' = Size(data')
  <2>1. hash_fn \in [Keys -> Nat] /\ elts \in Nat /\ Size(data) <= elts
    BY DEF IInv, Shape, Counted
  <2>2. PICK n \in Nat \ {0} : IsTable(data, n)
    BY <1>1 DEF IInv, Shape
  <2>3. PICK m \in Nat \ {0} : IsTable(data', m) /\ Headed(data')
    BY <1>4, <2>1, <2>2, RehashedTable
  <2>4. Size(data') \in Nat
    BY <2>3, TableParts
  <2>5. Shape'
    BY <1>1, <1>4, <2>1, <2>3, <2>4 DEF Shape
  <2>6. Counted'
    BY <1>4, <2>3, <2>4 DEF Counted, AllHeaded
  <2> QED
    BY <1>2, <2>5, <2>6 DEF IInv
<1> QED
  BY <1>1, <1>3, <1>4

LEMMA InvUnset ==
    ASSUME IInv, NEW k \in Keys, Unset(k) PROVE IInv'
<1> DEFINE i == Index(k, data)
<1>1. /\ table = "up" /\ "unset" \in Uses /\ reply' = <<"unset", k, 0>>
      /\ data' = IF Found(k, data) THEN [data EXCEPT ![i] = Removed(data[i], k)] ELSE data
      /\ hash_fn' = hash_fn /\ elts' = elts /\ table' = table
  BY DEF Unset, Call
<1>2. KeysListed'
  BY <1>1, Replies, SilentListed
<1>3. CASE ~Found(k, data)
  BY <1>1, <1>2, <1>3, TableSame DEF IInv
<1>4. CASE Found(k, data)
  <2>1. hash_fn \in [Keys -> Nat] /\ elts \in Nat /\ Size(data) <= elts
    BY DEF IInv, Shape, Counted
  <2>2. PICK n \in Nat \ {0} : IsTable(data, n)
    BY <1>1 DEF IInv, Shape
  <2>3. i \in 0 .. n - 1 /\ data[i] \in Cells
    BY <2>1, <2>2, IndexInTable
  <2>4. Has(Nodes(data[i]), k)
    BY <1>4 DEF Found
  <2>5. Removed(data[i], k) \in Cells /\ Slots(Removed(data[i], k)) \subseteq Slots(data[i])
    BY <2>3, <2>4, RemovedCell
  <2>6. data' = With(data, i, Removed(data[i], k))
    BY <1>1, <1>4 DEF With
  <2> HIDE DEF i
  <2>7. IsTable(data', n) /\ Size(data') <= Size(data)
    BY <2>2, <2>3, <2>5, <2>6, BucketChange
  <2>8. Size(data) \in Nat /\ Size(data') \in Nat
    BY <2>2, <2>7, TableParts
  <2>9. Shape'
    BY <1>1, <2>1, <2>7 DEF Shape
  <2>10. Counted'
    BY <1>1, <2>1, <2>7, <2>8 DEF Counted
  <2> QED
    BY <1>2, <2>9, <2>10 DEF IInv
<1> QED
  BY <1>3, <1>4

LEMMA InvFree ==
    ASSUME IInv, Free PROVE IInv'
<1>1. /\ data' = <<>> /\ elts' = 0 /\ table' = "freed"
      /\ reply' = <<"free">> /\ hash_fn' = hash_fn
  BY DEF Free
<1>2. DOMAIN data' = {} /\ data' \in [0 .. 0 - 1 -> Cells]
  <2>1. DOMAIN <<>> = {} /\ 0 .. 0 - 1 = {} /\ <<>> = [i \in {} |-> i]
    OBVIOUS
  <2> QED
    BY <1>1, <2>1
<1>3. Filled(data') = {} /\ Headed(data')
  BY <1>2 DEF Filled, Headed
<1>4. IsTable(data', 0) /\ Size(data') = 0
  BY <1>2, <1>3, FS_EmptySet DEF IsTable, Size
<1>5. Shape'
  <2>1. hash_fn \in [Keys -> Nat]
    BY DEF IInv, Shape
  <2> QED
    BY <1>1, <1>4, <2>1 DEF Shape
<1>6. Counted'
  BY <1>1, <1>3, <1>4 DEF Counted, AllHeaded
<1>7. KeysListed'
  BY <1>1, Replies, SilentListed
<1> QED
  BY <1>5, <1>6, <1>7 DEF IInv

LEMMA InvStep == IInv /\ [Next]_vars => IInv'
<1> SUFFICES ASSUME IInv, [Next]_vars PROVE IInv'
  OBVIOUS
<1>1. ASSUME NEW k \in Keys, NEW v \in Vals, SetFound(k, v) PROVE IInv'
  BY <1>1, InvSetFound
<1>2. ASSUME NEW k \in Keys, NEW v \in Vals, SetNew(k, v) PROVE IInv'
  BY <1>2, InvSetNew
<1>3. ASSUME NEW k \in Keys, NEW v \in Vals, SetGrows(k, v) PROVE IInv'
  BY <1>3, InvSetGrows
<1>4. ASSUME NEW k \in Keys, SetNoMemory(k) PROVE IInv'
  BY <1>4, InvSetNoMemory
<1>5. ASSUME NEW k \in Keys, Unset(k) PROVE IInv'
  BY <1>5, InvUnset
<1>6. ASSUME Free PROVE IInv'
  BY <1>6, InvFree
<1>7. ASSUME NEW k \in Keys,
             SetLocked(k) \/ SetCrashes(k) \/ UnsetLocked(k) \/ Get(k)
      PROVE  IInv'
  <2>1. UNCHANGED <<hash_fn, elts, data>> /\ (table' = table \/ table = "up")
    BY <1>7 DEF SetLocked, SetCrashes, UnsetLocked, Get, Call
  <2>2. Silent(reply')
    <3>1. CASE SetLocked(k)
      <4>1. reply' = <<"set", k, 1>>
        BY <3>1 DEF SetLocked
      <4> QED
        BY <4>1, Replies
    <3>2. CASE SetCrashes(k)
      <4>1. reply' = <<"set", k>>
        BY <3>2 DEF SetCrashes
      <4> QED
        BY <4>1, Replies
    <3>3. CASE UnsetLocked(k)
      <4>1. reply' = <<"unset", k, 1>>
        BY <3>3 DEF UnsetLocked
      <4> QED
        BY <4>1, Replies
    <3>4. CASE Get(k)
      <4>1. reply' = <<"get", k, 1>> \/ reply' = <<"get", k, 0, Value(k, data)>>
        BY <3>4 DEF Get
      <4> QED
        BY <4>1, Replies
    <3> QED
      BY <1>7, <3>1, <3>2, <3>3, <3>4
  <2> QED
    BY <2>1, <2>2, TableSame, SilentListed DEF IInv
<1>8. ASSUME NEW i \in Iters, Begin(i) \/ NextFilled(i) \/ NextNone(i) \/ End(i)
      PROVE  IInv'
  <2>1. UNCHANGED <<hash_fn, elts, data, table>>
    BY <1>8 DEF Begin, NextFilled, NextNone, End
  <2>2. Silent(reply')
    <3>1. CASE Begin(i) \/ End(i)
      <4>1. reply' = <<"begin", i>> \/ reply' = <<"end", i>>
        BY <3>1 DEF Begin, End
      <4> QED
        BY <4>1, Replies
    <3>2. CASE NextFilled(i)
      <4>1. \E x, y : reply' = <<"next", x, y>>
        BY <3>2 DEF NextFilled
      <4> QED
        BY <4>1, Replies
    <3>3. CASE NextNone(i)
      <4>1. reply' = <<"next">>
        BY <3>3 DEF NextNone
      <4> QED
        BY <4>1, Replies
    <3> QED
      BY <1>8, <3>1, <3>2, <3>3
  <2> QED
    BY <2>1, <2>2, TableSame, SilentListed DEF IInv
<1>9. ASSUME GetSize \/ ToArray \/ ToArrayFails PROVE IInv'
  <2>1. UNCHANGED <<hash_fn, elts, data, table>>
    BY <1>9 DEF GetSize, ToArray, ToArrayFails
  <2>2. Silent(reply')
    <3>1. CASE GetSize
      <4>1. reply' = <<"size", elts>>
        BY <3>1 DEF GetSize
      <4> QED
        BY <4>1, Replies
    <3>2. CASE ToArray
      <4>1. \E x : reply' = <<"to_array", 0, x>>
        BY <3>2 DEF ToArray
      <4> QED
        BY <4>1, Replies
    <3>3. CASE ToArrayFails
      <4>1. reply' = <<"to_array", 1>>
        BY <3>3 DEF ToArrayFails
      <4> QED
        BY <4>1, Replies
    <3> QED
      BY <1>9, <3>1, <3>2, <3>3
  <2> QED
    BY <2>1, <2>2, TableSame, SilentListed DEF IInv
<1>10. ASSUME Over \/ UNCHANGED vars PROVE IInv'
  <2>1. UNCHANGED <<hash_fn, elts, data, table, reply>>
    BY <1>10 DEF Over, vars
  <2>2. Shape' /\ Counted'
    BY <2>1, TableSame
  <2>3. KeysListed'
    BY <2>1 DEF IInv, KeysListed
  <2> QED
    BY <2>2, <2>3 DEF IInv
<1> QED
  BY <1>1, <1>2, <1>3, <1>4, <1>5, <1>6, <1>7, <1>8, <1>9, <1>10 DEF Next

\* The table has its shape and its count whatever is called and whether or not
\* memory runs out.
THEOREM HashInvariance == Spec => []IInv
<1>1. Init => IInv
  BY InvInit
<1>2. IInv /\ [Next]_vars => IInv'
  BY InvStep
<1> QED
  BY <1>1, <1>2, PTL DEF Spec

\* hash_size is never less than what an iteration gives out, so what
\* nameset_to_array allocates is large enough; it is the same if nothing was
\* unset.
THEOREM SizeSound == Spec => []SizeCovers
<1>1. IInv => SizeCovers
  <2> SUFFICES ASSUME IInv PROVE SizeCovers
    OBVIOUS
  <2>1. PICK n \in Nat : IsTable(data, n)
    BY DEF IInv, Shape
  <2>2. Size(data) \in Nat /\ elts \in Nat /\ Size(data) <= elts
    BY <2>1, TableParts DEF IInv, Shape, Counted
  <2>3. elts >= Size(data)
    BY <2>2
  <2> QED
    BY <2>3 DEF IInv, Counted, SizeCovers
<1> QED
  BY <1>1, HashInvariance, PTL

\* A key that was just stored is one that an iteration gives out.
THEOREM ListingSound == Spec => []KeysListed
<1>1. IInv => KeysListed
  BY DEF IInv
<1> QED
  BY <1>1, HashInvariance, PTL

\* Whatever the hint, the threshold and the keys: rehash's new table takes all
\* the old one's nodes below the threshold, and has no fewer buckets, so the
\* index that hash_set found before it is one of the new table.
THEOREM RehashSound == Spec => []RehashFits
<1>1. IInv => RehashFits
  <2> SUFFICES ASSUME IInv, table = "up", NeedsRehash
               PROVE  /\ ~Overloads(Size(data), Rehashed(data))
                      /\ Buckets(Rehashed(data)) >= Buckets(data)
    BY DEF RehashFits
  <2>1. hash_fn \in [Keys -> Nat] /\ elts \in Nat /\ Size(data) <= elts
    BY DEF IInv, Shape, Counted
  <2>2. PICK n \in Nat \ {0} : IsTable(data, n)
    BY DEF IInv, Shape
  <2>3. PICK m \in Nat \ {0} :
            /\ m >= n /\ Size(data) * ThreshDen <= ThreshNum * m
            /\ IsTable(Rehashed(data), m)
    BY <2>1, <2>2, RehashedTable
  <2>4. Buckets(data) = n /\ Buckets(Rehashed(data)) = m /\ Size(data) \in Nat
    BY <2>2, <2>3, TableParts
  <2>5. ThreshNum \in Nat /\ ThreshDen \in Nat
    BY SizesAssumption
  <2>6. Size(data) * ThreshDen \in Nat /\ ThreshNum * m \in Nat
    BY <2>3, <2>4, <2>5
  <2> QED
    BY <2>3, <2>4, <2>6 DEF Overloads
<1> QED
  BY <1>1, HashInvariance, PTL

-----------------------------------------------------------------------------
(* No other key is lost.                                                   *)

LEMMA FoundNext ==
    ASSUME hash_fn' = hash_fn
    PROVE  /\ \A k : Found(k, data)' <=> Found(k, data')
           /\ Placed(data)' <=> Placed(data')
  BY DEF Found, Placed, Index

LEMMA KeptSet ==
    ASSUME IInv, AllHeaded, NEW k \in Keys, NEW v \in Vals,
           SetFound(k, v) \/ SetNew(k, v) \/ SetGrows(k, v)
    PROVE  \A j \in Keys : Found(j, data) => Found(j, data')
<1> DEFINE i   == Index(k, data)
           nd  == Node(k, v)
           new == Rehashed(data)
<1>1. /\ table = "up"
      /\ \/ Found(k, data) /\ data' = [data EXCEPT ![i] = Updated(data[i], nd)]
         \/ data' = [data EXCEPT ![i] = Inserted(data[i], nd)]
         \/ NeedsRehash /\ data' = [new EXCEPT ![i] = Inserted(new[i], nd)]
  BY DEF SetFound, SetNew, SetGrows, Call
<1>2. nd \in NodeSet /\ nd.key = k
  BY DEF Node, NodeSet
<1>3. hash_fn \in [Keys -> Nat] /\ elts \in Nat /\ Size(data) <= elts
  BY DEF IInv, Shape, Counted
<1>4. PICK n \in Nat \ {0} : IsTable(data, n)
  BY <1>1 DEF IInv, Shape
<1>5. i \in 0 .. n - 1 /\ Headed(data)
  BY <1>3, <1>4, IndexInTable DEF AllHeaded
<1> HIDE DEF nd
<1>6. CASE Found(k, data) /\ data' = [data EXCEPT ![i] = Updated(data[i], nd)]
  <2>1. data' = With(data, Index(nd.key, data), Updated(data[Index(nd.key, data)], nd))
    BY <1>2, <1>6 DEF With
  <2> QED
    BY <1>2, <1>3, <1>4, <1>6, <2>1, UpdateFinds
<1>7. CASE data' = [data EXCEPT ![i] = Inserted(data[i], nd)]
  <2>1. data' = With(data, i, Inserted(data[i], nd))
    BY <1>7 DEF With
  <2> HIDE DEF i
  <2> QED
    BY <1>2, <1>3, <1>4, <1>5, <2>1, InsertFinds
<1>8. CASE NeedsRehash /\ data' = [new EXCEPT ![i] = Inserted(new[i], nd)]
  <2> HIDE DEF i
  <2>1. PICK m \in Nat \ {0} :
            /\ m >= n /\ IsTable(new, m) /\ Headed(new)
            /\ \A j \in Keys : Found(j, new) <=> \E p \in Filled(data) : NodeAt(data, p).key = j
    BY <1>3, <1>4, <1>8, RehashedTable
  <2>2. \A j \in Keys : Found(j, data) => Found(j, new)
    BY <1>3, <1>4, <2>1, NodeFound
  <2> HIDE DEF new
  <2>3. data' = With(new, i, Inserted(new[i], nd)) /\ i \in 0 .. m - 1
    BY <1>5, <1>8, <2>1 DEF With
  <2>4. \A j \in Keys : Found(j, new) => Found(j, data')
    BY <1>2, <1>3, <2>1, <2>3, InsertFinds
  <2> QED
    BY <2>2, <2>4
<1> QED
  BY <1>1, <1>6, <1>7, <1>8

LEMMA KeptSetNoMemory ==
    ASSUME IInv, NEW k \in Keys, SetNoMemory(k)
    PROVE  \A j \in Keys : Found(j, data) => Found(j, data')
<1>1. table = "up" /\ (data' = data \/ (NeedsRehash /\ data' = Rehashed(data)))
  BY DEF SetNoMemory, Call
<1>2. hash_fn \in [Keys -> Nat] /\ elts \in Nat /\ Size(data) <= elts
  BY DEF IInv, Shape, Counted
<1>3. PICK n \in Nat \ {0} : IsTable(data, n)
  BY <1>1 DEF IInv, Shape
<1>4. CASE NeedsRehash /\ data' = Rehashed(data)
  <2>1. \A j \in Keys : Found(j, data') <=> \E p \in Filled(data) : NodeAt(data, p).key = j
    BY <1>2, <1>3, <1>4, RehashedTable
  <2> QED
    BY <1>2, <1>3, <2>1, NodeFound
<1> QED
  BY <1>1, <1>4

LEMMA KeptUnset ==
    ASSUME IInv, NEW k \in Keys, Unset(k)
    PROVE  /\ \A j \in Keys : j # k /\ Found(j, data) => Found(j, data')
           /\ \A j \in Keys : Found(j, data') => Found(j, data)
           /\ Placed(data) => Placed(data') /\ ~Found(k, data')
           /\ DOMAIN data' = DOMAIN data
<1> DEFINE i == Index(k, data)
<1>1. /\ table = "up"
      /\ data' = IF Found(k, data) THEN [data EXCEPT ![i] = Removed(data[i], k)] ELSE data
  BY DEF Unset, Call
<1>2. hash_fn \in [Keys -> Nat]
  BY DEF IInv, Shape
<1>3. PICK n \in Nat \ {0} : IsTable(data, n)
  BY <1>1 DEF IInv, Shape
<1>4. CASE Found(k, data)
  <2>1. data' = With(data, i, Removed(data[i], k)) /\ DOMAIN data' = DOMAIN data
    BY <1>1, <1>4 DEF With
  <2> QED
    BY <1>2, <1>3, <1>4, <2>1, RemoveFinds
<1> QED
  BY <1>1, <1>4

\* What other calls do to the table.
LEMMA OtherCalls ==
    ASSUME [Next]_vars,
           \A k \in Keys : /\ ~SetNoMemory(k) /\ ~Unset(k)
                           /\ \A v \in Vals : ~SetFound(k, v) /\ ~SetNew(k, v) /\ ~SetGrows(k, v)
    PROVE  Free \/ UNCHANGED <<hash_fn, data, lost>>
<1>1. ASSUME NEW k \in Keys, SetLocked(k) \/ SetCrashes(k) \/ UnsetLocked(k) \/ Get(k)
      PROVE  UNCHANGED <<hash_fn, data, lost>>
  BY <1>1 DEF SetLocked, SetCrashes, UnsetLocked, Get
<1>2. ASSUME NEW i \in Iters, Begin(i) \/ NextFilled(i) \/ NextNone(i) \/ End(i)
      PROVE  UNCHANGED <<hash_fn, data, lost>>
  BY <1>2 DEF Begin, NextFilled, NextNone, End
<1>3. ASSUME GetSize \/ ToArray \/ ToArrayFails \/ Over \/ UNCHANGED vars
      PROVE  UNCHANGED <<hash_fn, data, lost>>
  BY <1>3 DEF GetSize, ToArray, ToArrayFails, Over, vars
<1> QED
  BY <1>1, <1>2, <1>3 DEF Next

\* A call loses no key but the one it is about, whether or not the table grows
\* and whether or not memory runs out, as long as no chain is behind an empty
\* head: for any keys, hash function, hint and load factor.
THEOREM OthersSafe == Spec => OthersKept
<1>1. ASSUME IInv, [Next]_vars
      PROVE  [AllHeaded /\ table' # "freed" =>
                \A k \in Keys :
                    Found(k, data) /\ reply' # <<"unset", k, 0>> => Found(k, data)']_vars
  <2>1. SUFFICES ASSUME AllHeaded, table' # "freed", NEW j \in Keys, Found(j, data),
                        reply' # <<"unset", j, 0>>
                 PROVE  Found(j, data)'
    OBVIOUS
  <2>2. ASSUME NEW k \in Keys, NEW v \in Vals, SetFound(k, v) \/ SetNew(k, v) \/ SetGrows(k, v)
        PROVE  Found(j, data)'
    <3>1. hash_fn' = hash_fn
      BY <2>2 DEF SetFound, SetNew, SetGrows
    <3> QED
      BY <1>1, <2>1, <2>2, <3>1, KeptSet, FoundNext
  <2>3. ASSUME NEW k \in Keys, SetNoMemory(k) PROVE Found(j, data)'
    <3>1. hash_fn' = hash_fn
      BY <2>3 DEF SetNoMemory
    <3> QED
      BY <1>1, <2>1, <2>3, <3>1, KeptSetNoMemory, FoundNext
  <2>4. ASSUME NEW k \in Keys, Unset(k) PROVE Found(j, data)'
    <3>1. hash_fn' = hash_fn /\ j # k
      BY <2>1, <2>4 DEF Unset
    <3> QED
      BY <1>1, <2>1, <2>4, <3>1, KeptUnset, FoundNext
  <2>5. ASSUME UNCHANGED <<hash_fn, data, lost>> PROVE Found(j, data)'
    BY <2>1, <2>5, FoundNext
  <2>6. ~Free
    BY <2>1 DEF Free
  <2> QED
    BY <1>1, <2>2, <2>3, <2>4, <2>5, <2>6, OtherCalls
<1> QED
  BY <1>1, HashInvariance, PTL DEF Spec, OthersKept

-----------------------------------------------------------------------------
(* No node is lost.                                                        *)

HeadsOf(d) == {i \in DOMAIN d : d[i].head # <<>>}

LEMMA ChainCount ==
    ASSUME NEW n \in Nat, NEW d, IsTable(d, n)
    PROVE  /\ IsFiniteSet(HeadsOf(d)) /\ Cardinality(HeadsOf(d)) \in Nat
           /\ Size(d) \in Nat /\ ChainNodes(d) = Size(d) - Cardinality(HeadsOf(d))
<1>1. DOMAIN d = 0 .. n - 1 /\ Size(d) \in Nat
  BY TableParts
<1>2. HeadsOf(d) \in SUBSET (0 .. n - 1)
  BY <1>1 DEF HeadsOf
<1>3. IsFiniteSet(0 .. n - 1)
  BY FS_Interval
<1> QED
  BY <1>1, <1>2, <1>3, FS_Subset, FS_CardinalityType DEF ChainNodes, HeadsOf

LEMMA HeadChange ==
    ASSUME NEW n \in Nat, NEW d, IsTable(d, n), NEW i \in 0 .. n - 1, NEW c,
           NEW e, e = With(d, i, c)
    PROVE  LET h == Cardinality(HeadsOf(d))
               g == Cardinality(HeadsOf(e))
           IN  /\ (c.head = <<>> <=> d[i].head = <<>>) => g = h
               /\ d[i].head = <<>> /\ c.head # <<>> => g = h + 1
               /\ d[i].head # <<>> /\ c.head = <<>> => g = h - 1
<1>1. /\ DOMAIN d = 0 .. n - 1 /\ DOMAIN e = DOMAIN d /\ e[i] = c
      /\ \A l \in DOMAIN d : l # i => e[l] = d[l]
  BY TableParts DEF With
<1>2. IsFiniteSet(HeadsOf(d)) /\ Cardinality(HeadsOf(d)) \in Nat
  BY ChainCount
<1>3. CASE c.head = <<>> <=> d[i].head = <<>>
  <2>1. HeadsOf(e) = HeadsOf(d)
    BY <1>1, <1>3 DEF HeadsOf
  <2> QED
    BY <1>3, <2>1
<1>4. CASE d[i].head = <<>> /\ c.head # <<>>
  <2>1. HeadsOf(e) = HeadsOf(d) \cup {i} /\ i \notin HeadsOf(d)
    BY <1>1, <1>4 DEF HeadsOf
  <2> QED
    BY <1>2, <1>4, <2>1, FS_AddElement
<1>5. CASE d[i].head # <<>> /\ c.head = <<>>
  <2>1. HeadsOf(e) = HeadsOf(d) \ {i} /\ i \in HeadsOf(d)
    BY <1>1, <1>5 DEF HeadsOf
  <2> QED
    BY <1>2, <1>5, <2>1, FS_RemoveElement
<1> QED
  BY <1>3, <1>4, <1>5

\* hash_set mallocs a node if the head is filled, and it is in the chain.
LEMMA InsertOwned ==
    ASSUME NEW n \in Nat, NEW d, IsTable(d, n), Headed(d), NEW i \in 0 .. n - 1,
           NEW nd \in NodeSet, NEW e, e = With(d, i, Inserted(d[i], nd))
    PROVE  ChainNodes(e) = ChainNodes(d) + NewNode(d[i]) /\ ChainNodes(d) \in Int
<1>1. IsTable(e, n) /\ Size(e) = Size(d) + 1
  BY InsertGrows
<1>2. /\ Cardinality(HeadsOf(d)) \in Nat /\ Size(d) \in Nat
      /\ ChainNodes(d) = Size(d) - Cardinality(HeadsOf(d))
      /\ ChainNodes(e) = Size(e) - Cardinality(HeadsOf(e))
  BY <1>1, ChainCount
<1> DEFINE c == Inserted(d[i], nd)
<1>3. d[i] \in [head : Seq(NodeSet), chain : Seq(NodeSet)]
  BY TableParts DEF Cells
<1>4. c.head = IF d[i].head = <<>> THEN <<nd>> ELSE d[i].head
  BY <1>3 DEF Inserted
<1>5. e = With(d, i, c) /\ <<nd>> # <<>>
  OBVIOUS
<1> HIDE DEF c
<1>6. CASE d[i].head = <<>>
  <2>1. Cardinality(HeadsOf(e)) = Cardinality(HeadsOf(d)) + 1
    BY <1>4, <1>5, <1>6, HeadChange
  <2> QED
    BY <1>1, <1>2, <1>6, <2>1 DEF NewNode
<1>7. CASE d[i].head # <<>>
  <2>1. Cardinality(HeadsOf(e)) = Cardinality(HeadsOf(d))
    BY <1>4, <1>5, <1>7, HeadChange
  <2> QED
    BY <1>1, <1>2, <1>7, <2>1 DEF NewNode
<1> QED
  BY <1>6, <1>7

\* hash_unset frees the node it takes out of the chain, if it does.
LEMMA RemoveOwned ==
    ASSUME hash_fn \in [Keys -> Nat], NEW n \in Nat \ {0}, NEW d, IsTable(d, n),
           NEW k \in Keys, Found(k, d),
           NEW e, e = With(d, Index(k, d), Removed(d[Index(k, d)], k))
    PROVE  /\ ChainNodes(e) = ChainNodes(d) - (IF InChain(k, d) THEN 1 ELSE 0)
           /\ ChainNodes(d) \in Int
<1> DEFINE i == Index(k, d)
           c == Removed(d[i], k)
<1>1. i \in 0 .. n - 1 /\ d[i] \in Cells
  BY IndexInTable
<1>2. Has(Nodes(d[i]), k)
  BY DEF Found
<1>3. /\ c \in Cells /\ c.head = IF Has(d[i].head, k) THEN <<>> ELSE d[i].head
      /\ \E s \in Slots(d[i]) \ Slots(c) : Slots(d[i]) = Slots(c) \cup {s}
  BY <1>1, <1>2, RemovedCell
<1>4. e = With(d, i, c) /\ (InChain(k, d) <=> ~Has(d[i].head, k))
  BY DEF InChain
<1>5. Has(d[i].head, k) => d[i].head # <<>>
  BY <1>1, HasSlot
<1> HIDE DEF c, i
<1>6. IsTable(e, n)
  BY <1>1, <1>3, <1>4, BucketChange
<1>7. Size(d) = Size(e) + 1
  <2>1. d \in [0 .. n - 1 -> Cells] /\ e[i] = c
    BY <1>1, <1>4, TableParts DEF With
  <2>2. d = With(e, i, d[i])
    BY <1>1, <1>4, <2>1 DEF With
  <2>3. PICK s : s \notin Slots(e[i]) /\ Slots(d[i]) = Slots(e[i]) \cup {s}
    BY <1>3, <2>1
  <2> QED
    BY <1>1, <1>6, <2>2, <2>3, BucketChange
<1>8. /\ Cardinality(HeadsOf(d)) \in Nat /\ Size(d) \in Nat /\ Size(e) \in Nat
      /\ ChainNodes(d) = Size(d) - Cardinality(HeadsOf(d))
      /\ ChainNodes(e) = Size(e) - Cardinality(HeadsOf(e))
  BY <1>6, ChainCount
<1>9. CASE Has(d[i].head, k)
  <2>1. Cardinality(HeadsOf(e)) = Cardinality(HeadsOf(d)) - 1
    BY <1>1, <1>3, <1>4, <1>5, <1>9, HeadChange
  <2> QED
    BY <1>4, <1>7, <1>8, <1>9, <2>1
<1>10. CASE ~Has(d[i].head, k)
  <2>1. Cardinality(HeadsOf(e)) = Cardinality(HeadsOf(d))
    BY <1>1, <1>3, <1>4, <1>10, HeadChange
  <2> QED
    BY <1>4, <1>7, <1>8, <1>10, <2>1
<1> QED
  BY <1>9, <1>10

LEMMA Accounted ==
    ASSUME lost \in BOOLEAN, NEW made \in Int, NEW freed \in Int, Accounts(made, freed)
    PROVE  /\ lost' \in BOOLEAN
           /\ ChainNodes(data) \in Int /\ ChainNodes(data') = ChainNodes(data) + made - freed
                => lost' = lost
<1>1. lost' = (lost \/ ChainNodes(data) + made - freed # ChainNodes(data'))
  BY DEF Accounts
<1> QED
  BY <1>1, Zenon

LEMMA OwnedSet ==
    ASSUME IInv, lost \in BOOLEAN, NEW k \in Keys, NEW v \in Vals, SetNew(k, v) \/ SetGrows(k, v)
    PROVE  lost' \in BOOLEAN /\ (AllHeaded => lost' = lost)
<1> DEFINE i   == Index(k, data)
           nd  == Node(k, v)
           new == Rehashed(data)
<1>1. /\ table = "up"
      /\ \/ /\ data' = [data EXCEPT ![i] = Inserted(data[i], nd)]
            /\ Accounts(NewNode(data[i]), 0)
         \/ /\ NeedsRehash /\ data' = [new EXCEPT ![i] = Inserted(new[i], nd)]
            /\ Accounts(ChainNodes(new) + NewNode(new[i]), ChainNodes(data))
  BY DEF SetNew, SetGrows, Call
<1>2. nd \in NodeSet
  BY DEF Node, NodeSet
<1>3. hash_fn \in [Keys -> Nat] /\ elts \in Nat /\ Size(data) <= elts
  BY DEF IInv, Shape, Counted
<1>4. PICK n \in Nat \ {0} : IsTable(data, n)
  BY <1>1 DEF IInv, Shape
<1>5. i \in 0 .. n - 1 /\ \A b : NewNode(b) \in Int
  BY <1>3, <1>4, IndexInTable DEF NewNode
<1>6. ChainNodes(data) \in Int
  BY <1>4, ChainCount
<1> HIDE DEF nd, i
<1>7. CASE /\ data' = [data EXCEPT ![i] = Inserted(data[i], nd)]
           /\ Accounts(NewNode(data[i]), 0)
  <2>1. data' = With(data, i, Inserted(data[i], nd))
    BY <1>7 DEF With
  <2>2. AllHeaded => ChainNodes(data') = ChainNodes(data) + NewNode(data[i])
    BY <1>2, <1>4, <1>5, <2>1, InsertOwned DEF AllHeaded
  <2>3. AllHeaded => ChainNodes(data') = ChainNodes(data) + NewNode(data[i]) - 0
    BY <1>5, <1>6, <2>2
  <2>4. NewNode(data[i]) \in Int /\ 0 \in Int
    BY <1>5
  <2> QED
    BY <1>6, <1>7, <2>3, <2>4, Accounted
<1>8. CASE /\ NeedsRehash /\ data' = [new EXCEPT ![i] = Inserted(new[i], nd)]
           /\ Accounts(ChainNodes(new) + NewNode(new[i]), ChainNodes(data))
  <2>1. PICK m \in Nat \ {0} : m >= n /\ IsTable(new, m) /\ Headed(new)
    BY <1>3, <1>4, <1>8, RehashedTable
  <2> HIDE DEF new
  <2>2. data' = With(new, i, Inserted(new[i], nd)) /\ i \in 0 .. m - 1
    BY <1>5, <1>8, <2>1 DEF With
  <2>3. ChainNodes(data') = ChainNodes(new) + NewNode(new[i]) /\ ChainNodes(new) \in Int
    BY <1>2, <2>1, <2>2, InsertOwned
  <2> DEFINE made == ChainNodes(new) + NewNode(new[i])
  <2>4. made \in Int
    BY <1>5, <2>3
  <2>5. ChainNodes(data') = made
    BY <2>3
  <2> HIDE DEF made
  <2>6. ChainNodes(data') = ChainNodes(data) + made - ChainNodes(data)
    BY <1>6, <2>4, <2>5
  <2>7. Accounts(made, ChainNodes(data))
    BY <1>8 DEF made
  <2> QED
    BY <1>6, <2>4, <2>6, <2>7, Accounted
<1> QED
  BY <1>1, <1>7, <1>8

LEMMA OwnedSetNoMemory ==
    ASSUME IInv, lost \in BOOLEAN, NEW k \in Keys, SetNoMemory(k)
    PROVE  lost' \in BOOLEAN /\ (AllHeaded => lost' = lost)
<1>1. /\ table = "up"
      /\ lost' = lost \/ (/\ NeedsRehash /\ data' = Rehashed(data)
                          /\ Accounts(ChainNodes(data'), ChainNodes(data)))
  BY DEF SetNoMemory, Call
<1>2. hash_fn \in [Keys -> Nat] /\ elts \in Nat /\ Size(data) <= elts
  BY DEF IInv, Shape, Counted
<1>3. PICK n \in Nat \ {0} : IsTable(data, n)
  BY <1>1 DEF IInv, Shape
<1>4. CASE /\ NeedsRehash /\ data' = Rehashed(data)
           /\ Accounts(ChainNodes(data'), ChainNodes(data))
  <2>1. PICK m \in Nat \ {0} : IsTable(data', m)
    BY <1>2, <1>3, <1>4, RehashedTable
  <2>2. ChainNodes(data) \in Int /\ ChainNodes(data') \in Int
    BY <1>3, <2>1, ChainCount
  <2>3. ChainNodes(data') = ChainNodes(data) + ChainNodes(data') - ChainNodes(data)
    BY <2>2
  <2> QED
    BY <1>4, <2>2, <2>3, Accounted
<1> QED
  BY <1>1, <1>4

LEMMA OwnedUnset ==
    ASSUME IInv, lost \in BOOLEAN, NEW k \in Keys, Unset(k)
    PROVE  lost' \in BOOLEAN /\ lost' = lost
<1> DEFINE i == Index(k, data)
           f == IF InChain(k, data) THEN 1 ELSE 0
<1>1. /\ table = "up"
      /\ data' = IF Found(k, data) THEN [data EXCEPT ![i] = Removed(data[i], k)] ELSE data
      /\ Accounts(0, f)
  BY DEF Unset, Call
<1>2. hash_fn \in [Keys -> Nat]
  BY DEF IInv, Shape
<1>3. PICK n \in Nat \ {0} : IsTable(data, n)
  BY <1>1 DEF IInv, Shape
<1>4. ChainNodes(data) \in Int /\ f \in Int
  BY <1>3, ChainCount
<1>5. ChainNodes(data') = ChainNodes(data) - f
  <2>1. CASE Found(k, data)
    <3>1. data' = With(data, i, Removed(data[i], k))
      BY <1>1, <2>1 DEF With
    <3> QED
      BY <1>2, <1>3, <2>1, <3>1, RemoveOwned
  <2>2. CASE ~Found(k, data)
    <3>1. data' = data /\ f = 0
      BY <1>1, <2>2 DEF InChain
    <3> QED
      BY <1>4, <3>1
  <2> QED
    BY <2>1, <2>2
<1> HIDE DEF f
<1>6. ChainNodes(data') = ChainNodes(data) + 0 - f
  BY <1>4, <1>5
<1>7. 0 \in Int /\ f \in Int /\ Accounts(0, f)
  BY <1>1, <1>4
<1> QED
  BY <1>4, <1>6, <1>7, Accounted

LEMMA OwnedFree ==
    ASSUME IInv, lost \in BOOLEAN, Free
    PROVE  lost' \in BOOLEAN /\ lost' = lost
<1>1. data' = <<>> /\ Accounts(0, ChainNodes(data))
  BY DEF Free
<1>2. PICK n \in Nat : IsTable(data, n)
  BY DEF IInv, Shape
<1>3. ChainNodes(data) \in Int
  BY <1>2, ChainCount
<1>4. DOMAIN data' = {}
  BY <1>1
<1>5. Filled(data') = {} /\ HeadsOf(data') = {}
  BY <1>4 DEF Filled, HeadsOf
<1>6. ChainNodes(data') = 0
  BY <1>5, FS_EmptySet DEF ChainNodes, Size, HeadsOf
<1>7. ChainNodes(data') = ChainNodes(data) + 0 - ChainNodes(data)
  BY <1>3, <1>6
<1>8. 0 \in Int /\ Accounts(0, ChainNodes(data))
  BY <1>1
<1> QED
  BY <1>3, <1>7, <1>8, Accounted

\* Every node that is malloc'ed is in a chain until it is freed, and freed once:
\* by hash_unset, by rehash, also when it fails, and by hash_free; as long as no
\* chain is behind an empty head.
THEOREM NodesSafe == Spec => NodesOwned
<1>1. Init => lost \in BOOLEAN
  BY DEF Init
<1>2. ASSUME IInv, lost \in BOOLEAN, [Next]_vars
      PROVE  lost' \in BOOLEAN /\ (AllHeaded => lost' = lost)
  <2>1. ASSUME NEW k \in Keys, NEW v \in Vals, SetFound(k, v) PROVE lost' = lost
    BY <2>1 DEF SetFound
  <2> QED
    BY <1>2, <2>1, OwnedSet, OwnedSetNoMemory, OwnedUnset, OwnedFree, OtherCalls
<1>3. IInv /\ lost \in BOOLEAN /\ [Next]_vars => (lost \in BOOLEAN)'
  BY <1>2
<1>4. IInv /\ lost \in BOOLEAN /\ [Next]_vars => [AllHeaded => lost' = lost]_vars
  BY <1>2
<1> QED
  BY <1>1, <1>3, <1>4, HashInvariance, PTL DEF Spec, NodesOwned

-----------------------------------------------------------------------------
(* A table with room for every key.                                        *)

\* While a key is missing there is room for it.
LEMMA RoomForMore ==
    ASSUME RoomInv, Roomy, table = "up", NEW k \in Keys, ~Found(k, data)
    PROVE  ~NeedsRehash
<1> DEFINE f == [p \in Filled(data) |-> NodeAt(data, p).key]
           H == SizeHint(Hint)
           n == ((H + 1) * ThreshDen) \div ThreshNum
<1>1. /\ hash_fn \in [Keys -> Nat] /\ elts = Size(data)
      /\ \E m \in Nat \ {0} : IsTable(data, m)
      /\ DOMAIN data = DOMAIN NewData(Hint) /\ Placed(data)
  BY DEF RoomInv, Roomy, IInv, Shape, Counted, InPlace
<1>2. PICK m \in Nat \ {0} : IsTable(data, m)
  BY <1>1
<1>3. Size(data) \in Nat /\ DOMAIN data = 0 .. m - 1 /\ Buckets(data) = m
  BY <1>2, TableParts
<1>4. ASSUME NEW p \in Filled(data) PROVE f[p] \in Keys \ {k}
  <2>1. f[p] \in Keys
    BY <1>2, FilledSlots DEF NodeSet
  <2> QED
    BY <1>1, <1>2, <2>1, NodeFound
<1>5. ASSUME NEW p \in Filled(data), NEW q \in Filled(data), f[p] = f[q] PROVE p = q
  BY <1>1, <1>2, <1>5, PlacedOnce
<1>6. /\ IsFiniteSet(Keys \ {k}) /\ Cardinality(Keys \ {k}) = Cardinality(Keys) - 1
      /\ Cardinality(Keys) \in Nat
  BY FS_RemoveElement, FS_CardinalityType DEF Roomy
<1>7. f \in Injection(Filled(data), Keys \ {k})
  BY <1>4, <1>5 DEF Injection, IsInjective
<1> HIDE DEF f
<1>8. Size(data) <= Cardinality(Keys) - 1
  BY <1>6, <1>7, FS_Injection DEF Size
<1>9. /\ ThreshNum \in Nat \ {0} /\ ThreshDen \in Nat /\ ThreshNum <= ThreshDen
      /\ Cardinality(Keys) <= H /\ H \in Nat
  BY SizesAssumption DEF Roomy, SizeHint
<1>10. elts + 1 <= H /\ elts \in Nat
  BY <1>1, <1>3, <1>6, <1>8, <1>9
<1>11. m = n
  <2>1. n \in Nat
    BY <1>9, Division
  <2>2. DOMAIN NewData(Hint) = 0 .. n - 1
    BY DEF NewData
  <2>3. Cardinality(0 .. n - 1) = IF 0 > n - 1 THEN 0 ELSE (n - 1) - 0 + 1
    BY <2>1, FS_Interval
  <2>4. Cardinality(0 .. n - 1) = n
    BY <2>1, <2>3
  <2> QED
    BY <1>1, <1>3, <2>2, <2>4 DEF Buckets
<1>12. (elts + 1) * ThreshDen <= ThreshNum * m
  <2> DEFINE x == (H + 1) * ThreshDen
             r == x % ThreshNum
  <2>1. x \in Nat /\ x = H * ThreshDen + ThreshDen /\ H * ThreshDen \in Nat
    BY <1>9
  <2> HIDE DEF x
  <2>2. n = x \div ThreshNum
    BY DEF x
  <2>3. r \in 0 .. ThreshNum - 1 /\ x = ThreshNum * n + r /\ n \in Nat
    BY <1>9, <2>1, <2>2, Division
  <2> HIDE DEF r, n
  <2>4. (elts + 1) * ThreshDen <= H * ThreshDen /\ (elts + 1) * ThreshDen \in Nat
    <3>1. \A a, b, c \in Nat : a <= b => a * c <= b * c
      OBVIOUS
    <3> QED
      BY <1>9, <1>10, <3>1
  <2>5. ThreshNum * n \in Nat
    BY <1>9, <2>3
  <2> QED
    BY <1>9, <1>11, <2>1, <2>3, <2>4, <2>5
<1> QED
  <2>1. (elts + 1) * ThreshDen \in Nat /\ ThreshNum * m \in Nat
    BY <1>9, <1>10
  <2> QED
    BY <1>3, <1>12, <2>1 DEF NeedsRehash, Overloads

LEMMA RoomInit == Init => RoomInv
<1> SUFFICES ASSUME Init PROVE RoomInv
  OBVIOUS
<1>1. data = NewData(Hint) /\ \A i \in DOMAIN data : data[i] = EmptyBucket
  BY DEF Init, NewData
<1>2. \A i \in DOMAIN data : Slots(data[i]) = {}
  BY <1>1, EmptyCell
<1>3. InPlace
  BY <1>1, <1>2 DEF InPlace, KeysOnce, Placed
<1> QED
  BY <1>3, InvInit DEF RoomInv

LEMMA PlaceSet ==
    ASSUME IInv, InPlace, NEW k \in Keys, NEW v \in Vals, SetFound(k, v) \/ SetNew(k, v)
    PROVE  InPlace'
<1> DEFINE i  == Index(k, data)
           nd == Node(k, v)
<1>1. /\ table = "up" /\ hash_fn' = hash_fn
      /\ IF Found(k, data) THEN data' = [data EXCEPT ![i] = Updated(data[i], nd)]
                           ELSE data' = [data EXCEPT ![i] = Inserted(data[i], nd)]
  BY DEF SetFound, SetNew, Call
<1>2. nd \in NodeSet /\ nd.key = k
  BY DEF Node, NodeSet
<1>3. hash_fn \in [Keys -> Nat]
  BY DEF IInv, Shape
<1>4. PICK n \in Nat \ {0} : IsTable(data, n)
  BY <1>1 DEF IInv, Shape
<1>5. i \in 0 .. n - 1 /\ DOMAIN data' = DOMAIN data
  BY <1>1, <1>3, <1>4, IndexInTable
<1> HIDE DEF nd
<1>6. CASE Found(k, data)
  <2>1. data' = With(data, Index(nd.key, data), Updated(data[Index(nd.key, data)], nd))
    BY <1>1, <1>2, <1>6 DEF With
  <2>2. Placed(data')
    BY <1>2, <1>3, <1>4, <1>6, <2>1, UpdateFinds DEF InPlace
  <2> QED
    BY <1>1, <1>5, <2>2 DEF InPlace, Placed, Index
<1>7. CASE ~Found(k, data)
  <2>1. data' = With(data, i, Inserted(data[i], nd))
    BY <1>1, <1>7 DEF With
  <2>2. Placed(data')
    BY <1>2, <1>3, <1>4, <1>5, <1>7, <2>1, InsertFinds DEF InPlace
  <2> QED
    BY <1>1, <1>5, <2>2 DEF InPlace, Placed, Index
<1> QED
  BY <1>6, <1>7

LEMMA RoomStep == RoomInv /\ [Next]_vars => RoomInv'
<1> SUFFICES ASSUME RoomInv, [Next]_vars, Roomy, table' # "freed" PROVE InPlace'
  BY InvStep DEF RoomInv
<1>1. hash_fn \in [Keys -> Nat]
  BY DEF RoomInv, IInv, Shape
<1>2. ASSUME table = "up"
      PROVE  InPlace /\ \E n \in Nat \ {0} : IsTable(data, n)
  BY <1>2 DEF RoomInv, IInv, Shape
<1>3. ASSUME NEW k \in Keys, NEW v \in Vals, SetFound(k, v) PROVE InPlace'
  BY <1>2, <1>3, PlaceSet DEF RoomInv, SetFound, Call
<1>4. ASSUME NEW k \in Keys, NEW v \in Vals, SetNew(k, v) PROVE InPlace'
  BY <1>2, <1>4, PlaceSet DEF RoomInv, SetNew, Call
<1>5. ASSUME UNCHANGED <<hash_fn, data>>, table' = table \/ table = "up" PROVE InPlace'
  <2>1. InPlace
    BY <1>5 DEF RoomInv
  <2>2. \A k : Index(k, data)' = Index(k, data)
    BY <1>5 DEF Index, Buckets
  <2> QED
    BY <1>5, <2>1, <2>2 DEF InPlace, Placed
<1>6. ASSUME NEW k \in Keys, SetNoMemory(k) PROVE InPlace'
  <2>1. table = "up" /\ ~Found(k, data)
    BY <1>6 DEF SetNoMemory, Call
  <2>2. ~NeedsRehash
    BY <2>1, RoomForMore
  <2> QED
    BY <1>5, <1>6, <2>2 DEF SetNoMemory
<1>7. ASSUME NEW k \in Keys,
             (\E v \in Vals : SetGrows(k, v)) \/ SetCrashes(k) \/ Unset(k) \/ Free
      PROVE  FALSE
  <2>1. ASSUME (\E v \in Vals : SetGrows(k, v)) \/ SetCrashes(k) PROVE FALSE
    <3>1. table = "up" /\ ~Found(k, data) /\ NeedsRehash
      BY <2>1 DEF SetGrows, SetCrashes, Call
    <3> QED
      BY <3>1, RoomForMore
  <2>2. ~Unset(k) /\ ~Free
    BY DEF Unset, Free, Call, Roomy
  <2> QED
    BY <1>7, <2>1, <2>2
<1>8. ASSUME NEW k \in Keys, SetLocked(k) \/ UnsetLocked(k) \/ Get(k) PROVE InPlace'
  <2>1. UNCHANGED <<hash_fn, data, table>>
    BY <1>8 DEF SetLocked, UnsetLocked, Get
  <2> QED
    BY <1>5, <2>1
<1>9. ASSUME NEW i \in Iters, Begin(i) \/ NextFilled(i) \/ NextNone(i) \/ End(i)
      PROVE  InPlace'
  <2>1. UNCHANGED <<hash_fn, data, table>>
    BY <1>9 DEF Begin, NextFilled, NextNone, End
  <2> QED
    BY <1>5, <2>1
<1>10. ASSUME GetSize \/ ToArray \/ ToArrayFails \/ Over \/ UNCHANGED vars PROVE InPlace'
  <2>1. UNCHANGED <<hash_fn, data, table>>
    BY <1>10 DEF GetSize, ToArray, ToArrayFails, Over, vars
  <2> QED
    BY <1>5, <2>1
<1>11. ~Free
  BY DEF Free
<1> QED
  BY <1>3, <1>4, <1>6, <1>7, <1>8, <1>9, <1>10, <1>11 DEF Next

\* A table that keeps its domain keeps its buckets.
LEMMA RoomKept ==
    ASSUME RoomInv, RoomInv', [Next]_vars, Roomy, table' # "freed"
    PROVE  Buckets(data') = Buckets(data)
<1>1. table # "freed"
  BY DEF Next, Over, vars, SetFound, SetNew, SetGrows, SetLocked, SetNoMemory, SetCrashes,
         Unset, UnsetLocked, Get, GetSize, Begin, NextFilled, NextNone, End, ToArray,
         ToArrayFails, Free, Call
<1>2. DOMAIN data = DOMAIN NewData(Hint) /\ DOMAIN data' = DOMAIN NewData(Hint)
  BY <1>1 DEF RoomInv, InPlace
<1> QED
  BY <1>2 DEF Buckets

\* A table whose hint announced the keys never grows, so no pointer, index or
\* iterator into it goes stale: for any finite set of keys and any threshold up
\* to 1, if nothing is unset.
THEOREM HintSound ==
    ASSUME "unset" \notin Uses, IsFiniteSet(Keys), ThreshNum <= ThreshDen
    PROVE  Spec => HintSuffices
<1>1. Init => RoomInv
  BY RoomInit
<1>2. RoomInv /\ [Next]_vars => RoomInv'
  BY RoomStep
<1>3. RoomInv /\ RoomInv' /\ [Next]_vars =>
        [Cardinality(Keys) <= SizeHint(Hint) /\ table' # "freed" =>
            Buckets(data') = Buckets(data)]_vars
  BY RoomKept DEF Roomy
<1> QED
  BY <1>1, <1>2, <1>3, PTL DEF Spec, HintSuffices

-----------------------------------------------------------------------------
(* No key appears.                                                         *)

\* A table has at least hash_init's buckets; with just those, it has never grown.
AsMade(d) ==
    /\ Buckets(NewData(Hint)) <= Buckets(d)
    /\ DOMAIN d = DOMAIN NewData(Hint) => Placed(d)

MadeInv == IInv /\ (table = "up" => AsMade(data))

\* rehash: a table that is still of hash_init's size holds the keys it held.
LEMMA GrownAsMade ==
    ASSUME MadeInv, table = "up", NeedsRehash,
           NEW new, new = Rehashed(data)
    PROVE  \E m \in Nat \ {0} :
                /\ IsTable(new, m) /\ m >= Buckets(data) /\ Placed(new) /\ AsMade(new)
                /\ DOMAIN new = DOMAIN NewData(Hint) =>
                        \A j \in Keys : Found(j, new) => Found(j, data)
<1>1. /\ hash_fn \in [Keys -> Nat] /\ elts \in Nat /\ Size(data) <= elts
      /\ \E n \in Nat \ {0} : IsTable(data, n)
      /\ AsMade(data)
  BY DEF MadeInv, IInv, Shape, Counted
<1>2. PICK n \in Nat \ {0} : IsTable(data, n)
  BY <1>1
<1>3. PICK h \in Nat \ {0} : DOMAIN NewData(Hint) = 0 .. h - 1 /\ Buckets(NewData(Hint)) = h
  BY HintTable
<1>4. PICK m \in Nat \ {0} :
            /\ m >= n /\ IsTable(new, m) /\ Placed(new)
            /\ \A j \in Keys : Found(j, new) <=> \E p \in Filled(data) : NodeAt(data, p).key = j
  BY <1>1, <1>2, RehashedTable
<1>5. /\ DOMAIN data = 0 .. n - 1 /\ Buckets(data) = n
      /\ DOMAIN new = 0 .. m - 1 /\ Buckets(new) = m
  BY <1>2, <1>4, TableParts
<1>6. h <= n
  BY <1>1, <1>3, <1>5 DEF AsMade
<1>7. AsMade(new)
  BY <1>3, <1>4, <1>5, <1>6 DEF AsMade
<1>8. ASSUME DOMAIN new = DOMAIN NewData(Hint), NEW j \in Keys, Found(j, new)
      PROVE  Found(j, data)
  <2>1. m = h
    BY <1>3, <1>5, <1>8 DEF Buckets
  <2>2. n = h
    BY <1>4, <1>6, <2>1
  <2>3. Placed(data)
    BY <1>1, <1>3, <1>5, <2>2 DEF AsMade
  <2> QED
    BY <1>1, <1>2, <1>4, <1>8, <2>3, NodeFound
<1> QED
  BY <1>4, <1>5, <1>7, <1>8

LEMMA AppearsSet ==
    ASSUME MadeInv, NEW k \in Keys, NEW v \in Vals,
           SetFound(k, v) \/ SetNew(k, v) \/ SetGrows(k, v)
    PROVE  /\ AsMade(data')
           /\ DOMAIN data' = DOMAIN NewData(Hint) =>
                \A j \in Keys : Found(j, data') => Found(j, data) \/ j = k
<1> DEFINE i   == Index(k, data)
           nd  == Node(k, v)
           new == Rehashed(data)
<1>1. /\ table = "up"
      /\ \/ Found(k, data) /\ data' = [data EXCEPT ![i] = Updated(data[i], nd)]
         \/ ~Found(k, data) /\ data' = [data EXCEPT ![i] = Inserted(data[i], nd)]
         \/ ~Found(k, data) /\ NeedsRehash /\ data' = [new EXCEPT ![i] = Inserted(new[i], nd)]
  BY DEF SetFound, SetNew, SetGrows, Call
<1>2. nd \in NodeSet /\ nd.key = k
  BY DEF Node, NodeSet
<1>3. hash_fn \in [Keys -> Nat] /\ AsMade(data)
  BY <1>1 DEF MadeInv, IInv, Shape
<1>4. PICK n \in Nat \ {0} : IsTable(data, n)
  BY <1>1 DEF MadeInv, IInv, Shape
<1>5. i \in 0 .. n - 1 /\ DOMAIN data = 0 .. n - 1 /\ Buckets(data) = n
  BY <1>3, <1>4, IndexInTable, TableParts
<1> HIDE DEF nd
<1>6. CASE Found(k, data) /\ data' = [data EXCEPT ![i] = Updated(data[i], nd)]
  <2>1. /\ data' = With(data, Index(nd.key, data), Updated(data[Index(nd.key, data)], nd))
        /\ DOMAIN data' = DOMAIN data
    BY <1>2, <1>6 DEF With
  <2>2. /\ \A j \in Keys : Found(j, data') <=> Found(j, data)
        /\ Placed(data) => Placed(data')
    BY <1>2, <1>3, <1>4, <1>6, <2>1, UpdateFinds
  <2> QED
    BY <1>3, <2>1, <2>2 DEF AsMade, Buckets
<1>7. CASE ~Found(k, data) /\ data' = [data EXCEPT ![i] = Inserted(data[i], nd)]
  <2>1. data' = With(data, i, Inserted(data[i], nd)) /\ DOMAIN data' = DOMAIN data
    BY <1>7 DEF With
  <2>2. i = Index(nd.key, data) /\ ~Found(nd.key, data)
    BY <1>2, <1>7
  <2> HIDE DEF i
  <2>3. \A j \in Keys : Found(j, data') => Found(j, data) \/ j = k
    BY <1>2, <1>3, <1>4, <1>5, <2>1, InsertFinds
  <2>4. Placed(data) => Placed(data')
    BY <1>2, <1>3, <1>4, <1>5, <2>1, <2>2, InsertFinds
  <2> QED
    BY <1>3, <2>1, <2>3, <2>4 DEF AsMade, Buckets
<1>8. CASE /\ ~Found(k, data) /\ NeedsRehash
           /\ data' = [new EXCEPT ![i] = Inserted(new[i], nd)]
  <2>1. PICK m \in Nat \ {0} :
            /\ IsTable(new, m) /\ m >= Buckets(data) /\ Placed(new) /\ AsMade(new)
            /\ DOMAIN new = DOMAIN NewData(Hint) =>
                    \A j \in Keys : Found(j, new) => Found(j, data)
    BY <1>1, <1>8, GrownAsMade
  <2> HIDE DEF new
  <2>2. /\ data' = With(new, i, Inserted(new[i], nd)) /\ DOMAIN data' = DOMAIN new
        /\ DOMAIN new = 0 .. m - 1 /\ Buckets(new) = m /\ i \in 0 .. m - 1
    BY <1>5, <1>8, <2>1, TableParts DEF With
  <2>3. \A j \in Keys : Found(j, data') => Found(j, new) \/ j = k
    BY <1>2, <1>3, <2>1, <2>2, InsertFinds
  <2>4. ASSUME DOMAIN new = DOMAIN NewData(Hint) PROVE Placed(data')
    <3>1. Buckets(NewData(Hint)) = m /\ Buckets(NewData(Hint)) <= n
      BY <1>3, <1>5, <2>2, <2>4 DEF AsMade, Buckets
    <3>2. m = n
      BY <1>5, <2>1, <3>1
    <3>3. i = Index(nd.key, new) /\ ~Found(nd.key, new)
      BY <1>2, <1>5, <1>8, <2>1, <2>2, <2>4, <3>2 DEF Index
    <3> QED
      BY <1>2, <1>3, <2>1, <2>2, <3>3, InsertFinds
  <2>5. AsMade(data')
    BY <2>1, <2>2, <2>4 DEF AsMade, Buckets
  <2> QED
    BY <2>1, <2>2, <2>3, <2>5
<1> QED
  BY <1>1, <1>6, <1>7, <1>8

LEMMA AppearsSetNoMemory ==
    ASSUME MadeInv, NEW k \in Keys, SetNoMemory(k)
    PROVE  /\ AsMade(data')
           /\ DOMAIN data' = DOMAIN NewData(Hint) =>
                \A j \in Keys : Found(j, data') => Found(j, data)
<1>1. table = "up" /\ (data' = data \/ (NeedsRehash /\ data' = Rehashed(data)))
  BY DEF SetNoMemory, Call
<1>2. CASE NeedsRehash /\ data' = Rehashed(data)
  BY <1>1, <1>2, GrownAsMade
<1> QED
  BY <1>1, <1>2 DEF MadeInv

LEMMA AppearsUnset ==
    ASSUME MadeInv, NEW k \in Keys, Unset(k)
    PROVE  /\ AsMade(data')
           /\ DOMAIN data' = DOMAIN NewData(Hint) =>
                /\ \A j \in Keys : Found(j, data') => Found(j, data)
                /\ ~Found(k, data')
<1>1. IInv /\ AsMade(data)
  BY DEF MadeInv, Unset, Call
<1> QED
  BY <1>1, KeptUnset DEF AsMade, Buckets

LEMMA AppearsFree == Free => DOMAIN data' # DOMAIN NewData(Hint)
<1>1. PICK n \in Nat \ {0} : DOMAIN NewData(Hint) = 0 .. n - 1
  BY HintTable
<1>2. 0 \in 0 .. n - 1
  OBVIOUS
<1>3. Free => DOMAIN data' = {}
  BY DEF Free
<1> QED
  BY <1>1, <1>2, <1>3

\* The calls that leave the table as it is, or free it.
LEMMA AppearsOther ==
    ASSUME [Next]_vars,
           \A k \in Keys : /\ ~SetNoMemory(k) /\ ~Unset(k)
                           /\ \A v \in Vals : ~SetFound(k, v) /\ ~SetNew(k, v) /\ ~SetGrows(k, v)
    PROVE  \/ Free
           \/ UNCHANGED vars
           \/ /\ UNCHANGED <<hash_fn, data>> /\ table = "up"
              /\ \A k \in Keys : reply' # <<"unset", k, 0>>
<1>1. ASSUME NEW k \in Keys, SetLocked(k) \/ SetCrashes(k) \/ UnsetLocked(k) \/ Get(k)
      PROVE  /\ UNCHANGED <<hash_fn, data>> /\ table = "up"
             /\ \A j \in Keys : reply' # <<"unset", j, 0>>
  BY <1>1 DEF SetLocked, SetCrashes, UnsetLocked, Get, Call
<1>2. ASSUME NEW i \in Iters, Begin(i) \/ NextFilled(i) \/ NextNone(i) \/ End(i)
      PROVE  /\ UNCHANGED <<hash_fn, data>> /\ table = "up"
             /\ \A j \in Keys : reply' # <<"unset", j, 0>>
  BY <1>2 DEF Begin, NextFilled, NextNone, End, Call
<1>3. ASSUME GetSize \/ ToArray \/ ToArrayFails
      PROVE  /\ UNCHANGED <<hash_fn, data>> /\ table = "up"
             /\ \A j \in Keys : reply' # <<"unset", j, 0>>
  BY <1>3 DEF GetSize, ToArray, ToArrayFails, Call
<1> QED
  BY <1>1, <1>2, <1>3 DEF Next, Over

LEMMA MadeInit == Init => MadeInv
<1>1. Init => data = NewData(Hint)
  BY DEF Init
<1>2. PICK n \in Nat \ {0} : Placed(NewData(Hint)) /\ Buckets(NewData(Hint)) = n
  BY HintTable
<1>3. AsMade(NewData(Hint))
  BY <1>2 DEF AsMade
<1> QED
  BY <1>1, <1>3, InvInit DEF MadeInv

LEMMA MadeNext ==
    ASSUME hash_fn' = hash_fn
    PROVE  AsMade(data)' <=> AsMade(data')
  BY FoundNext DEF AsMade

\* What any call does to a table with hash_init's buckets.
LEMMA MadeStep ==
    ASSUME MadeInv, [Next]_vars, vars' # vars
    PROVE  /\ MadeInv'
           /\ DOMAIN data' = DOMAIN NewData(Hint) => \A j \in Keys :
                /\ Found(j, data)' /\ ~Found(j, data) => reply' = <<"set", j, 0>>
                /\ reply' = <<"unset", j, 0>> => ~Found(j, data)'
<1> DEFINE Same == DOMAIN data' = DOMAIN NewData(Hint)
           Goal == /\ table' = "up" => AsMade(data)'
                   /\ Same => \A j \in Keys :
                        /\ Found(j, data)' /\ ~Found(j, data) => reply' = <<"set", j, 0>>
                        /\ reply' = <<"unset", j, 0>> => ~Found(j, data)'
<1>1. IInv /\ IInv'
  BY InvStep DEF MadeInv
<1>2. ASSUME NEW k \in Keys, NEW v \in Vals, SetFound(k, v) \/ SetNew(k, v) \/ SetGrows(k, v)
      PROVE  Goal
  <2>1. hash_fn' = hash_fn /\ reply' = <<"set", k, 0>>
    BY <1>2 DEF SetFound, SetNew, SetGrows
  <2>2. \A j \in Keys : reply' # <<"unset", j, 0>>
    BY <2>1
  <2>3. AsMade(data') /\ (Same => \A j \in Keys : Found(j, data') => Found(j, data) \/ j = k)
    BY <1>2, AppearsSet
  <2> QED
    BY <2>1, <2>2, <2>3, MadeNext, FoundNext
<1>3. ASSUME NEW k \in Keys, SetNoMemory(k) PROVE Goal
  <2>1. hash_fn' = hash_fn /\ reply' = <<"set", k, 1>>
    BY <1>3 DEF SetNoMemory
  <2>2. \A j \in Keys : reply' # <<"unset", j, 0>>
    BY <2>1
  <2>3. AsMade(data') /\ (Same => \A j \in Keys : Found(j, data') => Found(j, data))
    BY <1>3, AppearsSetNoMemory
  <2> QED
    BY <2>1, <2>2, <2>3, MadeNext, FoundNext
<1>4. ASSUME NEW k \in Keys, Unset(k) PROVE Goal
  <2>1. hash_fn' = hash_fn /\ reply' = <<"unset", k, 0>>
    BY <1>4 DEF Unset
  <2>2. \A j \in Keys : reply' = <<"unset", j, 0>> => j = k
    BY <2>1
  <2>3. /\ AsMade(data')
        /\ Same => ~Found(k, data') /\ \A j \in Keys : Found(j, data') => Found(j, data)
    BY <1>4, AppearsUnset
  <2> QED
    BY <2>1, <2>2, <2>3, MadeNext, FoundNext
<1>5. ASSUME Free PROVE Goal
  <2>1. table' = "freed"
    BY <1>5 DEF Free
  <2> QED
    BY <1>5, <2>1, AppearsFree
<1>6. ASSUME UNCHANGED <<hash_fn, data>>, table = "up", \A k \in Keys : reply' # <<"unset", k, 0>>
      PROVE  Goal
  <2>1. AsMade(data)
    BY <1>6 DEF MadeInv
  <2> QED
    BY <1>6, <2>1, MadeNext, FoundNext
<1>7. Goal
  BY <1>2, <1>3, <1>4, <1>5, <1>6, AppearsOther
<1> QED
  BY <1>1, <1>7 DEF MadeInv

\* In a table that has not grown no key comes up but by being set, whatever heads
\* and chains were unset before, and one that was unset is gone: no second node
\* has its key.
THEOREM NoneSound == Spec => NoneAppears
<1>1. Init => MadeInv
  BY MadeInit
<1>2. MadeInv /\ [Next]_vars => MadeInv'
  <2>1. ASSUME MadeInv, vars' = vars PROVE MadeInv'
    <3>1. UNCHANGED <<hash_fn, data, table>> /\ IInv'
      BY <2>1, InvStep DEF vars, MadeInv
    <3> QED
      BY <2>1, <3>1, MadeNext DEF MadeInv
  <2> QED
    BY <2>1, MadeStep
<1>3. MadeInv /\ [Next]_vars =>
        [DOMAIN data' = DOMAIN NewData(Hint) => \A k \in Keys :
            /\ Found(k, data)' /\ ~Found(k, data) => reply' = <<"set", k, 0>>
            /\ reply' = <<"unset", k, 0>> => ~Found(k, data)']_vars
  BY MadeStep
<1> QED
  BY <1>1, <1>2, <1>3, PTL DEF Spec, NoneAppears

-----------------------------------------------------------------------------
(* A table that does not grow is a map.                                    *)

NodesOf(d) == {NodeAt(d, p) : p \in Filled(d)}

ContentsOf(d) == [k \in {j \in Keys : Found(j, d)} |-> Value(k, d)]

\* Every node of a bucket is in a slot.
LEMMA NodeSlot ==
    ASSUME NEW b \in Cells, NEW r \in 1 .. Len(Nodes(b))
    PROVE  \E s \in Slots(b) : NodeIn(b, s) = Nodes(b)[r]
<1> DEFINE h == b.head
           c == b.chain
<1>1. /\ h \in Seq(NodeSet) /\ c \in Seq(NodeSet)
      /\ Len(h) = 0 \/ Len(h) = 1
      /\ Len(c) \in Nat /\ DOMAIN c = 1 .. Len(c)
      /\ h = <<>> <=> Len(h) = 0
  BY CellParts
<1>2. /\ Slots(b) = (IF h = <<>> THEN {} ELSE {0}) \cup DOMAIN c
      /\ \A s : NodeIn(b, s) = IF s = 0 THEN h[1] ELSE c[s]
  BY DEF Slots, NodeIn
<1>3. Nodes(b) = h \o c
  BY DEF Nodes
<1> HIDE DEF h, c
<1>4. /\ Len(h \o c) = Len(h) + Len(c)
      /\ \A o \in 1 .. Len(h) + Len(c) : (h \o c)[o] = IF o <= Len(h) THEN h[o] ELSE c[o - Len(h)]
  BY <1>1, ConcatProperties
<1>5. r \in 1 .. Len(h) + Len(c) /\ Nodes(b)[r] = IF r <= Len(h) THEN h[r] ELSE c[r - Len(h)]
  BY <1>3, <1>4
<1>6. CASE r <= Len(h)
  BY <1>1, <1>2, <1>5, <1>6
<1>7. CASE ~(r <= Len(h))
  <2>1. r - Len(h) \in DOMAIN c /\ r - Len(h) # 0 /\ Nodes(b)[r] = c[r - Len(h)]
    BY <1>1, <1>5, <1>7
  <2> QED
    BY <1>2, <2>1
<1> QED
  BY <1>6, <1>7

\* What hash_get finds is the value of the key's node.
LEMMA ValueNode ==
    ASSUME hash_fn \in [Keys -> Nat], NEW n \in Nat \ {0}, NEW d, IsTable(d, n), Placed(d),
           NEW x \in NodesOf(d)
    PROVE  x \in NodeSet /\ Found(x.key, d) /\ Value(x.key, d) = x.val
<1>1. PICK p \in Filled(d) : x = NodeAt(d, p)
  BY DEF NodesOf
<1>2. x \in NodeSet /\ x.key \in Keys
  BY <1>1, FilledSlots DEF NodeSet
<1> DEFINE k  == x.key
           i  == Index(k, d)
           ns == Nodes(d[i])
           r  == First(ns, k)
<1>3. Found(k, d)
  BY <1>1, <1>2, NodeFound
<1>4. i \in 0 .. n - 1 /\ d[i] \in Cells
  BY <1>2, IndexInTable
<1>5. ns \in Seq(NodeSet)
  <2>1. d[i].head \in Seq(NodeSet) /\ d[i].chain \in Seq(NodeSet)
    BY <1>4, CellParts
  <2> QED
    BY <2>1, ConcatProperties DEF Nodes
<1>6. r \in 1 .. Len(ns) /\ ns[r].key = k
  BY <1>3, <1>5, FirstFinds DEF Found
<1>7. PICK s \in Slots(d[i]) : NodeIn(d[i], s) = ns[r]
  BY <1>4, <1>6, NodeSlot
<1>8. <<i, s>> \in Filled(d) /\ NodeAt(d, <<i, s>>) = ns[r]
  BY <1>4, <1>7, FilledSlots
<1>9. ns[r] = x
  BY <1>1, <1>6, <1>8, PlacedOnce
<1>10. Value(k, d) = ns[r].val
  BY DEF Value
<1> QED
  BY <1>2, <1>3, <1>9, <1>10

LEMMA NodeOfKey ==
    ASSUME hash_fn \in [Keys -> Nat], NEW n \in Nat \ {0}, NEW d, IsTable(d, n), Placed(d),
           NEW k \in Keys
    PROVE  Found(k, d) <=> \E x \in NodesOf(d) : x.key = k
  BY NodeFound DEF NodesOf

\* The nodes that hash_set leaves: those of other keys, and its own.
LEMMA InsertNodes ==
    ASSUME NEW n \in Nat, NEW d, IsTable(d, n), Headed(d), NEW nd \in NodeSet,
           NEW i \in 0 .. n - 1, NEW e, e = With(d, i, Inserted(d[i], nd))
    PROVE  NodesOf(e) = NodesOf(d) \cup {nd}
<1> DEFINE c == Inserted(d[i], nd)
<1>1. d \in [0 .. n - 1 -> Cells] /\ DOMAIN d = 0 .. n - 1
  BY TableParts
<1>2. \E j \in Slots(c) : NodeIn(c, j) = nd
  BY <1>1, InsertedCell
<1>3. /\ \A s \in Slots(d[i]) : \E j \in Slots(c) : NodeIn(c, j) = NodeIn(d[i], s)
      /\ \A j \in Slots(c) :
            NodeIn(c, j) = nd \/ \E s \in Slots(d[i]) : NodeIn(d[i], s) = NodeIn(c, j)
  BY <1>1, InsertedNodes DEF Headed
<1>4. IsTable(e, n)
  BY InsertGrows
<1>5. e[i] = c /\ \A l \in 0 .. n - 1 : l # i => e[l] = d[l]
  BY <1>1 DEF With
<1> HIDE DEF c
<1>6. ASSUME NEW f, IsTable(f, n), NEW x
      PROVE  x \in NodesOf(f) <=>
                \E l \in 0 .. n - 1 : \E j \in Slots(f[l]) : x = NodeIn(f[l], j)
  <2>1. ASSUME NEW p \in Filled(f), x = NodeAt(f, p)
        PROVE  \E l \in 0 .. n - 1 : \E j \in Slots(f[l]) : x = NodeIn(f[l], j)
    BY <1>6, <2>1, FilledSlots
  <2>2. ASSUME NEW l \in 0 .. n - 1, NEW j \in Slots(f[l]), x = NodeIn(f[l], j)
        PROVE  \E p \in Filled(f) : x = NodeAt(f, p)
    <3>1. <<l, j>> \in Filled(f) /\ NodeAt(f, <<l, j>>) = x
      BY <1>6, <2>2, FilledSlots
    <3> QED
      BY <3>1
  <2> QED
    BY <2>1, <2>2 DEF NodesOf
<1>7. ASSUME NEW x \in NodesOf(e) PROVE x \in NodesOf(d) \cup {nd}
  <2>1. PICK l \in 0 .. n - 1 : \E j \in Slots(e[l]) : x = NodeIn(e[l], j)
    BY <1>4, <1>6
  <2>2. PICK j \in Slots(e[l]) : x = NodeIn(e[l], j)
    BY <2>1
  <2>3. CASE l = i
    <3>1. x = nd \/ \E s \in Slots(d[i]) : x = NodeIn(d[i], s)
      BY <1>3, <1>5, <2>2, <2>3
    <3> QED
      BY <1>6, <3>1
  <2>4. CASE l # i
    <3>1. j \in Slots(d[l]) /\ x = NodeIn(d[l], j)
      BY <1>5, <2>2, <2>4
    <3> QED
      BY <1>6, <3>1
  <2> QED
    BY <2>3, <2>4
<1>8. ASSUME NEW x \in NodesOf(d) PROVE x \in NodesOf(e)
  <2>1. PICK l \in 0 .. n - 1 : \E j \in Slots(d[l]) : x = NodeIn(d[l], j)
    BY <1>6
  <2>2. PICK j \in Slots(d[l]) : x = NodeIn(d[l], j)
    BY <2>1
  <2>3. \E s \in Slots(e[l]) : x = NodeIn(e[l], s)
    BY <1>3, <1>5, <2>2
  <2> QED
    BY <1>4, <1>6, <2>3
<1>9. nd \in NodesOf(e)
  BY <1>2, <1>4, <1>5, <1>6
<1> QED
  BY <1>7, <1>8, <1>9

LEMMA UpdateNodes ==
    ASSUME hash_fn \in [Keys -> Nat], NEW n \in Nat \ {0}, NEW d, IsTable(d, n), Placed(d),
           NEW nd \in NodeSet, Found(nd.key, d),
           NEW e, e = With(d, Index(nd.key, d), Updated(d[Index(nd.key, d)], nd))
    PROVE  NodesOf(e) = {x \in NodesOf(d) : x.key # nd.key} \cup {nd}
<1>1. Filled(e) = Filled(d)
  BY UpdateKeeps
<1>2. PICK p \in Filled(d) :
        /\ NodeAt(d, p).key = nd.key /\ NodeAt(e, p) = nd
        /\ \A q \in Filled(d) \ {p} : NodeAt(e, q) = NodeAt(d, q)
  BY UpdateKeeps
<1>3. \A q \in Filled(d) : NodeAt(d, q).key = nd.key => q = p
  BY <1>2, PlacedOnce
<1> QED
  BY <1>1, <1>2, <1>3 DEF NodesOf

LEMMA SetContents ==
    ASSUME hash_fn \in [Keys -> Nat], NEW n \in Nat \ {0}, NEW d, IsTable(d, n), Placed(d),
           NEW m \in Nat \ {0}, NEW e, IsTable(e, m), Placed(e),
           NEW k \in Keys, NEW v \in Vals,
           NodesOf(e) = {x \in NodesOf(d) : x.key # k} \cup {Node(k, v)}
    PROVE  ContentsOf(e) = [j \in DOMAIN ContentsOf(d) \cup {k} |->
                                IF j = k THEN v ELSE ContentsOf(d)[j]]
<1>1. Node(k, v).key = k /\ Node(k, v).val = v
  BY DEF Node
<1>2. \A f : /\ DOMAIN ContentsOf(f) = {j \in Keys : Found(j, f)}
             /\ \A j \in Keys : Found(j, f) => ContentsOf(f)[j] = Value(j, f)
  BY DEF ContentsOf
<1>3. ASSUME NEW j \in Keys
      PROVE  /\ Found(j, e) <=> Found(j, d) \/ j = k
             /\ Found(j, e) => Value(j, e) = IF j = k THEN v ELSE Value(j, d)
  <2>1. /\ Found(j, d) <=> \E x \in NodesOf(d) : x.key = j
        /\ Found(j, e) <=> \E x \in NodesOf(e) : x.key = j
    BY NodeOfKey
  <2>2. Found(j, e) <=> Found(j, d) \/ j = k
    BY <1>1, <2>1
  <2>3. ASSUME Found(j, e) PROVE Value(j, e) = IF j = k THEN v ELSE Value(j, d)
    <3>1. PICK x \in NodesOf(e) : x.key = j
      BY <2>1, <2>3
    <3>2. Value(j, e) = x.val
      BY <3>1, ValueNode
    <3>3. CASE j = k
      BY <1>1, <3>1, <3>2, <3>3
    <3>4. CASE j # k
      <4>1. x \in NodesOf(d)
        BY <1>1, <3>1, <3>4
      <4>2. Value(j, d) = x.val
        BY <3>1, <4>1, ValueNode
      <4> QED
        BY <3>2, <3>4, <4>2
    <3> QED
      BY <3>3, <3>4
  <2> QED
    BY <2>2, <2>3
<1>4. DOMAIN ContentsOf(e) = DOMAIN ContentsOf(d) \cup {k}
  BY <1>2, <1>3
<1>5. ASSUME NEW j \in DOMAIN ContentsOf(e)
      PROVE  ContentsOf(e)[j] = IF j = k THEN v ELSE ContentsOf(d)[j]
  BY <1>2, <1>3, <1>5
<1>6. ContentsOf(e) = [j \in DOMAIN ContentsOf(e) |-> ContentsOf(e)[j]]
  BY DEF ContentsOf
<1> QED
  BY <1>4, <1>5, <1>6

\* hash_size.
LEMMA ContentsSize ==
    ASSUME hash_fn \in [Keys -> Nat], NEW n \in Nat \ {0}, NEW d, IsTable(d, n), Placed(d)
    PROVE  Cardinality(DOMAIN ContentsOf(d)) = Size(d)
<1> DEFINE f == [p \in Filled(d) |-> NodeAt(d, p).key]
           T == DOMAIN ContentsOf(d)
<1>1. T = {j \in Keys : Found(j, d)}
  BY DEF ContentsOf
<1> HIDE DEF T
<1>2. ASSUME NEW p \in Filled(d) PROVE f[p] \in T
  <2>1. NodeAt(d, p).key \in Keys
    BY FilledSlots DEF NodeSet
  <2> QED
    BY <1>1, <2>1, NodeFound
<1>3. \A k \in T : \E p \in Filled(d) : f[p] = k
  BY <1>1, NodeFound
<1>4. \A p, q \in Filled(d) : f[p] = f[q] => p = q
  BY PlacedOnce
<1>5. f \in Surjection(Filled(d), T) /\ f \in Injection(Filled(d), T)
  BY <1>2, <1>3, <1>4 DEF Surjection, Injection, IsInjective
<1>6. IsFiniteSet(Filled(d))
  BY DEF IsTable
<1> HIDE DEF f
<1>7. Cardinality(T) = Cardinality(Filled(d))
  BY <1>5, <1>6, FS_Surjection
<1> QED
  BY <1>7 DEF Size, T

\* hash_next leaves the iterator before the slots that it has not given out.
LEMMA AheadAfter ==
    ASSUME NEW n \in Nat, NEW d, IsTable(d, n), NEW a \in Nat \X Nat, NEW p \in Ahead(d, a),
           \A q \in Ahead(d, a) : NotBefore(q, p)
    PROVE  After(d, p) \in Nat \X Nat /\ Ahead(d, After(d, p)) = Ahead(d, a) \ {p}
<1>1. p \in Filled(d) /\ NotBefore(p, a)
  BY DEF Ahead
<1>2. PICK i \in 0 .. n - 1 : \E j \in Slots(d[i]) : p = <<i, j>>
  BY <1>1, FilledSlots
<1>3. PICK s \in Slots(d[i]) : p = <<i, s>>
  BY <1>2
<1> DEFINE L == Len(d[i].chain)
           f == After(d, p)
<1>4. \A l \in 0 .. n - 1 : d[l] \in Cells
  BY TableParts
<1>5. L \in Nat /\ \A j \in Slots(d[i]) : j \in Nat /\ j <= L
  BY <1>4, CellParts DEF Slots
<1>6. i \in Nat /\ s \in Nat /\ p[1] = i /\ p[2] = s
  BY <1>3, <1>5
<1>7. f = IF s < L THEN <<i, s + 1>> ELSE <<i + 1, 0>>
  BY <1>6 DEF After
<1> HIDE DEF f, L
<1>8. PICK f1 \in Nat, f2 \in Nat : f = <<f1, f2>>
  BY <1>5, <1>6, <1>7
<1>9. PICK a1 \in Nat, a2 \in Nat : a = <<a1, a2>>
  OBVIOUS
<1>10. i > a1 \/ (i = a1 /\ s >= a2)
  BY <1>1, <1>6, <1>9 DEF NotBefore
<1>11. ASSUME NEW q \in Filled(d)
       PROVE  q \in Ahead(d, f) <=> q \in Ahead(d, a) /\ q # p
  <2>1. PICK l \in 0 .. n - 1 : \E j \in Slots(d[l]) : q = <<l, j>>
    BY FilledSlots
  <2>2. PICK j \in Slots(d[l]) : q = <<l, j>>
    BY <2>1
  <2>3. l \in Nat /\ j \in Nat /\ (l = i => j <= L)
    BY <1>4, <1>5, <2>2, SlotNodes
  <2>4. /\ q \in Ahead(d, f) <=> l > f1 \/ (l = f1 /\ j >= f2)
        /\ q \in Ahead(d, a) <=> l > a1 \/ (l = a1 /\ j >= a2)
    BY <1>8, <1>9, <2>2 DEF Ahead, NotBefore
  <2>5. q \in Ahead(d, a) => l > i \/ (l = i /\ j >= s)
    BY <1>6, <2>2 DEF NotBefore
  <2>6. q = p <=> l = i /\ j = s
    BY <1>3, <2>2
  <2>7. (s < L /\ f1 = i /\ f2 = s + 1) \/ (s >= L /\ f1 = i + 1 /\ f2 = 0)
    BY <1>5, <1>6, <1>7, <1>8
  <2>8. l > f1 \/ (l = f1 /\ j >= f2) <=> l > i \/ (l = i /\ j > s)
    BY <1>5, <1>6, <2>3, <2>7
  <2> QED
    BY <1>6, <1>10, <2>3, <2>4, <2>5, <2>6, <2>8
<1>12. \A q : q \in Ahead(d, f) \/ q \in Ahead(d, a) => q \in Filled(d)
  BY DEF Ahead
<1> QED
  BY <1>8, <1>11, <1>12 DEF f

-----------------------------------------------------------------------------
(* The mapping to HashMap.                                                 *)

Opens == {i \in Iters : at[i] # closed}
Lefts == [i \in Iters |->
            IF at[i] = closed THEN {} ELSE {NodeAt(data, p).key : p \in Ahead(data, at[i])}]

MapInv ==
    /\ RoomInv
    /\ at \in [Iters -> {closed} \cup (Nat \X Nat)]
    /\ table = "up" => reply # <<"free">>

LEMMA SameView ==
    ASSUME UNCHANGED <<hash_fn, data, at>>
    PROVE  Contents' = Contents /\ Opens' = Opens /\ Lefts' = Lefts
<1>1. /\ \A k : (Found(k, data)' <=> Found(k, data)) /\ Value(k, data)' = Value(k, data)
      /\ data' = data /\ at' = at
  BY DEF Found, Value, Index
<1>2. Contents' = Contents
  BY <1>1 DEF Contents
<1> QED
  BY <1>1, <1>2 DEF Opens, Lefts

\* While nobody iterates, nothing is left to give out.
LEMMA NoneOpen ==
    ASSUME ~Locked, at' = at
    PROVE  Opens = {} /\ Opens' = Opens /\ Lefts' = Lefts
<1>1. \A i \in Iters : at[i] = closed /\ at'[i] = closed
  BY DEF Locked
<1> QED
  BY <1>1 DEF Opens, Lefts

LEMMA UpTable ==
    ASSUME MapInv, Roomy, table = "up"
    PROVE  /\ hash_fn \in [Keys -> Nat] /\ \E n \in Nat \ {0} : IsTable(data, n)
           /\ Placed(data) /\ Headed(data) /\ elts = Size(data)
           /\ \A k \in Keys : ~Found(k, data) => ~NeedsRehash
           /\ reply # <<"free">>
  BY RoomForMore DEF MapInv, RoomInv, InPlace, IInv, Shape, Counted, Roomy, AllHeaded

LEMMA UpContents ==
    ASSUME NEW n \in Nat \ {0}, IsTable(data, n)
    PROVE  Contents = ContentsOf(data)
<1>1. 0 \in DOMAIN data /\ DOMAIN <<>> = {}
  BY TableParts
<1>2. data # <<>>
  BY <1>1
<1> QED
  BY <1>2 DEF Contents, ContentsOf

LEMMA NextContents ==
    ASSUME hash_fn' = hash_fn, NEW n \in Nat \ {0}, IsTable(data', n)
    PROVE  Contents' = ContentsOf(data')
<1>1. 0 \in DOMAIN data' /\ DOMAIN <<>> = {}
  BY TableParts
<1>2. data' # <<>>
  BY <1>1
<1>3. \A k : (Found(k, data)' <=> Found(k, data')) /\ Value(k, data)' = Value(k, data')
  BY DEF Found, Value, Index
<1> QED
  BY <1>2, <1>3 DEF Contents, ContentsOf

\* hash_set of a key that is there, or is new.
LEMMA SetMaps ==
    ASSUME MapInv, Roomy, NEW k \in Keys, NEW v \in Vals, SetFound(k, v) \/ SetNew(k, v)
    PROVE  Map!Set(k, v)
<1> DEFINE i  == Index(k, data)
           nd == Node(k, v)
<1>1. /\ table = "up" /\ ~Locked /\ reply' = <<"set", k, 0>> /\ hash_fn' = hash_fn /\ at' = at
      /\ IF Found(k, data) THEN data' = [data EXCEPT ![i] = Updated(data[i], nd)]
                           ELSE data' = [data EXCEPT ![i] = Inserted(data[i], nd)]
  BY DEF SetFound, SetNew, Call
<1>2. hash_fn \in [Keys -> Nat] /\ Placed(data) /\ Headed(data)
  BY <1>1, UpTable
<1>3. PICK n \in Nat \ {0} : IsTable(data, n)
  BY <1>1, UpTable
<1>4. nd \in NodeSet /\ nd.key = k
  BY DEF Node, NodeSet
<1>5. i \in 0 .. n - 1
  BY <1>2, <1>3, IndexInTable
<1> HIDE DEF nd
<1>6. /\ IsTable(data', n) /\ Placed(data')
      /\ NodesOf(data') = {x \in NodesOf(data) : x.key # k} \cup {nd}
  <2>1. CASE Found(k, data)
    <3>1. data' = With(data, Index(nd.key, data), Updated(data[Index(nd.key, data)], nd))
      BY <1>1, <1>4, <2>1 DEF With
    <3>2. IsTable(data', n) /\ Placed(data')
      BY <1>2, <1>3, <1>4, <2>1, <3>1, UpdateKeeps, UpdateFinds
    <3>3. NodesOf(data') = {x \in NodesOf(data) : x.key # nd.key} \cup {nd}
      BY <1>2, <1>3, <1>4, <2>1, <3>1, UpdateNodes
    <3> QED
      BY <1>4, <3>2, <3>3
  <2>2. CASE ~Found(k, data)
    <3>1. /\ data' = With(data, i, Inserted(data[i], nd))
          /\ i = Index(nd.key, data) /\ ~Found(nd.key, data)
      BY <1>1, <1>4, <2>2 DEF With
    <3> HIDE DEF i
    <3>2. IsTable(data', n)
      BY <1>3, <1>4, <1>5, <3>1, InsertGrows
    <3>3. Placed(data')
      BY <1>2, <1>3, <1>4, <1>5, <3>1, InsertFinds
    <3>4. NodesOf(data') = NodesOf(data) \cup {nd}
      BY <1>2, <1>3, <1>4, <1>5, <3>1, InsertNodes
    <3>5. \A x \in NodesOf(data) : x.key # k
      BY <1>2, <1>3, <2>2, ValueNode
    <3> QED
      BY <3>2, <3>3, <3>4, <3>5
  <2> QED
    BY <2>1, <2>2
<1>7. Contents = ContentsOf(data) /\ Contents' = ContentsOf(data')
  BY <1>1, <1>3, <1>6, UpContents, NextContents
<1>8. Contents' = [j \in DOMAIN Contents \cup {k} |-> IF j = k THEN v ELSE Contents[j]]
  <2>1. NodesOf(data') = {x \in NodesOf(data) : x.key # k} \cup {Node(k, v)}
    BY <1>6 DEF nd
  <2>2. ContentsOf(data') = [j \in DOMAIN ContentsOf(data) \cup {k} |->
                                IF j = k THEN v ELSE ContentsOf(data)[j]]
    BY <1>2, <1>3, <1>6, <2>1, SetContents
  <2> QED
    BY <1>7, <2>2
<1>9. Opens = {} /\ Opens' = Opens /\ Lefts' = Lefts
  BY <1>1, NoneOpen
<1> QED
  BY <1>1, <1>8, <1>9 DEF Map!Set, Opens, Lefts

LEMMA GetMaps ==
    ASSUME MapInv, Roomy, NEW k \in Keys, Get(k)
    PROVE  Map!Get(k)
<1>1. /\ table = "up" /\ UNCHANGED <<hash_fn, data, at>>
      /\ reply' = IF Found(k, data) THEN <<"get", k, 0, Value(k, data)>> ELSE <<"get", k, 1>>
  BY DEF Get, Call
<1>2. Contents = ContentsOf(data)
  BY <1>1, UpTable, UpContents
<1>3. /\ k \in DOMAIN Contents <=> Found(k, data)
      /\ Found(k, data) => Contents[k] = Value(k, data)
  BY <1>2 DEF ContentsOf
<1>4. reply' = IF k \in DOMAIN Contents THEN <<"get", k, 0, Contents[k]>> ELSE <<"get", k, 1>>
  BY <1>1, <1>3
<1> QED
  BY <1>1, <1>4, SameView DEF Map!Get, Opens, Lefts

LEMMA SizeMaps ==
    ASSUME MapInv, Roomy, GetSize
    PROVE  Map!Size
<1>1. table = "up" /\ UNCHANGED <<hash_fn, data, at>> /\ reply' = <<"size", elts>>
  BY DEF GetSize, Call
<1>2. elts = Cardinality(DOMAIN Contents)
  BY <1>1, UpTable, UpContents, ContentsSize
<1>3. Map!Cardinality(DOMAIN Contents) = Cardinality(DOMAIN Contents)
  BY DEF Map!Cardinality, Cardinality
<1> QED
  BY <1>1, <1>2, <1>3, SameView DEF Map!Size, Opens, Lefts

LEMMA BeginMaps ==
    ASSUME MapInv, Roomy, NEW i \in Iters, Begin(i)
    PROVE  Map!Begin(i)
<1>1. /\ table = "up" /\ at[i] = closed /\ UNCHANGED <<hash_fn, data>>
      /\ at' = [at EXCEPT ![i] = <<0, 0>>] /\ reply' = <<"begin", i>>
  BY DEF Begin, Call
<1>2. /\ at \in [Iters -> {closed} \cup (Nat \X Nat)]
      /\ hash_fn \in [Keys -> Nat] /\ Placed(data)
  BY <1>1, UpTable DEF MapInv
<1>3. PICK n \in Nat \ {0} : IsTable(data, n)
  BY <1>1, UpTable
<1>4. DOMAIN Contents = {j \in Keys : Found(j, data)}
  BY <1>3, UpContents DEF ContentsOf
<1>5. Contents' = Contents
  BY <1>1 DEF Contents, Found, Value, Index
<1>6. Ahead(data, <<0, 0>>) = Filled(data)
  BY <1>3, FilledSlots DEF Ahead, NotBefore
<1>7. {NodeAt(data, p).key : p \in Ahead(data, <<0, 0>>)} = DOMAIN Contents
  <2>1. \A p \in Filled(data) : NodeAt(data, p).key \in Keys
    BY <1>3, FilledSlots DEF NodeSet
  <2>2. \A j \in Keys : Found(j, data) <=> \E p \in Filled(data) : NodeAt(data, p).key = j
    BY <1>2, <1>3, NodeFound
  <2> QED
    BY <1>4, <1>6, <2>1, <2>2
<1>8. <<0, 0>> # closed
  BY DEF closed
<1>9. i \notin Opens /\ Opens' = Opens \cup {i}
  BY <1>1, <1>2, <1>8 DEF Opens
<1>10. Lefts' = [Lefts EXCEPT ![i] = DOMAIN Contents]
  BY <1>1, <1>2, <1>7, <1>8 DEF Lefts
<1> QED
  BY <1>1, <1>5, <1>9, <1>10 DEF Map!Begin, Opens, Lefts

\* Whether hash_next gives out a key or none, the iterator is at a slot.
LEMMA NextSlot ==
    ASSUME MapInv, Roomy, NEW i \in Iters, NextFilled(i) \/ NextNone(i)
    PROVE  \E f \in Nat \X Nat : at' = [at EXCEPT ![i] = f]
<1>1. table = "up" /\ at[i] # closed
  BY DEF NextFilled, NextNone, Call
<1>2. PICK n \in Nat \ {0} : IsTable(data, n)
  BY <1>1, UpTable
<1>3. at[i] \in Nat \X Nat
  BY <1>1 DEF MapInv
<1>4. CASE NextNone(i)
  <2>1. at' = [at EXCEPT ![i] = <<Buckets(data), 0>>] /\ Buckets(data) \in Nat
    BY <1>2, <1>4, TableParts DEF NextNone
  <2> QED
    BY <2>1
<1>5. CASE NextFilled(i)
  <2>1. PICK p \in Ahead(data, at[i]) :
            /\ \A q \in Ahead(data, at[i]) : NotBefore(q, p)
            /\ at' = [at EXCEPT ![i] = After(data, p)]
    BY <1>5 DEF NextFilled
  <2>2. After(data, p) \in Nat \X Nat
    BY <1>2, <1>3, <2>1, AheadAfter
  <2> QED
    BY <2>1, <2>2
<1> QED
  BY <1>4, <1>5

LEMMA GiveMaps ==
    ASSUME MapInv, Roomy, NEW i \in Iters, NextFilled(i)
    PROVE  \E k \in Keys : Map!Give(i, k)
<1>1. table = "up" /\ at[i] # closed /\ UNCHANGED <<hash_fn, data>>
  BY DEF NextFilled, Call
<1>2. PICK p \in Ahead(data, at[i]) :
        /\ \A q \in Ahead(data, at[i]) : NotBefore(q, p)
        /\ at' = [at EXCEPT ![i] = After(data, p)]
        /\ reply' = <<"next", NodeAt(data, p).key, NodeAt(data, p).val>>
  BY DEF NextFilled
<1>3. PICK n \in Nat \ {0} : IsTable(data, n)
  BY <1>1, UpTable
<1>4. /\ at \in [Iters -> {closed} \cup (Nat \X Nat)] /\ at[i] \in Nat \X Nat
      /\ hash_fn \in [Keys -> Nat] /\ Placed(data)
  BY <1>1, UpTable DEF MapInv
<1> DEFINE x == NodeAt(data, p)
           L == Ahead(data, at[i])
           M == Ahead(data, After(data, p))
<1>5. p \in Filled(data) /\ x \in NodesOf(data) /\ L \subseteq Filled(data)
  BY <1>2 DEF Ahead, NodesOf
<1>6. x \in NodeSet /\ Found(x.key, data) /\ Value(x.key, data) = x.val
  BY <1>3, <1>4, <1>5, ValueNode
<1>7. x.key \in Keys /\ Contents[x.key] = x.val
  <2>1. x.key \in Keys
    BY <1>6 DEF NodeSet
  <2> QED
    BY <1>3, <1>6, <2>1, UpContents DEF ContentsOf
<1>8. After(data, p) \in Nat \X Nat /\ M = L \ {p}
  BY <1>2, <1>3, <1>4, AheadAfter
<1>9. \A q \in L : NodeAt(data, q).key = x.key => q = p
  BY <1>3, <1>4, <1>5, PlacedOnce
<1>10. {NodeAt(data, q).key : q \in M} = {NodeAt(data, q).key : q \in L} \ {x.key}
  BY <1>8, <1>9
<1>11. After(data, p) # closed /\ x.key \in {NodeAt(data, q).key : q \in L}
  BY <1>2, <1>8 DEF closed
<1>12. Contents' = Contents
  BY <1>1 DEF Contents, Found, Value, Index
<1>13. i \in Opens /\ Opens' = Opens
  BY <1>1, <1>2, <1>4, <1>11 DEF Opens
<1>14. x.key \in Lefts[i] /\ Lefts' = [Lefts EXCEPT ![i] = Lefts[i] \ {x.key}]
  <2>1. Lefts[i] = {NodeAt(data, q).key : q \in L}
    BY <1>1 DEF Lefts
  <2>2. Lefts'[i] = {NodeAt(data, q).key : q \in M}
    BY <1>1, <1>2, <1>4, <1>11 DEF Lefts
  <2>3. \A j \in Iters : j # i => Lefts'[j] = Lefts[j]
    BY <1>1, <1>2, <1>4 DEF Lefts
  <2>4. DOMAIN Lefts = Iters /\ DOMAIN Lefts' = Iters
    BY DEF Lefts
  <2>5. Lefts'[i] = Lefts[i] \ {x.key}
    BY <1>10, <2>1, <2>2
  <2>6. Lefts' = [j \in Iters |-> Lefts'[j]] /\ Lefts = [j \in Iters |-> Lefts[j]]
    BY DEF Lefts
  <2> QED
    BY <1>11, <2>1, <2>3, <2>4, <2>5, <2>6
<1>15. PICK k \in Keys : k = x.key
  BY <1>7
<1>16. Map!Give(i, k)
  BY <1>2, <1>7, <1>12, <1>13, <1>14, <1>15 DEF Map!Give, Opens, Lefts
<1> QED
  BY <1>16

LEMMA GiveNoneMaps ==
    ASSUME MapInv, Roomy, NEW i \in Iters, NextNone(i)
    PROVE  Map!GiveNone(i)
<1>1. /\ table = "up" /\ at[i] # closed /\ UNCHANGED <<hash_fn, data>>
      /\ Ahead(data, at[i]) = {} /\ at' = [at EXCEPT ![i] = <<Buckets(data), 0>>]
      /\ reply' = <<"next">>
  BY DEF NextNone, Call
<1>2. PICK n \in Nat \ {0} : IsTable(data, n)
  BY <1>1, UpTable
<1>3. at \in [Iters -> {closed} \cup (Nat \X Nat)]
  BY DEF MapInv
<1>4. <<Buckets(data), 0>> # closed
  BY DEF closed
<1>5. Ahead(data, <<Buckets(data), 0>>) = {}
  <2>1. Buckets(data) = n
    BY <1>2, TableParts
  <2>2. ASSUME NEW q \in Filled(data) PROVE ~NotBefore(q, <<n, 0>>)
    <3>1. PICK l \in 0 .. n - 1 : \E j \in Slots(data[l]) : q = <<l, j>>
      BY <1>2, FilledSlots
    <3> QED
      BY <3>1 DEF NotBefore
  <2> QED
    BY <2>1, <2>2 DEF Ahead
<1>6. Contents' = Contents
  BY <1>1 DEF Contents, Found, Value, Index
<1>7. i \in Opens /\ Opens' = Opens
  BY <1>1, <1>3, <1>4 DEF Opens
<1>8. Lefts[i] = {} /\ Lefts' = Lefts
  BY <1>1, <1>3, <1>4, <1>5 DEF Lefts
<1> QED
  BY <1>1, <1>6, <1>7, <1>8 DEF Map!GiveNone, Opens, Lefts

LEMMA EndMaps ==
    ASSUME MapInv, NEW i \in Iters, End(i)
    PROVE  Map!End(i)
<1>1. /\ at[i] # closed /\ UNCHANGED <<hash_fn, data>>
      /\ at' = [at EXCEPT ![i] = closed] /\ reply' = <<"end", i>>
  BY DEF End
<1>2. at \in [Iters -> {closed} \cup (Nat \X Nat)]
  BY DEF MapInv
<1>3. Contents' = Contents
  BY <1>1 DEF Contents, Found, Value, Index
<1>4. i \in Opens /\ Opens' = Opens \ {i}
  BY <1>1, <1>2 DEF Opens
<1>5. Lefts' = [Lefts EXCEPT ![i] = {}]
  BY <1>1, <1>2 DEF Lefts
<1> QED
  BY <1>1, <1>3, <1>4, <1>5 DEF Map!End, Opens, Lefts

\* nameset_to_array fills the whole array, with every key.
LEMMA ToArrayMaps ==
    ASSUME MapInv, Roomy, ToArray
    PROVE  Map!ToArray
<1> DEFINE arr == [m \in 1 .. elts |->
                        IF m <= Size(data) THEN <<Walk(data)[m].key>> ELSE <<>>]
           D   == DOMAIN Contents
           T   == {<<k>> : k \in D}
<1>1. /\ table = "up" /\ UNCHANGED <<hash_fn, data, at>>
      /\ reply' = <<"to_array", 0, arr>>
  BY DEF ToArray, Call
<1>2. hash_fn \in [Keys -> Nat] /\ Placed(data) /\ elts = Size(data)
  BY <1>1, UpTable
<1>3. PICK n \in Nat \ {0} : IsTable(data, n)
  BY <1>1, UpTable
<1>4. /\ Contents = ContentsOf(data) /\ Cardinality(D) = elts /\ elts \in Nat
      /\ D = {j \in Keys : Found(j, data)}
  BY <1>2, <1>3, UpContents, ContentsSize, TableParts DEF ContentsOf
<1>5. /\ \A m \in 1 .. elts : \E p \in Filled(data) : Walk(data)[m] = NodeAt(data, p)
      /\ \A p \in Filled(data) : \E m \in 1 .. elts : Walk(data)[m] = NodeAt(data, p)
  BY <1>2, <1>3, WalkNodes
<1>6. \A m \in 1 .. elts : arr[m] = <<Walk(data)[m].key>>
  BY <1>2, <1>4
<1> HIDE DEF arr, D
<1>7. ASSUME NEW m \in 1 .. elts PROVE arr[m] \in T
  <2>1. PICK p \in Filled(data) : Walk(data)[m] = NodeAt(data, p)
    BY <1>5
  <2>2. NodeAt(data, p).key \in D
    BY <1>2, <1>3, <1>4, FilledSlots, NodeFound DEF NodeSet
  <2> QED
    BY <1>6, <2>1, <2>2
<1>8. ASSUME NEW k \in D PROVE \E m \in 1 .. elts : arr[m] = <<k>>
  <2>1. PICK p \in Filled(data) : NodeAt(data, p).key = k
    BY <1>2, <1>3, <1>4, NodeFound
  <2>2. PICK m \in 1 .. elts : Walk(data)[m] = NodeAt(data, p)
    BY <1>5
  <2> QED
    BY <1>6, <2>1, <2>2
<1>9. arr \in [1 .. elts -> T] /\ DOMAIN arr = 1 .. elts
  BY <1>7 DEF arr
<1>10. {arr[m] : m \in DOMAIN arr} = T
  BY <1>7, <1>8, <1>9
<1>11. Map!Cardinality(DOMAIN Contents) = elts
  BY <1>4 DEF Map!Cardinality, Cardinality, D
<1>12. \E a \in [1 .. Map!Cardinality(DOMAIN Contents) -> {<<k>> : k \in DOMAIN Contents}] :
          /\ {a[m] : m \in DOMAIN a} = {<<k>> : k \in DOMAIN Contents}
          /\ reply' = <<"to_array", 0, a>>
  BY <1>1, <1>9, <1>10, <1>11 DEF D
<1> QED
  BY <1>1, <1>12, SameView DEF Map!ToArray, Opens, Lefts

\* What is left: the calls that fail, or change nothing that the map has.
LEMMA FailMaps ==
    ASSUME MapInv, Roomy, NEW k \in Keys,
           SetLocked(k) \/ SetNoMemory(k) \/ UnsetLocked(k)
    PROVE  Map!SetFails(k) \/ Map!UnsetFails(k)
<1>1. ASSUME SetLocked(k) PROVE Map!SetFails(k)
  <2>1. UNCHANGED <<hash_fn, data, at>> /\ reply' = <<"set", k, 1>>
    BY <1>1 DEF SetLocked
  <2> QED
    BY <2>1, SameView DEF Map!SetFails, Opens, Lefts
<1>2. ASSUME SetNoMemory(k) PROVE Map!SetFails(k)
  <2>1. table = "up" /\ ~Found(k, data)
    BY <1>2 DEF SetNoMemory, Call
  <2>2. ~NeedsRehash
    BY <2>1, UpTable
  <2>3. UNCHANGED <<hash_fn, data, at>> /\ reply' = <<"set", k, 1>>
    BY <1>2, <2>2 DEF SetNoMemory
  <2> QED
    BY <2>3, SameView DEF Map!SetFails, Opens, Lefts
<1>3. ASSUME UnsetLocked(k) PROVE Map!UnsetFails(k)
  <2>1. UNCHANGED <<hash_fn, data, at>> /\ reply' = <<"unset", k, 1>> /\ Locked
    BY <1>3 DEF UnsetLocked
  <2>2. Opens # {}
    BY <2>1 DEF Opens, Locked
  <2> QED
    BY <2>1, <2>2, SameView DEF Map!UnsetFails, Opens, Lefts
<1> QED
  BY <1>1, <1>2, <1>3

LEMMA FreeMaps ==
    ASSUME Free
    PROVE  Map!Free
<1>1. ~Locked /\ data' = <<>> /\ at' = at /\ reply' = <<"free">>
  BY DEF Free
<1>2. Contents' = <<>>
  <2>1. {j \in Keys : data' # <<>> /\ Found(j, data)'} = {}
    BY <1>1
  <2>2. DOMAIN Contents' = {}
    BY <2>1 DEF Contents
  <2> QED
    BY <2>1, <2>2 DEF Contents
<1>3. Opens = {} /\ Opens' = Opens /\ Lefts' = Lefts
  BY <1>1, NoneOpen
<1> QED
  BY <1>1, <1>2, <1>3 DEF Map!Free, Opens, Lefts

LEMMA NeverGrows ==
    ASSUME MapInv, Roomy, NEW k \in Keys
    PROVE  ~SetCrashes(k) /\ ~Unset(k) /\ \A v \in Vals : ~SetGrows(k, v)
<1>1. ~Unset(k)
  BY DEF Unset, Call, Roomy
<1>2. ASSUME table = "up", ~Found(k, data), NeedsRehash PROVE FALSE
  BY <1>2, UpTable
<1> QED
  BY <1>1, <1>2 DEF SetCrashes, SetGrows, Call

LEMMA MapStep ==
    ASSUME MapInv, Roomy, [Next]_vars
    PROVE  Map!Next \/ UNCHANGED Map!vars
<1>1. table = "up" => reply # <<"free">>
  BY DEF MapInv
<1>2. ASSUME NEW k \in Keys, NEW v \in Vals, SetFound(k, v) \/ SetNew(k, v) PROVE Map!Next
  <2>1. table = "up" /\ Map!Set(k, v)
    BY <1>2, SetMaps DEF SetFound, SetNew, Call
  <2> QED
    BY <1>1, <2>1 DEF Map!Next, Map!Call
<1>3. ASSUME NEW k \in Keys, SetLocked(k) \/ SetNoMemory(k) \/ UnsetLocked(k) PROVE Map!Next
  <2>1. table = "up" /\ (Map!SetFails(k) \/ Map!UnsetFails(k))
    BY <1>3, FailMaps DEF SetLocked, SetNoMemory, UnsetLocked, Call
  <2> QED
    BY <1>1, <2>1 DEF Map!Next, Map!Call
<1>4. ASSUME NEW k \in Keys, Get(k) PROVE Map!Next
  <2>1. table = "up" /\ Map!Get(k)
    BY <1>4, GetMaps DEF Get, Call
  <2> QED
    BY <1>1, <2>1 DEF Map!Next, Map!Call
<1>5. ASSUME NEW i \in Iters, Begin(i) \/ NextFilled(i) \/ NextNone(i) \/ End(i) PROVE Map!Next
  <2>1. table = "up"
    BY <1>5 DEF Begin, NextFilled, NextNone, End, Call
  <2>2. Map!Begin(i) \/ (\E k \in Keys : Map!Give(i, k)) \/ Map!GiveNone(i) \/ Map!End(i)
    BY <1>5, BeginMaps, GiveMaps, GiveNoneMaps, EndMaps
  <2> QED
    BY <1>1, <2>1, <2>2 DEF Map!Next, Map!Call
<1>6. ASSUME GetSize \/ ToArray \/ Free PROVE Map!Next
  <2>1. table = "up" /\ (Map!Size \/ Map!ToArray \/ Map!Free)
    BY <1>6, SizeMaps, ToArrayMaps, FreeMaps DEF GetSize, ToArray, Free, Call
  <2> QED
    BY <1>1, <2>1 DEF Map!Next, Map!Call
<1>7. ASSUME ToArrayFails PROVE Map!Next
  <2>1. table = "up" /\ UNCHANGED <<hash_fn, data, at>> /\ reply' = <<"to_array", 1>>
    BY <1>7 DEF ToArrayFails, Call
  <2>2. Map!ToArrayFails
    BY <2>1, SameView DEF Map!ToArrayFails, Opens, Lefts
  <2> QED
    BY <1>1, <2>1, <2>2 DEF Map!Next, Map!Call
<1>8. ASSUME Over \/ UNCHANGED vars PROVE UNCHANGED Map!vars
  <2>1. UNCHANGED <<hash_fn, data, at>> /\ reply' = reply
    BY <1>8 DEF Over, vars
  <2> QED
    BY <2>1, SameView DEF Map!vars, Opens, Lefts
<1> QED
  BY <1>2, <1>3, <1>4, <1>5, <1>6, <1>7, <1>8, NeverGrows DEF Next

LEMMA MapInit ==
    ASSUME Init
    PROVE  MapInv /\ Map!Init
<1>1. /\ data = NewData(Hint) /\ at = [i \in Iters |-> closed]
      /\ hash_fn \in [Keys -> Nat] /\ reply = <<"init">>
  BY HashFnsAssumption DEF Init
<1>2. MapInv
  BY <1>1, RoomInit DEF MapInv
<1>3. PICK n \in Nat \ {0} : IsTable(data, n) /\ Size(data) = 0
  BY <1>1, HintTable
<1>4. Filled(data) = {}
  BY <1>3, FS_EmptySet DEF Size, IsTable
<1>5. \A k \in Keys : ~Found(k, data)
  BY <1>1, <1>3, <1>4, NodeFound
<1>6. {j \in Keys : data # <<>> /\ Found(j, data)} = {}
  BY <1>5
<1>7. Contents = <<>>
  BY <1>6 DEF Contents
<1>8. Opens = {} /\ Lefts = [i \in Iters |-> {}]
  BY <1>1 DEF Opens, Lefts
<1> QED
  BY <1>1, <1>2, <1>7, <1>8 DEF Map!Init, Opens, Lefts

LEMMA MapInvStep ==
    ASSUME MapInv, Roomy, [Next]_vars
    PROVE  MapInv'
<1> DEFINE Goal == /\ at' \in [Iters -> {closed} \cup (Nat \X Nat)]
                   /\ table' = "up" => reply' # <<"free">>
<1>1. RoomInv' /\ at \in [Iters -> {closed} \cup (Nat \X Nat)]
  BY RoomStep DEF MapInv
<1>2. ASSUME NEW k \in Keys, NEW v \in Vals, SetFound(k, v) \/ SetNew(k, v) PROVE Goal
  BY <1>1, <1>2 DEF SetFound, SetNew
<1>3. ASSUME NEW k \in Keys,
             SetLocked(k) \/ SetNoMemory(k) \/ UnsetLocked(k) \/ Get(k)
      PROVE  Goal
  BY <1>1, <1>3 DEF SetLocked, SetNoMemory, UnsetLocked, Get
<1>4. ASSUME NEW i \in Iters, Begin(i) \/ End(i) PROVE Goal
  BY <1>1, <1>4 DEF Begin, End
<1>5. ASSUME NEW i \in Iters, NextFilled(i) \/ NextNone(i) PROVE Goal
  <2>1. PICK f \in Nat \X Nat : at' = [at EXCEPT ![i] = f]
    BY <1>5, NextSlot
  <2>2. reply' # <<"free">>
    BY <1>5 DEF NextFilled, NextNone
  <2> QED
    BY <1>1, <2>1, <2>2
<1>6. ASSUME GetSize \/ ToArray \/ ToArrayFails PROVE Goal
  BY <1>1, <1>6 DEF GetSize, ToArray, ToArrayFails
<1>7. ASSUME Free \/ Over \/ UNCHANGED vars PROVE Goal
  BY <1>1, <1>7 DEF Free, Over, vars, MapInv
<1>8. Goal
  BY <1>2, <1>3, <1>4, <1>5, <1>6, <1>7, NeverGrows DEF Next
<1> QED
  BY <1>1, <1>8 DEF MapInv

\* A table whose hint announced the keys, and of which nothing is unset, is a map
\* to its caller: what hash_set stores hash_get finds, hash_size counts it, an
\* iteration and nameset_to_array give out every key once; for any finite set of
\* keys, any hash function, any number of iterators and any threshold up to 1,
\* and whether or not memory runs out.
THEOREM MapSound ==
    ASSUME "unset" \notin Uses, IsFiniteSet(Keys), ThreshNum <= ThreshDen,
           Cardinality(Keys) <= SizeHint(Hint)
    PROVE  Spec => ImplementsHashMap
<1>1. Init => MapInv /\ Map!Init
  BY MapInit
<1>2. MapInv /\ [Next]_vars => MapInv'
  BY MapInvStep DEF Roomy
<1>3. MapInv /\ [Next]_vars => [Map!Next]_(Map!vars)
  BY MapStep DEF Roomy
<1> QED
  BY <1>1, <1>2, <1>3, PTL DEF Spec, ImplementsHashMap, Map!Spec

=============================================================================
