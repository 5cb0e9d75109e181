----------------------------- MODULE ProgramProofs -----------------------------
(***************************************************************************)
(* main() for any command line, any file and any size of a node: the list  *)
(* of the buffer, the bounds of its stores, and what the end leaves behind. *)
(***************************************************************************)
EXTENDS Program, SequenceTheorems, NatLemmas, TLAPS

Node == [from : Nat, to : Nat, prev : Nat, next : Nat]

Before == {"parse", "open", "measure", "alloc", "register"}
After  == {"close", "graph", "draw", "begin", "free", "end"}

Shape ==
    /\ pc \in Before \cup After \cup {"read", "close_null", "exit", "crashed"}
    /\ len \in Nat /\ file_len \in Nat /\ nodes \in Nat /\ pos \in Nat
    /\ buff \in Seq(Node)
    /\ Len(buff) <= nodes

\* How far the buffer is, and that its nodes have room for the file.
Room ==
    /\ pc \in Before => buff = <<>> /\ pos = 0
    /\ pc \in {"parse", "open", "measure"} => nodes = 0
    /\ pc \in After => Len(buff) = nodes
    /\ nodes * node_len >= file_len

\* The list as far as it has been built.
Chain ==
    /\ \A k \in 1 .. Len(buff) :
           /\ buff[k].to - buff[k].from <= node_len
           /\ buff[k].prev = k - 1
           /\ buff[k].next = IF k = nodes /\ pc # "read" THEN 0 ELSE k + 1
           /\ buff[k].from = IF k = 1 THEN 0 ELSE buff[k - 1].to
    /\ pos = IF buff = <<>> THEN 0 ELSE buff[Len(buff)].to

\* What has been allocated or opened, at each point of the program.
Holds ==
    /\ blocks \subseteq {"buff"}
    /\ pc \in Before \cup {"close_null"} => blocks = {}
    /\ pc = "parse" => live = {}
    /\ pc = "open" => live = {"blocks"}
    /\ pc \in {"measure", "alloc", "close_null"} => live = {"blocks", "file"}
    /\ pc = "register" => live = {"blocks", "file", "buff"}
    /\ pc \in {"read", "close"} => live = {"blocks", "file", "buff"} /\ blocks = {"buff"}
    /\ pc \in {"graph", "begin"} => live = {"blocks"} \cup blocks
    /\ pc = "draw" => live = {"blocks", "graph"} \cup blocks
    /\ pc = "free" => live = {"blocks", "iter"} \cup blocks
    /\ pc = "end" => live = {"blocks", "iter"}
    /\ pc \in {"exit", "crashed"} => ("buff" \in live <=> "buff" \in blocks)
    /\ pc = "exit" => live \subseteq {"blocks", "buff"} /\ (status = 0 => live = {})

IInv == Shape /\ Room /\ Chain /\ Holds

-----------------------------------------------------------------------------

\* The nodes that buff_from_file makes have room for what it measured.
LEMMA EnoughNodes ==
    ASSUME NEW l \in Nat, NEW n \in Nat \ {0}
    PROVE  LET m == l \div n + (IF l % n = 0 THEN 0 ELSE 1)
           IN  m \in Nat /\ m * n >= l
<1> DEFINE q == l \div n
           d == l % n
<1>1. l = n * q + d /\ d \in 0 .. n - 1 /\ q \in Nat
  BY Division
<1> HIDE DEF q, d
<1>2. CASE d = 0
  BY <1>1, <1>2 DEF q, d
<1>3. CASE d # 0
  <2>1. (q + 1) * n = n * q + n
    BY <1>1
  <2> QED
    BY <1>1, <1>3, <2>1 DEF q, d
<1> QED
  BY <1>2, <1>3

LEMMA NodeLen == node_len \in Nat \ {0} /\ BUFF_DATA_CAP = node_len + 1
  BY CapAssumption DEF node_len

\* What a turn of the loop reads fits into a node.
LEMMA BytesFit ==
    ASSUME len \in Nat, pos \in Nat
    PROVE  Bytes \in 0 .. node_len
  BY NodeLen DEF Bytes

LEMMA InvInit == Init => IInv
<1> SUFFICES ASSUME Init PROVE IInv
  OBVIOUS
<1> USE DEF Init
<1>1. Shape /\ Room
  BY CapAssumption, NodeLen DEF Shape, Room, Before
<1>2. Chain /\ Holds
  BY DEF Chain, Holds, Before
<1> QED
  BY <1>1, <1>2 DEF IInv

\* The steps that do not touch the buffer: its parts of the invariant hold on
\* if pc stays on the same side of the loop.
LEMMA BufferStays ==
    ASSUME Shape, Room, Chain, UNCHANGED <<disk, reading>>,
           pc' \in Before \cup After \cup {"read", "close_null", "exit", "crashed"},
           pc' \in Before => pc \in Before,
           pc' \in {"parse", "open", "measure"} => pc \in {"parse", "open", "measure"},
           pc' \in After => Len(buff) = nodes,
           pc' = "read" => buff = <<>>,
           pc = "read" => buff = <<>>
    PROVE  Shape' /\ Room' /\ Chain'
<1> USE DEF disk, reading
<1>1. Shape' /\ Room'
  BY DEF Shape, Room
<1>2. Chain'
  BY DEF Shape, Chain
<1> QED
  BY <1>1, <1>2

LEMMA InvStep == IInv /\ [Next]_vars => IInv'
<1> SUFFICES ASSUME IInv, [Next]_vars PROVE IInv'
  OBVIOUS
<1> USE DEF IInv, Before, After, parsing, disk, reading
<1>1. CASE ParseHelp \/ ParseFile \/ ParseExtra
  <2> USE <1>1 DEF ParseHelp, ParseFile, ParseExtra, Exits
  <2>1. Shape' /\ Room' /\ Chain'
    BY BufferStays DEF Shape, Room
  <2>2. Holds'
    BY DEF Holds, Before
  <2> QED
    BY <2>1, <2>2 DEF IInv
<1>2. CASE InitBlocks \/ InitBlocksFails
  <2> USE <1>2 DEF InitBlocks, InitBlocksFails, Exits
  <2>1. Shape' /\ Room' /\ Chain'
    BY BufferStays DEF Shape, Room
  <2>2. Holds'
    BY DEF Holds, Before
  <2> QED
    BY <2>1, <2>2 DEF IInv
<1>3. CASE Open \/ OpenMissing \/ OpenDenied
  <2> USE <1>3 DEF Open, OpenMissing, OpenDenied, Exits
  <2>1. Shape' /\ Room' /\ Chain'
    BY BufferStays DEF Shape, Room
  <2>2. Holds'
    <3>1. CASE Open
      <4>1. pc' = "measure" /\ live' = {"blocks", "file"} /\ blocks' = {}
        BY <3>1 DEF Holds
      <4> QED
        BY <4>1 DEF Holds
    <3>2. CASE OpenMissing \/ OpenDenied
      <4>1. pc' \in {"graph", "exit"} /\ live' = {"blocks"} /\ blocks' = {}
            /\ (pc' = "exit" => status' = 1)
        BY <3>2 DEF Holds
      <4> HIDE <1>3, <3>2 DEF OpenMissing, OpenDenied, Exits
      <4> QED
        BY <4>1 DEF Holds
    <3> QED
      BY <1>3, <3>1, <3>2
  <2> QED
    BY <2>1, <2>2 DEF IInv
<1>4. CASE MeasureFails \/ Alloc \/ AllocFails
  <2> USE <1>4 DEF MeasureFails, Alloc, AllocFails, Exits
  <2>1. Shape' /\ Room' /\ Chain'
    BY BufferStays DEF Shape, Room
  <2>2. Holds'
    BY DEF Holds, Before
  <2> QED
    BY <2>1, <2>2 DEF IInv
<1>5. CASE Register \/ RegisterFails
  <2> USE <1>5 DEF Register, RegisterFails, Exits
  <2>1. Shape' /\ Room' /\ Chain'
    BY BufferStays DEF Shape, Room
  <2>2. Holds'
    BY DEF Holds, Before
  <2> QED
    BY <2>1, <2>2 DEF IInv
<1>6. CASE Overrun \/ Close \/ CloseNull
  <2> USE <1>6 DEF Overrun, Close, CloseNull, Exits
  <2>1. Shape' /\ Room' /\ Chain'
    BY BufferStays DEF Shape, Room
  <2>2. Holds'
    <3>1. CASE Overrun
      <4>1. pc' \in {"close", "crashed"} /\ live' = {"blocks", "file", "buff"} /\ blocks' = {"buff"}
        BY <3>1 DEF Holds
      <4> HIDE <1>6, <3>1 DEF Overrun
      <4> QED
        BY <4>1 DEF Holds
    <3>2. CASE Close
      <4>1. pc' = "graph" /\ live' = {"blocks", "buff"} /\ blocks' = {"buff"}
        BY <3>2 DEF Holds
      <4> QED
        BY <4>1 DEF Holds
    <3>3. CASE CloseNull
      <4>1. pc' = "exit" /\ status' = 1 /\ live' = {"blocks"} /\ blocks' = {}
        BY <3>3 DEF Holds
      <4> QED
        BY <4>1 DEF Holds
    <3> QED
      BY <1>6, <3>1, <3>2, <3>3
  <2> QED
    BY <2>1, <2>2 DEF IInv
<1>7. CASE InitGraph \/ InitGraphFails \/ DestroyGraph
  <2> USE <1>7 DEF InitGraph, InitGraphFails, DestroyGraph, Exits
  <2>1. Shape' /\ Room' /\ Chain'
    BY BufferStays DEF Shape, Room
  <2>2. Holds'
    <3>1. CASE InitGraph
      <4>1. pc' = "draw" /\ live' = {"blocks", "graph"} \cup blocks' /\ blocks' \subseteq {"buff"}
        BY <3>1 DEF Holds
      <4> QED
        BY <4>1 DEF Holds
    <3>2. CASE InitGraphFails
      <4>1. /\ pc' = "exit" /\ status' = 1
            /\ live' = {"blocks"} \cup blocks' /\ blocks' \subseteq {"buff"}
        BY <3>2 DEF Holds
      <4> QED
        BY <4>1 DEF Holds
    <3>3. CASE DestroyGraph
      <4>1. pc' = "begin" /\ live' = {"blocks"} \cup blocks' /\ blocks' \subseteq {"buff"}
        BY <3>3 DEF Holds
      <4> QED
        BY <4>1 DEF Holds
    <3> QED
      BY <1>7, <3>1, <3>2, <3>3
  <2> QED
    BY <2>1, <2>2 DEF IInv
<1>8. CASE Begin \/ BeginFails \/ FreeBlocks \/ End
  <2> USE <1>8 DEF Begin, BeginFails, FreeBlocks, End, Exits
  <2>1. Shape' /\ Room' /\ Chain'
    BY BufferStays DEF Shape, Room
  <2>2. Holds'
    BY DEF Holds, Before
  <2> QED
    BY <2>1, <2>2 DEF IInv
<1>9. CASE Measure
  <2> USE <1>9 DEF Measure
  <2>1. nodes' \in Nat /\ nodes' * node_len >= file_len' /\ file_len' \in Nat
    BY EnoughNodes, NodeLen DEF Shape
  <2>2. Shape' /\ Room'
    BY <2>1 DEF Shape, Room
  <2>3. Chain'
    BY DEF Chain, Room
  <2>4. Holds'
    BY DEF Holds
  <2> QED
    BY <2>2, <2>3, <2>4
<1>10. CASE Read
  <2> USE <1>10 DEF Read
  <2> DEFINE new == [from |-> pos, to |-> pos + Bytes,
                     prev |-> Len(buff), next |-> Len(buff) + 2]
  <2>1. Bytes \in 0 .. node_len /\ node_len \in Nat
    BY BytesFit, NodeLen DEF Shape
  <2>2. new \in Node /\ new.to - new.from <= node_len
    BY <2>1 DEF Shape, Node
  <2>3. /\ buff' \in Seq(Node) /\ Len(buff') = Len(buff) + 1
        /\ \A k \in 1 .. Len(buff) : buff'[k] = buff[k]
        /\ buff'[Len(buff) + 1] = new
    BY <2>2, AppendProperties DEF Shape
  <2>4. Shape' /\ Room'
    BY <2>1, <2>3 DEF Shape, Room
  <2>5. Chain'
    <3> SUFFICES /\ \A k \in 1 .. Len(buff') :
                        /\ buff'[k].to - buff'[k].from <= node_len
                        /\ buff'[k].prev = k - 1
                        /\ buff'[k].next = k + 1
                        /\ buff'[k].from = IF k = 1 THEN 0 ELSE buff'[k - 1].to
                 /\ pos' = buff'[Len(buff')].to
      BY <2>3 DEF Chain, Shape
    <3>1. ASSUME NEW k \in 1 .. Len(buff)
          PROVE  /\ buff'[k].to - buff'[k].from <= node_len
                 /\ buff'[k].prev = k - 1
                 /\ buff'[k].next = k + 1
                 /\ buff'[k].from = IF k = 1 THEN 0 ELSE buff'[k - 1].to
      BY <2>3 DEF Chain, Shape
    <3>2. new.from = IF Len(buff) + 1 = 1 THEN 0 ELSE buff'[Len(buff)].to
      BY <2>3 DEF Chain, Shape
    <3>3. new.prev = Len(buff) + 1 - 1 /\ new.next = Len(buff) + 1 + 1 /\ pos' = new.to
      BY DEF Shape
    <3> HIDE <1>10 DEF Read, new
    <3> QED
      BY <2>2, <2>3, <3>1, <3>2, <3>3 DEF Shape
  <2>6. Holds'
    BY DEF Holds
  <2> QED
    BY <2>4, <2>5, <2>6
<1>11. CASE EndList
  <2> USE <1>11 DEF EndList
  <2>1. /\ buff' \in Seq(Node) /\ Len(buff') = nodes
        /\ \A k \in 1 .. nodes : /\ buff'[k].from = buff[k].from /\ buff'[k].to = buff[k].to
                                 /\ buff'[k].prev = buff[k].prev
                                 /\ buff'[k].next = IF k = nodes THEN 0 ELSE buff[k].next
    <3>1. nodes \in 1 .. Len(buff) /\ Len(buff) = nodes /\ buff \in Seq(Node)
      BY DEF Shape
    <3>2. [buff[nodes] EXCEPT !.next = 0] \in Node
      <4>1. buff[nodes] \in Node
        BY <3>1, ElementOfSeq
      <4> HIDE <1>11
      <4> QED
        BY <4>1 DEF Node
    <3>3. buff' = [buff EXCEPT ![nodes] = [buff[nodes] EXCEPT !.next = 0]]
      OBVIOUS
    <3>4. buff' \in Seq(Node) /\ Len(buff') = Len(buff)
      BY <3>1, <3>2, <3>3, ExceptSeq
    <3>5. ASSUME NEW k \in 1 .. nodes
          PROVE  buff'[k] = IF k = nodes THEN [buff[nodes] EXCEPT !.next = 0] ELSE buff[k]
      BY <3>1, <3>3
    <3>6. ASSUME NEW k \in 1 .. nodes PROVE buff[k] \in Node
      BY <3>1, ElementOfSeq
    <3> QED
      BY <3>1, <3>4, <3>5, <3>6 DEF Node
  <2>2. Shape' /\ Room'
    BY <2>1 DEF Shape, Room
  <2>3. Chain'
    BY <2>1 DEF Chain, Shape
  <2>4. Holds'
    BY DEF Holds
  <2> QED
    BY <2>2, <2>3, <2>4
<1>12. CASE FileChanges
  <2> USE <1>12 DEF FileChanges
  <2>1. len' \in Nat
    BY CapAssumption
  <2>2. Shape' /\ Room' /\ Chain' /\ Holds'
    BY <2>1 DEF Shape, Room, Chain, Holds
  <2> QED
    BY <2>2
<1>13. CASE UNCHANGED vars
  BY <1>13 DEF vars, Shape, Room, Chain, Holds
<1> QED
  BY <1>1, <1>2, <1>3, <1>4, <1>5, <1>6, <1>7, <1>8, <1>9, <1>10, <1>11, <1>12, <1>13
     DEF Next, Over

-----------------------------------------------------------------------------

\* The inductive invariant of main, for any command line, any file, and
\* whatever fails.
THEOREM ProgramInvariance == Spec => []IInv
<1>1. Init => IInv
  BY InvInit
<1>2. IInv /\ [Next]_vars => IInv'
  BY InvStep
<1> QED
  BY <1>1, <1>2, PTL DEF Spec

\* buff_from_file hands over one list, from the start of the file to where the
\* reads got, for any capacity of a node and any file that changes meanwhile.
THEOREM ListSound == Spec => []BlocksChained
<1>1. IInv => BlocksChained
  <2> SUFFICES ASSUME IInv, Filled PROVE BlocksChained
    BY DEF BlocksChained
  <2>1. /\ Len(buff) = nodes /\ nodes \in Nat \ {0} /\ buff # <<>>
        /\ pc # "read"
    BY DEF IInv, Shape, Room, Filled, After
  <2>2. ASSUME NEW k \in 1 .. nodes - 1
        PROVE  buff[k].next = k + 1 /\ buff[k + 1].prev = k /\ buff[k].to = buff[k + 1].from
    BY <2>1 DEF IInv, Chain
  <2> QED
    BY <2>1, <2>2 DEF IInv, Chain, BlocksChained
<1> QED
  BY <1>1, ProgramInvariance, PTL

\* The '\0' of every node is inside its data, and an array without nodes is
\* only ever made for a file that was empty.
THEOREM StoresSafe == Spec => []StoresInside
<1>1. IInv => StoresInside
  <2> SUFFICES ASSUME IInv PROVE StoresInside
    OBVIOUS
  <2>1. ASSUME NEW k \in 1 .. Len(buff) PROVE buff[k].to - buff[k].from < BUFF_DATA_CAP
    <3>1. buff[k].to \in Nat /\ buff[k].from \in Nat
      <4>1. buff[k] \in Node
        BY ElementOfSeq DEF IInv, Shape
      <4> QED
        BY <4>1 DEF Node
    <3>2. buff[k].to - buff[k].from <= node_len
      BY DEF IInv, Chain
    <3> QED
      BY <3>1, <3>2, NodeLen
  <2>2. nodes = 0 => file_len = 0
    BY NodeLen DEF IInv, Shape, Room
  <2> QED
    BY <2>1, <2>2 DEF IInv, Room, StoresInside
<1> QED
  BY <1>1, ProgramInvariance, PTL

\* The block is the blockset's from the step that allocates it to the one that
\* frees it, and an exit with status 0 leaves nothing allocated or open.
THEOREM ExitSafe == Spec => []ExitsClean
<1>1. IInv => ExitsClean
  BY DEF IInv, Shape, Holds, Before, After, ExitsClean
<1> QED
  BY <1>1, ProgramInvariance, PTL

=============================================================================
