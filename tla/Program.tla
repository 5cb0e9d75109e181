------------------------------- MODULE Program -------------------------------
(***************************************************************************)
(* main(): the options, the text buffer, the graph, and what is given back *)
(* at the end.  The buffer is read from a file that others may change      *)
(* meanwhile.  Of the graph only that it is there matters here: Lifecycle  *)
(* says what it is made of, and that graph_init which fails and            *)
(* graph_destroy leave nothing behind; FrameSync says when a draw fails.   *)
(***************************************************************************)
EXTENDS Naturals, Sequences, FiniteSets

CONSTANTS
    Argvs,          \* what argv[1 .. argc - 1] may be; "-h" is the only option
    Files,          \* the kinds of file there may be
    BUFF_DATA_CAP,  \* the size of data in a struct buff_node
    MaxLen,         \* bound: a file is no longer
    MayFail         \* the calls that may fail

FileKinds == {"missing", "denied", "pipe", "regular"}
Calls     == {"blockset_init", "malloc", "blockset_set", "graph_init", "blockset_begin"}

\* buff_from_file counts the nodes with a uint32_t: a file is below 2^32 bytes.
ASSUME CapAssumption     == BUFF_DATA_CAP \in Nat \ {0, 1} /\ MaxLen \in Nat
ASSUME MaxLenAssumption  == MaxLen \div 65536 < 65536
ASSUME FilesAssumption   == Files \subseteq FileKinds
ASSUME MayFailAssumption == MayFail \subseteq Calls

VARIABLES
    pc,
    argv, i,        \* parse_opts: the arguments, and the next one
    file,           \* opt.file, or none
    kind, len,      \* the file on disk, and its length now
    file_len, nodes, \* buff_from_file: its length then, and the nodes for it
    pos,            \* how far it has been read
    buff,           \* the nodes that are filled in
    blocks,         \* the keys of the blockset
    live,           \* what has been allocated or opened and not given back
    status          \* the exit status

parsing == <<argv, i, file>>
disk    == <<kind, len>>
reading == <<file_len, nodes, pos, buff>>
vars    == <<pc, parsing, disk, reading, blocks, live, status>>

none == "none"

Init ==
    /\ pc = "parse"
    /\ argv \in Argvs /\ i = 1 /\ file = none
    /\ kind \in Files /\ len \in 0 .. MaxLen
    /\ file_len = 0 /\ nodes = 0 /\ pos = 0 /\ buff = <<>>
    /\ blocks = {} /\ live = {}
    /\ status = 0

\* The program ends; the system takes back what is live.
Exits(s) == pc' = "exit" /\ status' = s

-----------------------------------------------------------------------------
(* parse_opts                                                              *)

ParseHelp ==
    /\ pc = "parse"
    /\ i <= Len(argv) /\ argv[i] = "-h"
    /\ Exits(0)
    /\ UNCHANGED <<parsing, disk, reading, blocks, live>>

ParseFile ==
    /\ pc = "parse"
    /\ i <= Len(argv) /\ argv[i] # "-h" /\ file = none
    /\ file' = argv[i]
    /\ i' = i + 1
    /\ UNCHANGED <<pc, argv, disk, reading, blocks, live, status>>

ParseExtra ==
    /\ pc = "parse"
    /\ i <= Len(argv) /\ argv[i] # "-h" /\ file # none
    /\ Exits(2)
    /\ UNCHANGED <<parsing, disk, reading, blocks, live>>

-----------------------------------------------------------------------------
(* open_buff and buff_from_file                                            *)

InitBlocks ==
    /\ pc = "parse"
    /\ i > Len(argv)
    /\ pc' = IF file = none THEN "graph" ELSE "open"
    /\ live' = live \cup {"blocks"}
    /\ UNCHANGED <<parsing, disk, reading, blocks, status>>

InitBlocksFails ==
    /\ pc = "parse"
    /\ i > Len(argv)
    /\ "blockset_init" \in MayFail
    /\ Exits(1)
    /\ UNCHANGED <<parsing, disk, reading, blocks, live>>

Open ==
    /\ pc = "open"
    /\ kind \in {"pipe", "regular"}
    /\ pc' = "measure"
    /\ live' = live \cup {"file"}
    /\ UNCHANGED <<parsing, disk, reading, blocks, status>>

\* ENOENT: a new file, edited as an empty buffer.
OpenMissing ==
    /\ pc = "open"
    /\ kind = "missing"
    /\ pc' = "graph"
    /\ UNCHANGED <<parsing, disk, reading, blocks, live, status>>

OpenDenied ==
    /\ pc = "open"
    /\ kind = "denied"
    /\ Exits(1)
    /\ UNCHANGED <<parsing, disk, reading, blocks, live>>

node_len == BUFF_DATA_CAP - 1

\* Mutant of Measure: the last node, which is not full, is forgotten.
MeasureFloor ==
    /\ pc = "measure"
    /\ kind = "regular"
    /\ file_len' = len
    /\ nodes' = len \div node_len
    /\ pc' = "alloc"
    /\ UNCHANGED <<parsing, disk, pos, buff, blocks, live, status>>

Measure ==
    /\ pc = "measure"
    /\ kind = "regular"
    /\ file_len' = len
    /\ nodes' = len \div node_len + (IF len % node_len = 0 THEN 0 ELSE 1)
    /\ pc' = "alloc"
    /\ UNCHANGED <<parsing, disk, pos, buff, blocks, live, status>>

\* fseek fails on what has no end.
MeasureFails ==
    /\ pc = "measure"
    /\ kind = "pipe"
    /\ pc' = "close_null"
    /\ UNCHANGED <<parsing, disk, reading, blocks, live, status>>

\* malloc(0), for an empty file, is an array of no nodes.
Alloc ==
    /\ pc = "alloc"
    /\ pc' = "register"
    /\ live' = live \cup {"buff"}
    /\ UNCHANGED <<parsing, disk, reading, blocks, status>>

AllocFails ==
    /\ pc = "alloc"
    /\ "malloc" \in MayFail
    /\ pc' = "close_null"
    /\ UNCHANGED <<parsing, disk, reading, blocks, live, status>>

Register ==
    /\ pc = "register"
    /\ blocks' = blocks \cup {"buff"}
    /\ pc' = "read"
    /\ UNCHANGED <<parsing, disk, reading, live, status>>

\* Mutant of RegisterFails: err_retn for err_free.
RegisterFailsKeeps ==
    /\ pc = "register"
    /\ "blockset_set" \in MayFail
    /\ pc' = "close_null"
    /\ UNCHANGED <<parsing, disk, reading, blocks, live, status>>

RegisterFails ==
    /\ pc = "register"
    /\ "blockset_set" \in MayFail
    /\ live' = live \ {"buff"}
    /\ pc' = "close_null"
    /\ UNCHANGED <<parsing, disk, reading, blocks, status>>

\* What fread finds: up to node_len bytes, of a file that may be shorter by now.
Bytes ==
    LET left == IF len > pos THEN len - pos ELSE 0
    IN  IF left < node_len THEN left ELSE node_len

\* Mutant of Read: prev has moved on before the node takes it.
ReadSwapped ==
    /\ pc = "read"
    /\ Len(buff) < nodes
    /\ buff' = Append(buff, [from |-> pos, to |-> pos + Bytes,
                             prev |-> Len(buff) + 1, next |-> Len(buff) + 2])
    /\ pos' = pos + Bytes
    /\ UNCHANGED <<pc, parsing, disk, file_len, nodes, blocks, live, status>>

\* One turn of the loop.  A node is the bytes it holds and the indices of its
\* neighbours, of which the last one's next is not there.
Read ==
    /\ pc = "read"
    /\ Len(buff) < nodes
    /\ buff' = Append(buff, [from |-> pos, to |-> pos + Bytes,
                             prev |-> Len(buff), next |-> Len(buff) + 2])
    /\ pos' = pos + Bytes
    /\ UNCHANGED <<pc, parsing, disk, file_len, nodes, blocks, live, status>>

\* buff[nodes - 1].next = NULL
EndList ==
    /\ pc = "read"
    /\ Len(buff) = nodes /\ nodes # 0
    /\ buff' = [buff EXCEPT ![nodes].next = 0]
    /\ pc' = "close"
    /\ UNCHANGED <<parsing, disk, file_len, nodes, pos, blocks, live, status>>

\* Without a node the store goes before the array: it hits nothing that matters,
\* or the program ends there or later.
Overrun ==
    /\ pc = "read"
    /\ Len(buff) = nodes /\ nodes = 0
    /\ pc' \in {"close", "crashed"}
    /\ UNCHANGED <<parsing, disk, reading, blocks, live, status>>

Close ==
    /\ pc = "close"
    /\ live' = live \ {"file"}
    /\ pc' = "graph"
    /\ UNCHANGED <<parsing, disk, reading, blocks, status>>

CloseNull ==
    /\ pc = "close_null"
    /\ live' = live \ {"file"}
    /\ Exits(1)
    /\ UNCHANGED <<parsing, disk, reading, blocks>>

\* Another process writes to the file or cuts it off while it is open.
FileChanges ==
    /\ "file" \in live
    /\ \E n \in 0 .. MaxLen : len' = n
    /\ UNCHANGED <<pc, parsing, kind, reading, blocks, live, status>>

-----------------------------------------------------------------------------
(* main and close_buff                                                     *)

InitGraph ==
    /\ pc = "graph"
    /\ live' = live \cup {"graph"}
    /\ pc' = "draw"
    /\ UNCHANGED <<parsing, disk, reading, blocks, status>>

InitGraphFails ==
    /\ pc = "graph"
    /\ "graph_init" \in MayFail
    /\ Exits(1)
    /\ UNCHANGED <<parsing, disk, reading, blocks, live>>

\* while (!graph_draw(graph)): the draws that succeed change nothing here.
DestroyGraph ==
    /\ pc = "draw"
    /\ live' = live \ {"graph"}
    /\ pc' = "begin"
    /\ UNCHANGED <<parsing, disk, reading, blocks, status>>

Begin ==
    /\ pc = "begin"
    /\ live' = live \cup {"iter"}
    /\ pc' = "free"
    /\ UNCHANGED <<parsing, disk, reading, blocks, status>>

\* blockset_next is given NULL for an iterator, which it does not expect.
BeginFails ==
    /\ pc = "begin"
    /\ "blockset_begin" \in MayFail
    /\ pc' = "crashed"
    /\ UNCHANGED <<parsing, disk, reading, blocks, live, status>>

\* The loop over the blockset, which holds one block at most.
FreeBlocks ==
    /\ pc = "free"
    /\ live' = live \ blocks
    /\ pc' = "end"
    /\ UNCHANGED <<parsing, disk, reading, blocks, status>>

End ==
    /\ pc = "end"
    /\ live' = live \ {"iter", "blocks"}
    /\ blocks' = {}
    /\ Exits(0)
    /\ UNCHANGED <<parsing, disk, reading>>

Over == pc \in {"exit", "crashed"} /\ UNCHANGED vars

Next ==
    \/ ParseHelp \/ ParseFile \/ ParseExtra
    \/ InitBlocks \/ InitBlocksFails
    \/ Open \/ OpenMissing \/ OpenDenied
    \/ Measure \/ MeasureFails \/ Alloc \/ AllocFails \/ Register \/ RegisterFails
    \/ Read \/ EndList \/ Overrun \/ Close \/ CloseNull \/ FileChanges
    \/ InitGraph \/ InitGraphFails \/ DestroyGraph
    \/ Begin \/ BeginFails \/ FreeBlocks \/ End
    \/ Over

Spec == Init /\ [][Next]_vars

-----------------------------------------------------------------------------
(* Properties                                                              *)

Filled == pc \in {"close", "graph", "draw", "begin", "free"} /\ nodes # 0

\* A buffer that is handed over is one list, however the file changed while it
\* was read: next visits each node in turn and then ends, prev goes back the
\* same way, and the bytes of the nodes follow each other from the start of
\* the file, none read twice and none skipped.
BlocksChained ==
    Filled =>
        /\ Len(buff) = nodes
        /\ buff[1].from = 0 /\ buff[nodes].to = pos
        /\ buff[1].prev = 0 /\ buff[nodes].next = 0
        /\ \A k \in 1 .. nodes - 1 :
               /\ buff[k].next = k + 1
               /\ buff[k + 1].prev = k
               /\ buff[k].to = buff[k + 1].from

\* Every store is inside its array: the '\0' after what fread has put into
\* data, and the end of the list in the last node, of which only a file that
\* was empty has none.
StoresInside ==
    /\ \A k \in 1 .. Len(buff) : buff[k].to - buff[k].from < BUFF_DATA_CAP
    /\ pc = "read" /\ nodes = 0 => file_len = 0
    /\ nodes * node_len >= file_len

\* The buffer is the blockset's as soon as it can be, so that close_buff finds
\* it, and is freed once.  When the program ends, the file and the graph have
\* been given back; when it ends well, everything has.
ExitsClean ==
    /\ pc \notin {"register", "end"} => ("buff" \in live <=> "buff" \in blocks)
    /\ pc = "exit" => live \subseteq {"blocks", "buff"}
    /\ pc = "exit" /\ status = 0 => live = {}

=============================================================================
