------------------------------ MODULE FifoList ------------------------------
(***************************************************************************)
(* The singly linked queue of tree/fifo_list/main.cpp.  pop_front hands    *)
(* the node to its caller, who may free it, and leaves tatil alone; memory *)
(* that was freed is handed out again.                                     *)
(***************************************************************************)
EXTENDS SequencesExt

CONSTANTS Nodes,  \* addresses of list nodes
          nullptr

ASSUME NodeAssumption == nullptr \notin Nodes

VARIABLES listHead, tatil, \* fifo_list
          link,            \* next of each node, what freed memory holds included
          popped,          \* nodes the caller has
          line             \* history: the nodes pushed and not yet popped

fifoVars == <<listHead, tatil, link, popped, line>>

FifoInit == /\ listHead = nullptr /\ tatil = nullptr
            /\ link = [n \in Nodes |-> nullptr]
            /\ popped = {} /\ line = <<>>

Allocated == popped \cup ToSet(line)

\* Broken variant: asks the end of the list instead of its head.
PushBackAtEnd(n) ==
    /\ n \notin Allocated
    /\ IF tatil = nullptr THEN listHead' = n /\ link' = [link EXCEPT ![n] = nullptr]
                          ELSE link' = [link EXCEPT ![n] = nullptr, ![tatil] = n] /\ UNCHANGED listHead
    /\ tatil' = n
    /\ line' = Append(line, n)
    /\ UNCHANGED popped

PushBack(n) ==
    /\ n \notin Allocated
    /\ IF listHead = nullptr THEN listHead' = n /\ link' = [link EXCEPT ![n] = nullptr]
                             ELSE link' = [link EXCEPT ![n] = nullptr, ![tatil] = n] /\ UNCHANGED listHead
    /\ tatil' = n
    /\ line' = Append(line, n)
    /\ UNCHANGED popped

PopFront == /\ listHead # nullptr
            /\ listHead' = link[listHead]
            /\ popped' = popped \cup {listHead}
            /\ line' = Tail(line)
            /\ UNCHANGED <<tatil, link>>

\* The caller frees a node: whatever it held, it is anybody's memory now.
FreeNode(n) == /\ n \in popped
               /\ popped' = popped \ {n}
               /\ \E v \in Nodes \cup {nullptr} : link' = [link EXCEPT ![n] = v]
               /\ UNCHANGED <<listHead, tatil, line>>

ClearList == /\ listHead' = nullptr /\ tatil' = nullptr
             /\ line' = <<>>
             /\ UNCHANGED <<link, popped>>

IsEmpty == listHead = nullptr

FifoNext == (\E n \in Nodes : PushBack(n) \/ FreeNode(n)) \/ PopFront \/ ClearList

FifoSpec == FifoInit /\ [][FifoNext]_fifoVars

\* The list is the queue of what was pushed, and tatil, which dangles while the list is
\* empty (pop_front does not reset it), is its last node again when it is written through.
FifoIsQueue ==
    /\ IsEmpty <=> line = <<>>
    /\ ~IsEmpty => /\ listHead = line[1] /\ tatil = Last(line) /\ link[tatil] = nullptr
                   /\ \A i \in 1 .. Len(line) - 1 : link[line[i]] = line[i + 1]
=============================================================================
