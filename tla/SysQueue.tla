------------------------------ MODULE SysQueue ------------------------------
(***************************************************************************)
(* The six kinds of linked lists of sys_queue/sys_queue.h, whose macros    *)
(* write through addresses of pointers.  The memory maps each cell, a      *)
(* field of a head or of an item, to what it holds: NULL, an item, a head  *)
(* (CIRCLEQ) or the address of a cell.  A macro maps memories to memories; *)
(* SIMPLEQ has the text of STAILQ with other field names.                  *)
(***************************************************************************)
EXTENDS SequencesExt

CONSTANTS Heads, Items, NULL, Junk

\* Heads and items lie at different addresses, and none is a null pointer or Junk.
ASSUME QueueAssumption == /\ IsFiniteSet(Items) /\ Heads \cap Items = {}
                          /\ {NULL, Junk} \cap (Heads \cup Items) = {}

VARIABLES kind,  \* which macros the program uses for its lists
          mem,   \* the cells
          order  \* history: the items of each head in the order a user expects

queueVars == <<kind, mem, order>>

QueueKinds == {"LIST", "SLIST", "STAILQ", "SIMPLEQ", "TAILQ", "CIRCLEQ"}

first(h) == <<h, "first">>
last(h)  == <<h, "last">>
next(e)  == <<e, "next">>
prev(e)  == <<e, "prev">>
QueueCells == {first(h) : h \in Heads} \cup {last(h) : h \in Heads}
              \cup {next(e) : e \in Items} \cup {prev(e) : e \in Items}

Put(m, cell, value)          == [m EXCEPT ![cell] = value]
PutIf(m, test, cell, value)  == IF test THEN Put(m, cell, value) ELSE m
-----------------------------------------------------------------------------
LIST_INIT(m, h) == Put(m, first(h), NULL)

LIST_INSERT_AFTER(m, l, e) ==
    LET n == m[next(l)]
        a == PutIf(Put(m, next(e), n), n # NULL, prev(n), next(e))
    IN [a EXCEPT ![next(l)] = e, ![prev(e)] = next(l)]

LIST_INSERT_BEFORE(m, l, e) ==
    [m EXCEPT ![prev(e)] = m[prev(l)], ![next(e)] = l, ![m[prev(l)]] = e, ![prev(l)] = next(e)]

LIST_INSERT_HEAD(m, h, e) ==
    LET n == m[first(h)]
        a == PutIf(Put(m, next(e), n), n # NULL, prev(n), next(e))
    IN [a EXCEPT ![first(h)] = e, ![prev(e)] = first(h)]

LIST_REMOVE(m, h, e) ==
    LET n == m[next(e)] IN Put(PutIf(m, n # NULL, prev(n), m[prev(e)]), m[prev(e)], n)
-----------------------------------------------------------------------------
SLIST_INIT(m, h) == Put(m, first(h), NULL)

SLIST_INSERT_AFTER(m, l, e) == [m EXCEPT ![next(e)] = m[next(l)], ![next(l)] = e]
SLIST_INSERT_HEAD(m, h, e)  == [m EXCEPT ![next(e)] = m[first(h)], ![first(h)] = e]
SLIST_REMOVE_HEAD(m, h)     == Put(m, first(h), m[next(m[first(h)])])

\* The item found by the search for the one before e.
Before(m, e) == CHOOSE c \in Items : m[next(c)] = e

SLIST_REMOVE(m, h, e) ==
    IF m[first(h)] = e THEN SLIST_REMOVE_HEAD(m, h)
    ELSE Put(m, next(Before(m, e)), m[next(e)])
-----------------------------------------------------------------------------
STAILQ_INIT(m, h) == [m EXCEPT ![first(h)] = NULL, ![last(h)] = first(h)]

STAILQ_INSERT_HEAD(m, h, e) ==
    LET n == m[first(h)]
    IN Put(PutIf(Put(m, next(e), n), n = NULL, last(h), next(e)), first(h), e)

STAILQ_INSERT_TAIL(m, h, e) ==
    LET a == Put(m, next(e), NULL)
    IN Put(Put(a, a[last(h)], e), last(h), next(e))

STAILQ_INSERT_AFTER(m, h, l, e) ==
    LET n == m[next(l)]
    IN Put(PutIf(Put(m, next(e), n), n = NULL, last(h), next(e)), next(l), e)

STAILQ_REMOVE_HEAD(m, h) ==
    LET n == m[next(m[first(h)])] IN PutIf(Put(m, first(h), n), n = NULL, last(h), first(h))

\* Broken variant: the head still points at the removed item.
STAILQ_REMOVE_FORGET(m, h, e) ==
    IF m[first(h)] = e THEN STAILQ_REMOVE_HEAD(m, h)
    ELSE Put(m, next(Before(m, e)), m[next(e)])

STAILQ_REMOVE(m, h, e) ==
    IF m[first(h)] = e THEN STAILQ_REMOVE_HEAD(m, h)
    ELSE LET c == Before(m, e)
         IN PutIf(Put(m, next(c), m[next(e)]), m[next(e)] = NULL, last(h), next(c))

STAILQ_CONCAT(m, h, g) ==
    IF m[first(g)] = NULL THEN m
    ELSE STAILQ_INIT(Put(Put(m, m[last(h)], m[first(g)]), last(h), m[last(g)]), g)
-----------------------------------------------------------------------------
SIMPLEQ_INIT(m, h)               == STAILQ_INIT(m, h)
SIMPLEQ_INSERT_HEAD(m, h, e)     == STAILQ_INSERT_HEAD(m, h, e)
SIMPLEQ_INSERT_TAIL(m, h, e)     == STAILQ_INSERT_TAIL(m, h, e)
SIMPLEQ_INSERT_AFTER(m, h, l, e) == STAILQ_INSERT_AFTER(m, h, l, e)
SIMPLEQ_REMOVE_HEAD(m, h)        == STAILQ_REMOVE_HEAD(m, h)
SIMPLEQ_REMOVE(m, h, e)          == STAILQ_REMOVE(m, h, e)
-----------------------------------------------------------------------------
TAILQ_INIT(m, h) == [m EXCEPT ![first(h)] = NULL, ![last(h)] = first(h)]

\* The item after e, or the end of the queue, has e before it.
TailqFollow(m, h, n, cell) == Put(m, IF n # NULL THEN prev(n) ELSE last(h), cell)

TAILQ_INSERT_HEAD(m, h, e) ==
    LET n == m[first(h)]
        a == TailqFollow(Put(m, next(e), n), h, n, next(e))
    IN [a EXCEPT ![first(h)] = e, ![prev(e)] = first(h)]

TAILQ_INSERT_TAIL(m, h, e) ==
    LET a == [m EXCEPT ![next(e)] = NULL, ![prev(e)] = m[last(h)]]
    IN Put(Put(a, a[last(h)], e), last(h), next(e))

TAILQ_INSERT_AFTER(m, h, l, e) ==
    LET n == m[next(l)]
        a == TailqFollow(Put(m, next(e), n), h, n, next(e))
    IN [a EXCEPT ![next(l)] = e, ![prev(e)] = next(l)]

TAILQ_INSERT_BEFORE(m, l, e) == LIST_INSERT_BEFORE(m, l, e)

TAILQ_REMOVE(m, h, e) ==
    Put(TailqFollow(m, h, m[next(e)], m[prev(e)]), m[prev(e)], m[next(e)])

TAILQ_CONCAT(m, h, g) ==
    IF m[first(g)] = NULL THEN m
    ELSE TAILQ_INIT([m EXCEPT ![m[last(h)]] = m[first(g)], ![prev(m[first(g)])] = m[last(h)],
                              ![last(h)] = m[last(g)]], g)

\* The cell behind one that holds a next pointer, read as the tqh_last of a head.
Behind(cell) == IF cell[2] = "next" THEN prev(cell[1]) ELSE last(cell[1])

TAILQ_LAST(m, h) == m[m[Behind(m[last(h)])]]
TAILQ_PREV(m, e) == m[m[Behind(m[prev(e)])]]
-----------------------------------------------------------------------------
CIRCLEQ_INIT(m, h) == [m EXCEPT ![first(h)] = h, ![last(h)] = h]

\* What an end of the queue is kept in: the field of an item, or of the head.
NextOf(h, x) == IF x = h THEN first(h) ELSE next(x)
PrevOf(h, x) == IF x = h THEN last(h) ELSE prev(x)

CIRCLEQ_INSERT_AFTER(m, h, l, e) ==
    [m EXCEPT ![next(e)] = m[next(l)], ![prev(e)] = l, ![PrevOf(h, m[next(l)])] = e, ![next(l)] = e]

CIRCLEQ_INSERT_BEFORE(m, h, l, e) ==
    [m EXCEPT ![next(e)] = l, ![prev(e)] = m[prev(l)], ![NextOf(h, m[prev(l)])] = e, ![prev(l)] = e]

CIRCLEQ_INSERT_HEAD(m, h, e) ==
    LET a == [m EXCEPT ![next(e)] = m[first(h)], ![prev(e)] = h]
    IN Put(Put(a, IF m[last(h)] = h THEN last(h) ELSE prev(m[first(h)]), e), first(h), e)

CIRCLEQ_INSERT_TAIL(m, h, e) ==
    LET a == [m EXCEPT ![next(e)] = h, ![prev(e)] = m[last(h)]]
    IN Put(Put(a, IF m[first(h)] = h THEN first(h) ELSE next(m[last(h)]), e), last(h), e)

CIRCLEQ_REMOVE(m, h, e) ==
    LET a == Put(m, PrevOf(h, m[next(e)]), m[prev(e)])
    IN Put(a, NextOf(h, a[prev(e)]), a[next(e)])

CIRCLEQ_LOOP_NEXT(m, h, e) == IF m[next(e)] = h THEN m[first(h)] ELSE m[next(e)]
CIRCLEQ_LOOP_PREV(m, h, e) == IF m[prev(e)] = h THEN m[last(h)] ELSE m[prev(e)]
-----------------------------------------------------------------------------
(***************************************************************************)
(* A program that keeps its items in lists of one kind.                    *)
(***************************************************************************)
QueueInit == kind = "none" /\ mem = [c \in QueueCells |-> Junk] /\ order = [h \in Heads |-> <<>>]

InitHead(k, m, h) == CASE k = "LIST" -> LIST_INIT(m, h)       [] k = "SLIST" -> SLIST_INIT(m, h)
                       [] k = "STAILQ" -> STAILQ_INIT(m, h)   [] k = "SIMPLEQ" -> SIMPLEQ_INIT(m, h)
                       [] k = "TAILQ" -> TAILQ_INIT(m, h)     [] k = "CIRCLEQ" -> CIRCLEQ_INIT(m, h)

MakeHeads(k) == /\ kind = "none" /\ kind' = k
                /\ mem' = [c \in QueueCells |-> IF c[1] \in Heads THEN InitHead(k, mem, c[1])[c] ELSE mem[c]]
                /\ UNCHANGED order

Spare(e) == kind # "none" /\ \A h \in Heads : e \notin ToSet(order[h])
IndexOf(s, e) == CHOOSE i \in DOMAIN s : s[i] = e

InsertHead(h, e) ==
    /\ Spare(e)
    /\ mem' = CASE kind = "LIST" -> LIST_INSERT_HEAD(mem, h, e)
                [] kind = "SLIST" -> SLIST_INSERT_HEAD(mem, h, e)
                [] kind = "STAILQ" -> STAILQ_INSERT_HEAD(mem, h, e)
                [] kind = "SIMPLEQ" -> SIMPLEQ_INSERT_HEAD(mem, h, e)
                [] kind = "TAILQ" -> TAILQ_INSERT_HEAD(mem, h, e)
                [] kind = "CIRCLEQ" -> CIRCLEQ_INSERT_HEAD(mem, h, e)
    /\ order' = [order EXCEPT ![h] = <<e>> \o @]
    /\ UNCHANGED kind

InsertTail(h, e) ==
    /\ Spare(e) /\ kind \notin {"LIST", "SLIST"}
    /\ mem' = CASE kind = "STAILQ" -> STAILQ_INSERT_TAIL(mem, h, e)
                [] kind = "SIMPLEQ" -> SIMPLEQ_INSERT_TAIL(mem, h, e)
                [] kind = "TAILQ" -> TAILQ_INSERT_TAIL(mem, h, e)
                [] kind = "CIRCLEQ" -> CIRCLEQ_INSERT_TAIL(mem, h, e)
    /\ order' = [order EXCEPT ![h] = Append(@, e)]
    /\ UNCHANGED kind

InsertAfter(h, l, e) ==
    /\ Spare(e) /\ l \in ToSet(order[h])
    /\ mem' = CASE kind = "LIST" -> LIST_INSERT_AFTER(mem, l, e)
                [] kind = "SLIST" -> SLIST_INSERT_AFTER(mem, l, e)
                [] kind = "STAILQ" -> STAILQ_INSERT_AFTER(mem, h, l, e)
                [] kind = "SIMPLEQ" -> SIMPLEQ_INSERT_AFTER(mem, h, l, e)
                [] kind = "TAILQ" -> TAILQ_INSERT_AFTER(mem, h, l, e)
                [] kind = "CIRCLEQ" -> CIRCLEQ_INSERT_AFTER(mem, h, l, e)
    /\ order' = [order EXCEPT ![h] = InsertAt(@, IndexOf(@, l) + 1, e)]
    /\ UNCHANGED kind

InsertBefore(h, l, e) ==
    /\ Spare(e) /\ l \in ToSet(order[h]) /\ kind \in {"LIST", "TAILQ", "CIRCLEQ"}
    /\ mem' = CASE kind = "LIST" -> LIST_INSERT_BEFORE(mem, l, e)
                [] kind = "TAILQ" -> TAILQ_INSERT_BEFORE(mem, l, e)
                [] kind = "CIRCLEQ" -> CIRCLEQ_INSERT_BEFORE(mem, h, l, e)
    /\ order' = [order EXCEPT ![h] = InsertAt(@, IndexOf(@, l), e)]
    /\ UNCHANGED kind

\* The removed item is freed: what its fields hold must not matter any more.
Freed(m, e) == [m EXCEPT ![next(e)] = Junk, ![prev(e)] = Junk]

RemoveItem(h, e) ==
    /\ e \in ToSet(order[h])
    /\ mem' = Freed(CASE kind = "LIST" -> LIST_REMOVE(mem, h, e)
                      [] kind = "SLIST" -> SLIST_REMOVE(mem, h, e)
                      [] kind = "STAILQ" -> STAILQ_REMOVE(mem, h, e)
                      [] kind = "SIMPLEQ" -> SIMPLEQ_REMOVE(mem, h, e)
                      [] kind = "TAILQ" -> TAILQ_REMOVE(mem, h, e)
                      [] kind = "CIRCLEQ" -> CIRCLEQ_REMOVE(mem, h, e), e)
    /\ order' = [order EXCEPT ![h] = RemoveAt(@, IndexOf(@, e))]
    /\ UNCHANGED kind

RemoveHead(h) ==
    /\ order[h] # <<>> /\ kind \in {"SLIST", "STAILQ", "SIMPLEQ"}
    /\ mem' = Freed(CASE kind = "SLIST" -> SLIST_REMOVE_HEAD(mem, h)
                      [] kind = "STAILQ" -> STAILQ_REMOVE_HEAD(mem, h)
                      [] kind = "SIMPLEQ" -> SIMPLEQ_REMOVE_HEAD(mem, h), order[h][1])
    /\ order' = [order EXCEPT ![h] = Tail(@)]
    /\ UNCHANGED kind

Concat(h, g) ==
    /\ h # g /\ kind \in {"STAILQ", "TAILQ"}
    /\ mem' = IF kind = "STAILQ" THEN STAILQ_CONCAT(mem, h, g) ELSE TAILQ_CONCAT(mem, h, g)
    /\ order' = [order EXCEPT ![h] = @ \o order[g], ![g] = <<>>]
    /\ UNCHANGED kind

QueueNext ==
    \/ \E k \in QueueKinds : MakeHeads(k)
    \/ \E h \in Heads, e \in Items :
          \/ InsertHead(h, e) \/ InsertTail(h, e) \/ RemoveItem(h, e)
          \/ \E l \in Items : InsertAfter(h, l, e) \/ InsertBefore(h, l, e)
    \/ \E h \in Heads : RemoveHead(h) \/ \E g \in Heads : Concat(h, g)

QueueSpec == QueueInit /\ [][QueueNext]_queueVars
-----------------------------------------------------------------------------
\* Follows the function from x on while it meets items, of which there are so many at most.
Walk(x, follow) ==
    LET at[n \in 0 .. Cardinality(Items)] ==
            IF n = 0 THEN x ELSE IF at[n - 1] \in Items THEN follow[at[n - 1]] ELSE at[n - 1]
        steps == {n \in DOMAIN at : at[n] \in Items}
    IN [n \in 1 .. Cardinality(steps) |-> at[n - 1]]

FOREACH(h)                 == Walk(mem[first(h)], [e \in Items |-> mem[next(e)]])
TAILQ_FOREACH_REVERSE(h)   == Walk(TAILQ_LAST(mem, h), [e \in Items |-> TAILQ_PREV(mem, e)])
CIRCLEQ_FOREACH_REVERSE(h) == Walk(mem[last(h)], [e \in Items |-> mem[prev(e)]])

\* The loops visit s, forwards and backwards; the queues that keep their end know the cell
\* the next item has to be written to.
Visits(h, s, end) ==
    /\ FOREACH(h) = s
    /\ kind \in {"STAILQ", "SIMPLEQ", "TAILQ"} => mem[last(h)] = end /\ mem[end] = NULL
    /\ kind = "TAILQ" => TAILQ_FOREACH_REVERSE(h) = Reverse(s)
    /\ kind = "CIRCLEQ" =>
          /\ CIRCLEQ_FOREACH_REVERSE(h) = Reverse(s)
          /\ \A i \in DOMAIN s :
                /\ CIRCLEQ_LOOP_NEXT(mem, h, s[i]) = s[IF i = Len(s) THEN 1 ELSE i + 1]
                /\ CIRCLEQ_LOOP_PREV(mem, h, s[i]) = s[IF i = 1 THEN Len(s) ELSE i - 1]

\* Whatever was inserted, removed (and freed) and concatenated, in whatever order: the
\* loops of each kind visit exactly the items the user expects.
ListsKeepOrder ==
    kind # "none" => \A h \in Heads :
        Visits(h, order[h], IF order[h] = <<>> THEN first(h) ELSE next(Last(order[h])))
=============================================================================
