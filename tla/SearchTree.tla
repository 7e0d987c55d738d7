------------------------------ MODULE SearchTree ------------------------------
(***************************************************************************)
(* The search tree of tree/bst_tree/main.cpp, with the insertion and the   *)
(* traversals that tree/bb_tree/main.cpp (and its copy tree/2x_tree) has   *)
(* of its own.  There is one node for a key, so that the key serves as the *)
(* node's address; Nil is the null pointer.                                *)
(***************************************************************************)
EXTENDS Naturals, Sequences, FiniteSets, SequencesExt

CONSTANT MaxTreeKey

ASSUME TreeAssumption == MaxTreeKey \in Nat

TreeKeys == 1..MaxTreeKey
Nil      == 0

VARIABLES
    heap,     \* the nodes that were allocated and not freed: p, l, r
    top,      \* tree->root
    contents, \* history: the keys that should be in the tree
    deleted   \* history: whether delete_node was called

stVars == <<heap, top, contents, deleted>>

StInit == heap = <<>> /\ top = Nil /\ contents = {} /\ deleted = FALSE

Node(p) == [p |-> p, l |-> Nil, r |-> Nil]

\* A node is new memory, whatever lay at its address before.
New(h, k, p) == [x \in DOMAIN h \cup {k} |-> IF x = k THEN Node(p) ELSE h[x]]
FreeKey(h, k)   == [x \in DOMAIN h \ {k} |-> h[x]]
Pointers(h) == DOMAIN h \cup {Nil}
-----------------------------------------------------------------------------
(***************************************************************************)
(* insert_node of bst_tree: the new node is given its parent.              *)
(***************************************************************************)
InsertNode(h, n, k) ==
    LET insert[x \in DOMAIN h] ==
            IF x = k THEN h
            ELSE IF x > k
                 THEN IF h[x].l = Nil THEN [New(h, k, x) EXCEPT ![x].l = k] ELSE insert[h[x].l]
                 ELSE IF h[x].r = Nil THEN [New(h, k, x) EXCEPT ![x].r = k] ELSE insert[h[x].r]
    IN insert[n]

\* insert_node of bb_tree: the node below is made first and linked on the way back.
InsertBack(h, n, k) ==
    LET insert[x \in Pointers(h)] ==
            IF x = Nil THEN [heap |-> New(h, k, Nil), node |-> k]
            ELSE IF x = k THEN [heap |-> h, node |-> x]
            ELSE LET below == IF x > k THEN h[x].l ELSE h[x].r
                     made  == insert[below]
                 IN [heap |-> IF below # Nil THEN made.heap
                              ELSE IF x > k
                                   THEN [made.heap EXCEPT ![x].l = made.node, ![made.node].p = x]
                                   ELSE [made.heap EXCEPT ![x].r = made.node, ![made.node].p = x],
                     node |-> x]
    IN insert[n]

FindNode(h, n, k) ==
    LET find[x \in Pointers(h)] == IF x = Nil \/ x = k THEN x
                                ELSE IF x > k THEN find[h[x].l] ELSE find[h[x].r]
    IN find[n]

\* Broken variant: the left child of a node without a right one is deleted as well.
DeleteNodeTwice(h, n, k) ==
    LET delete[x \in Pointers(h)] == [key \in TreeKeys |->
            IF x = Nil THEN [heap |-> h, node |-> Nil]
            ELSE IF x > key
                 THEN LET d == delete[h[x].l][key]
                      IN [heap |-> [d.heap EXCEPT ![x].l = d.node], node |-> x]
            ELSE IF x < key
                 THEN LET d == delete[h[x].r][key]
                      IN [heap |-> [d.heap EXCEPT ![x].r = d.node], node |-> x]
            ELSE IF h[x].l = Nil /\ h[x].r = Nil THEN [heap |-> FreeKey(h, x), node |-> Nil]
            ELSE LET child == IF h[x].r = Nil THEN h[x].l ELSE h[x].r
                     d == delete[child][child]
                 IN [heap |-> FreeKey(d.heap, x), node |-> d.node]]
    IN delete[n][k]

\* delete_node returns what takes the place of the node.  A node with a right child
\* is replaced by that child after this one was deleted as well.
DeleteNode(h, n, k) ==
    LET delete[x \in Pointers(h)] == [key \in TreeKeys |->
            IF x = Nil THEN [heap |-> h, node |-> Nil]
            ELSE IF x > key
                 THEN LET d == delete[h[x].l][key]
                      IN [heap |-> [d.heap EXCEPT ![x].l = d.node], node |-> x]
            ELSE IF x < key
                 THEN LET d == delete[h[x].r][key]
                      IN [heap |-> [d.heap EXCEPT ![x].r = d.node], node |-> x]
            ELSE IF h[x].l = Nil /\ h[x].r = Nil THEN [heap |-> FreeKey(h, x), node |-> Nil]
            ELSE LET d == IF h[x].r = Nil THEN delete[h[x].l][key] ELSE delete[h[x].r][h[x].r]
                 IN [heap |-> FreeKey(d.heap, x), node |-> d.node]]
    IN delete[n][k]

\* The nodes that release_tree frees.
Under(h, n) ==
    LET under[x \in Pointers(h)] == IF x = Nil THEN {} ELSE under[h[x].l] \cup under[h[x].r] \cup {x}
    IN under[n]

ReleaseTree(h, n) == [x \in DOMAIN h \ Under(h, n) |-> h[x]]
-----------------------------------------------------------------------------
Preorder(h, n) ==
    LET visit[x \in Pointers(h)] == IF x = Nil THEN <<>> ELSE <<x>> \o visit[h[x].l] \o visit[h[x].r]
    IN visit[n]

Inorder(h, n) ==
    LET visit[x \in Pointers(h)] == IF x = Nil THEN <<>> ELSE visit[h[x].l] \o <<x>> \o visit[h[x].r]
    IN visit[n]

Postorder(h, n) ==
    LET visit[x \in Pointers(h)] == IF x = Nil THEN <<>> ELSE visit[h[x].l] \o visit[h[x].r] \o <<x>>
    IN visit[n]

\* What is queued for a child, and for the children of a node, left first.
Child(c) == IF c = Nil THEN <<>> ELSE <<c>>

Below(h, n) == Child(h[n].l) \o Child(h[n].r)

\* A turn of the loop of level_order_traversal: the queue ends in an empty cell, which
\* the next child fills.
LevelTurn(h, q) ==
    IF q.cells = <<>> THEN q
    ELSE IF Head(q.cells) = Nil THEN [q EXCEPT !.cells = Tail(@)]
    ELSE [visited |-> Append(q.visited, Head(q.cells)),
          cells   |-> Front(Tail(q.cells)) \o Below(h, Head(q.cells)) \o <<Nil>>]

\* A turn takes a node or one of two empty cells from the queue, which bounds their number.
LevelOrder(h, n) ==
    LET turns == Cardinality(DOMAIN h) + 2
        turn[i \in 0..turns] == IF i = 0 THEN [visited |-> <<>>, cells |-> <<n, Nil>>]
                                ELSE LevelTurn(h, turn[i - 1])
    IN turn[turns].visited

\* level_order_traversal1: the successor of a cell is read before its children are
\* queued, so that the traversal is over when the queue runs out for a moment.
LevelTurn1(h, q) ==
    IF q.cells = <<>> THEN q
    ELSE [visited |-> Append(q.visited, Head(q.cells)),
          cells   |-> IF Tail(q.cells) = <<>> THEN <<>> ELSE Tail(q.cells) \o Below(h, Head(q.cells))]

LevelOrder1(h, n) ==
    LET turns == Cardinality(DOMAIN h)
        turn[i \in 0..turns] == IF i = 0 THEN [visited |-> <<>>, cells |-> <<n>>]
                                ELSE LevelTurn1(h, turn[i - 1])
    IN turn[turns].visited
-----------------------------------------------------------------------------
\* Broken variant: an existing left child is overwritten.
BstInsertOver(k) ==
    /\ k \notin DOMAIN heap
    /\ heap' = IF top = Nil THEN New(heap, k, Nil)
               ELSE IF k < top THEN [New(heap, k, top) EXCEPT ![top].l = k] ELSE InsertNode(heap, top, k)
    /\ top' = IF top = Nil THEN k ELSE top
    /\ contents' = contents \cup {k}
    /\ UNCHANGED deleted

\* A key that was lost by a deletion keeps its node: its address is not used again.
BstInsert(k) ==
    /\ k \notin DOMAIN heap \/ k \in contents
    /\ heap' = IF top = Nil THEN New(heap, k, Nil) ELSE InsertNode(heap, top, k)
    /\ top' = IF top = Nil THEN k ELSE top
    /\ contents' = contents \cup {k}
    /\ UNCHANGED deleted

\* What is left in the tree is the new contents; the nodes out of reach are leaked.
BstDelete(k) ==
    /\ LET d == DeleteNode(heap, top, k) IN heap' = d.heap /\ top' = d.node
    /\ contents' = ToSet(Inorder(heap', top'))
    /\ deleted' = TRUE

BstRelease == /\ top # Nil
              /\ heap' = ReleaseTree(heap, top)
              /\ top' = Nil /\ contents' = {}
              /\ UNCHANGED deleted

StNext == (\E k \in TreeKeys : BstInsert(k) \/ BstDelete(k)) \/ BstRelease

StSpec == StInit /\ [][StNext]_stVars
-----------------------------------------------------------------------------
\* How many nodes a node is below.
Depth(h, n) == Cardinality({x \in contents \ {n} : n \in Under(h, x)})

\* Insertion, search and the traversals agree on the tree: it holds exactly the keys
\* inserted, in order; find_node finds those and no others; both insertions build the
\* same tree; the traversals visit every node once, by level in level order; and
\* level_order_traversal1, marked as the faulty version, stops at the root.
TreeIsSearchTree ==
    LET inorder == Inorder(heap, top)
        levels  == LevelOrder(heap, top)
    IN /\ ToSet(inorder) = contents
       /\ \A i, j \in 1..Len(inorder) : i < j => inorder[i] < inorder[j]
       /\ \A k \in TreeKeys : FindNode(heap, top, k) = IF k \in contents THEN k ELSE Nil
       /\ \A k \in TreeKeys \ DOMAIN heap :
              top # Nil => InsertBack(heap, top, k) = [heap |-> InsertNode(heap, top, k), node |-> top]
       /\ {ToSet(Preorder(heap, top)), ToSet(Postorder(heap, top)), ToSet(levels)} = {contents}
       /\ Len(levels) = Cardinality(contents)
       /\ \A i, j \in 1..Len(levels) :
              i < j => \/ Depth(heap, levels[i]) < Depth(heap, levels[j])
                       \/ Depth(heap, levels[i]) = Depth(heap, levels[j]) /\ levels[i] < levels[j]
       /\ top # Nil => LevelOrder1(heap, top) = <<top>>
       /\ ~deleted => \A k \in contents \ {top} : k \in {heap[heap[k].p].l, heap[heap[k].p].r}

\* delete_node removes the key and nothing else exactly when its node has no right
\* child; otherwise it also frees nodes of the right spine and loses left subtrees.
\* What remains is still in order.
DeleteRemovesOne ==
    [][\A k \in contents :
           (BstDelete(k) /\ k \notin contents') =>
               (contents' = contents \ {k}) = (heap[k].r = Nil)]_stVars
=============================================================================
