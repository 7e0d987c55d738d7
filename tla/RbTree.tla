------------------------------- MODULE RbTree -------------------------------
(***************************************************************************)
(* The red-black tree of rbtree/main.cpp, as its operations on a heap of   *)
(* nodes with parent pointers and one shared sentinel nil, whose parent    *)
(* field deletion uses.  Where the source has a branch for each side, the  *)
(* side is a parameter here.                                               *)
(*                                                                         *)
(* A node is named by its key, since its address makes no difference.  nil *)
(* has a color and a parent but no children: reading them would be an      *)
(* error, for TLC too.                                                     *)
(***************************************************************************)
EXTENDS Naturals, FiniteSets

CONSTANT MaxKey

ASSUME KeyAssumption == MaxKey \in Nat \ {0}

Keys  == 1..MaxKey
nil   == 0
Sides == {"left", "right"}
Opposite(side) == IF side = "left" THEN "right" ELSE "left"

VARIABLES
    tree,  \* the root, and the fields of the nodes
    keys   \* the keys inserted and not deleted

rbVars == <<tree, keys>>

RbInit ==
    /\ tree = [root   |-> nil,
               child  |-> [side \in Sides |-> [n \in Keys |-> nil]],
               parent |-> [n \in Keys \cup {nil} |-> nil],
               color  |-> [n \in Keys \cup {nil} |-> "black"]]
    /\ keys = {}

SetChild(t, side, n, c) == [t EXCEPT !.child[side][n] = c]
SetParent(t, n, p)      == [t EXCEPT !.parent[n] = p]
SetColor(t, n, c)       == [t EXCEPT !.color[n] = c]

\* y takes the place of x below x's parent.
Replace(t, x, y) ==
    LET p == t.parent[x] IN
    IF p = nil THEN [t EXCEPT !.root = y]
    ELSE IF x = t.child["left"][p] THEN SetChild(t, "left", p, y)
    ELSE SetChild(t, "right", p, y)

\* y comes up from below x, x goes down to the given side, and b changes from y to x.
Relink(t, side, x, y, b) ==
    LET t1 == SetChild(t, Opposite(side), x, b)
        t2 == IF b = nil THEN t1 ELSE SetParent(t1, b, x)
        t3 == Replace(SetParent(t2, y, t.parent[x]), x, y)
    IN  SetParent(SetChild(t3, side, y, x), x, y)

\* rbtree_left_rotate, rbtree_right_rotate
Rotate(t, side, x) ==
    LET y == t.child[Opposite(side)][x]
    IN  Relink(t, side, x, y, t.child[side][y])

\* The last case of rbtree_insert_fixup: the grandparent g goes down, the parent of z comes up.
LiftOuter(t, side, z, g) ==
    Rotate(SetColor(SetColor(t, t.parent[z], "black"), g, "red"), Opposite(side), g)

\* z and its parent p are red.
LiftRed(t, side, z, p, g) ==
    LET far == Opposite(side)  uncle == t.child[far][g]
    IN  IF t.color[uncle] = "red"
        THEN [tree |-> SetColor(SetColor(SetColor(t, p, "black"), uncle, "black"), g, "red"),
              node |-> g]
        ELSE IF z = t.child[far][p]
        THEN [tree |-> LiftOuter(Rotate(t, side, p), side, p, g), node |-> p]
        ELSE [tree |-> LiftOuter(t, side, z, g), node |-> z]

\* A turn of the loop of rbtree_insert_fixup.
InsertTurn(q) ==
    LET t == q.tree  z == q.node  p == t.parent[z]  g == t.parent[p]
    IN  IF t.color[p] # "red" THEN q
        ELSE LiftRed(t, IF p = t.child["left"][g] THEN "left" ELSE "right", z, p, g)

\* Both loops go up the tree: more turns than it has levels change nothing.
MaxTurns == MaxKey + 2

\* rbtree_insert_fixup
InsertFixup(t, z) ==
    LET turn[i \in 0..MaxTurns] == IF i = 0 THEN [tree |-> t, node |-> z] ELSE InsertTurn(turn[i - 1])
        done == turn[MaxTurns].tree
    IN  SetColor(done, done.root, "black")

\* The way down from node n: to the key, or to the last node before nil.
Descend(t, n, k) ==
    LET descend[m \in Keys] ==
            LET next == t.child[IF k < m THEN "left" ELSE "right"][m]
            IN  IF m = k \/ next = nil THEN m ELSE descend[next]
    IN  descend[n]

\* rbtree_search
SearchKey(t, k) == t.root # nil /\ Descend(t, t.root, k) = k

\* rbtree_insert
InsertKey(t, z) ==
    LET y    == IF t.root = nil THEN nil ELSE Descend(t, t.root, z)
        side == IF z < y THEN "left" ELSE "right"
        t1   == SetColor(SetParent(t, z, y), z, "red")
        t2   == IF y = nil THEN [t1 EXCEPT !.root = z] ELSE SetChild(t1, side, y, z)
    IN  IF y = z THEN t ELSE InsertFixup(t2, z)

\* x gets a black sibling: a red one comes up above the parent p.
BlackSibling(t, side, p) ==
    LET w == t.child[Opposite(side)][p]
    IN  IF t.color[w] = "red"
        THEN Rotate(SetColor(SetColor(t, w, "black"), p, "red"), side, p)
        ELSE t

\* Broken variant: a red nephew on the near side is not rotated outward first.
NephewOutNot(t, side, w) == t

\* The red child of the sibling w gets to the far side.
NephewOut(t, side, w) ==
    LET far == Opposite(side)
    IN  IF t.color[t.child[far][w]] # "black" THEN t
        ELSE Rotate(SetColor(SetColor(t, t.child[side][w], "black"), w, "red"), far, w)

\* The last case of rbtree_delete_fixup: the sibling comes up, the parent goes down to x.
SiblingUp(t, side, p) ==
    LET far == Opposite(side)  w == t.child[far][p]
    IN  Rotate(SetColor(SetColor(SetColor(t, w, t.color[p]), p, "black"), t.child[far][w], "black"),
               side, p)

\* The sibling is black.
LiftBlack(t, side, p) ==
    LET w == t.child[Opposite(side)][p]
        last == SiblingUp(NephewOut(t, side, w), side, p)
    IN  IF \A s \in Sides : t.color[t.child[s][w]] = "black"
        THEN [tree |-> SetColor(t, w, "red"), node |-> p]
        ELSE [tree |-> last, node |-> last.root]

\* A turn of the loop of rbtree_delete_fixup.
DeleteTurn(q) ==
    LET t == q.tree  x == q.node  p == t.parent[x]
        side == IF x = t.child["left"][p] THEN "left" ELSE "right"
    IN  IF x = t.root \/ t.color[x] # "black" THEN q
        ELSE LiftBlack(BlackSibling(t, side, p), side, p)

\* rbtree_delete_fixup
DeleteFixup(t, x) ==
    LET turn[i \in 0..MaxTurns] == IF i = 0 THEN [tree |-> t, node |-> x] ELSE DeleteTurn(turn[i - 1])
        done == turn[MaxTurns]
    IN  SetColor(done.tree, done.node, "black")

Leftmost(t, n) ==
    LET leftmost[m \in Keys] == IF t.child["left"][m] = nil THEN m ELSE leftmost[t.child["left"][m]]
    IN  leftmost[n]

\* The node that rbtree_delete takes out: z, or its successor if z has two children.
Victim(t, z) ==
    IF \E s \in Sides : t.child[s][z] = nil THEN z ELSE Leftmost(t, t.child["right"][z])

\* The key of y is moved to the node z, which keeps its place and its color.
TakeKey(t, z, y) ==
    LET New(n) == IF n = z THEN y ELSE n
        Old(n) == IF n = y THEN z ELSE n
    IN  [root   |-> New(t.root),
         child  |-> [s \in Sides |-> [n \in Keys |-> New(t.child[s][Old(n)])]],
         parent |-> [n \in Keys \cup {nil} |-> New(t.parent[Old(n)])],
         color  |-> [n \in Keys \cup {nil} |-> t.color[Old(n)]]]

\* rbtree_delete
DeleteKey(t, z) ==
    LET y  == Victim(t, z)
        x  == IF t.child["left"][y] # nil THEN t.child["left"][y] ELSE t.child["right"][y]
        t1 == Replace(SetParent(t, x, t.parent[y]), y, x)
        t2 == IF y = z THEN t1 ELSE TakeKey(t1, z, y)
    IN  IF t.color[y] = "black" THEN DeleteFixup(t2, x) ELSE t2

\* The memory of a node that is not in the tree has no contents.
Cleared(t, n) == SetColor(SetParent(SetChild(SetChild(t, "left", n, nil), "right", n, nil), n, nil),
                          n, "black")

\* main: malloc a node and insert it.  A key that exists is not inserted again.
RbInsert(k) == /\ tree' = InsertKey(tree, k)
             /\ keys' = keys \cup {k}

\* main: search the key, delete it and free what rbtree_delete returns.
RbDelete(k) == /\ SearchKey(tree, k)
             /\ tree' = Cleared(DeleteKey(tree, k), k)
             /\ keys' = keys \ {k}

RbNext == \E k \in Keys : RbInsert(k) \/ RbDelete(k)

RbSpec == RbInit /\ [][RbNext]_rbVars
-----------------------------------------------------------------------------
Subtree(n) ==
    LET subtree[m \in Keys \cup {nil}] ==
            IF m = nil THEN {}
            ELSE {m} \cup subtree[tree.child["left"][m]] \cup subtree[tree.child["right"][m]]
    IN  subtree[n]

\* The numbers of black nodes on the paths from n to nil.
BlackHeights(n) ==
    LET heights[m \in Keys \cup {nil}] ==
            IF m = nil THEN {0}
            ELSE {h + (IF tree.color[m] = "black" THEN 1 ELSE 0) :
                     h \in heights[tree.child["left"][m]] \cup heights[tree.child["right"][m]]}
    IN  heights[n]

Ordered ==
    \A n \in keys : /\ \A m \in Subtree(tree.child["left"][n]) : m < n
                    /\ \A m \in Subtree(tree.child["right"][n]) : m > n

Linked ==
    /\ tree.root # nil => tree.parent[tree.root] = nil
    /\ \A n \in keys, s \in Sides : tree.child[s][n] # nil => tree.parent[tree.child[s][n]] = n

\* The rules of a red-black tree (tree/b_tree/main.cpp, lines 4 to 8), after every
\* sequence of insertions and deletions: root and nil are black, a red node has
\* black children, all paths have the same number of black nodes; and the tree is
\* ordered, linked both ways, and holds exactly the keys that were inserted and not
\* deleted, which the search finds.
IsRedBlackTree ==
    /\ tree.color[tree.root] = "black" /\ tree.color[nil] = "black"
    /\ \A n \in keys : tree.color[n] = "red" =>
          \A s \in Sides : tree.color[tree.child[s][n]] = "black"
    /\ Cardinality(BlackHeights(tree.root)) = 1
    /\ Ordered /\ Linked
    /\ Subtree(tree.root) = keys
    /\ \A k \in Keys : SearchKey(tree, k) <=> k \in keys
=============================================================================
