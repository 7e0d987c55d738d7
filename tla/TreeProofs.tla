------------------------------ MODULE TreeProofs ------------------------------
(***************************************************************************)
(* Proofs about the trees, SearchTree and RbTree, for any number of keys.  *)
(***************************************************************************)
EXTENDS SearchTree, RbTree, SequenceLemmas, FiniteSetTheorems, TLAPS

\* The nodes below a node.
Kids(h, x) == {h[x].l, h[x].r} \ {Nil}

\* No node is above itself: there is a rank that falls from a node to its children.
Ranks(h, rank, max) ==
    /\ max \in Nat /\ rank \in [DOMAIN h -> 0 .. max]
    /\ \A x \in DOMAIN h : /\ x # Nil /\ h[x].l \in Pointers(h) /\ h[x].r \in Pointers(h)
                           /\ \A c \in Kids(h, x) : rank[c] < rank[x]

Founded(h) == \E rank, max : Ranks(h, rank, max)

\* What passes from the children to their parent holds of every node.
LEMMA NodeInduction ==
    ASSUME NEW h, Founded(h), NEW T, \A x \in DOMAIN h : Kids(h, x) \subseteq T => x \in T
    PROVE  DOMAIN h \subseteq T
<1>1. PICK rank, max : Ranks(h, rank, max)
  BY DEF Founded
<1> DEFINE S == {m \in 0 .. max + 1 : \A x \in DOMAIN h : rank[x] < m => x \in T}
<1>2. max + 1 \in Nat /\ S \subseteq 0 .. max + 1 /\ 0 \in S
  BY <1>1 DEF Ranks
<1>3. ASSUME NEW m \in S, m < max + 1 PROVE m + 1 \in S
  <2>1. m + 1 \in 0 .. max + 1
    BY <1>2, <1>3
  <2>2. ASSUME NEW x \in DOMAIN h, rank[x] < m + 1 PROVE x \in T
    <3>1. ASSUME NEW c \in Kids(h, x) PROVE c \in T
      <4>1. c \in DOMAIN h /\ rank[c] < rank[x]
        BY <1>1 DEF Ranks, Kids, Pointers
      <4>2. rank[c] \in Int /\ rank[x] \in Int
        BY <1>1, <4>1 DEF Ranks
      <4> QED  BY <2>2, <4>1, <4>2
    <3> QED  BY <3>1
  <2> QED  BY <2>1, <2>2
<1>4. S = 0 .. max + 1
  <2> HIDE DEF S
  <2> QED  BY <1>2, <1>3, UpTo
<1> QED
  <2>1. max + 1 \in S
    BY <1>2, <1>4
  <2>2. \A x \in DOMAIN h : rank[x] < max + 1
    BY <1>1 DEF Ranks
  <2> QED  BY <2>1, <2>2
-----------------------------------------------------------------------------
\* The nodes of rank less than m, and the null pointer.
Low(h, rank, m) == {Nil} \cup {x \in DOMAIN h : rank[x] < m}

\* Layers of nodes: from none to all of them, and the children of a layer are in the one below.
LEMMA Layers ==
    ASSUME NEW h, NEW rank, NEW max, Ranks(h, rank, max)
    PROVE  /\ max + 1 \in Nat /\ Low(h, rank, 0) = {Nil} /\ Low(h, rank, max + 1) = Pointers(h)
           /\ \A m \in 0 .. max + 1 :
                 /\ Low(h, rank, m) \subseteq Low(h, rank, m + 1)
                 /\ \A x \in Low(h, rank, m + 1) \ {Nil} :
                       {h[x].l, h[x].r} \subseteq Low(h, rank, m)
  BY DEF Ranks, Low, Pointers, Kids

\* What passes from a layer to the next holds of the last one.
LEMMA LayersEnd ==
    ASSUME NEW h, NEW rank, NEW max, Ranks(h, rank, max), NEW S, S \subseteq 0 .. max + 1, 0 \in S,
           \A m \in S : m < max + 1 => m + 1 \in S
    PROVE  max + 1 \in S
<1>1. max + 1 \in Nat
  BY Layers
<1>2. S = 0 .. max + 1
  BY <1>1, UpTo
<1> QED  BY <1>1, <1>2

\* One call of release_tree: what it frees.
UnderCall(f, h, x) == IF x = Nil THEN {} ELSE f[h[x].l] \cup f[h[x].r] \cup {x}

\* It ends.
LEMMA UnderEnds ==
    ASSUME NEW h, Founded(h)
    PROVE  \E value : /\ \A x \in Pointers(h) : value[x] = UnderCall(value, h, x)
                      /\ \A x : Under(h, x) = value[x]
<1>1. PICK rank, max : Ranks(h, rank, max)
  BY DEF Founded
<1> DEFINE S == {m \in 0 .. max + 1 :
                   \E f : f = [x \in Low(h, rank, m) |-> UnderCall(f, h, x)]}
           Step(f) == f = [x \in Pointers(h) |-> UnderCall(f, h, x)]
           value == CHOOSE f : Step(f)
<1>2. \A f, g : UnderCall(f, h, Nil) = UnderCall(g, h, Nil)
  BY DEF UnderCall
<1>3. ASSUME NEW f, NEW g, NEW x, f[h[x].l] = g[h[x].l], f[h[x].r] = g[h[x].r]
      PROVE  UnderCall(f, h, x) = UnderCall(g, h, x)
  BY <1>3 DEF UnderCall
<1>4. 0 \in S
  <2>1. PICK f : f = [x \in {Nil} |-> UnderCall({}, h, x)]
    OBVIOUS
  <2>2. f = [x \in Low(h, rank, 0) |-> UnderCall(f, h, x)]
    BY <1>1, <1>2, <2>1, Layers
  <2> QED  BY <1>1, <2>2, Layers
<1>5. ASSUME NEW m \in S, m < max + 1 PROVE m + 1 \in S
  <2>1. PICK f : f = [x \in Low(h, rank, m) |-> UnderCall(f, h, x)]
    OBVIOUS
  <2>2. PICK g : g = [x \in Low(h, rank, m + 1) |-> UnderCall(f, h, x)]
    OBVIOUS
  <2>3. \A x \in Low(h, rank, m) : g[x] = f[x]
    BY <1>1, <2>1, <2>2, Layers
  <2>4. \A x \in Low(h, rank, m + 1) : UnderCall(f, h, x) = UnderCall(g, h, x)
    BY <1>1, <1>2, <1>3, <2>3, Layers
  <2>5. g = [x \in Low(h, rank, m + 1) |-> UnderCall(g, h, x)]
    BY <2>2, <2>4
  <2> QED  BY <1>1, <1>5, <2>5, Layers
<1>6. max + 1 \in S
  <2> HIDE DEF S
  <2>1. S \subseteq 0 .. max + 1
    BY DEF S
  <2> QED  BY <1>1, <1>4, <1>5, <2>1, LayersEnd
<1>7. \E f : Step(f)
  BY <1>1, <1>6, Layers
<1>8. Step(value)
  <2> HIDE DEF Step
  <2> QED  BY <1>7
<1>9. \A x : Under(h, x) = value[x]
  BY DEF Under, UnderCall
<1> HIDE DEF value
<1> QED  BY <1>8, <1>9

\* One call of preface_traversal.
PreorderCall(f, h, x) == IF x = Nil THEN <<>> ELSE <<x>> \o f[h[x].l] \o f[h[x].r]

\* It ends.
LEMMA PreorderEnds ==
    ASSUME NEW h, Founded(h)
    PROVE  \E value : /\ \A x \in Pointers(h) : value[x] = PreorderCall(value, h, x)
                      /\ \A x : Preorder(h, x) = value[x]
<1>1. PICK rank, max : Ranks(h, rank, max)
  BY DEF Founded
<1> DEFINE S == {m \in 0 .. max + 1 :
                   \E f : f = [x \in Low(h, rank, m) |-> PreorderCall(f, h, x)]}
           Step(f) == f = [x \in Pointers(h) |-> PreorderCall(f, h, x)]
           value == CHOOSE f : Step(f)
<1>2. \A f, g : PreorderCall(f, h, Nil) = PreorderCall(g, h, Nil)
  BY DEF PreorderCall
<1>3. ASSUME NEW f, NEW g, NEW x, f[h[x].l] = g[h[x].l], f[h[x].r] = g[h[x].r]
      PROVE  PreorderCall(f, h, x) = PreorderCall(g, h, x)
  BY <1>3 DEF PreorderCall
<1>4. 0 \in S
  <2>1. PICK f : f = [x \in {Nil} |-> PreorderCall({}, h, x)]
    OBVIOUS
  <2>2. f = [x \in Low(h, rank, 0) |-> PreorderCall(f, h, x)]
    BY <1>1, <1>2, <2>1, Layers
  <2> QED  BY <1>1, <2>2, Layers
<1>5. ASSUME NEW m \in S, m < max + 1 PROVE m + 1 \in S
  <2>1. PICK f : f = [x \in Low(h, rank, m) |-> PreorderCall(f, h, x)]
    OBVIOUS
  <2>2. PICK g : g = [x \in Low(h, rank, m + 1) |-> PreorderCall(f, h, x)]
    OBVIOUS
  <2>3. \A x \in Low(h, rank, m) : g[x] = f[x]
    BY <1>1, <2>1, <2>2, Layers
  <2>4. \A x \in Low(h, rank, m + 1) : PreorderCall(f, h, x) = PreorderCall(g, h, x)
    BY <1>1, <1>2, <1>3, <2>3, Layers
  <2>5. g = [x \in Low(h, rank, m + 1) |-> PreorderCall(g, h, x)]
    BY <2>2, <2>4
  <2> QED  BY <1>1, <1>5, <2>5, Layers
<1>6. max + 1 \in S
  <2> HIDE DEF S
  <2>1. S \subseteq 0 .. max + 1
    BY DEF S
  <2> QED  BY <1>1, <1>4, <1>5, <2>1, LayersEnd
<1>7. \E f : Step(f)
  BY <1>1, <1>6, Layers
<1>8. Step(value)
  <2> HIDE DEF Step
  <2> QED  BY <1>7
<1>9. \A x : Preorder(h, x) = value[x]
  BY DEF Preorder, PreorderCall
<1> HIDE DEF value
<1> QED  BY <1>8, <1>9

\* One call of inorder_traversal.
InorderCall(f, h, x) == IF x = Nil THEN <<>> ELSE f[h[x].l] \o <<x>> \o f[h[x].r]

\* It ends.
LEMMA InorderEnds ==
    ASSUME NEW h, Founded(h)
    PROVE  \E value : /\ \A x \in Pointers(h) : value[x] = InorderCall(value, h, x)
                      /\ \A x : Inorder(h, x) = value[x]
<1>1. PICK rank, max : Ranks(h, rank, max)
  BY DEF Founded
<1> DEFINE S == {m \in 0 .. max + 1 :
                   \E f : f = [x \in Low(h, rank, m) |-> InorderCall(f, h, x)]}
           Step(f) == f = [x \in Pointers(h) |-> InorderCall(f, h, x)]
           value == CHOOSE f : Step(f)
<1>2. \A f, g : InorderCall(f, h, Nil) = InorderCall(g, h, Nil)
  BY DEF InorderCall
<1>3. ASSUME NEW f, NEW g, NEW x, f[h[x].l] = g[h[x].l], f[h[x].r] = g[h[x].r]
      PROVE  InorderCall(f, h, x) = InorderCall(g, h, x)
  BY <1>3 DEF InorderCall
<1>4. 0 \in S
  <2>1. PICK f : f = [x \in {Nil} |-> InorderCall({}, h, x)]
    OBVIOUS
  <2>2. f = [x \in Low(h, rank, 0) |-> InorderCall(f, h, x)]
    BY <1>1, <1>2, <2>1, Layers
  <2> QED  BY <1>1, <2>2, Layers
<1>5. ASSUME NEW m \in S, m < max + 1 PROVE m + 1 \in S
  <2>1. PICK f : f = [x \in Low(h, rank, m) |-> InorderCall(f, h, x)]
    OBVIOUS
  <2>2. PICK g : g = [x \in Low(h, rank, m + 1) |-> InorderCall(f, h, x)]
    OBVIOUS
  <2>3. \A x \in Low(h, rank, m) : g[x] = f[x]
    BY <1>1, <2>1, <2>2, Layers
  <2>4. \A x \in Low(h, rank, m + 1) : InorderCall(f, h, x) = InorderCall(g, h, x)
    BY <1>1, <1>2, <1>3, <2>3, Layers
  <2>5. g = [x \in Low(h, rank, m + 1) |-> InorderCall(g, h, x)]
    BY <2>2, <2>4
  <2> QED  BY <1>1, <1>5, <2>5, Layers
<1>6. max + 1 \in S
  <2> HIDE DEF S
  <2>1. S \subseteq 0 .. max + 1
    BY DEF S
  <2> QED  BY <1>1, <1>4, <1>5, <2>1, LayersEnd
<1>7. \E f : Step(f)
  BY <1>1, <1>6, Layers
<1>8. Step(value)
  <2> HIDE DEF Step
  <2> QED  BY <1>7
<1>9. \A x : Inorder(h, x) = value[x]
  BY DEF Inorder, InorderCall
<1> HIDE DEF value
<1> QED  BY <1>8, <1>9

\* One call of postorder_traversal.
PostorderCall(f, h, x) == IF x = Nil THEN <<>> ELSE f[h[x].l] \o f[h[x].r] \o <<x>>

\* It ends.
LEMMA PostorderEnds ==
    ASSUME NEW h, Founded(h)
    PROVE  \E value : /\ \A x \in Pointers(h) : value[x] = PostorderCall(value, h, x)
                      /\ \A x : Postorder(h, x) = value[x]
<1>1. PICK rank, max : Ranks(h, rank, max)
  BY DEF Founded
<1> DEFINE S == {m \in 0 .. max + 1 :
                   \E f : f = [x \in Low(h, rank, m) |-> PostorderCall(f, h, x)]}
           Step(f) == f = [x \in Pointers(h) |-> PostorderCall(f, h, x)]
           value == CHOOSE f : Step(f)
<1>2. \A f, g : PostorderCall(f, h, Nil) = PostorderCall(g, h, Nil)
  BY DEF PostorderCall
<1>3. ASSUME NEW f, NEW g, NEW x, f[h[x].l] = g[h[x].l], f[h[x].r] = g[h[x].r]
      PROVE  PostorderCall(f, h, x) = PostorderCall(g, h, x)
  BY <1>3 DEF PostorderCall
<1>4. 0 \in S
  <2>1. PICK f : f = [x \in {Nil} |-> PostorderCall({}, h, x)]
    OBVIOUS
  <2>2. f = [x \in Low(h, rank, 0) |-> PostorderCall(f, h, x)]
    BY <1>1, <1>2, <2>1, Layers
  <2> QED  BY <1>1, <2>2, Layers
<1>5. ASSUME NEW m \in S, m < max + 1 PROVE m + 1 \in S
  <2>1. PICK f : f = [x \in Low(h, rank, m) |-> PostorderCall(f, h, x)]
    OBVIOUS
  <2>2. PICK g : g = [x \in Low(h, rank, m + 1) |-> PostorderCall(f, h, x)]
    OBVIOUS
  <2>3. \A x \in Low(h, rank, m) : g[x] = f[x]
    BY <1>1, <2>1, <2>2, Layers
  <2>4. \A x \in Low(h, rank, m + 1) : PostorderCall(f, h, x) = PostorderCall(g, h, x)
    BY <1>1, <1>2, <1>3, <2>3, Layers
  <2>5. g = [x \in Low(h, rank, m + 1) |-> PostorderCall(g, h, x)]
    BY <2>2, <2>4
  <2> QED  BY <1>1, <1>5, <2>5, Layers
<1>6. max + 1 \in S
  <2> HIDE DEF S
  <2>1. S \subseteq 0 .. max + 1
    BY DEF S
  <2> QED  BY <1>1, <1>4, <1>5, <2>1, LayersEnd
<1>7. \E f : Step(f)
  BY <1>1, <1>6, Layers
<1>8. Step(value)
  <2> HIDE DEF Step
  <2> QED  BY <1>7
<1>9. \A x : Postorder(h, x) = value[x]
  BY DEF Postorder, PostorderCall
<1> HIDE DEF value
<1> QED  BY <1>8, <1>9

\* One call of find_node.
FindCall(f, h, x, k) == IF x = Nil \/ x = k THEN x ELSE IF x > k THEN f[h[x].l] ELSE f[h[x].r]

\* It ends.
LEMMA FindNodeEnds ==
    ASSUME NEW h, Founded(h), NEW k
    PROVE  \E value : /\ \A x \in Pointers(h) : value[x] = FindCall(value, h, x, k)
                      /\ \A x : FindNode(h, x, k) = value[x]
<1>1. PICK rank, max : Ranks(h, rank, max)
  BY DEF Founded
<1> DEFINE S == {m \in 0 .. max + 1 :
                   \E f : f = [x \in Low(h, rank, m) |-> FindCall(f, h, x, k)]}
           Step(f) == f = [x \in Pointers(h) |-> FindCall(f, h, x, k)]
           value == CHOOSE f : Step(f)
<1>2. \A f, g : FindCall(f, h, Nil, k) = FindCall(g, h, Nil, k)
  BY DEF FindCall
<1>3. ASSUME NEW f, NEW g, NEW x, f[h[x].l] = g[h[x].l], f[h[x].r] = g[h[x].r]
      PROVE  FindCall(f, h, x, k) = FindCall(g, h, x, k)
  BY <1>3 DEF FindCall
<1>4. 0 \in S
  <2>1. PICK f : f = [x \in {Nil} |-> FindCall({}, h, x, k)]
    OBVIOUS
  <2>2. f = [x \in Low(h, rank, 0) |-> FindCall(f, h, x, k)]
    BY <1>1, <1>2, <2>1, Layers
  <2> QED  BY <1>1, <2>2, Layers
<1>5. ASSUME NEW m \in S, m < max + 1 PROVE m + 1 \in S
  <2>1. PICK f : f = [x \in Low(h, rank, m) |-> FindCall(f, h, x, k)]
    OBVIOUS
  <2>2. PICK g : g = [x \in Low(h, rank, m + 1) |-> FindCall(f, h, x, k)]
    OBVIOUS
  <2>3. \A x \in Low(h, rank, m) : g[x] = f[x]
    BY <1>1, <2>1, <2>2, Layers
  <2>4. \A x \in Low(h, rank, m + 1) : FindCall(f, h, x, k) = FindCall(g, h, x, k)
    BY <1>1, <1>2, <1>3, <2>3, Layers
  <2>5. g = [x \in Low(h, rank, m + 1) |-> FindCall(g, h, x, k)]
    BY <2>2, <2>4
  <2> QED  BY <1>1, <1>5, <2>5, Layers
<1>6. max + 1 \in S
  <2> HIDE DEF S
  <2>1. S \subseteq 0 .. max + 1
    BY DEF S
  <2> QED  BY <1>1, <1>4, <1>5, <2>1, LayersEnd
<1>7. \E f : Step(f)
  BY <1>1, <1>6, Layers
<1>8. Step(value)
  <2> HIDE DEF Step
  <2> QED  BY <1>7
<1>9. \A x : FindNode(h, x, k) = value[x]
  BY DEF FindNode, FindCall
<1> HIDE DEF value
<1> QED  BY <1>8, <1>9

\* One call of insert_node of bst_tree.
InsertCall(f, h, x, k) ==
    IF x = k THEN h
    ELSE IF x > k
         THEN IF h[x].l = Nil THEN [New(h, k, x) EXCEPT ![x].l = k] ELSE f[h[x].l]
         ELSE IF h[x].r = Nil THEN [New(h, k, x) EXCEPT ![x].r = k] ELSE f[h[x].r]

\* It ends.
LEMMA InsertNodeEnds ==
    ASSUME NEW h, Founded(h), NEW k
    PROVE  \E value : /\ \A x \in DOMAIN h : value[x] = InsertCall(value, h, x, k)
                      /\ \A x : InsertNode(h, x, k) = value[x]
<1>1. PICK rank, max : Ranks(h, rank, max)
  BY DEF Founded
<1> DEFINE S == {m \in 0 .. max + 1 :
                   \E f : f = [x \in Low(h, rank, m) \ {Nil} |-> InsertCall(f, h, x, k)]}
           Step(f) == f = [x \in DOMAIN h |-> InsertCall(f, h, x, k)]
           value == CHOOSE f : Step(f)
<1>3. ASSUME NEW f, NEW g, NEW x, h[x].l # Nil => f[h[x].l] = g[h[x].l],
             h[x].r # Nil => f[h[x].r] = g[h[x].r]
      PROVE  InsertCall(f, h, x, k) = InsertCall(g, h, x, k)
  BY <1>3 DEF InsertCall
<1>4. 0 \in S
  <2>1. PICK f : f = [x \in {} |-> {}]
    OBVIOUS
  <2>2. f = [x \in Low(h, rank, 0) \ {Nil} |-> InsertCall(f, h, x, k)]
    BY <1>1, <2>1, Layers
  <2> QED  BY <1>1, <2>2, Layers
<1>5. ASSUME NEW m \in S, m < max + 1 PROVE m + 1 \in S
  <2>1. PICK f : f = [x \in Low(h, rank, m) \ {Nil} |-> InsertCall(f, h, x, k)]
    OBVIOUS
  <2>2. PICK g : g = [x \in Low(h, rank, m + 1) \ {Nil} |-> InsertCall(f, h, x, k)]
    OBVIOUS
  <2>3. \A x \in Low(h, rank, m) \ {Nil} : g[x] = f[x]
    BY <1>1, <2>1, <2>2, Layers
  <2>4. \A x \in Low(h, rank, m + 1) \ {Nil} : InsertCall(f, h, x, k) = InsertCall(g, h, x, k)
    BY <1>1, <1>3, <2>3, Layers
  <2>5. g = [x \in Low(h, rank, m + 1) \ {Nil} |-> InsertCall(g, h, x, k)]
    BY <2>2, <2>4
  <2> QED  BY <1>1, <1>5, <2>5, Layers
<1>6. max + 1 \in S
  <2> HIDE DEF S
  <2>1. S \subseteq 0 .. max + 1
    BY DEF S
  <2> QED  BY <1>1, <1>4, <1>5, <2>1, LayersEnd
<1>7. \E f : Step(f)
  <2>1. Nil \notin DOMAIN h
    BY <1>1 DEF Ranks
  <2>2. Low(h, rank, max + 1) = DOMAIN h \cup {Nil}
    BY <1>1, Layers DEF Pointers
  <2>3. DOMAIN h = Low(h, rank, max + 1) \ {Nil}
    BY <2>1, <2>2
  <2> QED  BY <1>1, <1>6, <2>3, Layers
<1>8. Step(value)
  <2> HIDE DEF Step
  <2> QED  BY <1>7
<1>9. \A x : InsertNode(h, x, k) = value[x]
  BY DEF InsertNode, InsertCall
<1> HIDE DEF value
<1> QED  BY <1>8, <1>9

\* The new node is linked to its parent x on the way back.
BackLeft(made, x)  == [made.heap EXCEPT ![x].l = made.node, ![made.node].p = x]
BackRight(made, x) == [made.heap EXCEPT ![x].r = made.node, ![made.node].p = x]

\* One call of insert_node of bb_tree.
BackCall(f, h, x, k) ==
    IF x = Nil THEN [heap |-> New(h, k, Nil), node |-> k]
    ELSE IF x = k THEN [heap |-> h, node |-> x]
    ELSE LET below == IF x > k THEN h[x].l ELSE h[x].r
             made  == f[below]
         IN [heap |-> IF below # Nil THEN made.heap
                      ELSE IF x > k THEN BackLeft(made, x) ELSE BackRight(made, x),
             node |-> x]

\* It ends.
LEMMA InsertBackEnds ==
    ASSUME NEW h, Founded(h), NEW k
    PROVE  \E value : /\ \A x \in Pointers(h) : value[x] = BackCall(value, h, x, k)
                      /\ \A x : InsertBack(h, x, k) = value[x]
<1>1. PICK rank, max : Ranks(h, rank, max)
  BY DEF Founded
<1> DEFINE S == {m \in 0 .. max + 1 :
                   \E f : f = [x \in Low(h, rank, m) |-> BackCall(f, h, x, k)]}
           Step(f) == f = [x \in Pointers(h) |-> BackCall(f, h, x, k)]
           value == CHOOSE f : Step(f)
<1>2. \A f, g : BackCall(f, h, Nil, k) = BackCall(g, h, Nil, k)
  BY DEF BackCall
<1>3. ASSUME NEW f, NEW g, NEW x, f[h[x].l] = g[h[x].l], f[h[x].r] = g[h[x].r]
      PROVE  BackCall(f, h, x, k) = BackCall(g, h, x, k)
  BY <1>3 DEF BackCall
<1>4. 0 \in S
  <2>1. PICK f : f = [x \in {Nil} |-> BackCall({}, h, x, k)]
    OBVIOUS
  <2>2. f = [x \in Low(h, rank, 0) |-> BackCall(f, h, x, k)]
    BY <1>1, <1>2, <2>1, Layers
  <2> QED  BY <1>1, <2>2, Layers
<1>5. ASSUME NEW m \in S, m < max + 1 PROVE m + 1 \in S
  <2>1. PICK f : f = [x \in Low(h, rank, m) |-> BackCall(f, h, x, k)]
    OBVIOUS
  <2>2. PICK g : g = [x \in Low(h, rank, m + 1) |-> BackCall(f, h, x, k)]
    OBVIOUS
  <2>3. \A x \in Low(h, rank, m) : g[x] = f[x]
    BY <1>1, <2>1, <2>2, Layers
  <2>4. \A x \in Low(h, rank, m + 1) : BackCall(f, h, x, k) = BackCall(g, h, x, k)
    BY <1>1, <1>2, <1>3, <2>3, Layers
  <2>5. g = [x \in Low(h, rank, m + 1) |-> BackCall(g, h, x, k)]
    BY <2>2, <2>4
  <2> QED  BY <1>1, <1>5, <2>5, Layers
<1>6. max + 1 \in S
  <2> HIDE DEF S
  <2>1. S \subseteq 0 .. max + 1
    BY DEF S
  <2> QED  BY <1>1, <1>4, <1>5, <2>1, LayersEnd
<1>7. \E f : Step(f)
  BY <1>1, <1>6, Layers
<1>8. Step(value)
  <2> HIDE DEF Step
  <2> QED  BY <1>7
<1>9. \A x : InsertBack(h, x, k) = value[x]
  BY DEF InsertBack, BackCall, BackLeft, BackRight
<1> HIDE DEF value
<1> QED  BY <1>8, <1>9

\* One call of delete_node, for any key.
DeleteCall(f, h, x) ==
    [key \in TreeKeys |->
        IF x = Nil THEN [heap |-> h, node |-> Nil]
        ELSE IF x > key
             THEN LET d == f[h[x].l][key]
                  IN [heap |-> [d.heap EXCEPT ![x].l = d.node], node |-> x]
        ELSE IF x < key
             THEN LET d == f[h[x].r][key]
                  IN [heap |-> [d.heap EXCEPT ![x].r = d.node], node |-> x]
        ELSE IF h[x].l = Nil /\ h[x].r = Nil THEN [heap |-> FreeKey(h, x), node |-> Nil]
        ELSE LET d == IF h[x].r = Nil THEN f[h[x].l][key] ELSE f[h[x].r][h[x].r]
             IN [heap |-> FreeKey(d.heap, x), node |-> d.node]]

\* It ends.
LEMMA DeleteNodeEnds ==
    ASSUME NEW h, Founded(h)
    PROVE  \E value : /\ \A x \in Pointers(h) : value[x] = DeleteCall(value, h, x)
                      /\ \A x, key : DeleteNode(h, x, key) = value[x][key]
<1>1. PICK rank, max : Ranks(h, rank, max)
  BY DEF Founded
<1> DEFINE S == {m \in 0 .. max + 1 :
                   \E f : f = [x \in Low(h, rank, m) |-> DeleteCall(f, h, x)]}
           Step(f) == f = [x \in Pointers(h) |-> DeleteCall(f, h, x)]
           value == CHOOSE f : Step(f)
<1>2. \A f, g : DeleteCall(f, h, Nil) = DeleteCall(g, h, Nil)
  BY DEF DeleteCall
<1>3. ASSUME NEW f, NEW g, NEW x, f[h[x].l] = g[h[x].l], f[h[x].r] = g[h[x].r]
      PROVE  DeleteCall(f, h, x) = DeleteCall(g, h, x)
  BY <1>3 DEF DeleteCall
<1>4. 0 \in S
  <2>1. PICK f : f = [x \in {Nil} |-> DeleteCall({}, h, x)]
    OBVIOUS
  <2>2. f = [x \in Low(h, rank, 0) |-> DeleteCall(f, h, x)]
    BY <1>1, <1>2, <2>1, Layers
  <2> QED  BY <1>1, <2>2, Layers
<1>5. ASSUME NEW m \in S, m < max + 1 PROVE m + 1 \in S
  <2>1. PICK f : f = [x \in Low(h, rank, m) |-> DeleteCall(f, h, x)]
    OBVIOUS
  <2>2. PICK g : g = [x \in Low(h, rank, m + 1) |-> DeleteCall(f, h, x)]
    OBVIOUS
  <2>3. \A x \in Low(h, rank, m) : g[x] = f[x]
    BY <1>1, <2>1, <2>2, Layers
  <2>4. \A x \in Low(h, rank, m + 1) : DeleteCall(f, h, x) = DeleteCall(g, h, x)
    BY <1>1, <1>2, <1>3, <2>3, Layers
  <2>5. g = [x \in Low(h, rank, m + 1) |-> DeleteCall(g, h, x)]
    BY <2>2, <2>4
  <2> QED  BY <1>1, <1>5, <2>5, Layers
<1>6. max + 1 \in S
  <2> HIDE DEF S
  <2>1. S \subseteq 0 .. max + 1
    BY DEF S
  <2> QED  BY <1>1, <1>4, <1>5, <2>1, LayersEnd
<1>7. \E f : Step(f)
  BY <1>1, <1>6, Layers
<1>8. Step(value)
  <2> HIDE DEF Step
  <2> QED  BY <1>7
<1>9. \A x, key : DeleteNode(h, x, key) = value[x][key]
  BY DEF DeleteNode, DeleteCall
<1> HIDE DEF value
<1> QED  BY <1>8, <1>9

\* The children of a node are nodes.
LEMMA KidsAreNodes ==
    ASSUME NEW h, Founded(h), NEW x \in DOMAIN h
    PROVE  x # Nil /\ x \in Pointers(h) /\ h[x].l \in Pointers(h) /\ h[x].r \in Pointers(h)
  BY DEF Founded, Ranks, Pointers

\* What is below a node.
LEMMA UnderOf ==
    ASSUME NEW h, Founded(h)
    PROVE  /\ Under(h, Nil) = {}
           /\ \A x \in DOMAIN h : Under(h, x) = Under(h, h[x].l) \cup Under(h, h[x].r) \cup {x}
<1>1. PICK value : /\ \A x \in Pointers(h) : value[x] = UnderCall(value, h, x)
                   /\ \A x : Under(h, x) = value[x]
  BY UnderEnds
<1>2. ASSUME NEW x \in DOMAIN h
      PROVE  Under(h, x) = Under(h, h[x].l) \cup Under(h, h[x].r) \cup {x}
  <2>1. x # Nil /\ Under(h, x) = UnderCall(value, h, x)
    BY <1>1, KidsAreNodes
  <2> QED  BY <1>1, <2>1 DEF UnderCall
<1> QED  BY <1>1, <1>2 DEF UnderCall, Pointers

\* The traversals, call by call.
LEMMA PreorderOf ==
    ASSUME NEW h, Founded(h)
    PROVE  /\ Preorder(h, Nil) = <<>>
           /\ \A x \in DOMAIN h :
                 Preorder(h, x) = <<x>> \o Preorder(h, h[x].l) \o Preorder(h, h[x].r)
<1>1. PICK value : /\ \A x \in Pointers(h) : value[x] = PreorderCall(value, h, x)
                   /\ \A x : Preorder(h, x) = value[x]
  BY PreorderEnds
<1>2. ASSUME NEW x \in DOMAIN h
      PROVE  Preorder(h, x) = <<x>> \o Preorder(h, h[x].l) \o Preorder(h, h[x].r)
  BY <1>1, KidsAreNodes DEF PreorderCall
<1> QED  BY <1>1, <1>2 DEF PreorderCall, Pointers

\* As above.
LEMMA InorderOf ==
    ASSUME NEW h, Founded(h)
    PROVE  /\ Inorder(h, Nil) = <<>>
           /\ \A x \in DOMAIN h :
                 Inorder(h, x) = Inorder(h, h[x].l) \o <<x>> \o Inorder(h, h[x].r)
<1>1. PICK value : /\ \A x \in Pointers(h) : value[x] = InorderCall(value, h, x)
                   /\ \A x : Inorder(h, x) = value[x]
  BY InorderEnds
<1>2. ASSUME NEW x \in DOMAIN h
      PROVE  Inorder(h, x) = Inorder(h, h[x].l) \o <<x>> \o Inorder(h, h[x].r)
  BY <1>1, KidsAreNodes DEF InorderCall
<1> QED  BY <1>1, <1>2 DEF InorderCall, Pointers

\* As above.
LEMMA PostorderOf ==
    ASSUME NEW h, Founded(h)
    PROVE  /\ Postorder(h, Nil) = <<>>
           /\ \A x \in DOMAIN h :
                 Postorder(h, x) = Postorder(h, h[x].l) \o Postorder(h, h[x].r) \o <<x>>
<1>1. PICK value : /\ \A x \in Pointers(h) : value[x] = PostorderCall(value, h, x)
                   /\ \A x : Postorder(h, x) = value[x]
  BY PostorderEnds
<1>2. ASSUME NEW x \in DOMAIN h
      PROVE  Postorder(h, x) = Postorder(h, h[x].l) \o Postorder(h, h[x].r) \o <<x>>
  <2>1. x # Nil /\ Postorder(h, x) = PostorderCall(value, h, x)
    BY <1>1, KidsAreNodes
  <2> QED  BY <1>1, <2>1 DEF PostorderCall
<1> QED  BY <1>1, <1>2 DEF PostorderCall, Pointers

\* find_node, call by call.
LEMMA FindOf ==
    ASSUME NEW h, Founded(h), NEW k
    PROVE  /\ FindNode(h, Nil, k) = Nil
           /\ \A x \in DOMAIN h :
                 /\ x = k => FindNode(h, x, k) = x
                 /\ x # k /\ x > k => FindNode(h, x, k) = FindNode(h, h[x].l, k)
                 /\ x # k /\ ~(x > k) => FindNode(h, x, k) = FindNode(h, h[x].r, k)
<1>1. PICK value : /\ \A x \in Pointers(h) : value[x] = FindCall(value, h, x, k)
                   /\ \A x : FindNode(h, x, k) = value[x]
  BY FindNodeEnds
<1> QED  BY <1>1, KidsAreNodes DEF FindCall, Pointers

\* insert_node of bst_tree, call by call.
LEMMA InsertOf ==
    ASSUME NEW h, Founded(h), NEW k, NEW x \in DOMAIN h
    PROVE  /\ x = k => InsertNode(h, x, k) = h
           /\ x # k /\ x > k =>
                 InsertNode(h, x, k) = IF h[x].l = Nil THEN [New(h, k, x) EXCEPT ![x].l = k]
                                       ELSE InsertNode(h, h[x].l, k)
           /\ x # k /\ ~(x > k) =>
                 InsertNode(h, x, k) = IF h[x].r = Nil THEN [New(h, k, x) EXCEPT ![x].r = k]
                                       ELSE InsertNode(h, h[x].r, k)
<1>1. PICK value : /\ \A y \in DOMAIN h : value[y] = InsertCall(value, h, y, k)
                   /\ \A y : InsertNode(h, y, k) = value[y]
  BY InsertNodeEnds
<1>2. InsertNode(h, x, k) = InsertCall(value, h, x, k)
  BY <1>1
<1> QED  BY <1>1, <1>2 DEF InsertCall

\* insert_node of bb_tree, call by call.
LEMMA InsertBackOf ==
    ASSUME NEW h, Founded(h), NEW k
    PROVE  /\ InsertBack(h, Nil, k) = [heap |-> New(h, k, Nil), node |-> k]
           /\ \A x \in DOMAIN h :
                 /\ x = k => InsertBack(h, x, k) = [heap |-> h, node |-> x]
                 /\ x # k /\ x > k =>
                       InsertBack(h, x, k) =
                          [heap |-> LET made == InsertBack(h, h[x].l, k)
                                    IN IF h[x].l # Nil THEN made.heap
                                       ELSE BackLeft(made, x),
                           node |-> x]
                 /\ x # k /\ ~(x > k) =>
                       InsertBack(h, x, k) =
                          [heap |-> LET made == InsertBack(h, h[x].r, k)
                                    IN IF h[x].r # Nil THEN made.heap
                                       ELSE BackRight(made, x),
                           node |-> x]
<1>1. PICK value : /\ \A x \in Pointers(h) : value[x] = BackCall(value, h, x, k)
                   /\ \A x : InsertBack(h, x, k) = value[x]
  BY InsertBackEnds
<1>2. InsertBack(h, Nil, k) = BackCall(value, h, Nil, k)
  BY <1>1 DEF Pointers
<1>3. \A x \in DOMAIN h : x # Nil /\ InsertBack(h, x, k) = BackCall(value, h, x, k)
  BY <1>1, KidsAreNodes
<1>4. InsertBack(h, Nil, k) = [heap |-> New(h, k, Nil), node |-> k]
  BY <1>2 DEF BackCall
<1> QED  BY <1>1, <1>3, <1>4 DEF BackCall

\* delete_node, call by call.
LEMMA DeleteOf ==
    ASSUME NEW h, Founded(h), NEW k \in TreeKeys
    PROVE  /\ DeleteNode(h, Nil, k) = [heap |-> h, node |-> Nil]
           /\ \A x \in DOMAIN h :
                 /\ x > k => LET d == DeleteNode(h, h[x].l, k)
                             IN DeleteNode(h, x, k) = [heap |-> [d.heap EXCEPT ![x].l = d.node], node |-> x]
                 /\ ~(x > k) /\ x < k =>
                             LET d == DeleteNode(h, h[x].r, k)
                             IN DeleteNode(h, x, k) = [heap |-> [d.heap EXCEPT ![x].r = d.node], node |-> x]
                 /\ ~(x > k) /\ ~(x < k) =>
                      /\ h[x].l = Nil /\ h[x].r = Nil =>
                            DeleteNode(h, x, k) = [heap |-> FreeKey(h, x), node |-> Nil]
                      /\ h[x].l # Nil /\ h[x].r = Nil =>
                            LET d == DeleteNode(h, h[x].l, k)
                            IN DeleteNode(h, x, k) = [heap |-> FreeKey(d.heap, x), node |-> d.node]
                      /\ h[x].r # Nil =>
                            LET d == DeleteNode(h, h[x].r, h[x].r)
                            IN DeleteNode(h, x, k) = [heap |-> FreeKey(d.heap, x), node |-> d.node]
<1>1. PICK value : /\ \A x \in Pointers(h) : value[x] = DeleteCall(value, h, x)
                   /\ \A x, key : DeleteNode(h, x, key) = value[x][key]
  BY DeleteNodeEnds
<1>2. DeleteNode(h, Nil, k) = DeleteCall(value, h, Nil)[k]
  BY <1>1 DEF Pointers
<1>3. \A x \in DOMAIN h : x # Nil /\ DeleteNode(h, x, k) = DeleteCall(value, h, x)[k]
  BY <1>1, KidsAreNodes
<1>4. DeleteNode(h, Nil, k) = [heap |-> h, node |-> Nil]
  BY <1>2 DEF DeleteCall
<1> QED  BY <1>1, <1>3, <1>4 DEF DeleteCall

\* The smaller keys are on the left.
OrderedHeap(h) == \A x \in DOMAIN h : /\ \A y \in Under(h, h[x].l) : y < x
                                  /\ \A y \in Under(h, h[x].r) : y > x

IsHeap(h) == /\ DOMAIN h \subseteq TreeKeys
             /\ h \in [DOMAIN h -> [p : TreeKeys \cup {Nil}, l : Pointers(h), r : Pointers(h)]]

\* A heap of nodes that form search trees.
IsForest(h) == IsHeap(h) /\ Founded(h) /\ OrderedHeap(h)

\* What is below a node, itself included, are nodes.
LEMMA UnderNodes ==
    ASSUME NEW h, Founded(h), NEW x \in DOMAIN h
    PROVE  x \in Under(h, x) /\ Under(h, x) \subseteq DOMAIN h
<1> DEFINE T == {y \in DOMAIN h : Under(h, y) \subseteq DOMAIN h}
<1>1. ASSUME NEW y \in DOMAIN h, Kids(h, y) \subseteq T PROVE y \in T
  <2>1. \A c \in {h[y].l, h[y].r} : Under(h, c) \subseteq DOMAIN h
    BY <1>1, UnderOf DEF Kids
  <2> QED  BY <2>1, UnderOf
<1>2. DOMAIN h \subseteq T
  <2> HIDE DEF T
  <2> QED  BY <1>1, NodeInduction
<1> QED  BY <1>2, UnderOf

\* What is below a node below another one is below that one.
LEMMA UnderTransitive ==
    ASSUME NEW h, Founded(h), NEW x \in DOMAIN h, NEW y \in Under(h, x)
    PROVE  y \in DOMAIN h /\ Under(h, y) \subseteq Under(h, x)
<1> DEFINE T == {z \in DOMAIN h : \A u \in Under(h, z) : Under(h, u) \subseteq Under(h, z)}
<1>1. ASSUME NEW z \in DOMAIN h, Kids(h, z) \subseteq T PROVE z \in T
  <2>1. \A c \in {h[z].l, h[z].r} : \A u \in Under(h, c) : Under(h, u) \subseteq Under(h, c)
    BY <1>1, UnderOf DEF Kids
  <2>2. Under(h, z) = Under(h, h[z].l) \cup Under(h, h[z].r) \cup {z}
    BY UnderOf
  <2> QED  BY <2>1, <2>2
<1>2. DOMAIN h \subseteq T
  <2> HIDE DEF T
  <2> QED  BY <1>1, NodeInduction
<1> QED  BY <1>2, UnderNodes

\* The rank falls on the way down.
LEMMA UnderRank ==
    ASSUME NEW h, NEW rank, NEW max, Ranks(h, rank, max), NEW x \in DOMAIN h, NEW y \in Under(h, x)
    PROVE  rank[y] <= rank[x] /\ (y # x => rank[y] < rank[x])
<1> DEFINE T == {z \in DOMAIN h : \A u \in Under(h, z) : u # z => rank[u] < rank[z]}
<1>0. Founded(h) /\ max \in Nat /\ rank \in [DOMAIN h -> 0 .. max]
  BY DEF Founded, Ranks
<1>1. Founded(h) /\ \A z \in DOMAIN h : rank[z] \in Int
  BY <1>0
<1>2. ASSUME NEW z \in DOMAIN h, Kids(h, z) \subseteq T PROVE z \in T
  <2> SUFFICES ASSUME NEW u \in Under(h, z), u # z PROVE rank[u] < rank[z]
    OBVIOUS
  <2>1. PICK c \in {h[z].l, h[z].r} : u \in Under(h, c)
    BY <1>1, UnderOf
  <2>2. c \in Kids(h, z)
    BY <1>1, <2>1, UnderOf DEF Kids
  <2>3. c \in DOMAIN h /\ rank[c] < rank[z]
    BY <1>2, <2>2 DEF Ranks
  <2>4. u \in DOMAIN h /\ (u # c => rank[u] < rank[c])
    BY <1>1, <1>2, <2>1, <2>2, <2>3, UnderNodes
  <2> QED  BY <1>1, <2>3, <2>4
<1>3. DOMAIN h \subseteq T
  <2> HIDE DEF T
  <2> QED  BY <1>1, <1>2, NodeInduction
<1>4. y # x => rank[y] < rank[x]
  BY <1>3
<1>5. rank[x] \in Int /\ rank[y] \in Int
  BY <1>1, UnderNodes
<1> QED  BY <1>4, <1>5

\* Two nodes are not below each other, and a child is not above its parent.
LEMMA NoCycle ==
    ASSUME NEW h, Founded(h), NEW x \in DOMAIN h, NEW y \in Under(h, x), x \in Under(h, y)
    PROVE  x = y
<1>1. PICK rank, max : Ranks(h, rank, max)
  BY DEF Founded
<1>2. y \in DOMAIN h /\ rank[x] \in Int /\ rank[y] \in Int
  BY <1>1, UnderNodes DEF Ranks
<1> QED  BY <1>1, <1>2, UnderRank

\* As above.
LEMMA NotAboveParent ==
    ASSUME NEW h, Founded(h), NEW x \in DOMAIN h, NEW c \in Kids(h, x)
    PROVE  c \in DOMAIN h /\ c # x /\ c \in Under(h, x) /\ x \notin Under(h, c)
<1>1. PICK rank, max : Ranks(h, rank, max)
  BY DEF Founded
<1>2. c \in DOMAIN h /\ rank[c] < rank[x] /\ rank[c] \in Int /\ rank[x] \in Int
  BY <1>1 DEF Ranks, Kids, Pointers
<1>3. c \in Under(h, x)
  BY <1>2, UnderNodes, UnderOf DEF Kids
<1> QED  BY <1>1, <1>2, <1>3, UnderRank

\* On which side of a node another one is.
LEMMA SidesUnder ==
    ASSUME NEW h, IsForest(h), NEW x \in DOMAIN h
    PROVE  /\ x \in Nat /\ Under(h, x) \subseteq Nat
           /\ Under(h, h[x].l) \cup Under(h, h[x].r) \subseteq Under(h, x)
           /\ \A y \in Under(h, x) : /\ y < x <=> y \in Under(h, h[x].l)
                                     /\ y > x <=> y \in Under(h, h[x].r)
                                     /\ y = x \/ y < x \/ y > x
<1>1. Under(h, x) = Under(h, h[x].l) \cup Under(h, h[x].r) \cup {x} /\ Under(h, x) \subseteq DOMAIN h
  BY UnderOf, UnderNodes DEF IsForest
<1>2. \A y \in DOMAIN h : y \in Nat
  BY TreeAssumption DEF IsForest, IsHeap, TreeKeys
<1> QED  BY <1>1, <1>2 DEF IsForest, OrderedHeap

\* What is below a node has a parent there.
LEMMA ParentBelow ==
    ASSUME NEW h, Founded(h), NEW x \in DOMAIN h, NEW y \in Under(h, x), y # x
    PROVE  \E z \in Under(h, x) : y \in Kids(h, z)
<1> DEFINE T == {z \in DOMAIN h : \A u \in Under(h, z) : u # z => \E w \in Under(h, z) : u \in Kids(h, w)}
<1>1. ASSUME NEW z \in DOMAIN h, Kids(h, z) \subseteq T PROVE z \in T
  <2> SUFFICES ASSUME NEW u \in Under(h, z), u # z PROVE \E w \in Under(h, z) : u \in Kids(h, w)
    OBVIOUS
  <2>1. PICK c \in {h[z].l, h[z].r} : u \in Under(h, c)
    BY UnderOf
  <2>2. c \in Kids(h, z) /\ z \in Under(h, z)
    BY <2>1, UnderOf DEF Kids
  <2>3. Under(h, c) \subseteq Under(h, z)
    BY UnderOf
  <2> QED  BY <1>1, <2>1, <2>2, <2>3
<1>2. DOMAIN h \subseteq T
  <2> HIDE DEF T
  <2> QED  BY <1>1, NodeInduction
<1> QED  BY <1>2

\* Of two nodes below a third one, one is below the other, or all that is below the one
\* is less than all that is below the other.
LEMMA NestedOrApart ==
    ASSUME NEW h, IsForest(h), NEW x \in DOMAIN h, NEW a \in Under(h, x), NEW b \in Under(h, x)
    PROVE  \/ a \in Under(h, b) \/ b \in Under(h, a)
           \/ \A y \in Under(h, a), z \in Under(h, b) : y < z
           \/ \A y \in Under(h, a), z \in Under(h, b) : y > z
<1> DEFINE Fine(u, v) == \/ u \in Under(h, v) \/ v \in Under(h, u)
                         \/ \A y \in Under(h, u), z \in Under(h, v) : y < z
                         \/ \A y \in Under(h, u), z \in Under(h, v) : y > z
           T == {w \in DOMAIN h : \A u, v \in Under(h, w) : Fine(u, v)}
<1>1. Founded(h)
  BY DEF IsForest
<1>2. ASSUME NEW w \in DOMAIN h, Kids(h, w) \subseteq T PROVE w \in T
  <2> SUFFICES ASSUME NEW u \in Under(h, w), NEW v \in Under(h, w) PROVE Fine(u, v)
    OBVIOUS
  <2>1. CASE u = w \/ v = w
    BY <2>1
  <2>2. ASSUME NEW c \in {h[w].l, h[w].r}, u \in Under(h, c), v \in Under(h, c) PROVE Fine(u, v)
    <3>1. c \in Kids(h, w)
      BY <1>1, <2>2, UnderOf DEF Kids
    <3> HIDE DEF Fine
    <3> QED  BY <1>2, <2>2, <3>1
  <2>3. ASSUME NEW s \in Under(h, h[w].l), NEW t \in Under(h, h[w].r)
        PROVE  \A y \in Under(h, s), z \in Under(h, t) : y < z
    <3>1. s \in Under(h, w) /\ t \in Under(h, w) /\ w \in Nat
      BY SidesUnder
    <3>2. Under(h, s) \subseteq Under(h, h[w].l) /\ Under(h, t) \subseteq Under(h, h[w].r)
      BY <1>1, <2>3, UnderTransitive, UnderOf, KidsAreNodes DEF Pointers
    <3>3. \A y \in Under(h, h[w].l), z \in Under(h, h[w].r) : y \in Nat /\ z \in Nat /\ y < w /\ w < z
      BY SidesUnder
    <3> QED  BY <3>1, <3>2, <3>3
  <2>4. CASE u \in Under(h, h[w].l) /\ v \in Under(h, h[w].r)
    BY <2>3, <2>4
  <2>5. CASE v \in Under(h, h[w].l) /\ u \in Under(h, h[w].r)
    <3>1. \A z \in Under(h, v), y \in Under(h, u) : z < y
      BY <2>3, <2>5
    <3>2. \A z \in Under(h, v), y \in Under(h, u) : z \in Nat /\ y \in Nat
      BY <1>1, UnderTransitive, SidesUnder
    <3> QED  BY <3>1, <3>2
  <2>6. u = w \/ u \in Under(h, h[w].l) \/ u \in Under(h, h[w].r)
    BY <1>1, UnderOf
  <2>7. v = w \/ v \in Under(h, h[w].l) \/ v \in Under(h, h[w].r)
    BY <1>1, UnderOf
  <2> HIDE DEF Fine
  <2> QED  BY <2>1, <2>2, <2>4, <2>5, <2>6, <2>7
<1>3. DOMAIN h \subseteq T
  <2> HIDE DEF T
  <2> QED  BY <1>1, <1>2, NodeInduction
<1> QED  BY <1>3

\* The new node k was linked below the node m.
Attached(h, m, k, new) ==
    \/ k < m /\ h[m].l = Nil /\ new = [New(h, k, m) EXCEPT ![m].l = k]
    \/ k > m /\ h[m].r = Nil /\ new = [New(h, k, m) EXCEPT ![m].r = k]

\* Below x there is no node between which and m the key k would be out of order.
Between(h, x, m, k) ==
    \A y \in Under(h, x) : /\ m \in Under(h, h[y].l) => k < y
                           /\ m \in Under(h, h[y].r) => k > y

\* insert_node finds the place of a new key.
LEMMA InsertFinds ==
    ASSUME NEW h, IsForest(h), NEW x \in DOMAIN h, NEW k \in TreeKeys \ DOMAIN h
    PROVE  \E m \in Under(h, x) : Attached(h, m, k, InsertNode(h, x, k)) /\ Between(h, x, m, k)
<1> DEFINE Spot(y, m) == Attached(h, m, k, InsertNode(h, y, k)) /\ Between(h, y, m, k)
           T == {y \in DOMAIN h : \E m \in Under(h, y) : Spot(y, m)}
<1>1. Founded(h) /\ k \in Nat
  BY TreeAssumption DEF IsForest, TreeKeys
<1>2. ASSUME NEW y \in DOMAIN h, Kids(h, y) \subseteq T PROVE y \in T
  <2>1. y \in Nat /\ y # k /\ y \in Under(h, y)
    BY <1>1, SidesUnder, UnderNodes
  <2>2. \A z \in Under(h, y) : z \in Under(h, h[y].l) => Under(h, z) \subseteq Under(h, h[y].l)
    BY <1>1, UnderTransitive, UnderOf, KidsAreNodes DEF Pointers
  <2>3. \A z \in Under(h, y) : z \in Under(h, h[y].r) => Under(h, z) \subseteq Under(h, h[y].r)
    BY <1>1, UnderTransitive, UnderOf, KidsAreNodes DEF Pointers
  <2>4. \A z \in Under(h, y) :
            z \in DOMAIN h /\ Under(h, h[z].l) \cup Under(h, h[z].r) \subseteq Under(h, z)
    BY <1>1, UnderNodes, SidesUnder
  <2>5. Under(h, h[y].l) \cap Under(h, h[y].r) = {}
    BY <2>1, SidesUnder
  <2>6. Under(h, y) = Under(h, h[y].l) \cup Under(h, h[y].r) \cup {y}
    BY <1>1, UnderOf
  <2>7. y \notin Under(h, h[y].l) \cup Under(h, h[y].r)
    BY <2>1, SidesUnder
  <2>8. CASE k < y
    <3>1. CASE h[y].l = Nil
      <4>1. Attached(h, y, k, InsertNode(h, y, k))
        BY <1>1, <2>1, <2>8, <3>1, InsertOf DEF Attached
      <4>2. Between(h, y, y, k)
        BY <2>2, <2>3, <2>4, <2>6, <2>7 DEF Between
      <4> QED  BY <2>1, <4>1, <4>2
    <3>2. CASE h[y].l # Nil
      <4>1. PICK m \in Under(h, h[y].l) : Spot(h[y].l, m)
        BY <1>2, <3>2 DEF Kids
      <4>2. InsertNode(h, y, k) = InsertNode(h, h[y].l, k)
        BY <1>1, <2>1, <2>8, <3>2, InsertOf
      <4>3. Between(h, y, m, k)
        BY <2>2, <2>3, <2>4, <2>5, <2>6, <2>8, <4>1 DEF Between
      <4> QED  BY <2>6, <4>1, <4>2, <4>3
    <3> QED  BY <3>1, <3>2
  <2>9. CASE k > y
    <3>1. CASE h[y].r = Nil
      <4>1. Attached(h, y, k, InsertNode(h, y, k))
        BY <1>1, <2>1, <2>9, <3>1, InsertOf DEF Attached
      <4>2. Between(h, y, y, k)
        BY <2>2, <2>3, <2>4, <2>6, <2>7 DEF Between
      <4> QED  BY <2>1, <4>1, <4>2
    <3>2. CASE h[y].r # Nil
      <4>1. PICK m \in Under(h, h[y].r) : Spot(h[y].r, m)
        BY <1>2, <3>2 DEF Kids
      <4>2. InsertNode(h, y, k) = InsertNode(h, h[y].r, k)
        BY <1>1, <2>1, <2>9, <3>2, InsertOf
      <4>3. Between(h, y, m, k)
        BY <2>2, <2>3, <2>4, <2>5, <2>6, <2>9, <4>1 DEF Between
      <4> QED  BY <2>6, <4>1, <4>2, <4>3
    <3> QED  BY <3>1, <3>2
  <2> QED  BY <1>1, <2>1, <2>8, <2>9
<1>3. DOMAIN h \subseteq T
  <2> HIDE DEF T
  <2> QED  BY <1>1, <1>2, NodeInduction
<1> QED  BY <1>3

\* insert_node changes nothing when the key is there.
LEMMA InsertAgain ==
    ASSUME NEW h, IsForest(h), NEW x \in DOMAIN h, NEW k \in Under(h, x)
    PROVE  InsertNode(h, x, k) = h
<1> DEFINE T == {y \in DOMAIN h : k \in Under(h, y) => InsertNode(h, y, k) = h}
<1>1. Founded(h)
  BY DEF IsForest
<1>2. ASSUME NEW y \in DOMAIN h, Kids(h, y) \subseteq T PROVE y \in T
  <2> SUFFICES ASSUME k \in Under(h, y) PROVE InsertNode(h, y, k) = h
    OBVIOUS
  <2>1. y \in Nat /\ k \in Nat
    BY SidesUnder
  <2>2. CASE k = y
    BY <1>1, <2>2, InsertOf
  <2>3. CASE k < y
    <3>1. k \in Under(h, h[y].l)
      BY <2>3, SidesUnder
    <3>2. h[y].l # Nil /\ h[y].l \in T
      BY <1>1, <1>2, <3>1, UnderOf DEF Kids
    <3> QED  BY <1>1, <2>1, <2>3, <3>1, <3>2, InsertOf
  <2>4. CASE k > y
    <3>1. k \in Under(h, h[y].r)
      BY <2>4, SidesUnder
    <3>2. h[y].r # Nil /\ h[y].r \in T
      BY <1>1, <1>2, <3>1, UnderOf DEF Kids
    <3> QED  BY <1>1, <2>1, <2>4, <3>1, <3>2, InsertOf
  <2> QED  BY <2>1, <2>2, <2>3, <2>4
<1>3. DOMAIN h \subseteq T
  <2> HIDE DEF T
  <2> QED  BY <1>1, <1>2, NodeInduction
<1> QED  BY <1>3

\* The heap with the new node, field by field.
AttachedBelow(h, m, k, new) ==
    /\ IsHeap(new) /\ DOMAIN new = DOMAIN h \cup {k}
    /\ k # Nil /\ new[k].l = Nil /\ new[k].r = Nil /\ new[k].p = m
    /\ \A x \in DOMAIN h : x # m => new[x] = h[x]
    /\ new[m].p = h[m].p
    /\ \/ k < m /\ h[m].l = Nil /\ new[m].l = k /\ new[m].r = h[m].r
       \/ k > m /\ h[m].r = Nil /\ new[m].r = k /\ new[m].l = h[m].l

\* The fields of the heap after an insertion.
LEMMA AttachedFields ==
    ASSUME NEW h, IsForest(h), NEW m \in DOMAIN h, NEW k \in TreeKeys \ DOMAIN h, NEW new,
           Attached(h, m, k, new)
    PROVE  AttachedBelow(h, m, k, new)
<1>1. k # Nil /\ m # k
  BY TreeAssumption DEF TreeKeys, Nil
<1>2. DOMAIN h \subseteq TreeKeys
      /\ h \in [DOMAIN h -> [p : TreeKeys \cup {Nil}, l : Pointers(h), r : Pointers(h)]]
  BY DEF IsForest, IsHeap
<1> DEFINE Rec == [p : TreeKeys \cup {Nil}, l : Pointers(h) \cup {k}, r : Pointers(h) \cup {k}]
<1>3. Node(m) \in Rec /\ Node(m).l = Nil /\ Node(m).r = Nil /\ Node(m).p = m
  BY <1>2 DEF Node, Pointers
<1>4. \A x \in DOMAIN h : h[x] \in Rec
  BY <1>2
<1>5. New(h, k, m) \in [DOMAIN h \cup {k} -> Rec]
  <2> HIDE DEF Rec
  <2> QED  BY <1>3, <1>4 DEF New
<1>6. New(h, k, m)[k] = Node(m) /\ \A x \in DOMAIN h : New(h, k, m)[x] = h[x]
  BY DEF New
<1>7. new \in [DOMAIN h \cup {k} -> Rec] /\ \A x \in DOMAIN h \cup {k} : x # m => new[x] = New(h, k, m)[x]
  BY <1>5 DEF Attached
<1>8. new[m].p = h[m].p /\
        \/ k < m /\ h[m].l = Nil /\ new[m].l = k /\ new[m].r = h[m].r
        \/ k > m /\ h[m].r = Nil /\ new[m].r = k /\ new[m].l = h[m].l
  BY <1>5, <1>6 DEF Attached
<1>9. DOMAIN new = DOMAIN h \cup {k} /\ Pointers(new) = Pointers(h) \cup {k}
  BY <1>7 DEF Pointers
<1>10. IsHeap(new)
  BY <1>2, <1>7, <1>9 DEF IsHeap
<1>11. \A x \in DOMAIN h : x # m => new[x] = h[x]
  BY <1>6, <1>7
<1>12. new[k] = Node(m)
  BY <1>1, <1>6, <1>7
<1> QED  BY <1>1, <1>3, <1>8, <1>9, <1>10, <1>11, <1>12 DEF AttachedBelow

\* What is below each node after an insertion.
LEMMA AttachedUnder ==
    ASSUME NEW h, IsForest(h), NEW m \in DOMAIN h, NEW k \in TreeKeys \ DOMAIN h, NEW new,
           Attached(h, m, k, new)
    PROVE  /\ Founded(new) /\ Under(new, k) = {k}
           /\ \A x \in DOMAIN h : Under(new, x) = Under(h, x) \cup (IF m \in Under(h, x) THEN {k} ELSE {})
<1>0. /\ IsHeap(new) /\ DOMAIN new = DOMAIN h \cup {k}
      /\ k # Nil /\ new[k].l = Nil /\ new[k].r = Nil
      /\ \A x \in DOMAIN h : x # m => new[x] = h[x]
      /\ \/ k < m /\ h[m].l = Nil /\ new[m].l = k /\ new[m].r = h[m].r
         \/ k > m /\ h[m].r = Nil /\ new[m].r = k /\ new[m].l = h[m].l
  BY AttachedFields DEF AttachedBelow
<1>1. PICK rank, max : Ranks(h, rank, max)
  BY DEF IsForest, Founded
<1>2. PICK above : above = [x \in DOMAIN h \cup {k} |-> IF x = k THEN 0 ELSE rank[x] + 1]
  OBVIOUS
<1>3. Founded(new)
  <2>1. max + 1 \in Nat /\ above \in [DOMAIN new -> 0 .. max + 1]
    BY <1>0, <1>1, <1>2 DEF Ranks
  <2>2. ASSUME NEW x \in DOMAIN new
        PROVE  /\ x # Nil /\ new[x].l \in Pointers(new) /\ new[x].r \in Pointers(new)
               /\ \A c \in Kids(new, x) : above[c] < above[x]
    <3>1. CASE x = k
      BY <1>0, <3>1 DEF Pointers, Kids
    <3>2. CASE x # k
      <4>1. x \in DOMAIN h /\ rank[x] \in Nat /\ above[x] = rank[x] + 1 /\ x # Nil
        BY <1>0, <1>1, <1>2, <3>2 DEF Ranks
      <4>2. Kids(new, x) \subseteq Kids(h, x) \cup {k}
        BY <1>0, <4>1 DEF Kids
      <4>3. \A c \in Kids(h, x) : c \in DOMAIN h /\ rank[c] < rank[x] /\ rank[c] \in Nat
        BY <1>1, <4>1 DEF Ranks, Kids, Pointers
      <4>4. \A c \in Kids(h, x) : above[c] = rank[c] + 1
        BY <1>2, <4>3
      <4>5. above[k] = 0
        BY <1>2
      <4>6. \A c \in Kids(new, x) : above[c] < above[x]
        BY <4>1, <4>2, <4>3, <4>4, <4>5
      <4>7. new[x].l \in Pointers(new) /\ new[x].r \in Pointers(new)
        BY <1>0 DEF IsHeap
      <4> QED  BY <4>1, <4>6, <4>7
    <3> QED  BY <3>1, <3>2
  <2> QED  BY <2>1, <2>2 DEF Founded, Ranks
<1>4. Founded(h) /\ k \in Nat /\ k # Nil
  BY TreeAssumption DEF IsForest, TreeKeys, Nil
<1>5. Under(new, k) = {k} /\ Under(new, Nil) = {} /\ Under(h, Nil) = {}
  BY <1>0, <1>3, <1>4, UnderOf
<1> DEFINE More(x) == IF m \in Under(h, x) THEN {k} ELSE {}
           T == {x \in DOMAIN h : Under(new, x) = Under(h, x) \cup More(x)}
<1>6. ASSUME NEW x \in DOMAIN h, Kids(h, x) \subseteq T PROVE x \in T
  <2>1. \A c \in {h[x].l, h[x].r} : Under(new, c) = Under(h, c) \cup More(c)
    BY <1>5, <1>6 DEF Kids
  <2>2. Under(h, x) = Under(h, h[x].l) \cup Under(h, h[x].r) \cup {x}
    BY <1>4, UnderOf
  <2>3. Under(new, x) = Under(new, new[x].l) \cup Under(new, new[x].r) \cup {x}
    BY <1>0, <1>3, UnderOf
  <2>4. CASE x # m
    <3>1. new[x] = h[x]
      BY <1>0, <2>4
    <3> QED  BY <2>1, <2>2, <2>3, <2>4, <3>1
  <2>5. CASE x = m
    <3>1. m \notin Under(h, h[m].l) /\ m \notin Under(h, h[m].r)
      BY SidesUnder
    <3> QED  BY <1>0, <1>5, <2>1, <2>2, <2>3, <2>5, <3>1
  <2> QED  BY <2>4, <2>5
<1>7. DOMAIN h \subseteq T
  <2> HIDE DEF T
  <2> QED  BY <1>4, <1>6, NodeInduction
<1> QED  BY <1>3, <1>5, <1>7

OneParent(h) == \A x, y \in DOMAIN h : x # y => Kids(h, x) \cap Kids(h, y) = {}

\* The nodes are search trees.
TreeShape == IsForest(heap) /\ OneParent(heap)

TopIsRoot == top \in Pointers(heap) /\ \A x \in DOMAIN heap : top \notin Kids(heap, x)

ParentsKnown == ~deleted => \A x \in DOMAIN heap : \A c \in Kids(heap, x) : heap[c].p = x

StInv == TreeShape /\ TopIsRoot /\ contents = Under(heap, top) /\ ParentsKnown

\* What is in the tree are nodes; what is below them is in the tree; nothing of it is
\* below a node that was lost.
LEMMA TreeIsClosed ==
    ASSUME StInv
    PROVE  /\ contents \subseteq DOMAIN heap /\ (top = Nil <=> contents = {})
           /\ \A x \in contents : Under(heap, x) \subseteq contents
           /\ \A x \in DOMAIN heap \ contents : Under(heap, x) \cap contents = {}
<1>1. Founded(heap) /\ contents = Under(heap, top) /\ (top = Nil \/ top \in DOMAIN heap)
      /\ OneParent(heap) /\ TopIsRoot
  BY DEF StInv, TreeShape, TopIsRoot, IsForest, Pointers
<1>2. contents \subseteq DOMAIN heap /\ (top = Nil <=> contents = {})
  BY <1>1, UnderOf, UnderNodes
<1>3. \A x \in contents : Under(heap, x) \subseteq contents
  BY <1>1, <1>2, UnderTransitive
<1> DEFINE T == {x \in DOMAIN heap : x \notin contents => Under(heap, x) \cap contents = {}}
<1>4. ASSUME NEW x \in DOMAIN heap, Kids(heap, x) \subseteq T PROVE x \in T
  <2> SUFFICES ASSUME x \notin contents PROVE Under(heap, x) \cap contents = {}
    OBVIOUS
  <2>1. ASSUME NEW c \in Kids(heap, x), c \in contents PROVE FALSE
    <3>1. c # top /\ top \in DOMAIN heap
      BY <1>1, <1>2, <2>1 DEF TopIsRoot
    <3>2. PICK y \in contents : c \in Kids(heap, y)
      BY <1>1, <2>1, <3>1, ParentBelow
    <3> QED  BY <1>1, <1>2, <2>1, <3>2 DEF OneParent
  <2>2. \A c \in {heap[x].l, heap[x].r} : Under(heap, c) \cap contents = {}
    BY <1>1, <1>4, <2>1, UnderOf DEF Kids
  <2> QED  BY <1>1, <2>2, UnderOf
<1>5. DOMAIN heap \subseteq T
  <2> HIDE DEF T
  <2> QED  BY <1>1, <1>4, NodeInduction
<1> QED  BY <1>2, <1>3, <1>5

\* At the beginning there is no node.
LEMMA StInvInit ==
    ASSUME StInit PROVE StInv
<1>1. heap = <<>> /\ DOMAIN heap = {} /\ top = Nil /\ contents = {} /\ deleted = FALSE
  BY DEF StInit
<1>2. heap = [x \in {} |-> x]
  BY <1>1
<1>3. Founded(heap)
  <2>1. Ranks(heap, heap, 0)
    BY <1>1, <1>2 DEF Ranks
  <2> QED  BY <2>1 DEF Founded
<1>4. IsHeap(heap)
  BY <1>1, <1>2 DEF IsHeap
<1> QED  BY <1>1, <1>3, <1>4, UnderOf
         DEF StInv, TreeShape, IsForest, OrderedHeap, OneParent, TopIsRoot, ParentsKnown, Pointers

\* The first node of a tree.
LEMMA FirstNode ==
    ASSUME NEW h, IsForest(h), NEW k \in TreeKeys \ DOMAIN h
    PROVE  LET new == New(h, k, Nil) IN
           /\ IsForest(new) /\ DOMAIN new = DOMAIN h \cup {k} /\ Under(new, k) = {k}
           /\ Kids(new, k) = {}
           /\ \A x \in DOMAIN h : /\ new[x] = h[x] /\ Kids(new, x) = Kids(h, x)
                                  /\ Kids(h, x) \subseteq DOMAIN h
<1> DEFINE new == New(h, k, Nil)
<1>1. DOMAIN new = DOMAIN h \cup {k} /\ new[k] = Node(Nil) /\ \A x \in DOMAIN h : new[x] = h[x]
  BY DEF New
<1>2. Node(Nil).l = Nil /\ Node(Nil).r = Nil /\ Node(Nil).p = Nil
      /\ Node(Nil) \in [p : TreeKeys \cup {Nil}, l : Pointers(new), r : Pointers(new)]
  BY DEF Node, Pointers
<1>3. Founded(h) /\ k # Nil /\ IsHeap(h) /\ OrderedHeap(h)
  BY TreeAssumption DEF IsForest, TreeKeys, Nil
<1>4. PICK rank, max : Ranks(h, rank, max)
  BY <1>3 DEF Founded
<1>5. \A x \in DOMAIN h : Kids(new, x) = Kids(h, x) /\ Kids(h, x) \subseteq DOMAIN h
  BY <1>1, <1>4 DEF Kids, Ranks, Pointers
<1>6. Kids(new, k) = {}
  BY <1>1, <1>2 DEF Kids
<1>7. IsHeap(new)
  <2>1. \A x \in DOMAIN h : h[x] \in [p : TreeKeys \cup {Nil}, l : Pointers(new), r : Pointers(new)]
    BY <1>1, <1>3 DEF IsHeap, Pointers
  <2>2. DOMAIN new \subseteq TreeKeys
    BY <1>1, <1>3 DEF IsHeap
  <2>3. new \in [DOMAIN h \cup {k} -> [p : TreeKeys \cup {Nil}, l : Pointers(new), r : Pointers(new)]]
    BY <1>1, <1>2, <2>1 DEF New
  <2> QED  BY <1>1, <2>2, <2>3 DEF IsHeap
<1>8. Founded(new)
  <2>1. PICK above : above = [x \in DOMAIN h \cup {k} |-> IF x = k THEN 0 ELSE rank[x]]
    OBVIOUS
  <2>2. above \in [DOMAIN new -> 0 .. max] /\ max \in Nat
    BY <1>1, <1>4, <2>1 DEF Ranks
  <2>3. \A x \in DOMAIN h : above[x] = rank[x]
    BY <2>1
  <2>4. \A x \in DOMAIN new : x # Nil /\ new[x].l \in Pointers(new) /\ new[x].r \in Pointers(new)
    BY <1>1, <1>2, <1>3, <1>4 DEF Pointers, Ranks
  <2>5. \A x \in DOMAIN new : \A c \in Kids(new, x) : above[c] < above[x]
    BY <1>1, <1>4, <1>5, <1>6, <2>3 DEF Ranks
  <2> QED  BY <2>2, <2>4, <2>5 DEF Founded, Ranks
<1> HIDE DEF new
<1>9. Under(new, k) = {k} /\ Under(new, Nil) = {} /\ Under(h, Nil) = {}
  BY <1>1, <1>2, <1>3, <1>8, UnderOf
<1> DEFINE T == {x \in DOMAIN h : Under(new, x) = Under(h, x)}
<1>10. ASSUME NEW x \in DOMAIN h, Kids(h, x) \subseteq T PROVE x \in T
  <2>1. Under(new, h[x].l) = Under(h, h[x].l) /\ Under(new, h[x].r) = Under(h, h[x].r)
    BY <1>9, <1>10 DEF Kids
  <2>2. Under(new, x) = Under(new, new[x].l) \cup Under(new, new[x].r) \cup {x}
    BY <1>1, <1>8, UnderOf
  <2>3. Under(h, x) = Under(h, h[x].l) \cup Under(h, h[x].r) \cup {x} /\ new[x] = h[x]
    BY <1>1, <1>3, UnderOf
  <2> QED  BY <2>1, <2>2, <2>3
<1>11. DOMAIN h \subseteq T
  <2> HIDE DEF T
  <2> QED  BY <1>3, <1>10, NodeInduction
<1>12. OrderedHeap(new)
  <2>1. \A x \in DOMAIN h : Under(new, h[x].l) = Under(h, h[x].l) /\ Under(new, h[x].r) = Under(h, h[x].r)
    BY <1>5, <1>9, <1>11 DEF Kids
  <2> QED  BY <1>1, <1>2, <1>3, <1>9, <2>1 DEF OrderedHeap
<1>13. IsForest(new)
  BY <1>7, <1>8, <1>12 DEF IsForest
<1> QED  BY <1>1, <1>5, <1>6, <1>9, <1>13 DEF new

\* bst_tree_insert
LEMMA BstInsertKeeps ==
    ASSUME StInv, NEW k \in TreeKeys, BstInsert(k)
    PROVE  StInv'
<1>1. /\ TreeShape /\ TopIsRoot /\ contents = Under(heap, top) /\ ParentsKnown
      /\ IsForest(heap) /\ OneParent(heap) /\ Founded(heap)
  BY DEF StInv, TreeShape, IsForest
<1>2. /\ contents \subseteq DOMAIN heap /\ (top = Nil <=> contents = {})
      /\ \A x \in DOMAIN heap \ contents : Under(heap, x) \cap contents = {}
  BY TreeIsClosed
<1>3. CASE top = Nil
  <2>1. k \in TreeKeys \ DOMAIN heap /\ heap' = New(heap, k, Nil) /\ top' = k /\ contents' = {k}
        /\ deleted' = deleted
    BY <1>2, <1>3 DEF BstInsert
  <2>2. /\ IsForest(heap') /\ DOMAIN heap' = DOMAIN heap \cup {k} /\ Under(heap', k) = {k}
        /\ Kids(heap', k) = {}
        /\ \A x \in DOMAIN heap : /\ heap'[x] = heap[x] /\ Kids(heap', x) = Kids(heap, x)
                                  /\ Kids(heap, x) \subseteq DOMAIN heap
    <3>1. LET new == New(heap, k, Nil) IN
          /\ IsForest(new) /\ DOMAIN new = DOMAIN heap \cup {k} /\ Under(new, k) = {k}
          /\ Kids(new, k) = {}
          /\ \A x \in DOMAIN heap : /\ new[x] = heap[x] /\ Kids(new, x) = Kids(heap, x)
                                    /\ Kids(heap, x) \subseteq DOMAIN heap
      BY <1>1, <2>1, FirstNode
    <3> QED  BY <2>1, <3>1
  <2>3. OneParent(heap')
    BY <1>1, <2>2 DEF OneParent
  <2>4. TopIsRoot'
    BY <2>1, <2>2 DEF TopIsRoot, Pointers
  <2>5. ParentsKnown'
    BY <1>1, <2>1, <2>2 DEF ParentsKnown
  <2> QED  BY <2>1, <2>2, <2>3, <2>4, <2>5 DEF StInv, TreeShape
<1>4. CASE top # Nil /\ k \in contents
  <2>1. heap' = heap /\ top' = top /\ contents' = contents /\ deleted' = deleted
    BY <1>1, <1>4, InsertAgain DEF BstInsert, TopIsRoot, Pointers
  <2> QED  BY <2>1 DEF StInv, TreeShape, TopIsRoot, ParentsKnown
<1>5. CASE top # Nil /\ k \notin contents
  <2>1. k \in TreeKeys \ DOMAIN heap /\ top' = top /\ contents' = contents \cup {k} /\ deleted' = deleted
        /\ heap' = InsertNode(heap, top, k) /\ top \in DOMAIN heap /\ k # top
    BY <1>1, <1>5 DEF BstInsert, TopIsRoot, Pointers
  <2>2. PICK m \in contents : Attached(heap, m, k, heap') /\ Between(heap, top, m, k)
    BY <1>1, <2>1, InsertFinds
  <2>3. /\ IsHeap(heap') /\ DOMAIN heap' = DOMAIN heap \cup {k}
        /\ k # Nil /\ heap'[k].l = Nil /\ heap'[k].r = Nil /\ heap'[k].p = m
        /\ \A x \in DOMAIN heap : x # m => heap'[x] = heap[x]
        /\ heap'[m].p = heap[m].p
        /\ \/ k < m /\ heap[m].l = Nil /\ heap'[m].l = k /\ heap'[m].r = heap[m].r
           \/ k > m /\ heap[m].r = Nil /\ heap'[m].r = k /\ heap'[m].l = heap[m].l
    <3>1. m \in DOMAIN heap
      BY <1>2, <2>2
    <3>2. IsForest(heap) /\ k \in TreeKeys \ DOMAIN heap /\ Attached(heap, m, k, heap')
      BY <1>1, <2>1, <2>2
    <3>3. AttachedBelow(heap, m, k, heap')
      BY <3>1, <3>2, AttachedFields
    <3> QED  BY <3>3 DEF AttachedBelow
  <2>4. /\ Founded(heap') /\ Under(heap', k) = {k}
        /\ \A x \in DOMAIN heap :
              Under(heap', x) = Under(heap, x) \cup (IF m \in Under(heap, x) THEN {k} ELSE {})
    BY <1>1, <1>2, <2>1, <2>2, AttachedUnder
  <2>5. Kids(heap', k) = {} /\ Kids(heap', m) = Kids(heap, m) \cup {k}
        /\ \A x \in DOMAIN heap : /\ x # m => Kids(heap', x) = Kids(heap, x)
                                  /\ Kids(heap, x) \subseteq DOMAIN heap
    BY <1>1, <2>3, KidsAreNodes DEF Kids, Pointers
  <2>6. Under(heap', Nil) = {} /\ Under(heap, Nil) = {}
    BY <1>1, <2>4, UnderOf
  <2>7. ASSUME NEW x \in DOMAIN heap, NEW c \in {heap[x].l, heap[x].r}
        PROVE  Under(heap', c) = Under(heap, c) \cup (IF m \in Under(heap, c) THEN {k} ELSE {})
    BY <2>4, <2>5, <2>6 DEF Kids
  <2>8. OrderedHeap(heap')
    <3>1. ASSUME NEW x \in DOMAIN heap'
          PROVE  /\ \A y \in Under(heap', heap'[x].l) : y < x
                 /\ \A y \in Under(heap', heap'[x].r) : y > x
      <4>1. CASE x = k
        BY <2>3, <2>6, <4>1
      <4>2. CASE x \in DOMAIN heap /\ x # m
        <5>1. heap'[x] = heap[x]
          BY <2>3, <4>2
        <5>2. /\ \A y \in Under(heap, heap[x].l) : y < x
              /\ \A y \in Under(heap, heap[x].r) : y > x
          BY <1>1, <4>2 DEF IsForest, OrderedHeap
        <5>3. x \in contents => /\ m \in Under(heap, heap[x].l) => k < x
                                /\ m \in Under(heap, heap[x].r) => k > x
          BY <1>1, <2>2 DEF Between
        <5>4. x \notin contents => m \notin Under(heap, heap[x].l) /\ m \notin Under(heap, heap[x].r)
          BY <1>1, <1>2, <4>2, UnderOf
        <5> QED  BY <2>7, <4>2, <5>1, <5>2, <5>3, <5>4
      <4>3. CASE x = m
        <5>1. /\ \A y \in Under(heap, heap[m].l) : y < m
              /\ \A y \in Under(heap, heap[m].r) : y > m
              /\ m \in Nat /\ m \in DOMAIN heap
          BY <1>1, <1>2, SidesUnder DEF IsForest, OrderedHeap
        <5>2. m \notin Under(heap, heap[m].l) /\ m \notin Under(heap, heap[m].r)
          BY <5>1
        <5>3. /\ Under(heap', heap[m].l) = Under(heap, heap[m].l)
              /\ Under(heap', heap[m].r) = Under(heap, heap[m].r)
          BY <2>7, <5>1, <5>2
        <5> QED  BY <2>3, <2>4, <4>3, <5>1, <5>3
      <4> QED  BY <2>3, <4>1, <4>2, <4>3
    <3> QED  BY <3>1 DEF OrderedHeap
  <2>9. IsForest(heap')
    BY <2>3, <2>4, <2>8 DEF IsForest
  <2>10. OneParent(heap')
    <3>1. \A x \in DOMAIN heap : k \notin Kids(heap, x)
      BY <2>1, <2>5
    <3> QED  BY <1>1, <2>3, <2>5, <3>1 DEF OneParent
  <2>11. TopIsRoot'
    BY <1>1, <2>1, <2>3, <2>5 DEF TopIsRoot, Pointers
  <2>12. contents' = Under(heap', top')
    BY <1>1, <2>1, <2>2, <2>4
  <2>13. ParentsKnown'
    <3>1. \A x \in DOMAIN heap : heap'[x].p = heap[x].p
      BY <2>3
    <3> QED  BY <1>1, <2>1, <2>3, <2>5, <3>1 DEF ParentsKnown
  <2> QED  BY <2>9, <2>10, <2>11, <2>12, <2>13 DEF StInv, TreeShape
<1> QED  BY <1>3, <1>4, <1>5

\* A node whose links to k lead to c instead.
Redirect(node, k, c) == [p |-> node.p, l |-> IF node.l = k THEN c ELSE node.l,
                                       r |-> IF node.r = k THEN c ELSE node.r]

\* The nodes of F can go: nothing that stays leads to them but by way of k, which c replaces.
Prunable(h, F, k, c) ==
    /\ F \subseteq DOMAIN h /\ c \in Pointers(h) \ F /\ Under(h, c) \cap F = {}
    /\ \A x \in DOMAIN h \ F : Kids(h, x) \cap F \subseteq {k}
    /\ \/ k = Nil /\ c = Nil
       \/ k \in F /\ (c = Nil \/ c \in Under(h, k))

\* What is below the nodes that stay.
LEMMA PrunedUnder ==
    ASSUME NEW h, IsForest(h), NEW F, NEW k, NEW c, Prunable(h, F, k, c),
           NEW new, new = [x \in DOMAIN h \ F |-> Redirect(h[x], k, c)]
    PROVE  /\ IsForest(new) /\ DOMAIN new = DOMAIN h \ F
           /\ Under(new, c) = Under(h, c)
           /\ \A x \in DOMAIN h \ F :
                 /\ k \notin Under(h, x) => Under(new, x) = Under(h, x)
                 /\ k \in Under(h, x) => Under(new, x) = (Under(h, x) \ Under(h, k)) \cup Under(h, c)
<1> DEFINE To(y) == IF y = k THEN c ELSE y
<1>1. /\ IsHeap(h) /\ Founded(h) /\ OrderedHeap(h)
      /\ F \subseteq DOMAIN h /\ c \in Pointers(h) \ F /\ Under(h, c) \cap F = {}
      /\ (k = Nil /\ c = Nil) \/ (k \in F /\ (c = Nil \/ c \in Under(h, k)))
  BY DEF IsForest, Prunable
<1>2. PICK rank, max : Ranks(h, rank, max)
  BY <1>1 DEF Founded
<1>3. DOMAIN new = DOMAIN h \ F
      /\ \A x \in DOMAIN h \ F : new[x].p = h[x].p /\ new[x].l = To(h[x].l) /\ new[x].r = To(h[x].r)
  BY DEF Redirect
<1>4. \A x \in DOMAIN h \ F : To(h[x].l) \in Pointers(new) /\ To(h[x].r) \in Pointers(new)
  BY <1>1, <1>3, KidsAreNodes DEF Prunable, Pointers, Kids
<1>5. IsHeap(new)
  <2>1. DOMAIN new \subseteq TreeKeys
    BY <1>1, <1>3 DEF IsHeap
  <2>2. ASSUME NEW x \in DOMAIN h \ F
        PROVE  Redirect(h[x], k, c) \in [p : TreeKeys \cup {Nil}, l : Pointers(new), r : Pointers(new)]
    <3>1. h[x].p \in TreeKeys \cup {Nil}
      BY <1>1 DEF IsHeap
    <3> QED  BY <1>4, <3>1 DEF Redirect
  <2> QED  BY <1>3, <2>1, <2>2 DEF IsHeap
<1>6. Founded(new)
  <2>1. PICK low : low = [x \in DOMAIN h \ F |-> rank[x]]
    OBVIOUS
  <2>2. low \in [DOMAIN new -> 0 .. max] /\ max \in Nat
    BY <1>2, <1>3, <2>1 DEF Ranks
  <2>3. ASSUME NEW x \in DOMAIN new, NEW y \in Kids(new, x) PROVE low[y] < low[x]
    <3>1. PICK z \in Kids(h, x) : y = To(z) /\ y # Nil
      <4>1. y # Nil /\ (y = To(h[x].l) \/ y = To(h[x].r)) /\ To(Nil) = Nil
        BY <1>1, <1>3, <2>3, KidsAreNodes DEF Kids
      <4>2. h[x].l # Nil => h[x].l \in Kids(h, x)
        BY DEF Kids
      <4>3. h[x].r # Nil => h[x].r \in Kids(h, x)
        BY DEF Kids
      <4> HIDE DEF To
      <4> QED  BY <4>1, <4>2, <4>3
    <3>2. z \in DOMAIN h /\ x \in DOMAIN h /\ rank[z] < rank[x] /\ y \in DOMAIN new
      BY <1>2, <1>3, <1>4, <2>3, <3>1 DEF Ranks, Kids, Pointers
    <3>3. rank[y] <= rank[z]
      <4>1. CASE z = k
        <5>1. y = c /\ c \in Under(h, z)
          BY <1>1, <3>1, <4>1
        <5> QED  BY <1>2, <3>2, <5>1, UnderRank
      <4>2. CASE z # k
        BY <1>2, <3>1, <3>2, <4>2 DEF Ranks
      <4> QED  BY <4>1, <4>2
    <3>4. rank[x] \in Int /\ rank[y] \in Int /\ rank[z] \in Int
      BY <1>2, <1>3, <3>2 DEF Ranks
    <3>5. low[x] = rank[x] /\ low[y] = rank[y]
      BY <1>3, <2>1, <3>2
    <3> QED  BY <3>2, <3>3, <3>4, <3>5
  <2>4. \A x \in DOMAIN new : x # Nil /\ new[x].l \in Pointers(new) /\ new[x].r \in Pointers(new)
    BY <1>1, <1>3, <1>4, KidsAreNodes
  <2> QED  BY <2>2, <2>3, <2>4 DEF Founded, Ranks
<1>7. Under(h, Nil) = {} /\ Under(new, Nil) = {}
  BY <1>1, <1>6, UnderOf
<1>8. \A x \in DOMAIN h : Under(h, x) = Under(h, h[x].l) \cup Under(h, h[x].r) \cup {x}
  BY <1>1, UnderOf
<1>9. \A x \in DOMAIN h \ F : Under(new, x) = Under(new, To(h[x].l)) \cup Under(new, To(h[x].r)) \cup {x}
  BY <1>3, <1>6, UnderOf
<1>10. \A x \in DOMAIN h \ F : \A y \in Kids(h, x) : y \in DOMAIN h /\ (y = k \/ y \notin F)
  BY <1>1, KidsAreNodes DEF Prunable, Kids, Pointers
<1>11. \A x \in DOMAIN h \ F : k \notin Under(h, x) => Under(new, x) = Under(h, x)
  <2> DEFINE T == {x \in DOMAIN h : x \notin F /\ k \notin Under(h, x) => Under(new, x) = Under(h, x)}
  <2>1. ASSUME NEW x \in DOMAIN h, Kids(h, x) \subseteq T PROVE x \in T
    <3> SUFFICES ASSUME x \notin F, k \notin Under(h, x) PROVE Under(new, x) = Under(h, x)
      OBVIOUS
    <3>1. ASSUME NEW y \in {h[x].l, h[x].r} PROVE To(y) = y /\ Under(new, y) = Under(h, y)
      <4>1. CASE y = Nil
        BY <1>1, <1>7, <4>1
      <4>2. CASE y # Nil
        <5>1. y \in T /\ y \in DOMAIN h /\ (y = k \/ y \notin F)
          BY <1>10, <2>1, <4>2 DEF Kids
        <5>2. y \in Under(h, y) /\ k \notin Under(h, y)
          BY <1>1, <1>8, <5>1, UnderNodes
        <5> QED  BY <5>1, <5>2
      <4> QED  BY <4>1, <4>2
    <3> QED  BY <1>8, <1>9, <3>1
  <2>2. DOMAIN h \subseteq T
    <3> HIDE DEF T
    <3> QED  BY <1>1, <2>1, NodeInduction
  <2> QED  BY <2>2
<1>12. /\ Under(new, c) = Under(h, c)
       /\ k # Nil => k \notin Under(h, c) /\ Under(h, c) \subseteq Under(h, k)
  <2>1. CASE c = Nil
    BY <1>7, <2>1
  <2>2. CASE c # Nil
    <3>1. c \in DOMAIN h \ F /\ k \in F /\ k \in DOMAIN h /\ c \in Under(h, k)
      BY <1>1, <2>2 DEF Pointers
    <3>2. k \notin Under(h, c) /\ Under(h, c) \subseteq Under(h, k)
      BY <1>1, <3>1, UnderTransitive
    <3> QED  BY <1>11, <3>1, <3>2
  <2> QED  BY <2>1, <2>2
<1>13. \A x \in DOMAIN h \ F :
          k \in Under(h, x) => Under(new, x) = (Under(h, x) \ Under(h, k)) \cup Under(h, c)
  <2>3. ASSUME NEW L, NEW R, NEW K, NEW C, NEW x, K \subseteq L, L \cap R = {}, x \notin K
        PROVE  /\ ((L \ K) \cup C) \cup R \cup {x} = ((L \cup R \cup {x}) \ K) \cup C
               /\ R \cup ((L \ K) \cup C) \cup {x} = ((R \cup L \cup {x}) \ K) \cup C
    BY <2>3
  <2> DEFINE Pruned(x) == (Under(h, x) \ Under(h, k)) \cup Under(h, c)
             T == {x \in DOMAIN h : x \notin F /\ k \in Under(h, x) => Under(new, x) = Pruned(x)}
  <2>1. ASSUME NEW x \in DOMAIN h, Kids(h, x) \subseteq T PROVE x \in T
    <3> SUFFICES ASSUME x \notin F, k \in Under(h, x) PROVE Under(new, x) = Pruned(x)
      OBVIOUS
    <3>1. k \in DOMAIN h /\ k # x /\ k \in F /\ x \notin Under(h, k) /\ k \in Under(h, k)
      <4>1. k \in DOMAIN h /\ k # Nil
        BY <1>1, UnderNodes, KidsAreNodes
      <4>2. k \in F /\ k # x
        BY <1>1, <4>1
      <4> QED  BY <1>1, <4>1, <4>2, NoCycle, UnderNodes
    <3>2. k \in Nat /\ x \in Nat /\ (k < x \/ k > x)
          /\ (k < x <=> k \in Under(h, h[x].l)) /\ (k > x <=> k \in Under(h, h[x].r))
      BY <1>1, <3>1, SidesUnder
    <3>3. \A y \in Under(h, h[x].l), z \in Under(h, h[x].r) : y < x /\ x < z /\ y \in Nat /\ z \in Nat
      BY SidesUnder
    <3>8. Under(h, h[x].l) \cap Under(h, h[x].r) = {} /\ x \notin Under(h, k)
      <4>1. ASSUME NEW y \in Under(h, h[x].l), y \in Under(h, h[x].r) PROVE FALSE
        BY <3>2, <3>3, <4>1
      <4> QED  BY <3>1, <4>1
    <3>4. ASSUME NEW y \in {h[x].l, h[x].r}, k \in Under(h, y)
          PROVE  Under(new, To(y)) = Pruned(y) /\ Under(h, k) \subseteq Under(h, y)
      <4>1. y \in Kids(h, x)
        BY <1>7, <3>4 DEF Kids
      <4>2. y \in DOMAIN h /\ (y = k \/ y \notin F) /\ y \in T
        BY <1>10, <2>1, <4>1
      <4>3. Under(h, k) \subseteq Under(h, y)
        BY <1>1, <3>4, <4>2, UnderTransitive
      <4>4. y = k => Under(new, To(y)) = Pruned(y)
        BY <1>12
      <4>5. y # k => Under(new, To(y)) = Pruned(y)
        BY <3>4, <4>2
      <4> QED  BY <4>3, <4>4, <4>5
    <3>5. ASSUME NEW y \in {h[x].l, h[x].r}, k \notin Under(h, y)
          PROVE  Under(new, To(y)) = Under(h, y)
      <4>1. CASE y = Nil
        BY <1>1, <1>7, <3>1, <4>1, KidsAreNodes
      <4>2. CASE y # Nil
        <5>1. y \in DOMAIN h /\ (y = k \/ y \notin F)
          BY <1>10, <4>2 DEF Kids
        <5>2. y \in Under(h, y)
          BY <1>1, <5>1, UnderNodes
        <5> QED  BY <1>11, <3>5, <5>1, <5>2
      <4> QED  BY <4>1, <4>2
    <3>6. CASE k < x
      <4>1. k \in Under(h, h[x].l) /\ k \notin Under(h, h[x].r)
        BY <3>2, <3>6
      <4>2. Under(new, To(h[x].l)) = Pruned(h[x].l) /\ Under(h, k) \subseteq Under(h, h[x].l)
        BY <3>4, <4>1
      <4>3. Under(new, To(h[x].r)) = Under(h, h[x].r)
        BY <3>5, <4>1
      <4>4. Under(new, x) = Pruned(h[x].l) \cup Under(h, h[x].r) \cup {x}
        BY <1>9, <4>2, <4>3
      <4>5. Under(h, x) = Under(h, h[x].l) \cup Under(h, h[x].r) \cup {x}
        BY <1>8
      <4> QED  BY <2>3, <3>8, <4>2, <4>4, <4>5
    <3>7. CASE k > x
      <4>1. k \in Under(h, h[x].r) /\ k \notin Under(h, h[x].l)
        BY <3>2, <3>7
      <4>2. Under(new, To(h[x].r)) = Pruned(h[x].r) /\ Under(h, k) \subseteq Under(h, h[x].r)
        BY <3>4, <4>1
      <4>3. Under(new, To(h[x].l)) = Under(h, h[x].l)
        BY <3>5, <4>1
      <4>4. Under(new, x) = Under(h, h[x].l) \cup Pruned(h[x].r) \cup {x}
        BY <1>9, <4>2, <4>3
      <4>5. Under(h, x) = Under(h, h[x].l) \cup Under(h, h[x].r) \cup {x}
        BY <1>8
      <4> QED  BY <2>3, <3>8, <4>2, <4>4, <4>5
    <3> QED  BY <3>2, <3>6, <3>7
  <2>2. DOMAIN h \subseteq T
    <3> HIDE DEF T
    <3> QED  BY <1>1, <2>1, NodeInduction
  <2> QED  BY <2>2
<1>14. OrderedHeap(new)
  <2>1. ASSUME NEW x \in DOMAIN h \ F, NEW y \in {h[x].l, h[x].r}
        PROVE  Under(new, To(y)) \subseteq Under(h, y)
    <3>1. CASE y = Nil
      BY <1>1, <1>7, <1>12, <3>1, KidsAreNodes
    <3>2. CASE y # Nil /\ y = k
      BY <1>12, <3>2
    <3>3. CASE y # Nil /\ y # k
      <4>1. y \in DOMAIN h \ F
        BY <1>10, <3>3 DEF Kids
      <4>2. k \in Under(h, y) => Under(h, k) \subseteq Under(h, y) /\ k # Nil
        BY <1>1, <4>1, UnderTransitive, KidsAreNodes
      <4> QED  BY <1>11, <1>12, <1>13, <3>3, <4>1, <4>2
    <3> QED  BY <3>1, <3>2, <3>3
  <2> QED  BY <1>1, <1>3, <2>1 DEF OrderedHeap
<1> QED  BY <1>3, <1>5, <1>6, <1>11, <1>12, <1>13, <1>14 DEF IsForest

\* F is what delete_node frees for k, the right spine from k on, and c what it puts in the
\* place of k, the left child of the last node of the spine.
Spine(h, k, F, c) ==
    /\ k \in F /\ F \subseteq Under(h, k) /\ Under(h, c) \cap F = {}
    /\ h[k].r = Nil => F = {k} /\ c = h[k].l
    /\ h[k].r # Nil => h[k].r \in F
    /\ \A y \in F \ {k} : \E x \in F : y \in Kids(h, x)
    /\ c # Nil => c \in Under(h, k) /\ \E x \in F : c \in Kids(h, x)

\* A key that is not there is not deleted.
LEMMA DeleteAbsent ==
    ASSUME NEW h, IsForest(h), NEW k \in TreeKeys, NEW x \in DOMAIN h, k \notin Under(h, x)
    PROVE  DeleteNode(h, x, k) = [heap |-> h, node |-> x]
<1> DEFINE T == {y \in DOMAIN h : k \notin Under(h, y) => DeleteNode(h, y, k) = [heap |-> h, node |-> y]}
<1>1. Founded(h) /\ IsHeap(h) /\ k \in Nat
  BY TreeAssumption DEF IsForest, TreeKeys
<1>2. DeleteNode(h, Nil, k) = [heap |-> h, node |-> Nil]
  BY <1>1, DeleteOf
<1>3. ASSUME NEW y \in DOMAIN h, Kids(h, y) \subseteq T PROVE y \in T
  <2> SUFFICES ASSUME k \notin Under(h, y) PROVE DeleteNode(h, y, k) = [heap |-> h, node |-> y]
    OBVIOUS
  <2>1. y \in Nat /\ y # k /\ k \notin Under(h, h[y].l) /\ k \notin Under(h, h[y].r)
    BY <1>1, SidesUnder, UnderOf
  <2>2. \A d \in {h[y].l, h[y].r} : DeleteNode(h, d, k) = [heap |-> h, node |-> d]
    BY <1>2, <1>3, <2>1 DEF Kids
  <2>3. [h EXCEPT ![y].l = h[y].l] = h /\ [h EXCEPT ![y].r = h[y].r] = h
    BY <1>1 DEF IsHeap
  <2>4. CASE y > k
    <3>1. LET d == DeleteNode(h, h[y].l, k)
          IN DeleteNode(h, y, k) = [heap |-> [d.heap EXCEPT ![y].l = d.node], node |-> y]
      BY <1>1, <2>4, DeleteOf
    <3> QED  BY <2>2, <2>3, <3>1
  <2>5. CASE y < k
    <3>1. LET d == DeleteNode(h, h[y].r, k)
          IN DeleteNode(h, y, k) = [heap |-> [d.heap EXCEPT ![y].r = d.node], node |-> y]
      BY <1>1, <2>1, <2>5, DeleteOf
    <3> QED  BY <2>2, <2>3, <3>1
  <2> QED  BY <1>1, <2>1, <2>4, <2>5
<1>4. DOMAIN h \subseteq T
  <2> HIDE DEF T
  <2> QED  BY <1>1, <1>3, NodeInduction
<1> QED  BY <1>4

\* delete_node at the node of the key.
LEMMA DeleteSpine ==
    ASSUME NEW h, IsForest(h), NEW k \in DOMAIN h
    PROVE  \E F, c : /\ Spine(h, k, F, c)
                     /\ DeleteNode(h, k, k) = [heap |-> [x \in DOMAIN h \ F |-> h[x]], node |-> c]
<1> DEFINE Does(x, F, c) == /\ Spine(h, x, F, c)
                            /\ DeleteNode(h, x, x) = [heap |-> [y \in DOMAIN h \ F |-> h[y]], node |-> c]
           T == {x \in DOMAIN h : \E F, c : Does(x, F, c)}
<1>1. Founded(h) /\ IsHeap(h)
  BY DEF IsForest
<1>2. ASSUME NEW x \in DOMAIN h, Kids(h, x) \subseteq T PROVE x \in T
  <2>1. /\ x \in TreeKeys /\ x \in Nat /\ ~(x > x) /\ ~(x < x)
        /\ x \notin Under(h, h[x].l) /\ x \notin Under(h, h[x].r)
    BY <1>1, TreeAssumption, SidesUnder DEF IsHeap, TreeKeys
  <2>2. /\ Under(h, x) = Under(h, h[x].l) \cup Under(h, h[x].r) \cup {x} /\ Under(h, Nil) = {}
        /\ \A c \in Kids(h, x) : c \in DOMAIN h /\ c \in Under(h, c)
    BY <1>1, UnderOf, UnderNodes, NotAboveParent
  <2>3. \A g : FreeKey(g, x) = [y \in DOMAIN g \ {x} |-> g[y]]
    BY DEF FreeKey
  <2>4. CASE h[x].r = Nil
    <3>1. DeleteNode(h, x, x) = [heap |-> FreeKey(h, x), node |-> h[x].l]
      <4>1. CASE h[x].l = Nil
        BY <1>1, <2>1, <2>4, <4>1, DeleteOf
      <4>2. CASE h[x].l # Nil
        <5>1. h[x].l \in DOMAIN h
          BY <2>2, <4>2 DEF Kids
        <5>2. DeleteNode(h, h[x].l, x) = [heap |-> h, node |-> h[x].l]
          BY <2>1, <5>1, DeleteAbsent
        <5>3. LET d == DeleteNode(h, h[x].l, x)
              IN DeleteNode(h, x, x) = [heap |-> FreeKey(d.heap, x), node |-> d.node]
          BY <1>1, <2>1, <2>4, <4>2, DeleteOf
        <5> QED  BY <5>2, <5>3
      <4> QED  BY <4>1, <4>2
    <3>2. Spine(h, x, {x}, h[x].l)
      BY <2>1, <2>2, <2>4 DEF Spine, Kids
    <3> QED  BY <2>3, <3>1, <3>2
  <2>5. CASE h[x].r # Nil
    <3>1. PICK G, c : Does(h[x].r, G, c)
      BY <1>2, <2>5 DEF Kids
    <3>2. PICK F : F = G \cup {x}
      OBVIOUS
    <3>3. h[x].r \in Kids(h, x) /\ h[x].r \in DOMAIN h
      BY <2>2, <2>5 DEF Kids
    <3>4. LET d == DeleteNode(h, h[x].r, h[x].r)
          IN DeleteNode(h, x, x) = [heap |-> FreeKey(d.heap, x), node |-> d.node]
      BY <1>1, <2>1, <2>5, DeleteOf
    <3>5. DeleteNode(h, x, x) = [heap |-> FreeKey([y \in DOMAIN h \ G |-> h[y]], x), node |-> c]
      BY <3>1, <3>4
    <3>6. FreeKey([y \in DOMAIN h \ G |-> h[y]], x) = [y \in DOMAIN h \ F |-> h[y]]
      BY <3>2 DEF FreeKey
    <3>7. Spine(h, x, F, c)
      <4>1. Spine(h, h[x].r, G, c)
        BY <3>1
      <4>2. c # Nil => x \notin Under(h, c)
        <5>1. CASE c # Nil
          <6>1. c \in Under(h, h[x].r) /\ Under(h, c) \subseteq Under(h, h[x].r)
            BY <1>1, <3>3, <4>1, <5>1, UnderTransitive DEF Spine
          <6> QED  BY <2>1, <6>1
        <5> QED  BY <5>1
      <4>3. Under(h, c) \cap F = {}
        BY <2>2, <3>2, <4>1, <4>2 DEF Spine
      <4>4. \A y \in F \ {x} : \E z \in F : y \in Kids(h, z)
        BY <3>2, <3>3, <4>1 DEF Spine
      <4>5. x \in F /\ F \subseteq Under(h, x) /\ h[x].r \in F
        BY <2>2, <3>2, <4>1 DEF Spine
      <4>6. c # Nil => c \in Under(h, x) /\ \E z \in F : c \in Kids(h, z)
        BY <2>2, <3>2, <4>1 DEF Spine
      <4> QED  BY <2>5, <4>3, <4>4, <4>5, <4>6 DEF Spine
    <3> QED  BY <3>5, <3>6, <3>7
  <2> QED  BY <2>4, <2>5
<1>3. DOMAIN h \subseteq T
  <2> HIDE DEF T
  <2> QED  BY <1>1, <1>2, NodeInduction
<1> QED  BY <1>3

\* delete_node from any node above the key on.
LEMMA DeleteBelow ==
    ASSUME NEW h, IsForest(h), NEW x \in DOMAIN h, NEW k \in Under(h, x), NEW F, NEW c,
           Spine(h, k, F, c),
           DeleteNode(h, k, k) = [heap |-> [y \in DOMAIN h \ F |-> h[y]], node |-> c]
    PROVE  DeleteNode(h, x, k) =
              [heap |-> [y \in DOMAIN h \ F |->
                            IF y \in Under(h, x) THEN Redirect(h[y], k, c) ELSE h[y]],
               node |-> IF x = k THEN c ELSE x]
<1> DEFINE Pruned(z) == [y \in DOMAIN h \ F |-> IF y \in Under(h, z) THEN Redirect(h[y], k, c) ELSE h[y]]
           Does(z) == DeleteNode(h, z, k) = [heap |-> Pruned(z), node |-> IF z = k THEN c ELSE z]
           T == {z \in DOMAIN h : k \in Under(h, z) => Does(z)}
<1>1. Founded(h) /\ IsHeap(h) /\ k \in DOMAIN h /\ k \in TreeKeys /\ k \in Nat /\ k # Nil
  BY UnderNodes, KidsAreNodes, TreeAssumption DEF IsForest, IsHeap, TreeKeys
<1>2. \A y \in DOMAIN h : k \notin Kids(h, y) => Redirect(h[y], k, c) = h[y]
  <2>1. \A y \in DOMAIN h : h[y] \in [p : TreeKeys \cup {Nil}, l : Pointers(h), r : Pointers(h)]
    BY <1>1 DEF IsHeap
  <2>2. ASSUME NEW y \in DOMAIN h, k \notin Kids(h, y) PROVE Redirect(h[y], k, c) = h[y]
    <3>1. h[y].l # k /\ h[y].r # k
      BY <1>1, <2>2 DEF Kids
    <3> QED  BY <2>1, <3>1 DEF Redirect
  <2> QED  BY <2>2
<1>3. \A y \in DOMAIN h : k \in Kids(h, y) => k \in Under(h, y) /\ k # y
  BY <1>1, NotAboveParent
<1>4. ASSUME NEW z \in DOMAIN h, Kids(h, z) \subseteq T PROVE z \in T
  <2> SUFFICES ASSUME k \in Under(h, z) PROVE Does(z)
    OBVIOUS
  <2>1. /\ Under(h, z) = Under(h, h[z].l) \cup Under(h, h[z].r) \cup {z} /\ Under(h, Nil) = {}
        /\ z \in Nat /\ (k < z <=> k \in Under(h, h[z].l)) /\ (k > z <=> k \in Under(h, h[z].r))
        /\ z \notin Under(h, h[z].l) /\ z \notin Under(h, h[z].r)
    BY <1>1, UnderOf, SidesUnder
  <2>2. CASE k = z
    <3>1. ASSUME NEW y \in Under(h, z) PROVE k \notin Kids(h, y)
      BY <1>1, <1>3, <2>2, NoCycle, UnderNodes
    <3>2. Pruned(z) = [y \in DOMAIN h \ F |-> h[y]]
      BY <1>2, <3>1
    <3> QED  BY <2>2, <3>2
  <2>3. ASSUME NEW d \in {h[z].l, h[z].r}, k \notin Under(h, d)
        PROVE  d # k /\ \A y \in Under(h, d) : Redirect(h[y], k, c) = h[y]
    <3>1. d # k
      BY <1>1, <2>3, UnderNodes
    <3>2. ASSUME NEW y \in Under(h, d) PROVE Redirect(h[y], k, c) = h[y]
      <4>1. d \in DOMAIN h
        BY <1>1, <2>1, <3>2, KidsAreNodes DEF Pointers
      <4>2. Under(h, y) \subseteq Under(h, d) /\ y \in DOMAIN h
        BY <1>1, <3>2, <4>1, UnderTransitive
      <4>3. k \notin Kids(h, y)
        BY <1>3, <2>3, <4>2
      <4> QED  BY <1>2, <4>2, <4>3
    <3> QED  BY <3>1, <3>2
  <2>4. /\ \A y \in Under(h, h[z].l) : y \notin Under(h, h[z].r)
        /\ \A y \in Under(h, h[z].l) \cup Under(h, h[z].r) : Under(h, y) \subseteq
              (IF y \in Under(h, h[z].l) THEN Under(h, h[z].l) ELSE Under(h, h[z].r))
    <3>1. \A y \in Under(h, z) : y \in Nat /\ (y < z <=> y \in Under(h, h[z].l))
                                 /\ (y > z <=> y \in Under(h, h[z].r))
      BY SidesUnder
    <3>2. \A y \in Under(h, h[z].l) : y \notin Under(h, h[z].r)
      BY <2>1, <3>1
    <3>3. \A d \in {h[z].l, h[z].r} : \A y \in Under(h, d) : Under(h, y) \subseteq Under(h, d)
      BY <1>1, <2>1, UnderTransitive, KidsAreNodes DEF Pointers
    <3> QED  BY <3>2, <3>3
  <2>5. h[z] \in [p : TreeKeys \cup {Nil}, l : Pointers(h), r : Pointers(h)]
    BY <1>1 DEF IsHeap
  <2>6. F \subseteq Under(h, k)
    BY DEF Spine
  <2>7. CASE k < z
    <3>1. k \in Under(h, h[z].l) /\ k \notin Under(h, h[z].r) /\ h[z].l \in Kids(h, z)
      BY <2>1, <2>4, <2>7 DEF Kids
    <3>2. Does(h[z].l) /\ z \notin F
      BY <1>4, <2>1, <2>4, <2>6, <3>1
    <3>3. DeleteNode(h, z, k) =
             [heap |-> [Pruned(h[z].l) EXCEPT ![z].l = IF h[z].l = k THEN c ELSE h[z].l],
              node |-> z]
      <4>1. LET d == DeleteNode(h, h[z].l, k)
            IN DeleteNode(h, z, k) = [heap |-> [d.heap EXCEPT ![z].l = d.node], node |-> z]
        BY <1>1, <2>1, <2>7, DeleteOf
      <4> HIDE DEF Pruned
      <4> QED  BY <3>2, <4>1
    <3>4. [Pruned(h[z].l) EXCEPT ![z].l = IF h[z].l = k THEN c ELSE h[z].l] = Pruned(z)
      <4>1. [h[z] EXCEPT !.l = IF h[z].l = k THEN c ELSE h[z].l] = Redirect(h[z], k, c)
        BY <2>3, <2>5, <3>1 DEF Redirect
      <4>2. \A y \in DOMAIN h \ F : y # z => Pruned(h[z].l)[y] = Pruned(z)[y]
        BY <2>1, <2>3, <2>4, <3>1
      <4>3. Pruned(h[z].l)[z] = h[z] /\ Pruned(z)[z] = Redirect(h[z], k, c)
        BY <2>1, <3>2
      <4>4. /\ Pruned(h[z].l) = [y \in DOMAIN h \ F |-> Pruned(h[z].l)[y]]
            /\ Pruned(z) = [y \in DOMAIN h \ F |-> Pruned(z)[y]]
        OBVIOUS
      <4> HIDE DEF Pruned
      <4> QED  BY <4>1, <4>2, <4>3, <4>4
    <3>5. z # k
      BY <1>1, <2>1, <2>7
    <3> HIDE DEF Pruned
    <3> QED  BY <3>3, <3>4, <3>5
  <2>8. CASE k > z
    <3>1. k \in Under(h, h[z].r) /\ k \notin Under(h, h[z].l) /\ h[z].r \in Kids(h, z)
      BY <2>1, <2>4, <2>8 DEF Kids
    <3>2. Does(h[z].r) /\ z \notin F
      BY <1>4, <2>1, <2>4, <2>6, <3>1
    <3>3. DeleteNode(h, z, k) =
             [heap |-> [Pruned(h[z].r) EXCEPT ![z].r = IF h[z].r = k THEN c ELSE h[z].r],
              node |-> z]
      <4>1. LET d == DeleteNode(h, h[z].r, k)
            IN DeleteNode(h, z, k) = [heap |-> [d.heap EXCEPT ![z].r = d.node], node |-> z]
        BY <1>1, <2>1, <2>8, DeleteOf
      <4> HIDE DEF Pruned
      <4> QED  BY <3>2, <4>1
    <3>4. [Pruned(h[z].r) EXCEPT ![z].r = IF h[z].r = k THEN c ELSE h[z].r] = Pruned(z)
      <4>1. [h[z] EXCEPT !.r = IF h[z].r = k THEN c ELSE h[z].r] = Redirect(h[z], k, c)
        BY <2>3, <2>5, <3>1 DEF Redirect
      <4>2. \A y \in DOMAIN h \ F : y # z => Pruned(h[z].r)[y] = Pruned(z)[y]
        BY <2>1, <2>3, <2>4, <3>1
      <4>3. Pruned(h[z].r)[z] = h[z] /\ Pruned(z)[z] = Redirect(h[z], k, c)
        BY <2>1, <3>2
      <4>4. /\ Pruned(h[z].r) = [y \in DOMAIN h \ F |-> Pruned(h[z].r)[y]]
            /\ Pruned(z) = [y \in DOMAIN h \ F |-> Pruned(z)[y]]
        OBVIOUS
      <4> HIDE DEF Pruned
      <4> QED  BY <4>1, <4>2, <4>3, <4>4
    <3>5. z # k
      BY <1>1, <2>1, <2>8
    <3> HIDE DEF Pruned
    <3> QED  BY <3>3, <3>4, <3>5
  <2> QED  BY <1>1, <2>1, <2>2, <2>7, <2>8
<1>5. DOMAIN h \subseteq T
  <2> HIDE DEF T
  <2> QED  BY <1>1, <1>4, NodeInduction
<1> QED  BY <1>5

\* The spine of a node can be pruned.
LEMMA SpineIsPrunable ==
    ASSUME NEW h, IsForest(h), OneParent(h), NEW k \in DOMAIN h, NEW F, NEW c, Spine(h, k, F, c)
    PROVE  Prunable(h, F, k, c) /\ \A x \in DOMAIN h \ F : c \notin Kids(h, x)
<1>1. Founded(h) /\ Under(h, k) \subseteq DOMAIN h
  BY UnderNodes DEF IsForest
<1>2. c \in Pointers(h) \ F
  <2>1. CASE c = Nil
    BY <1>1, <2>1, KidsAreNodes DEF Spine, Pointers
  <2>2. CASE c # Nil
    BY <1>1, <2>2, UnderNodes DEF Spine, Pointers
  <2> QED  BY <2>1, <2>2
<1>3. \A x \in DOMAIN h \ F : Kids(h, x) \cap F \subseteq {k}
  BY <1>1 DEF Spine, OneParent
<1>4. ASSUME NEW x \in DOMAIN h \ F, c \in Kids(h, x) PROVE FALSE
  <2>1. c # Nil
    BY <1>4 DEF Kids
  <2>2. PICK y \in F : c \in Kids(h, y)
    BY <2>1 DEF Spine
  <2> QED  BY <1>1, <1>4, <2>2 DEF OneParent, Spine
<1> QED  BY <1>1, <1>2, <1>3, <1>4 DEF Spine, Prunable

\* Pruning leaves every node with one parent.
LEMMA PrunedParents ==
    ASSUME NEW h, IsForest(h), OneParent(h), NEW F, NEW k, NEW c, Prunable(h, F, k, c),
           \A x \in DOMAIN h \ F : c \notin Kids(h, x),
           NEW new, new = [x \in DOMAIN h \ F |-> Redirect(h[x], k, c)]
    PROVE  /\ OneParent(new)
           /\ \A x \in DOMAIN h \ F : Kids(new, x) \subseteq (Kids(h, x) \ {k}) \cup {c}
           /\ \A x \in DOMAIN h \ F : c \in Kids(new, x) => k \in Kids(h, x)
<1>1. DOMAIN new = DOMAIN h \ F
  OBVIOUS
<1>2. \A x \in DOMAIN h \ F : x # Nil
  BY KidsAreNodes DEF IsForest
<1>3. ASSUME NEW x \in DOMAIN h \ F
      PROVE  /\ Kids(new, x) \subseteq (Kids(h, x) \ {k}) \cup {c}
             /\ c \in Kids(new, x) => k \in Kids(h, x)
  <2>1. new[x].l = (IF h[x].l = k THEN c ELSE h[x].l) /\ new[x].r = (IF h[x].r = k THEN c ELSE h[x].r)
    BY DEF Redirect
  <2>2. k = Nil => c = Nil
    BY KidsAreNodes DEF Prunable, IsForest
  <2> QED  BY <2>1, <2>2 DEF Kids
<1>4. OneParent(new)
  <2> SUFFICES ASSUME NEW x \in DOMAIN h \ F, NEW y \in DOMAIN h \ F, x # y,
                      NEW z \in Kids(new, x), z \in Kids(new, y)
               PROVE  FALSE
    BY <1>1 DEF OneParent
  <2> QED  BY <1>3 DEF OneParent
<1> QED  BY <1>3, <1>4

\* The elements of sequences put together.
LEMMA Concatenated ==
    ASSUME NEW D, NEW s \in Seq(D), NEW t \in Seq(D)
    PROVE  s \o t \in Seq(D) /\ ToSet(s \o t) = ToSet(s) \cup ToSet(t)
<1>1. s \o t \in Seq(D) /\ Len(s \o t) = Len(s) + Len(t) /\ Len(s) \in Nat /\ Len(t) \in Nat
  OBVIOUS
<1>2. \A i \in 1 .. Len(s) + Len(t) : (s \o t)[i] = IF i <= Len(s) THEN s[i] ELSE t[i - Len(s)]
  OBVIOUS
<1>3. ASSUME NEW y \in ToSet(s \o t) PROVE y \in ToSet(s) \cup ToSet(t)
  <2>1. PICK i \in 1 .. Len(s) + Len(t) : (s \o t)[i] = y
    BY <1>1, <1>3 DEF ToSet
  <2>2. CASE i <= Len(s)
    BY <1>1, <1>2, <2>1, <2>2 DEF ToSet
  <2>3. CASE ~(i <= Len(s))
    <3>1. i - Len(s) \in 1 .. Len(t) /\ t[i - Len(s)] = y
      BY <1>1, <1>2, <2>1, <2>3
    <3> QED  BY <3>1 DEF ToSet
  <2> QED  BY <2>2, <2>3
<1>4. ASSUME NEW y \in ToSet(s) PROVE y \in ToSet(s \o t)
  <2>0. PICK i \in 1 .. Len(s) : s[i] = y
    BY <1>4 DEF ToSet
  <2>1. i \in 1 .. Len(s \o t) /\ (s \o t)[i] = s[i]
    BY <1>1, <1>2
  <2> QED  BY <2>0, <2>1 DEF ToSet
<1>5. ASSUME NEW y \in ToSet(t) PROVE y \in ToSet(s \o t)
  <2>0. PICK i \in 1 .. Len(t) : t[i] = y
    BY <1>5 DEF ToSet
  <2>1. i + Len(s) \in 1 .. Len(s \o t) /\ (s \o t)[i + Len(s)] = t[i]
    BY <1>1, <1>2
  <2> QED  BY <2>0, <2>1 DEF ToSet
<1> QED  BY <1>1, <1>3, <1>4, <1>5

\* As above.
LEMMA ConcatenatedThree ==
    ASSUME NEW D, NEW s \in Seq(D), NEW t \in Seq(D), NEW u \in Seq(D)
    PROVE  /\ s \o t \o u \in Seq(D)
           /\ ToSet(s \o t \o u) = ToSet(s) \cup ToSet(t) \cup ToSet(u)
<1>1. s \o t \in Seq(D) /\ ToSet(s \o t) = ToSet(s) \cup ToSet(t)
  BY Concatenated
<1>2. PICK v : v = s \o t
  OBVIOUS
<1>3. v \in Seq(D) /\ ToSet(v) = ToSet(s) \cup ToSet(t)
  BY <1>1, <1>2
<1>4. v \o u \in Seq(D) /\ ToSet(v \o u) = ToSet(v) \cup ToSet(u)
  BY <1>3, Concatenated
<1>5. s \o t \o u = v \o u
  BY <1>2
<1> QED  BY <1>3, <1>4, <1>5

\* No element.
LEMMA NoElement == ToSet(<<>>) = {}
  BY DEF ToSet

\* What the traversals visit.
LEMMA InorderVisits ==
    ASSUME NEW h, Founded(h), NEW x \in Pointers(h)
    PROVE  Inorder(h, x) \in Seq(DOMAIN h) /\ ToSet(Inorder(h, x)) = Under(h, x)
<1> DEFINE T == {y \in DOMAIN h : Inorder(h, y) \in Seq(DOMAIN h) /\ ToSet(Inorder(h, y)) = Under(h, y)}
<1>1. Inorder(h, Nil) = <<>> /\ Under(h, Nil) = {} /\ <<>> \in Seq(DOMAIN h)
  BY InorderOf, UnderOf
<1>2. Inorder(h, Nil) \in Seq(DOMAIN h) /\ ToSet(Inorder(h, Nil)) = Under(h, Nil)
  BY <1>1, NoElement
<1>3. ASSUME NEW y \in DOMAIN h, Kids(h, y) \subseteq T PROVE y \in T
  <2>1. \A c \in {h[y].l, h[y].r} : Inorder(h, c) \in Seq(DOMAIN h) /\ ToSet(Inorder(h, c)) = Under(h, c)
    BY <1>2, <1>3 DEF Kids
  <2>2. PICK s, t, u : s = Inorder(h, h[y].l) /\ t = <<y>> /\ u = Inorder(h, h[y].r)
    OBVIOUS
  <2>3. Inorder(h, y) = s \o t \o u
    BY <2>2, InorderOf
  <2>4. t \in Seq(DOMAIN h) /\ ToSet(t) = {y}
    BY <2>2 DEF ToSet
  <2>5. Under(h, y) = Under(h, h[y].l) \cup Under(h, h[y].r) \cup {y}
    BY UnderOf
  <2>6. s \in Seq(DOMAIN h) /\ u \in Seq(DOMAIN h)
    BY <2>1, <2>2
  <2>7. s \o t \o u \in Seq(DOMAIN h) /\ ToSet(s \o t \o u) = ToSet(s) \cup ToSet(t) \cup ToSet(u)
    BY <2>4, <2>6, ConcatenatedThree
  <2> QED  BY <2>1, <2>2, <2>3, <2>4, <2>5, <2>7
<1>4. DOMAIN h \subseteq T
  <2> HIDE DEF T
  <2> QED  BY <1>3, NodeInduction
<1> QED  BY <1>2, <1>4 DEF Pointers

\* tree_release
LEMMA BstReleaseKeeps ==
    ASSUME StInv, BstRelease
    PROVE  StInv'
<1>1. /\ IsForest(heap) /\ OneParent(heap) /\ Founded(heap) /\ IsHeap(heap)
      /\ contents = Under(heap, top) /\ ParentsKnown
  BY DEF StInv, TreeShape, IsForest
<1>2. contents \subseteq DOMAIN heap /\ \A x \in DOMAIN heap \ contents : Under(heap, x) \cap contents = {}
  BY TreeIsClosed
<1>3. /\ heap' = [x \in DOMAIN heap \ contents |-> heap[x]]
      /\ top' = Nil /\ contents' = {} /\ deleted' = deleted
  BY <1>1 DEF BstRelease, ReleaseTree
<1>4. \A x \in DOMAIN heap \ contents : Kids(heap, x) \cap contents = {}
  BY <1>1, <1>2, NotAboveParent
<1>5. Under(heap, Nil) = {} /\ Nil \notin DOMAIN heap
  BY <1>1, UnderOf, KidsAreNodes
<1>6. Prunable(heap, contents, Nil, Nil)
  BY <1>2, <1>4, <1>5 DEF Prunable, Pointers
<1>7. \A x \in DOMAIN heap : Redirect(heap[x], Nil, Nil) = heap[x]
  BY <1>1 DEF Redirect, IsHeap
<1>8. heap' = [x \in DOMAIN heap \ contents |-> Redirect(heap[x], Nil, Nil)]
  BY <1>3, <1>7
<1>9. IsForest(heap') /\ DOMAIN heap' = DOMAIN heap \ contents
  BY <1>1, <1>6, <1>8, PrunedUnder
<1>10. \A x \in DOMAIN heap : Nil \notin Kids(heap, x)
  BY DEF Kids
<1>11. OneParent(heap')
  BY <1>1, <1>6, <1>8, <1>10, PrunedParents
<1>12. contents' = Under(heap', top')
  BY <1>3, <1>9, UnderOf DEF IsForest
<1>13. TopIsRoot'
  BY <1>3 DEF TopIsRoot, Pointers, Kids
<1>14. ParentsKnown'
  <2>1. \A x \in DOMAIN heap' : heap'[x] = heap[x] /\ Kids(heap', x) = Kids(heap, x)
    BY <1>3, <1>9 DEF Kids
  <2>2. \A x \in DOMAIN heap' : \A c \in Kids(heap', x) : c \in DOMAIN heap'
    BY <1>9, KidsAreNodes DEF IsForest, Kids, Pointers
  <2> QED  BY <1>1, <1>3, <1>9, <2>1, <2>2 DEF ParentsKnown
<1> QED  BY <1>9, <1>11, <1>12, <1>13, <1>14 DEF StInv, TreeShape

\* What bst_tree_delete does: nothing, or it prunes a spine and puts c in the place of k.
Deleted(k, F, c) ==
    /\ k \in contents /\ F \subseteq contents /\ Spine(heap, k, F, c)
    /\ heap' = [x \in DOMAIN heap \ F |-> Redirect(heap[x], k, c)]
    /\ top' = IF top = k THEN c ELSE top

\* It does one of these two things.
LEMMA BstDeleteDoes ==
    ASSUME StInv, NEW k \in TreeKeys, BstDelete(k)
    PROVE  \/ k \notin contents /\ heap' = heap /\ top' = top
           \/ \E F, c : Deleted(k, F, c)
<1>1. /\ IsForest(heap) /\ OneParent(heap) /\ Founded(heap) /\ IsHeap(heap)
      /\ contents = Under(heap, top) /\ (top = Nil \/ top \in DOMAIN heap)
  BY DEF StInv, TreeShape, IsForest, TopIsRoot, Pointers
<1>2. /\ contents \subseteq DOMAIN heap /\ (top = Nil <=> contents = {})
      /\ \A x \in contents : Under(heap, x) \subseteq contents
      /\ \A x \in DOMAIN heap \ contents : Under(heap, x) \cap contents = {}
  BY TreeIsClosed
<1>3. heap' = DeleteNode(heap, top, k).heap /\ top' = DeleteNode(heap, top, k).node
  BY DEF BstDelete
<1>4. CASE top = Nil
  BY <1>1, <1>2, <1>3, <1>4, DeleteOf
<1>5. CASE top # Nil /\ k \notin contents
  BY <1>1, <1>3, <1>5, DeleteAbsent
<1>6. CASE top # Nil /\ k \in contents
  <2>1. k \in DOMAIN heap /\ k \in Under(heap, top) /\ top \in DOMAIN heap
    BY <1>1, <1>2, <1>6
  <2>2. PICK F, c : /\ Spine(heap, k, F, c)
                    /\ DeleteNode(heap, k, k) = [heap |-> [x \in DOMAIN heap \ F |-> heap[x]], node |-> c]
    BY <1>1, <2>1, DeleteSpine
  <2>3. DeleteNode(heap, top, k) =
           [heap |-> [y \in DOMAIN heap \ F |->
                         IF y \in Under(heap, top) THEN Redirect(heap[y], k, c) ELSE heap[y]],
            node |-> IF top = k THEN c ELSE top]
    BY <1>1, <2>1, <2>2, DeleteBelow
  <2>4. ASSUME NEW y \in DOMAIN heap \ contents PROVE Redirect(heap[y], k, c) = heap[y]
    <3>1. k \notin Kids(heap, y) /\ k # Nil
      BY <1>1, <1>2, <1>6, <2>1, NotAboveParent, KidsAreNodes
    <3>2. heap[y].l # k /\ heap[y].r # k
      BY <3>1 DEF Kids
    <3>3. heap[y] \in [p : TreeKeys \cup {Nil}, l : Pointers(heap), r : Pointers(heap)]
      BY <1>1 DEF IsHeap
    <3> QED  BY <3>2, <3>3 DEF Redirect
  <2>5. [y \in DOMAIN heap \ F |-> IF y \in Under(heap, top) THEN Redirect(heap[y], k, c) ELSE heap[y]]
        = [y \in DOMAIN heap \ F |-> Redirect(heap[y], k, c)]
    BY <1>1, <2>4
  <2>6. heap' = [y \in DOMAIN heap \ F |-> Redirect(heap[y], k, c)] /\ top' = IF top = k THEN c ELSE top
    BY <1>3, <2>3, <2>5
  <2>7. F \subseteq contents
    BY <1>2, <1>6, <2>2 DEF Spine
  <2> QED  BY <1>6, <2>2, <2>6, <2>7 DEF Deleted
<1> QED  BY <1>4, <1>5, <1>6

\* What a deletion leaves.
LEMMA DeletedLeaves ==
    ASSUME StInv, NEW k \in TreeKeys, NEW F, NEW c, Deleted(k, F, c)
    PROVE  /\ IsForest(heap') /\ OneParent(heap') /\ DOMAIN heap' = DOMAIN heap \ F
           /\ top' \in Pointers(heap') /\ \A x \in DOMAIN heap' : top' \notin Kids(heap', x)
           /\ Under(heap', top') = (contents \ Under(heap, k)) \cup Under(heap, c)
<1>1. /\ IsForest(heap) /\ OneParent(heap) /\ Founded(heap) /\ IsHeap(heap) /\ TopIsRoot
      /\ contents = Under(heap, top) /\ (top = Nil \/ top \in DOMAIN heap)
  BY DEF StInv, TreeShape, IsForest, TopIsRoot, Pointers
<1>2. /\ contents \subseteq DOMAIN heap /\ (top = Nil <=> contents = {})
      /\ \A x \in contents : Under(heap, x) \subseteq contents
  BY TreeIsClosed
<1>3. /\ k \in contents /\ F \subseteq contents /\ Spine(heap, k, F, c)
      /\ heap' = [x \in DOMAIN heap \ F |-> Redirect(heap[x], k, c)]
      /\ top' = IF top = k THEN c ELSE top
  BY DEF Deleted
<1>4. k \in DOMAIN heap /\ top \in DOMAIN heap /\ k \in Under(heap, top) /\ k \in F
  BY <1>1, <1>2, <1>3 DEF Spine
<1>5. Prunable(heap, F, k, c) /\ \A x \in DOMAIN heap \ F : c \notin Kids(heap, x)
  BY <1>1, <1>3, <1>4, SpineIsPrunable
<1>6. /\ IsForest(heap') /\ DOMAIN heap' = DOMAIN heap \ F
      /\ Under(heap', c) = Under(heap, c)
      /\ \A x \in DOMAIN heap \ F :
            /\ k \notin Under(heap, x) => Under(heap', x) = Under(heap, x)
            /\ k \in Under(heap, x) =>
                  Under(heap', x) = (Under(heap, x) \ Under(heap, k)) \cup Under(heap, c)
  BY <1>1, <1>3, <1>5, PrunedUnder
<1>7. /\ OneParent(heap')
      /\ \A x \in DOMAIN heap \ F : Kids(heap', x) \subseteq (Kids(heap, x) \ {k}) \cup {c}
      /\ \A x \in DOMAIN heap \ F : c \in Kids(heap', x) => k \in Kids(heap, x)
  BY <1>1, <1>3, <1>5, PrunedParents
<1>8. c \in Pointers(heap) \ F
  BY <1>5 DEF Prunable
<1>9. CASE top = k
  <2>1. top' = c /\ c \in Pointers(heap')
    BY <1>3, <1>6, <1>8, <1>9 DEF Pointers
  <2>2. \A x \in DOMAIN heap' : c \notin Kids(heap', x)
    BY <1>1, <1>6, <1>7, <1>9 DEF TopIsRoot
  <2>3. contents = Under(heap, k)
    BY <1>1, <1>9
  <2> QED  BY <1>6, <1>7, <2>1, <2>2, <2>3
<1>10. CASE top # k
  <2>1. top' = top
    BY <1>3, <1>10
  <2>2. top \notin F
    <3>1. CASE top \in F
      <4>1. PICK x \in F : top \in Kids(heap, x)
        BY <1>3, <1>10, <3>1 DEF Spine
      <4> QED  BY <1>1, <1>2, <1>3, <4>1 DEF TopIsRoot
    <3> QED  BY <3>1
  <2>3. c # top
    <3>1. CASE c = top
      <4>1. c # Nil
        BY <1>1, <1>4, <3>1, KidsAreNodes
      <4>2. PICK x \in F : c \in Kids(heap, x)
        BY <1>3, <4>1 DEF Spine
      <4> QED  BY <1>1, <1>2, <1>3, <3>1, <4>2 DEF TopIsRoot
    <3> QED  BY <3>1
  <2>4. \A x \in DOMAIN heap' : top \notin Kids(heap', x)
    BY <1>1, <1>6, <1>7, <2>3 DEF TopIsRoot
  <2>5. Under(heap', top) = (contents \ Under(heap, k)) \cup Under(heap, c)
    BY <1>1, <1>4, <1>6, <2>2
  <2> QED  BY <1>4, <1>6, <1>7, <2>1, <2>2, <2>4, <2>5 DEF Pointers
<1> QED  BY <1>9, <1>10

\* bst_tree_delete
LEMMA BstDeleteKeeps ==
    ASSUME StInv, NEW k \in TreeKeys, BstDelete(k)
    PROVE  /\ StInv'
           /\ k \notin contents => contents' = contents
           /\ \A F, c : Deleted(k, F, c) => contents' = (contents \ Under(heap, k)) \cup Under(heap, c)
<1>1. contents' = ToSet(Inorder(heap', top')) /\ deleted' = TRUE
  BY DEF BstDelete
<1>2. contents = Under(heap, top) /\ IsForest(heap) /\ OneParent(heap) /\ top \in Pointers(heap)
      /\ \A x \in DOMAIN heap : top \notin Kids(heap, x)
  BY DEF StInv, TreeShape, TopIsRoot
<1>3. ASSUME NEW F, NEW c, Deleted(k, F, c)
      PROVE  /\ IsForest(heap') /\ OneParent(heap')
             /\ top' \in Pointers(heap') /\ \A x \in DOMAIN heap' : top' \notin Kids(heap', x)
             /\ Under(heap', top') = (contents \ Under(heap, k)) \cup Under(heap, c)
  BY <1>3, DeletedLeaves
<1>4. k \notin contents => heap' = heap /\ top' = top
  BY BstDeleteDoes DEF Deleted
<1>5. /\ IsForest(heap') /\ OneParent(heap')
      /\ top' \in Pointers(heap') /\ \A x \in DOMAIN heap' : top' \notin Kids(heap', x)
  BY <1>2, <1>3, BstDeleteDoes
<1>6. contents' = Under(heap', top')
  BY <1>1, <1>5, InorderVisits DEF IsForest
<1>7. StInv'
  BY <1>1, <1>5, <1>6 DEF StInv, TreeShape, TopIsRoot, ParentsKnown
<1> QED  BY <1>2, <1>3, <1>4, <1>6, <1>7

\* Insertion, deletion and release keep one search tree below the root: its nodes are ordered,
\* no node is in it twice, and it holds exactly the keys that should be there.
THEOREM StInvariance == StSpec => []StInv
<1>1. StInit => StInv
  BY StInvInit
<1>2. StInv /\ [StNext]_stVars => StInv'
  <2> SUFFICES ASSUME StInv, [StNext]_stVars PROVE StInv'
    OBVIOUS
  <2>1. ASSUME NEW k \in TreeKeys, BstInsert(k) PROVE StInv'
    BY <2>1, BstInsertKeeps
  <2>2. ASSUME NEW k \in TreeKeys, BstDelete(k) PROVE StInv'
    BY <2>2, BstDeleteKeeps
  <2>3. CASE BstRelease
    BY <2>3, BstReleaseKeeps
  <2>4. CASE UNCHANGED stVars
    BY <2>4 DEF stVars, StInv, TreeShape, TopIsRoot, ParentsKnown
  <2> QED  BY <2>1, <2>2, <2>3, <2>4 DEF StNext
<1> QED  BY <1>1, <1>2, PTL DEF StSpec

\* delete_node of a node without a right child removes its key and no other; of a node with one
\* it removes more.
THEOREM DeleteRemovesOneSafety == StSpec => DeleteRemovesOne
<1>1. ASSUME StInv, NEW k \in contents, BstDelete(k), k \notin contents'
      PROVE  (contents' = contents \ {k}) = (heap[k].r = Nil)
  <2>1. /\ contents \subseteq DOMAIN heap /\ DOMAIN heap \subseteq TreeKeys
        /\ IsForest(heap) /\ Founded(heap) /\ k \in DOMAIN heap
        /\ \A x \in contents : Under(heap, x) \subseteq contents
    BY <1>1, TreeIsClosed DEF StInv, TreeShape, IsForest, IsHeap
  <2>2. k \in TreeKeys
    BY <2>1
  <2>3. contents' # contents
    BY <1>1
  <2>4. PICK F, c : Deleted(k, F, c)
    BY <1>1, <2>2, BstDeleteDoes
  <2>5. contents' = (contents \ Under(heap, k)) \cup Under(heap, c)
    BY <1>1, <2>2, <2>4, BstDeleteKeeps
  <2>6. Spine(heap, k, F, c)
    BY <2>4 DEF Deleted
  <2>7. Under(heap, k) = Under(heap, heap[k].l) \cup Under(heap, heap[k].r) \cup {k}
        /\ Under(heap, Nil) = {} /\ k \in Under(heap, k)
    BY <2>1, UnderOf
  <2>8. CASE heap[k].r = Nil
    <3>1. Under(heap, c) = Under(heap, heap[k].l) /\ k \notin Under(heap, c)
      BY <2>6, <2>8 DEF Spine
    <3>2. Under(heap, k) = Under(heap, c) \cup {k} /\ Under(heap, k) \subseteq contents
      BY <1>1, <2>1, <2>7, <2>8, <3>1
    <3> QED  BY <2>5, <2>8, <3>1, <3>2
  <2>9. CASE heap[k].r # Nil
    <3>1. /\ heap[k].r \in F /\ Under(heap, c) \cap F = {}
          /\ F \subseteq Under(heap, k) /\ F \subseteq contents
      BY <1>1, <2>1, <2>6, <2>9 DEF Spine
    <3>2. heap[k].r # k
      BY <2>1, <2>9, NotAboveParent DEF Kids
    <3>3. heap[k].r \in contents \ {k} /\ heap[k].r \notin contents'
      BY <2>5, <3>1, <3>2
    <3> QED  BY <2>9, <3>3
  <2> QED  BY <2>8, <2>9
<1>2. StInv /\ [StNext]_stVars =>
         [\A k \in contents :
             (BstDelete(k) /\ k \notin contents') =>
                 (contents' = contents \ {k}) = (heap[k].r = Nil)]_stVars
  BY <1>1
<1> QED  BY <1>2, StInvariance, PTL DEF StSpec, DeleteRemovesOne

\* find_node finds the keys that are there, and no other.
LEMMA FindsKey ==
    ASSUME NEW h, IsForest(h), NEW k \in TreeKeys, NEW x \in Pointers(h)
    PROVE  FindNode(h, x, k) = IF k \in Under(h, x) THEN k ELSE Nil
<1> DEFINE T == {y \in DOMAIN h : FindNode(h, y, k) = IF k \in Under(h, y) THEN k ELSE Nil}
<1>1. Founded(h) /\ k \in Nat
  BY TreeAssumption DEF IsForest, TreeKeys
<1>2. FindNode(h, Nil, k) = Nil /\ Under(h, Nil) = {}
  BY <1>1, FindOf, UnderOf
<1>3. ASSUME NEW y \in DOMAIN h, Kids(h, y) \subseteq T PROVE y \in T
  <2>1. \A c \in {h[y].l, h[y].r} : FindNode(h, c, k) = IF k \in Under(h, c) THEN k ELSE Nil
    BY <1>2, <1>3 DEF Kids
  <2>2. y \in Nat /\ y \in Under(h, y)
    BY <1>1, SidesUnder, UnderNodes
  <2>3. CASE k = y
    BY <1>1, <2>2, <2>3, FindOf
  <2>4. CASE k < y
    <3>1. FindNode(h, y, k) = FindNode(h, h[y].l, k)
      BY <1>1, <2>2, <2>4, FindOf
    <3>2. k \in Under(h, y) <=> k \in Under(h, h[y].l)
      BY <2>4, SidesUnder
    <3> QED  BY <2>1, <3>1, <3>2
  <2>5. CASE k > y
    <3>1. FindNode(h, y, k) = FindNode(h, h[y].r, k)
      BY <1>1, <2>2, <2>5, FindOf
    <3>2. k \in Under(h, y) <=> k \in Under(h, h[y].r)
      BY <2>5, SidesUnder
    <3> QED  BY <2>1, <3>1, <3>2
  <2> QED  BY <1>1, <2>2, <2>3, <2>4, <2>5
<1>4. DOMAIN h \subseteq T
  <2> HIDE DEF T
  <2> QED  BY <1>1, <1>3, NodeInduction
<1> QED  BY <1>2, <1>4 DEF Pointers

AddLeft(h, x, k)  == [h EXCEPT ![x].l = k]
AddRight(h, x, k) == [h EXCEPT ![x].r = k]

\* Two functions that differ in the parent of one node.
Differ(f, g, D, k, x) ==
    /\ f = [y \in D |-> f[y]] /\ g = [y \in D |-> g[y]]
    /\ [f[k] EXCEPT !.p = x] = g[k]
    /\ \A y \in D : y # k => f[y] = g[y]

\* The same change of two functions that differ in one place only.
LEMMA ChangedAlike ==
    ASSUME NEW D, NEW f, NEW g, NEW x \in D, NEW k \in D, x # k, Differ(f, g, D, k, x)
    PROVE  /\ BackLeft([heap |-> f, node |-> k], x) = AddLeft(g, x, k)
           /\ BackRight([heap |-> f, node |-> k], x) = AddRight(g, x, k)
<1>0. /\ f = [y \in D |-> f[y]] /\ g = [y \in D |-> g[y]] /\ [f[k] EXCEPT !.p = x] = g[k]
      /\ \A y \in D : y # k => f[y] = g[y]
  BY DEF Differ
<1>1. PICK a : a = [f EXCEPT ![x] = [f[x] EXCEPT !.l = k]]
  OBVIOUS
<1>2. PICK b : b = [f EXCEPT ![x] = [f[x] EXCEPT !.r = k]]
  OBVIOUS
<1>3. a[k] = f[k] /\ b[k] = f[k] /\ f[x] = g[x] /\ DOMAIN f = D /\ DOMAIN g = D
  BY <1>0, <1>1, <1>2
<1>4. /\ [f EXCEPT ![x].l = k, ![k].p = x] = [a EXCEPT ![k] = [a[k] EXCEPT !.p = x]]
      /\ [f EXCEPT ![x].r = k, ![k].p = x] = [b EXCEPT ![k] = [b[k] EXCEPT !.p = x]]
  BY <1>1, <1>2
<1>5. [a EXCEPT ![k] = g[k]] = [g EXCEPT ![x] = [g[x] EXCEPT !.l = k]]
  BY <1>0, <1>1, <1>3
<1>6. [b EXCEPT ![k] = g[k]] = [g EXCEPT ![x] = [g[x] EXCEPT !.r = k]]
  BY <1>0, <1>2, <1>3
<1>7. BackLeft([heap |-> f, node |-> k], x) = AddLeft(g, x, k)
  BY <1>0, <1>3, <1>4, <1>5 DEF BackLeft, AddLeft
<1>8. BackRight([heap |-> f, node |-> k], x) = AddRight(g, x, k)
  BY <1>0, <1>3, <1>4, <1>6 DEF BackRight, AddRight
<1> QED  BY <1>7, <1>8

\* Made first and linked on the way back, or made with its parent: the new node is the same.
LEMMA LinkedBack ==
    ASSUME NEW h, NEW x \in DOMAIN h, NEW k, k \notin DOMAIN h
    PROVE  /\ BackLeft([heap |-> New(h, k, Nil), node |-> k], x) = AddLeft(New(h, k, x), x, k)
           /\ BackRight([heap |-> New(h, k, Nil), node |-> k], x) = AddRight(New(h, k, x), x, k)
<1>1. [Node(Nil) EXCEPT !.p = x] = Node(x)
  BY DEF Node
<1>2. /\ \A p : New(h, k, p)[k] = Node(p)
      /\ \A p : \A y \in DOMAIN h \cup {k} : y # k => New(h, k, p)[y] = h[y]
      /\ \A p : New(h, k, p) = [y \in DOMAIN h \cup {k} |-> New(h, k, p)[y]]
  BY DEF New
<1>3. PICK f, g : f = New(h, k, Nil) /\ g = New(h, k, x)
  OBVIOUS
<1>4. Differ(f, g, DOMAIN h \cup {k}, k, x)
  BY <1>1, <1>2, <1>3 DEF Differ
<1>5. x # k /\ x \in DOMAIN h \cup {k} /\ k \in DOMAIN h \cup {k}
  OBVIOUS
<1>6. /\ BackLeft([heap |-> f, node |-> k], x) = AddLeft(g, x, k)
      /\ BackRight([heap |-> f, node |-> k], x) = AddRight(g, x, k)
  BY <1>4, <1>5, ChangedAlike
<1> QED  BY <1>3, <1>6

\* insert_node of bb_tree makes the tree that insert_node of bst_tree makes.
LEMMA InsertsAlike ==
    ASSUME NEW h, IsForest(h), NEW k \in TreeKeys \ DOMAIN h, NEW x \in DOMAIN h
    PROVE  InsertBack(h, x, k) = [heap |-> InsertNode(h, x, k), node |-> x]
<1> DEFINE T == {y \in DOMAIN h : InsertBack(h, y, k) = [heap |-> InsertNode(h, y, k), node |-> y]}
<1>1. Founded(h) /\ k \in Nat /\ IsHeap(h)
  BY TreeAssumption DEF IsForest, TreeKeys
<1>2. InsertBack(h, Nil, k) = [heap |-> New(h, k, Nil), node |-> k]
  BY <1>1, InsertBackOf
<1>3. ASSUME NEW y \in DOMAIN h, Kids(h, y) \subseteq T PROVE y \in T
  <2>1. y \in Nat /\ y # k
    BY <1>1, SidesUnder
  <2>3. /\ BackLeft([heap |-> New(h, k, Nil), node |-> k], y) = AddLeft(New(h, k, y), y, k)
        /\ BackRight([heap |-> New(h, k, Nil), node |-> k], y) = AddRight(New(h, k, y), y, k)
    BY <2>1, LinkedBack
  <2>4. CASE k < y
    <3>1. InsertBack(h, y, k) =
             [heap |-> LET made == InsertBack(h, h[y].l, k)
                       IN IF h[y].l # Nil THEN made.heap ELSE BackLeft(made, y),
              node |-> y]
      <4>1. y # k /\ y > k
        BY <1>1, <2>1, <2>4
      <4> QED  BY <1>1, <4>1, InsertBackOf
    <3>2. InsertNode(h, y, k) = IF h[y].l = Nil THEN [New(h, k, y) EXCEPT ![y].l = k]
                                ELSE InsertNode(h, h[y].l, k)
      BY <1>1, <2>1, <2>4, InsertOf
    <3>3. CASE h[y].l = Nil
      <4>1. InsertBack(h, y, k) = [heap |-> BackLeft([heap |-> New(h, k, Nil), node |-> k], y), node |-> y]
        BY <1>2, <3>1, <3>3
      <4> QED  BY <2>3, <3>2, <3>3, <4>1 DEF AddLeft, AddRight
    <3>4. CASE h[y].l # Nil
      <4>1. InsertBack(h, h[y].l, k) = [heap |-> InsertNode(h, h[y].l, k), node |-> h[y].l]
        BY <1>3, <3>4 DEF Kids
      <4> QED  BY <3>1, <3>2, <3>4, <4>1
    <3> QED  BY <3>3, <3>4
  <2>5. CASE k > y
    <3>1. InsertBack(h, y, k) =
             [heap |-> LET made == InsertBack(h, h[y].r, k)
                       IN IF h[y].r # Nil THEN made.heap ELSE BackRight(made, y),
              node |-> y]
      BY <1>1, <2>1, <2>5, InsertBackOf
    <3>2. InsertNode(h, y, k) = IF h[y].r = Nil THEN [New(h, k, y) EXCEPT ![y].r = k]
                                ELSE InsertNode(h, h[y].r, k)
      BY <1>1, <2>1, <2>5, InsertOf
    <3>3. CASE h[y].r = Nil
      <4>1. InsertBack(h, y, k) = [heap |-> BackRight([heap |-> New(h, k, Nil), node |-> k], y), node |-> y]
        BY <1>2, <3>1, <3>3
      <4> QED  BY <2>3, <3>2, <3>3, <4>1 DEF AddLeft, AddRight
    <3>4. CASE h[y].r # Nil
      <4>1. InsertBack(h, h[y].r, k) = [heap |-> InsertNode(h, h[y].r, k), node |-> h[y].r]
        BY <1>3, <3>4 DEF Kids
      <4> QED  BY <3>1, <3>2, <3>4, <4>1
    <3> QED  BY <3>3, <3>4
  <2> QED  BY <1>1, <2>1, <2>4, <2>5
<1>4. DOMAIN h \subseteq T
  <2> HIDE DEF T
  <2> QED  BY <1>1, <1>3, NodeInduction
<1> QED  BY <1>4

\* What the other two traversals visit.
LEMMA PreorderVisits ==
    ASSUME NEW h, Founded(h), NEW x \in Pointers(h)
    PROVE  Preorder(h, x) \in Seq(DOMAIN h) /\ ToSet(Preorder(h, x)) = Under(h, x)
<1> DEFINE T == {y \in DOMAIN h : Preorder(h, y) \in Seq(DOMAIN h) /\ ToSet(Preorder(h, y)) = Under(h, y)}
<1>1. Preorder(h, Nil) = <<>> /\ Under(h, Nil) = {} /\ <<>> \in Seq(DOMAIN h)
  BY PreorderOf, UnderOf
<1>2. Preorder(h, Nil) \in Seq(DOMAIN h) /\ ToSet(Preorder(h, Nil)) = Under(h, Nil)
  BY <1>1, NoElement
<1>3. ASSUME NEW y \in DOMAIN h, Kids(h, y) \subseteq T PROVE y \in T
  <2>1. \A c \in {h[y].l, h[y].r} : Preorder(h, c) \in Seq(DOMAIN h) /\ ToSet(Preorder(h, c)) = Under(h, c)
    BY <1>2, <1>3 DEF Kids
  <2>2. PICK s, t, u : s = <<y>> /\ t = Preorder(h, h[y].l) /\ u = Preorder(h, h[y].r)
    OBVIOUS
  <2>3. Preorder(h, y) = s \o t \o u
    BY <2>2, PreorderOf
  <2>4. s \in Seq(DOMAIN h) /\ ToSet(s) = {y}
    BY <2>2 DEF ToSet
  <2>5. Under(h, y) = Under(h, h[y].l) \cup Under(h, h[y].r) \cup {y}
    BY UnderOf
  <2>6. t \in Seq(DOMAIN h) /\ u \in Seq(DOMAIN h)
    BY <2>1, <2>2
  <2>7. s \o t \o u \in Seq(DOMAIN h) /\ ToSet(s \o t \o u) = ToSet(s) \cup ToSet(t) \cup ToSet(u)
    BY <2>4, <2>6, ConcatenatedThree
  <2> QED  BY <2>1, <2>2, <2>3, <2>4, <2>5, <2>7
<1>4. DOMAIN h \subseteq T
  <2> HIDE DEF T
  <2> QED  BY <1>3, NodeInduction
<1> QED  BY <1>2, <1>4 DEF Pointers

\* As above.
LEMMA PostorderVisits ==
    ASSUME NEW h, Founded(h), NEW x \in Pointers(h)
    PROVE  Postorder(h, x) \in Seq(DOMAIN h) /\ ToSet(Postorder(h, x)) = Under(h, x)
<1> DEFINE T == {y \in DOMAIN h : Postorder(h, y) \in Seq(DOMAIN h) /\ ToSet(Postorder(h, y)) = Under(h, y)}
<1>1. Postorder(h, Nil) = <<>> /\ Under(h, Nil) = {} /\ <<>> \in Seq(DOMAIN h)
  BY PostorderOf, UnderOf
<1>2. Postorder(h, Nil) \in Seq(DOMAIN h) /\ ToSet(Postorder(h, Nil)) = Under(h, Nil)
  BY <1>1, NoElement
<1>3. ASSUME NEW y \in DOMAIN h, Kids(h, y) \subseteq T PROVE y \in T
  <2>1. \A c \in {h[y].l, h[y].r} :
           Postorder(h, c) \in Seq(DOMAIN h) /\ ToSet(Postorder(h, c)) = Under(h, c)
    BY <1>2, <1>3 DEF Kids
  <2>2. PICK s, t, u : s = Postorder(h, h[y].l) /\ t = Postorder(h, h[y].r) /\ u = <<y>>
    OBVIOUS
  <2>3. Postorder(h, y) = s \o t \o u
    BY <2>2, PostorderOf
  <2>4. u \in Seq(DOMAIN h) /\ ToSet(u) = {y}
    BY <2>2 DEF ToSet
  <2>5. Under(h, y) = Under(h, h[y].l) \cup Under(h, h[y].r) \cup {y}
    BY UnderOf
  <2>6. s \in Seq(DOMAIN h) /\ t \in Seq(DOMAIN h)
    BY <2>1, <2>2
  <2>7. s \o t \o u \in Seq(DOMAIN h) /\ ToSet(s \o t \o u) = ToSet(s) \cup ToSet(t) \cup ToSet(u)
    BY <2>4, <2>6, ConcatenatedThree
  <2> QED  BY <2>1, <2>2, <2>3, <2>4, <2>5, <2>7
<1>4. DOMAIN h \subseteq T
  <2> HIDE DEF T
  <2> QED  BY <1>3, NodeInduction
<1> QED  BY <1>2, <1>4 DEF Pointers

Increasing(s) == \A i, j \in 1..Len(s) : i < j => s[i] < s[j]

\* Increasing sequences one after the other.
LEMMA IncreasingOn ==
    ASSUME NEW s \in Seq(Nat), NEW t \in Seq(Nat), Increasing(s), Increasing(t),
           \A a \in ToSet(s), b \in ToSet(t) : a < b
    PROVE  Increasing(s \o t)
<1> DEFINE u == s \o t
<1>1. /\ u \in Seq(Nat) /\ Len(s) \in Nat /\ Len(t) \in Nat /\ Len(u) = Len(s) + Len(t)
      /\ \A i \in 1 .. Len(s) : u[i] = s[i]
  OBVIOUS
<1>3. ASSUME NEW i \in 1 .. Len(u), i > Len(s)
      PROVE  i - Len(s) \in 1 .. Len(t) /\ u[i] = t[i - Len(s)]
  BY <1>3
<1> HIDE DEF u
<1>2. ASSUME NEW i \in 1 .. Len(u), NEW j \in 1 .. Len(u), i < j PROVE u[i] < u[j]
  <2>0. i \in Int /\ j \in Int
    OBVIOUS
  <2>1. CASE j <= Len(s)
    <3>1. i \in 1 .. Len(s) /\ j \in 1 .. Len(s)
      BY <1>1, <1>2, <2>1
    <3>2. u[i] = s[i] /\ u[j] = s[j] /\ s[i] < s[j]
      BY <1>1, <1>2, <3>1 DEF Increasing
    <3> QED  BY <3>2
  <2>2. CASE i > Len(s)
    <3>1. /\ i - Len(s) \in 1 .. Len(t) /\ j - Len(s) \in 1 .. Len(t) /\ i - Len(s) < j - Len(s)
          /\ u[i] = t[i - Len(s)] /\ u[j] = t[j - Len(s)]
      <4>1. j > Len(s) /\ i - Len(s) < j - Len(s)
        BY <1>1, <1>2, <2>0, <2>2
      <4> QED  BY <1>3, <2>2, <4>1
    <3>2. t[i - Len(s)] < t[j - Len(s)]
      BY <3>1 DEF Increasing
    <3> QED  BY <3>1, <3>2
  <2>3. CASE i <= Len(s) /\ j > Len(s)
    <3>1. /\ i \in 1 .. Len(s) /\ j - Len(s) \in 1 .. Len(t)
          /\ u[i] = s[i] /\ u[j] = t[j - Len(s)]
      <4>0. i \in 1 .. Len(s)
        BY <1>1, <2>0, <2>3
      <4>1. i \in 1 .. Len(s) /\ u[i] = s[i]
        BY <1>1, <4>0
      <4>2. j > Len(s)
        BY <2>3
      <4> QED  BY <1>3, <4>1, <4>2
    <3>2. s[i] \in ToSet(s) /\ t[j - Len(s)] \in ToSet(t)
      BY <3>1 DEF ToSet
    <3> QED  BY <3>1, <3>2
  <2> QED  BY <1>1, <2>0, <2>1, <2>2, <2>3, SMTT(30)
<1> QED  BY <1>2 DEF Increasing, u

\* inorder_traversal visits in order.
LEMMA InorderIncreases ==
    ASSUME NEW h, IsForest(h), NEW x \in Pointers(h)
    PROVE  Increasing(Inorder(h, x))
<1> DEFINE T == {y \in DOMAIN h : Increasing(Inorder(h, y))}
<1>1. Founded(h) /\ \A y \in DOMAIN h : y \in Nat
  BY SidesUnder DEF IsForest
<1>2. Increasing(<<>>) /\ Inorder(h, Nil) = <<>>
  BY <1>1, InorderOf DEF Increasing
<1>3. ASSUME NEW y \in DOMAIN h, Kids(h, y) \subseteq T PROVE y \in T
  <2>1. Increasing(Inorder(h, h[y].l)) /\ Increasing(Inorder(h, h[y].r))
    BY <1>2, <1>3 DEF Kids
  <2>2. PICK s, t, u : s = Inorder(h, h[y].l) /\ t = <<y>> /\ u = Inorder(h, h[y].r)
    OBVIOUS
  <2>3. Inorder(h, y) = s \o t \o u
    BY <1>1, <2>2, InorderOf
  <2>4. /\ s \in Seq(DOMAIN h) /\ ToSet(s) = Under(h, h[y].l)
        /\ u \in Seq(DOMAIN h) /\ ToSet(u) = Under(h, h[y].r)
    BY <1>1, <2>2, KidsAreNodes, InorderVisits
  <2>5. t \in Seq(DOMAIN h) /\ ToSet(t) = {y} /\ Increasing(t)
    BY <2>2 DEF ToSet, Increasing
  <2>6. s \in Seq(Nat) /\ t \in Seq(Nat) /\ u \in Seq(Nat) /\ s \o t \in Seq(Nat)
    BY <1>1, <2>4, <2>5
  <2>7. /\ \A a \in Under(h, h[y].l) : a \in Nat /\ a < y
        /\ \A b \in Under(h, h[y].r) : b \in Nat /\ y < b
        /\ y \in Nat
    BY SidesUnder
  <2>8. Increasing(s \o t)
    BY <2>1, <2>2, <2>4, <2>5, <2>6, <2>7, IncreasingOn
  <2>9. ToSet(s \o t) = ToSet(s) \cup ToSet(t)
    BY <2>6, Concatenated
  <2>10. \A a \in ToSet(s \o t), b \in ToSet(u) : a < b
    BY <2>4, <2>5, <2>7, <2>9
  <2>11. PICK v : v = s \o t
    OBVIOUS
  <2>12. Increasing(v \o u)
    BY <2>1, <2>2, <2>6, <2>8, <2>10, <2>11, IncreasingOn
  <2> QED  BY <2>3, <2>11, <2>12
<1>4. DOMAIN h \subseteq T
  <2> HIDE DEF T
  <2> QED  BY <1>1, <1>3, NodeInduction
<1> QED  BY <1>2, <1>4 DEF Pointers

\* The nodes above a node of the tree.
Above(h, n) == {x \in contents \ {n} : n \in Under(h, x)}

\* The nodes of the tree are finitely many.
LEMMA FinitelyMany ==
    ASSUME StInv
    PROVE  /\ IsFiniteSet(DOMAIN heap) /\ Cardinality(DOMAIN heap) \in Nat
           /\ \A S : S \subseteq DOMAIN heap => IsFiniteSet(S) /\ Cardinality(S) \in Nat
<1>1. DOMAIN heap \subseteq 1 .. MaxTreeKey
  BY DEF StInv, TreeShape, IsForest, IsHeap, TreeKeys
<1>2. IsFiniteSet(1 .. MaxTreeKey)
  BY FS_Interval, TreeAssumption
<1>3. IsFiniteSet(DOMAIN heap)
  BY <1>1, <1>2, FS_Subset
<1> QED  BY <1>3, FS_Subset, FS_CardinalityType

\* How deep the nodes are.
LEMMA Depths ==
    ASSUME StInv
    PROVE  /\ \A x \in contents : Depth(heap, x) \in Nat
           /\ top # Nil => Depth(heap, top) = 0
           /\ \A x \in contents : \A c \in Kids(heap, x) :
                 c \in contents /\ Depth(heap, c) = Depth(heap, x) + 1
           /\ \A x, y \in contents : x # y /\ y \in Under(heap, x) => Depth(heap, x) < Depth(heap, y)
<1>1. /\ IsForest(heap) /\ OneParent(heap) /\ Founded(heap) /\ TopIsRoot
      /\ contents = Under(heap, top)
  BY DEF StInv, TreeShape, IsForest
<1>2. /\ contents \subseteq DOMAIN heap /\ (top = Nil <=> contents = {})
      /\ \A x \in contents : Under(heap, x) \subseteq contents
  BY TreeIsClosed
<1>3. \A x : Depth(heap, x) = Cardinality(Above(heap, x)) /\ Above(heap, x) \subseteq DOMAIN heap
  BY <1>2 DEF Depth, Above
<1>4. \A x : IsFiniteSet(Above(heap, x)) /\ Depth(heap, x) \in Nat
  BY <1>3, FinitelyMany
<1>5. ASSUME top # Nil PROVE Depth(heap, top) = 0
  <2>1. top \in DOMAIN heap
    BY <1>1, <1>5 DEF TopIsRoot, Pointers
  <2>2. Above(heap, top) = {}
    BY <1>1, <1>2, <2>1, NoCycle DEF Above
  <2> QED  BY <1>3, <2>2, FS_EmptySet
<1>6. ASSUME NEW x \in contents, NEW c \in Kids(heap, x)
      PROVE  c \in contents /\ Depth(heap, c) = Depth(heap, x) + 1
  <2>1. x \in DOMAIN heap /\ c \in DOMAIN heap /\ c # x /\ c \in Under(heap, x) /\ x \notin Under(heap, c)
    BY <1>1, <1>2, NotAboveParent
  <2>2. c \in contents
    BY <1>2, <2>1
  <2>3. ASSUME NEW y \in Above(heap, c) PROVE y = x \/ y \in Above(heap, x)
    <3>1. y \in contents /\ y \in DOMAIN heap /\ y # c /\ c \in Under(heap, y)
      BY <1>2, <2>3 DEF Above
    <3>2. PICK z \in Under(heap, y) : c \in Kids(heap, z)
      BY <1>1, <3>1, ParentBelow
    <3>3. z = x
      BY <1>1, <1>2, <1>6, <2>1, <3>1, <3>2 DEF OneParent
    <3> QED  BY <3>1, <3>2, <3>3 DEF Above
  <2>4. ASSUME NEW y \in Above(heap, x) PROVE y \in Above(heap, c)
    <3>1. y \in contents /\ y \in DOMAIN heap /\ y # x /\ x \in Under(heap, y)
      BY <1>2, <2>4 DEF Above
    <3>2. Under(heap, x) \subseteq Under(heap, y)
      BY <1>1, <3>1, UnderTransitive
    <3>3. y # c
      BY <2>1, <3>1
    <3> QED  BY <2>1, <3>1, <3>2, <3>3 DEF Above
  <2>5. Above(heap, c) = Above(heap, x) \cup {x} /\ x \notin Above(heap, x)
    BY <2>1, <2>3, <2>4 DEF Above
  <2> QED  BY <1>3, <1>4, <2>2, <2>5, FS_AddElement
<1>7. ASSUME NEW x \in contents, NEW y \in contents, x # y, y \in Under(heap, x)
      PROVE  Depth(heap, x) < Depth(heap, y)
  <2>1. ASSUME NEW z \in Above(heap, x) PROVE z \in Above(heap, y)
    <3>1. z \in contents /\ z \in DOMAIN heap /\ z # x /\ x \in Under(heap, z) /\ x \in DOMAIN heap
      BY <1>2, <2>1 DEF Above
    <3>2. Under(heap, x) \subseteq Under(heap, z)
      BY <1>1, <3>1, UnderTransitive
    <3>3. z # y
      BY <1>1, <1>7, <3>1, NoCycle
    <3> QED  BY <1>7, <3>1, <3>2, <3>3 DEF Above
  <2>2. x \in Above(heap, y) /\ x \notin Above(heap, x)
    BY <1>7 DEF Above
  <2>3. Above(heap, x) \cup {x} \in SUBSET Above(heap, y)
    BY <2>1, <2>2
  <2>4. Cardinality(Above(heap, x) \cup {x}) <= Cardinality(Above(heap, y))
    BY <1>4, <2>3, FS_Subset
  <2>5. Cardinality(Above(heap, x) \cup {x}) = Cardinality(Above(heap, x)) + 1
    BY <1>4, <2>2, FS_AddElement
  <2>6. Depth(heap, x) = Cardinality(Above(heap, x)) /\ Depth(heap, y) = Cardinality(Above(heap, y))
        /\ Depth(heap, x) \in Nat /\ Depth(heap, y) \in Nat
    BY <1>3, <1>4
  <2> QED  BY <2>4, <2>5, <2>6
<1> QED  BY <1>4, <1>5, <1>6, <1>7

Turning(f, N, h, a) == f = [i \in 0 .. N |-> IF i = 0 THEN a ELSE LevelTurn(h, f[i - 1])]

\* The turns of level_order_traversal from any queue on.
LEMMA TurnsExist ==
    ASSUME NEW N \in Nat, NEW h, NEW a
    PROVE  \E f : Turning(f, N, h, a)
<1> DEFINE S == {m \in 0 .. N : \E f : f = [i \in 0 .. m |-> IF i = 0 THEN a ELSE LevelTurn(h, f[i - 1])]}
<1>1. 0 \in S
  <2>1. PICK f : f = [i \in 0 .. 0 |-> a]
    OBVIOUS
  <2>2. f = [i \in 0 .. 0 |-> IF i = 0 THEN a ELSE LevelTurn(h, f[i - 1])]
    BY <2>1
  <2> QED  BY <2>2
<1>2. ASSUME NEW m \in S, m < N PROVE m + 1 \in S
  <2>1. PICK f : f = [i \in 0 .. m |-> IF i = 0 THEN a ELSE LevelTurn(h, f[i - 1])]
    OBVIOUS
  <2>2. PICK g : g = [i \in 0 .. m + 1 |-> IF i = 0 THEN a ELSE LevelTurn(h, f[i - 1])]
    OBVIOUS
  <2>3. \A i \in 0 .. m : g[i] = f[i]
    BY <2>1, <2>2
  <2>4. \A i \in 0 .. m + 1 : i # 0 => i - 1 \in 0 .. m
    OBVIOUS
  <2>5. g = [i \in 0 .. m + 1 |-> IF i = 0 THEN a ELSE LevelTurn(h, g[i - 1])]
    BY <2>2, <2>3, <2>4
  <2> QED  BY <1>2, <2>5
<1>3. S = 0 .. N
  <2>1. S \subseteq 0 .. N
    OBVIOUS
  <2> HIDE DEF S
  <2> QED  BY <1>1, <1>2, <2>1, UpTo
<1>4. N \in S
  <2> HIDE DEF S
  <2> QED  BY <1>3
<1> QED  BY <1>4 DEF Turning

Turning1(f, N, h, a) == f = [i \in 0 .. N |-> IF i = 0 THEN a ELSE LevelTurn1(h, f[i - 1])]

\* As above, for level_order_traversal1.
LEMMA TurnsExist1 ==
    ASSUME NEW N \in Nat, NEW h, NEW a
    PROVE  \E f : Turning1(f, N, h, a)
<1> DEFINE S == {m \in 0 .. N : \E f : f = [i \in 0 .. m |-> IF i = 0 THEN a ELSE LevelTurn1(h, f[i - 1])]}
<1>1. 0 \in S
  <2>1. PICK f : f = [i \in 0 .. 0 |-> a]
    OBVIOUS
  <2>2. f = [i \in 0 .. 0 |-> IF i = 0 THEN a ELSE LevelTurn1(h, f[i - 1])]
    BY <2>1
  <2> QED  BY <2>2
<1>2. ASSUME NEW m \in S, m < N PROVE m + 1 \in S
  <2>1. PICK f : f = [i \in 0 .. m |-> IF i = 0 THEN a ELSE LevelTurn1(h, f[i - 1])]
    OBVIOUS
  <2>2. PICK g : g = [i \in 0 .. m + 1 |-> IF i = 0 THEN a ELSE LevelTurn1(h, f[i - 1])]
    OBVIOUS
  <2>3. \A i \in 0 .. m : g[i] = f[i]
    BY <2>1, <2>2
  <2>4. \A i \in 0 .. m + 1 : i # 0 => i - 1 \in 0 .. m
    OBVIOUS
  <2>5. g = [i \in 0 .. m + 1 |-> IF i = 0 THEN a ELSE LevelTurn1(h, g[i - 1])]
    BY <2>2, <2>3, <2>4
  <2> QED  BY <1>2, <2>5
<1>3. S = 0 .. N
  <2>1. S \subseteq 0 .. N
    OBVIOUS
  <2> HIDE DEF S
  <2> QED  BY <1>1, <1>2, <2>1, UpTo
<1>4. N \in S
  <2> HIDE DEF S
  <2> QED  BY <1>3
<1> QED  BY <1>4 DEF Turning1

Turns(turn, h, n, N) ==
    /\ turn[0] = [visited |-> <<>>, cells |-> <<n, Nil>>]
    /\ \A i \in 0 .. N - 1 : turn[i + 1] = LevelTurn(h, turn[i])
    /\ LevelOrder(h, n) = turn[N].visited

\* What level_order_traversal has visited when it stops.
LEMMA LevelOrderEnds ==
    ASSUME NEW h, NEW n, NEW N \in Nat, N = Cardinality(DOMAIN h) + 2
    PROVE  \E turn : Turns(turn, h, n, N)
<1> DEFINE a == [visited |-> <<>>, cells |-> <<n, Nil>>]
           Step(f) == f = [i \in 0 .. N |-> IF i = 0 THEN a ELSE LevelTurn(h, f[i - 1])]
           turn == CHOOSE f : Step(f)
<1>1. LevelOrder(h, n) = turn[N].visited
  BY DEF LevelOrder
<1> HIDE DEF a
<1>2. \E f : Step(f)
  <2>1. PICK f : Turning(f, N, h, a)
    BY TurnsExist
  <2> QED  BY <2>1 DEF Turning
<1>3. Step(turn)
  <2> HIDE DEF Step
  <2> QED  BY <1>2
<1> HIDE DEF turn
<1>4. turn[0] = a
  BY <1>3
<1>5. ASSUME NEW i \in 0 .. N - 1 PROVE turn[i + 1] = LevelTurn(h, turn[i])
  <2>1. i + 1 \in 0 .. N /\ i + 1 # 0 /\ (i + 1) - 1 = i
    OBVIOUS
  <2> QED  BY <1>3, <2>1
<1> QED  BY <1>1, <1>4, <1>5 DEF a, Turns

Turns1(turn, h, n, N) ==
    /\ turn[0] = [visited |-> <<>>, cells |-> <<n>>]
    /\ \A i \in 0 .. N - 1 : turn[i + 1] = LevelTurn1(h, turn[i])
    /\ LevelOrder1(h, n) = turn[N].visited

\* As above, for level_order_traversal1.
LEMMA LevelOrder1Ends ==
    ASSUME NEW h, NEW n, NEW N \in Nat, N = Cardinality(DOMAIN h)
    PROVE  \E turn : Turns1(turn, h, n, N)
<1> DEFINE a == [visited |-> <<>>, cells |-> <<n>>]
           Step(f) == f = [i \in 0 .. N |-> IF i = 0 THEN a ELSE LevelTurn1(h, f[i - 1])]
           turn == CHOOSE f : Step(f)
<1>1. LevelOrder1(h, n) = turn[N].visited
  BY DEF LevelOrder1
<1> HIDE DEF a
<1>2. \E f : Step(f)
  <2>1. PICK f : Turning1(f, N, h, a)
    BY TurnsExist1
  <2> QED  BY <2>1 DEF Turning1
<1>3. Step(turn)
  <2> HIDE DEF Step
  <2> QED  BY <1>2
<1> HIDE DEF turn
<1>4. turn[0] = a
  BY <1>3
<1>5. ASSUME NEW i \in 0 .. N - 1 PROVE turn[i + 1] = LevelTurn1(h, turn[i])
  <2>1. i + 1 \in 0 .. N /\ i + 1 # 0 /\ (i + 1) - 1 = i
    OBVIOUS
  <2> QED  BY <1>3, <2>1
<1> QED  BY <1>1, <1>4, <1>5 DEF a, Turns1

\* The children of a node, in the order in which they are queued.
LEMMA BelowIs ==
    ASSUME NEW h, IsForest(h), NEW x \in DOMAIN h
    PROVE  /\ Below(h, x) \in Seq(Kids(h, x)) /\ Len(Below(h, x)) \in Nat
           /\ \A i, j \in 1 .. Len(Below(h, x)) : i < j => Below(h, x)[i] < Below(h, x)[j]
           /\ \A c \in Kids(h, x) : \E i \in 1 .. Len(Below(h, x)) : Below(h, x)[i] = c
<1>1. h[x].l # Nil => h[x].l \in Under(h, h[x].l)
  BY UnderNodes, KidsAreNodes DEF IsForest, Pointers
<1>2. h[x].r # Nil => h[x].r \in Under(h, h[x].r)
  BY UnderNodes, KidsAreNodes DEF IsForest, Pointers
<1>3. h[x].l # Nil /\ h[x].r # Nil => h[x].l < h[x].r
  <2>1. \A y \in Under(h, x) : y \in Nat
    BY SidesUnder
  <2> QED  BY <1>1, <1>2, <2>1, SidesUnder
<1>4. CASE h[x].l = Nil /\ h[x].r = Nil
  <2>1. Below(h, x) = <<>> /\ Kids(h, x) = {}
    BY <1>4 DEF Below, Child, Kids
  <2> QED  BY <2>1
<1>5. CASE h[x].l # Nil /\ h[x].r = Nil
  <2>1. Below(h, x) = <<h[x].l>> /\ Kids(h, x) = {h[x].l}
    BY <1>5 DEF Below, Child, Kids
  <2> QED  BY <2>1
<1>6. CASE h[x].l = Nil /\ h[x].r # Nil
  <2>1. Below(h, x) = <<h[x].r>> /\ Kids(h, x) = {h[x].r}
    BY <1>6 DEF Below, Child, Kids
  <2> QED  BY <2>1
<1>7. CASE h[x].l # Nil /\ h[x].r # Nil
  <2>1. Kids(h, x) = {h[x].l, h[x].r}
    BY <1>7 DEF Kids
  <2>2. Child(h[x].l) = <<h[x].l>> /\ Child(h[x].r) = <<h[x].r>>
    BY <1>7 DEF Child
  <2>3. PICK l, r : l = h[x].l /\ r = h[x].r
    OBVIOUS
  <2>4. PICK u : u = <<l>> \o <<r>>
    OBVIOUS
  <2>5. u \in Seq({l, r}) /\ Len(u) = 2 /\ Len(u) \in Nat /\ u[1] = l /\ u[2] = r
    BY <2>4
  <2>6. Below(h, x) = u /\ Kids(h, x) = {l, r} /\ l < r
    BY <1>3, <1>7, <2>1, <2>2, <2>3, <2>4 DEF Below
  <2>7. 1 \in 1 .. 2 /\ 2 \in 1 .. 2 /\ 1 .. 2 = {1, 2}
    OBVIOUS
  <2>8. \A i, j \in 1 .. Len(u) : i < j => u[i] < u[j]
    BY <2>5, <2>6, <2>7
  <2>9. \A c \in {l, r} : \E i \in 1 .. Len(u) : u[i] = c
    BY <2>5, <2>7
  <2>10. u \in Seq(Kids(h, x)) /\ Len(u) \in Nat
    BY <2>5, <2>6, Zenon
  <2>11. \A c \in Kids(h, x) : \E i \in 1 .. Len(u) : u[i] = c
    BY <2>6, <2>9, Zenon
  <2> QED  BY <2>6, <2>8, <2>10, <2>11, Zenon
<1> QED  BY <1>4, <1>5, <1>6, <1>7

\* By depth, and by key where the depth is the same.
Before2(x, y) == \/ Depth(heap, x) < Depth(heap, y)
                 \/ Depth(heap, x) = Depth(heap, y) /\ x < y

\* The nodes that were queued, of which the first i were visited: the root, and the children of
\* those visited.
Queued(w, i) ==
    /\ w \in Seq(contents) /\ i \in 0 .. Len(w) /\ Len(w) >= 1 /\ w[1] = top
    /\ \A a \in 2 .. Len(w) : \E b \in 1 .. i : w[a] \in Kids(heap, w[b])
    /\ \A b \in 1 .. i : \A c \in Kids(heap, w[b]) : \E a \in 1 .. Len(w) : w[a] = c
    /\ \A a, b \in 1 .. Len(w) : a < b => Before2(w[a], w[b])

\* A child of the next node comes after all that was queued.
LEMMA ChildIsLast ==
    ASSUME StInv, NEW w, NEW i, Queued(w, i), i < Len(w), NEW c \in Kids(heap, w[i + 1]),
           NEW a \in 1 .. Len(w)
    PROVE  Before2(w[a], c)
<1>1. /\ w \in Seq(contents) /\ i \in Nat /\ Len(w) \in Nat /\ i + 1 \in 1 .. Len(w) /\ w[1] = top
      /\ \A b \in 1 .. Len(w) : w[b] \in contents
  BY DEF Queued
<1>2. IsForest(heap) /\ Founded(heap) /\ contents \subseteq DOMAIN heap /\ contents = Under(heap, top)
      /\ top \in DOMAIN heap /\ top # Nil
  BY <1>1, TreeIsClosed, KidsAreNodes DEF StInv, TreeShape, IsForest, TopIsRoot, Pointers
<1>3. PICK n \in contents : n = w[i + 1]
  BY <1>1
<1>4. c \in contents /\ Depth(heap, c) = Depth(heap, n) + 1 /\ Depth(heap, n) \in Nat
  BY <1>3, Depths
<1>5. CASE a = 1
  BY <1>1, <1>2, <1>4, <1>5, Depths DEF Before2
<1>6. CASE a # 1
  <2>1. PICK b \in 1 .. i : w[a] \in Kids(heap, w[b])
    BY <1>6 DEF Queued
  <2>2. b \in 1 .. Len(w) /\ b < i + 1
    BY <1>1
  <2>3. PICK m \in contents : m = w[b]
    BY <1>1, <2>2
  <2>4. Depth(heap, w[a]) = Depth(heap, m) + 1 /\ Depth(heap, m) \in Nat
    BY <2>1, <2>3, Depths
  <2>5. Before2(m, n)
    BY <1>1, <1>3, <2>2, <2>3 DEF Queued
  <2>6. CASE Depth(heap, m) < Depth(heap, n)
    BY <1>4, <2>4, <2>6 DEF Before2
  <2>7. CASE Depth(heap, m) = Depth(heap, n) /\ m < n
    <3>1. m \in Nat /\ n \in Nat /\ m # n
      BY <1>2, <2>7, SidesUnder
    <3>2. m \notin Under(heap, n) /\ n \notin Under(heap, m)
      BY <1>4, <2>4, <2>7, <3>1, Depths
    <3>3. m \in Under(heap, m) /\ w[a] \in Under(heap, m) /\ n \in Under(heap, n) /\ c \in Under(heap, n)
      BY <1>2, <1>3, <2>1, <2>3, NotAboveParent, UnderNodes
    <3>4. ~(m > n)
      BY <2>7, <3>1
    <3>5. w[a] < c
      BY <1>2, <3>2, <3>3, <3>4, NestedOrApart
    <3> QED  BY <1>4, <2>4, <2>7, <3>5 DEF Before2
  <2> QED  BY <2>5, <2>6, <2>7 DEF Before2
<1> QED  BY <1>5, <1>6

\* Visiting the next node.
LEMMA QueuedOn ==
    ASSUME StInv, NEW w, NEW i, Queued(w, i), i < Len(w)
    PROVE  Queued(w \o Below(heap, w[i + 1]), i + 1)
<1>1. /\ w \in Seq(contents) /\ i \in Nat /\ Len(w) \in Nat /\ i + 1 \in 1 .. Len(w) /\ w[1] = top
      /\ Len(w) >= 1
      /\ \A a \in 1 .. Len(w) : w[a] \in contents
  BY DEF Queued
<1>2. IsForest(heap) /\ contents \subseteq DOMAIN heap
  BY TreeIsClosed DEF StInv, TreeShape
<1>3. PICK n \in contents : n = w[i + 1]
  BY <1>1
<1>4. PICK v : v = Below(heap, n)
  OBVIOUS
<1>5. /\ v \in Seq(Kids(heap, n)) /\ Len(v) \in Nat
      /\ \A a, b \in 1 .. Len(v) : a < b => v[a] < v[b]
      /\ \A c \in Kids(heap, n) : \E a \in 1 .. Len(v) : v[a] = c
  BY <1>2, <1>4, BelowIs
<1>6. \A c \in Kids(heap, n) : c \in contents /\ Depth(heap, c) = Depth(heap, n) + 1
  BY Depths
<1>7. v \in Seq(contents) /\ \A a \in 1 .. Len(v) : v[a] \in Kids(heap, n)
  BY <1>5, <1>6
<1>8. PICK u : u = w \o v
  OBVIOUS
<1>9. /\ u \in Seq(contents) /\ Len(u) = Len(w) + Len(v)
      /\ \A a \in 1 .. Len(w) : u[a] = w[a]
  BY <1>1, <1>7, <1>8
<1>10. ASSUME NEW a \in 1 .. Len(u), a > Len(w)
       PROVE  a - Len(w) \in 1 .. Len(v) /\ u[a] = v[a - Len(w)] /\ u[a] \in Kids(heap, n)
  <2>1. a - Len(w) \in 1 .. Len(v) /\ u[a] = v[a - Len(w)]
    BY <1>1, <1>7, <1>8, <1>9, <1>10
  <2> QED  BY <1>7, <2>1
<1>11. \A a \in 1 .. Len(u) : a \in 1 .. Len(w) \/ a > Len(w)
  BY <1>1, <1>5, <1>9
<1>12. ASSUME NEW a \in 2 .. Len(u) PROVE \E b \in 1 .. i + 1 : u[a] \in Kids(heap, u[b])
  <2>1. u[i + 1] = n /\ i + 1 \in 1 .. i + 1 /\ a \in 1 .. Len(u)
    BY <1>1, <1>3, <1>9
  <2>2. CASE a > Len(w)
    BY <1>10, <2>1, <2>2
  <2>3. CASE a \in 1 .. Len(w)
    <3>1. PICK b \in 1 .. i : w[a] \in Kids(heap, w[b])
      BY <2>3 DEF Queued
    <3>2. b \in 1 .. i + 1 /\ b \in 1 .. Len(w)
      BY <1>1
    <3> QED  BY <1>9, <2>3, <3>1, <3>2
  <2> QED  BY <1>11, <2>1, <2>2, <2>3
<1>13. ASSUME NEW b \in 1 .. i + 1, NEW c \in Kids(heap, u[b]) PROVE \E a \in 1 .. Len(u) : u[a] = c
  <2>1. b \in 1 .. Len(w) /\ u[b] = w[b]
    BY <1>1, <1>9
  <2>2. CASE b = i + 1
    <3>1. PICK a \in 1 .. Len(v) : v[a] = c
      BY <1>3, <1>5, <1>13, <2>1, <2>2
    <3>2. a + Len(w) \in 1 .. Len(u) /\ a + Len(w) > Len(w) /\ (a + Len(w)) - Len(w) = a
      <4>1. Len(w) \in Nat /\ Len(v) \in Nat /\ Len(u) = Len(w) + Len(v) /\ a \in 1 .. Len(v)
        BY <1>1, <1>5, <1>9
      <4> QED  BY <4>1
    <3> QED  BY <1>10, <3>1, <3>2
  <2>3. CASE b # i + 1
    <3>1. b \in 1 .. i
      BY <1>1, <2>3
    <3>2. PICK a \in 1 .. Len(w) : w[a] = c
      BY <1>13, <2>1, <3>1 DEF Queued
    <3>3. a \in 1 .. Len(u)
      BY <1>1, <1>5, <1>9
    <3> QED  BY <1>9, <3>2, <3>3
  <2> QED  BY <2>2, <2>3
<1>14. ASSUME NEW a \in 1 .. Len(u), NEW b \in 1 .. Len(u), a < b PROVE Before2(u[a], u[b])
  <2>1. CASE a \in 1 .. Len(w) /\ b \in 1 .. Len(w)
    BY <1>9, <1>14, <2>1 DEF Queued
  <2>2. CASE a \in 1 .. Len(w) /\ b > Len(w)
    BY <1>3, <1>9, <1>10, <2>2, ChildIsLast
  <2>3. CASE a > Len(w)
    <3>1. b > Len(w) /\ a - Len(w) < b - Len(w)
      BY <1>1, <1>14, <2>3
    <3>2. u[a] < u[b] /\ u[a] \in Kids(heap, n) /\ u[b] \in Kids(heap, n)
      BY <1>5, <1>10, <2>3, <3>1
    <3> QED  BY <1>6, <3>2 DEF Before2
  <2> QED  BY <1>1, <1>11, <1>14, <2>1, <2>2, <2>3
<1>15. Len(u) \in Nat /\ i + 1 \in 0 .. Len(u) /\ Len(u) >= 1 /\ u[1] = top
  BY <1>1, <1>5, <1>9
<1> QED  BY <1>3, <1>4, <1>8, <1>9, <1>12, <1>13, <1>14, <1>15 DEF Queued

\* When all that was queued was visited, it is the tree, each node once.
LEMMA QueuedAll ==
    ASSUME StInv, NEW w, NEW i, Queued(w, i)
    PROVE  /\ Len(w) <= Cardinality(contents)
           /\ i = Len(w) => ToSet(w) = contents /\ Len(w) = Cardinality(contents)
<1>1. /\ w \in Seq(contents) /\ i \in Nat /\ Len(w) \in Nat /\ w[1] = top /\ 1 \in 1 .. Len(w)
      /\ w \in [1 .. Len(w) -> contents]
  BY DEF Queued
<1>2. /\ IsForest(heap) /\ Founded(heap) /\ contents \subseteq DOMAIN heap
      /\ contents = Under(heap, top) /\ top \in contents
      /\ \A x \in DOMAIN heap : Kids(heap, x) \subseteq DOMAIN heap
  BY <1>1, TreeIsClosed, KidsAreNodes DEF StInv, TreeShape, IsForest, Kids, Pointers
<1>3. ASSUME NEW a \in 1 .. Len(w), NEW b \in 1 .. Len(w), a < b PROVE w[a] # w[b]
  <2>1. Before2(w[a], w[b]) /\ w[a] \in contents
    BY <1>1, <1>3 DEF Queued
  <2>2. Depth(heap, w[a]) \in Nat /\ w[a] \in Nat
    BY <1>2, <2>1, Depths, SidesUnder
  <2> QED  BY <2>1, <2>2 DEF Before2
<1>4. w \in Injection(1 .. Len(w), contents)
  <2>1. \A a, b \in 1 .. Len(w) : w[a] = w[b] => a = b
    BY <1>1, <1>3
  <2> QED  BY <1>1, <2>1 DEF Injection, IsInjective
<1>5. IsFiniteSet(contents)
  BY <1>2, FinitelyMany
<1>6. Cardinality(1 .. Len(w)) = Len(w)
  BY <1>1, FS_Interval
<1>7. Len(w) <= Cardinality(contents) /\ (w \in Surjection(1 .. Len(w), contents) => Len(w) = Cardinality(contents))
  BY <1>4, <1>5, <1>6, FS_Injection
<1>8. CASE i = Len(w)
  <2> DEFINE T == {x \in DOMAIN heap : x \in ToSet(w) => Under(heap, x) \subseteq ToSet(w)}
  <2>1. ASSUME NEW x \in DOMAIN heap, Kids(heap, x) \subseteq T PROVE x \in T
    <3> SUFFICES ASSUME x \in ToSet(w) PROVE Under(heap, x) \subseteq ToSet(w)
      OBVIOUS
    <3>1. PICK b \in 1 .. Len(w) : w[b] = x
      BY DEF ToSet
    <3>2. ASSUME NEW c \in Kids(heap, x) PROVE c \in ToSet(w)
      <4>1. b \in 1 .. i /\ c \in Kids(heap, w[b])
        BY <1>8, <3>1
      <4>2. PICK a \in 1 .. Len(w) : w[a] = c
        BY <4>1 DEF Queued
      <4> QED  BY <4>2 DEF ToSet
    <3>3. \A c \in {heap[x].l, heap[x].r} : Under(heap, c) \subseteq ToSet(w)
      BY <1>2, <2>1, <3>2, UnderOf DEF Kids
    <3> QED  BY <1>2, <3>3, UnderOf
  <2>2. DOMAIN heap \subseteq T
    <3> HIDE DEF T
    <3> QED  BY <1>2, <2>1, NodeInduction
  <2>3. top \in ToSet(w) /\ top \in DOMAIN heap
    BY <1>1, <1>2 DEF ToSet
  <2>4. contents \subseteq ToSet(w)
    BY <1>2, <2>2, <2>3
  <2>5. ToSet(w) \subseteq contents
    BY <1>1 DEF ToSet
  <2>6. w \in Surjection(1 .. Len(w), contents)
    BY <1>1, <2>4 DEF Surjection, ToSet
  <2> QED  BY <1>7, <2>4, <2>5, <2>6
<1> QED  BY <1>7, <1>8

Moved(u, c, b, z, S) ==
    /\ u = Front(Tail(c)) \o b \o <<z>>
    /\ u \in Seq(S) /\ Len(u) = Len(c) + Len(b) - 1 /\ u[Len(u)] = z
    /\ \A j \in 1 .. Len(c) - 2 : u[j] = c[j + 1]
    /\ \A j \in 1 .. Len(b) : u[Len(c) - 2 + j] = b[j]

\* The last cell is dropped, what is queued is put in its place, and a new last cell follows.
LEMMA QueueMoves ==
    ASSUME NEW S, NEW c \in Seq(S), NEW b \in Seq(S), NEW z \in S, Len(c) >= 2
    PROVE  \E u : Moved(u, c, b, z, S)
<1>1. PICK t : t = Tail(c)
  OBVIOUS
<1>2. t \in Seq(S) /\ Len(t) = Len(c) - 1 /\ Len(c) \in Nat /\ Len(b) \in Nat
      /\ \A j \in 1 .. Len(t) : t[j] = c[j + 1]
  BY <1>1
<1>3. PICK f : f = Front(t)
  OBVIOUS
<1>4. f \in Seq(S) /\ Len(f) = Len(c) - 2 /\ \A j \in 1 .. Len(f) : f[j] = t[j]
  BY <1>2, <1>3 DEF Front
<1>5. PICK g : g = f \o b
  OBVIOUS
<1>6. /\ g \in Seq(S) /\ Len(g) = Len(f) + Len(b)
      /\ \A j \in 1 .. Len(f) : g[j] = f[j]
      /\ \A j \in 1 .. Len(b) : g[Len(f) + j] = b[j]
  <2>1. g \in Seq(S) /\ Len(g) = Len(f) + Len(b) /\ \A j \in 1 .. Len(f) : g[j] = f[j]
    BY <1>2, <1>4, <1>5
  <2>2. ASSUME NEW j \in 1 .. Len(b) PROVE g[Len(f) + j] = b[j]
    <3>1. Len(f) + j \in 1 .. Len(f) + Len(b) /\ Len(f) + j > Len(f) /\ (Len(f) + j) - Len(f) = j
      BY <1>2, <1>4
    <3> QED  BY <1>2, <1>4, <1>5, <3>1
  <2> QED  BY <2>1, <2>2
<1>7. PICK u : u = g \o <<z>>
  OBVIOUS
<1>8. /\ u \in Seq(S) /\ Len(u) = Len(g) + 1 /\ u[Len(g) + 1] = z
      /\ \A j \in 1 .. Len(g) : u[j] = g[j]
  <2>1. <<z>> \in Seq(S) /\ Len(<<z>>) = 1 /\ <<z>>[1] = z
    OBVIOUS
  <2>2. u \in Seq(S) /\ Len(u) = Len(g) + 1
    BY <1>6, <1>7, <2>1
  <2>3. u[Len(g) + 1] = z
    BY <1>6, <1>7, <2>1
  <2>4. ASSUME NEW j \in 1 .. Len(g) PROVE u[j] = g[j]
    BY <1>6, <1>7, <2>1
  <2> QED  BY <2>2, <2>3, <2>4
<1>9. \A j \in 1 .. Len(c) - 2 : u[j] = c[j + 1]
  <2>1. \A j \in 1 .. Len(c) - 2 : j \in 1 .. Len(f) /\ j \in 1 .. Len(t) /\ j \in 1 .. Len(g)
    BY <1>2, <1>4, <1>6
  <2> QED  BY <1>2, <1>4, <1>6, <1>8, <2>1
<1>10. \A j \in 1 .. Len(b) : u[Len(c) - 2 + j] = b[j]
  <2>1. \A j \in 1 .. Len(b) : Len(f) + j \in 1 .. Len(g)
    BY <1>2, <1>4, <1>6
  <2> QED  BY <1>2, <1>4, <1>6, <1>8, <2>1
<1>11. Len(u) = Len(c) + Len(b) - 1
  BY <1>2, <1>4, <1>6, <1>8
<1>12. u = Front(Tail(c)) \o b \o <<z>>
  BY <1>1, <1>3, <1>5, <1>7
<1>13. u \in Seq(S) /\ u[Len(u)] = z
  BY <1>6, <1>8
<1> QED  BY <1>9, <1>10, <1>11, <1>12, <1>13 DEF Moved

\* The first i of the nodes queued were visited; the others wait, with an empty cell behind.
Waits(v, c, w, i) ==
    /\ v \in Seq(contents) /\ Len(v) = i /\ \A j \in 1 .. i : v[j] = w[j]
    /\ c \in Seq(contents \cup {Nil}) /\ Len(c) = Len(w) - i + 1 /\ c[Len(c)] = Nil
    /\ \A j \in 1 .. Len(w) - i : c[j] = w[i + j]

InTurn(q, w, i) == \E v, c : q = [visited |-> v, cells |-> c] /\ Waits(v, c, w, i)

\* All that was queued was visited, and the queue is empty.
AllVisited(q, w) ==
    \E v : /\ q = [visited |-> v, cells |-> <<>>] /\ v \in Seq(contents) /\ Len(v) = Len(w)
           /\ \A j \in 1 .. Len(w) : v[j] = w[j]

\* A turn visits the next node.
LEMMA TurnVisits ==
    ASSUME StInv, NEW w, NEW i, Queued(w, i), i < Len(w), NEW q, InTurn(q, w, i)
    PROVE  InTurn(LevelTurn(heap, q), w \o Below(heap, w[i + 1]), i + 1)
<1>1. PICK v, c : q = [visited |-> v, cells |-> c] /\ Waits(v, c, w, i)
  BY DEF InTurn
<1>2. /\ w \in Seq(contents) /\ i \in Nat /\ Len(w) \in Nat /\ i + 1 \in 1 .. Len(w)
      /\ \A a \in 1 .. Len(w) : w[a] \in contents
  BY DEF Queued
<1>3. IsForest(heap) /\ Founded(heap) /\ contents \subseteq DOMAIN heap
  BY TreeIsClosed DEF StInv, TreeShape, IsForest
<1>4. PICK n \in contents : n = w[i + 1]
  BY <1>2
<1>5. n # Nil /\ n \in DOMAIN heap
  BY <1>3, KidsAreNodes
<1>6. PICK b : b = Below(heap, n)
  OBVIOUS
<1>7. b \in Seq(contents) /\ Len(b) \in Nat
  <2>1. b \in Seq(Kids(heap, n)) /\ Len(b) \in Nat
    BY <1>3, <1>5, <1>6, BelowIs
  <2>2. Kids(heap, n) \subseteq contents
    BY Depths
  <2> QED  BY <2>1, <2>2
<1>8. /\ v \in Seq(contents) /\ Len(v) = i /\ \A j \in 1 .. i : v[j] = w[j]
      /\ c \in Seq(contents \cup {Nil}) /\ Len(c) = Len(w) - i + 1
      /\ \A j \in 1 .. Len(w) - i : c[j] = w[i + j]
  BY <1>1 DEF Waits
<1>9. Len(c) >= 2 /\ Head(c) = n /\ c # <<>> /\ 1 \in 1 .. Len(w) - i
  <2>1. Len(c) >= 2 /\ 1 \in 1 .. Len(w) - i
    BY <1>2, <1>8
  <2>2. c[1] = n
    BY <1>4, <1>8, <2>1
  <2> QED  BY <1>8, <2>1, <2>2
<1>10. b \in Seq(contents \cup {Nil}) /\ Nil \in contents \cup {Nil}
  BY <1>7
<1>11. PICK u : /\ u = Front(Tail(c)) \o b \o <<Nil>>
                /\ u \in Seq(contents \cup {Nil}) /\ Len(u) = Len(c) + Len(b) - 1 /\ u[Len(u)] = Nil
                /\ \A j \in 1 .. Len(c) - 2 : u[j] = c[j + 1]
                /\ \A j \in 1 .. Len(b) : u[Len(c) - 2 + j] = b[j]
  <2>1. PICK S : S = contents \cup {Nil}
    OBVIOUS
  <2>2. c \in Seq(S) /\ b \in Seq(S) /\ Nil \in S /\ Len(c) >= 2
    BY <1>8, <1>9, <1>10, <2>1
  <2>3. PICK u : Moved(u, c, b, Nil, S)
    BY <2>2, QueueMoves
  <2> QED  BY <2>1, <2>3 DEF Moved
<1>12. PICK x : x = Append(v, n)
  OBVIOUS
<1>13. LevelTurn(heap, q) = [visited |-> x, cells |-> u]
  BY <1>1, <1>5, <1>6, <1>9, <1>11, <1>12 DEF LevelTurn
<1>14. x \in Seq(contents) /\ Len(x) = i + 1 /\ x[i + 1] = n /\ \A j \in 1 .. i : x[j] = v[j]
  BY <1>2, <1>8, <1>12
<1>15. PICK y : y = w \o b
  OBVIOUS
<1>16. /\ y \in Seq(contents) /\ Len(y) = Len(w) + Len(b)
       /\ \A j \in 1 .. Len(w) : y[j] = w[j]
       /\ \A j \in 1 .. Len(b) : y[Len(w) + j] = b[j]
  BY <1>2, <1>7, <1>15
<1>17. ASSUME NEW j \in 1 .. i + 1 PROVE x[j] = y[j]
  <2>1. j \in 1 .. Len(w) /\ (j = i + 1 \/ j \in 1 .. i)
    BY <1>2
  <2> QED  BY <1>4, <1>8, <1>14, <1>16, <2>1
<1>18. ASSUME NEW j \in 1 .. Len(y) - (i + 1) PROVE u[j] = y[i + 1 + j]
  <2>0. j \in Nat /\ j >= 1 /\ j <= Len(w) + Len(b) - (i + 1)
    BY <1>2, <1>7, <1>16
  <2>1. CASE j <= Len(w) - i - 1
    <3>1. /\ j \in 1 .. Len(c) - 2 /\ j + 1 \in 1 .. Len(w) - i /\ i + (j + 1) = i + 1 + j
          /\ i + 1 + j \in 1 .. Len(w)
      BY <1>2, <1>8, <2>0, <2>1
    <3>2. u[j] = c[j + 1] /\ c[j + 1] = w[i + (j + 1)]
      BY <1>8, <1>11, <3>1
    <3> QED  BY <1>16, <3>1, <3>2
  <2>2. CASE j > Len(w) - i - 1
    <3>1. PICK a : a = j - (Len(w) - i - 1)
      OBVIOUS
    <3>2. a \in 1 .. Len(b) /\ Len(c) - 2 + a = j /\ Len(w) + a = i + 1 + j
      BY <1>2, <1>7, <1>8, <2>0, <2>2, <3>1
    <3>3. u[Len(c) - 2 + a] = b[a] /\ y[Len(w) + a] = b[a]
      BY <1>11, <1>16, <3>2
    <3> QED  BY <3>2, <3>3
  <2> QED  BY <1>2, <2>0, <2>1, <2>2
<1>19. Len(u) = Len(y) - (i + 1) + 1
  <2>1. Len(u) = Len(c) + Len(b) - 1 /\ Len(c) = Len(w) - i + 1 /\ Len(y) = Len(w) + Len(b)
    BY <1>8, <1>11, <1>16
  <2> QED  BY <1>2, <1>7, <2>1
<1>20. Waits(x, u, y, i + 1)
  BY <1>11, <1>14, <1>17, <1>18, <1>19 DEF Waits
<1>21. InTurn(LevelTurn(heap, q), y, i + 1)
  BY <1>13, <1>20 DEF InTurn
<1> QED  BY <1>4, <1>6, <1>15, <1>21

\* When no node waits, a turn removes the empty cell.
LEMMA TurnClears ==
    ASSUME StInv, NEW w, Queued(w, Len(w)), NEW q, InTurn(q, w, Len(w))
    PROVE  AllVisited(LevelTurn(heap, q), w)
<1>1. PICK v, c : q = [visited |-> v, cells |-> c] /\ Waits(v, c, w, Len(w))
  BY DEF InTurn
<1>2. Len(w) \in Nat
  BY DEF Queued
<1>3. /\ v \in Seq(contents) /\ Len(v) = Len(w) /\ \A j \in 1 .. Len(w) : v[j] = w[j]
      /\ c \in Seq(contents \cup {Nil}) /\ Len(c) = 1 /\ c[1] = Nil
  BY <1>1, <1>2 DEF Waits
<1>4. c # <<>> /\ Head(c) = Nil /\ Tail(c) = <<>>
  <2>1. c # <<>> /\ Head(c) = Nil
    BY <1>3
  <2>2. PICK t : t = Tail(c)
    OBVIOUS
  <2>3. t \in Seq(contents \cup {Nil}) /\ Len(t) = 0
    <3>1. PICK S : S = contents \cup {Nil}
      OBVIOUS
    <3>2. c \in Seq(S) /\ Len(c) = 1 /\ c # <<>>
      BY <1>3, <2>1, <3>1
    <3>3. t \in Seq(S) /\ Len(t) = Len(c) - 1
      BY <2>2, <3>2
    <3> QED  BY <3>1, <3>2, <3>3
  <2>4. t = <<>>
    BY <2>3
  <2> QED  BY <2>1, <2>2, <2>4
<1>5. LevelTurn(heap, q) = [visited |-> v, cells |-> <<>>]
  BY <1>1, <1>4 DEF LevelTurn
<1> QED  BY <1>3, <1>5 DEF AllVisited

\* level_order_traversal ends, with each node of the tree visited once, in order.
LEMMA LevelOrderIs ==
    ASSUME StInv, top # Nil
    PROVE  \E w : /\ Queued(w, Len(w)) /\ LevelOrder(heap, top) \in Seq(contents)
                  /\ Len(LevelOrder(heap, top)) = Len(w)
                  /\ \A j \in 1 .. Len(w) : LevelOrder(heap, top)[j] = w[j]
<1>1. /\ IsForest(heap) /\ contents \subseteq DOMAIN heap /\ contents = Under(heap, top)
      /\ top \in DOMAIN heap /\ top \in contents
  BY TreeIsClosed, UnderNodes DEF StInv, TreeShape, TopIsRoot, Pointers, IsForest
<1>2. /\ IsFiniteSet(DOMAIN heap) /\ Cardinality(DOMAIN heap) \in Nat
      /\ Cardinality(contents) \in Nat /\ Cardinality(contents) <= Cardinality(DOMAIN heap)
  BY <1>1, FinitelyMany, FS_Subset
<1>3. PICK N \in Nat : N = Cardinality(DOMAIN heap) + 2
  BY <1>2
<1>3a. PICK turn : Turns(turn, heap, top, N)
  BY <1>3, LevelOrderEnds
<1>4. /\ turn[0] = [visited |-> <<>>, cells |-> <<top, Nil>>]
      /\ \A i \in 0 .. N - 1 : turn[i + 1] = LevelTurn(heap, turn[i])
      /\ LevelOrder(heap, top) = turn[N].visited
  BY <1>3a DEF Turns
<1> DEFINE S == {m \in 0 .. N : \E w, i : /\ Queued(w, i)
                                          /\ \/ i = m /\ InTurn(turn[m], w, i)
                                             \/ i = Len(w) /\ i < m /\ AllVisited(turn[m], w)}
<1>5. 0 \in S
  <2>1. PICK w : w = <<top>>
    OBVIOUS
  <2>2. w \in Seq(contents) /\ Len(w) = 1 /\ w[1] = top
    BY <1>1, <2>1
  <2>3. Queued(w, 0)
    BY <2>2 DEF Queued
  <2>4. PICK v, c : v = <<>> /\ c = <<top, Nil>>
    OBVIOUS
  <2>5. v \in Seq(contents) /\ Len(v) = 0
    BY <2>4
  <2>6. c \in Seq(contents \cup {Nil}) /\ Len(c) = 2 /\ c[2] = Nil /\ c[1] = top
    BY <1>1, <2>4
  <2>7. Waits(v, c, w, 0)
    BY <2>2, <2>5, <2>6 DEF Waits
  <2>8. InTurn(turn[0], w, 0)
    BY <1>4, <2>4, <2>7 DEF InTurn
  <2> QED  BY <1>3, <2>3, <2>8
<1>6. ASSUME NEW m \in S, m < N PROVE m + 1 \in S
  <2>1. m \in 0 .. N - 1 /\ m + 1 \in 0 .. N /\ m \in Nat
    BY <1>3, <1>6
  <2>2. turn[m + 1] = LevelTurn(heap, turn[m])
    BY <1>4, <2>1
  <2>3. PICK w, i : /\ Queued(w, i)
                    /\ \/ i = m /\ InTurn(turn[m], w, i)
                       \/ i = Len(w) /\ i < m /\ AllVisited(turn[m], w)
    BY <1>6
  <2>4. i \in 0 .. Len(w) /\ Len(w) \in Nat
    BY <2>3 DEF Queued
  <2>5. CASE i = m /\ i < Len(w)
    <3>1. PICK u : u = w \o Below(heap, w[i + 1])
      OBVIOUS
    <3>2. Queued(u, i + 1)
      BY <2>3, <2>5, <3>1, QueuedOn
    <3>3. InTurn(turn[m + 1], u, i + 1)
      BY <2>2, <2>3, <2>5, <3>1, TurnVisits
    <3> QED  BY <2>1, <2>5, <3>2, <3>3
  <2>6. CASE i = m /\ i = Len(w)
    <3>1. AllVisited(turn[m + 1], w)
      BY <2>2, <2>3, <2>6, TurnClears DEF AllVisited
    <3>2. i < m + 1
      BY <2>1, <2>6
    <3> QED  BY <2>1, <2>3, <2>6, <3>1, <3>2
  <2>7. CASE i = Len(w) /\ i < m /\ AllVisited(turn[m], w)
    <3>1. turn[m + 1] = turn[m]
      BY <2>2, <2>7 DEF AllVisited, LevelTurn
    <3>2. i < m + 1
      BY <2>1, <2>4, <2>7
    <3> QED  BY <2>1, <2>3, <2>7, <3>1, <3>2
  <2> QED  BY <2>1, <2>3, <2>4, <2>5, <2>6, <2>7
<1>7. N \in S
  <2>1. S \subseteq 0 .. N
    OBVIOUS
  <2> HIDE DEF S
  <2>2. S = 0 .. N
    BY <1>3, <1>5, <1>6, <2>1, UpTo
  <2> QED  BY <1>3, <2>2
<1>8. PICK w, i : /\ Queued(w, i)
                  /\ \/ i = N /\ InTurn(turn[N], w, i)
                     \/ i = Len(w) /\ i < N /\ AllVisited(turn[N], w)
  BY <1>7
<1>9. Len(w) \in Nat /\ i \in 0 .. Len(w) /\ Len(w) <= Cardinality(contents)
  <2>1. Len(w) \in Nat /\ i \in 0 .. Len(w)
    BY <1>8 DEF Queued
  <2> QED  BY <1>8, <2>1, QueuedAll
<1>10. i < N
  BY <1>2, <1>3, <1>9
<1>11. i = Len(w) /\ AllVisited(turn[N], w)
  BY <1>8, <1>10
<1> QED  BY <1>4, <1>8, <1>11 DEF AllVisited

\* An empty tree has no levels.
LEMMA NoLevels ==
    ASSUME StInv, top = Nil
    PROVE  LevelOrder(heap, top) = <<>>
<1>1. PICK N \in Nat : N = Cardinality(DOMAIN heap) + 2
  BY FinitelyMany
<1>1a. PICK turn : Turns(turn, heap, top, N)
  BY <1>1, LevelOrderEnds
<1>2. /\ turn[0] = [visited |-> <<>>, cells |-> <<top, Nil>>]
      /\ \A i \in 0 .. N - 1 : turn[i + 1] = LevelTurn(heap, turn[i])
      /\ LevelOrder(heap, top) = turn[N].visited
  BY <1>1a DEF Turns
<1> DEFINE S == {m \in 0 .. N : \E c \in Seq({Nil}) : turn[m] = [visited |-> <<>>, cells |-> c]}
<1>3. 0 \in S
  <2>1. <<top, Nil>> \in Seq({Nil}) /\ 0 \in 0 .. N
    BY <1>1
  <2> QED  BY <1>2, <2>1
<1>4. ASSUME NEW m \in S, m < N PROVE m + 1 \in S
  <2>0. m \in 0 .. N - 1 /\ m + 1 \in 0 .. N
    BY <1>1, <1>4
  <2>1. PICK c \in Seq({Nil}) : turn[m] = [visited |-> <<>>, cells |-> c]
    BY <1>4
  <2>2. turn[m + 1] = LevelTurn(heap, turn[m])
    BY <1>2, <2>0
  <2>3. CASE c = <<>>
    <3>1. turn[m + 1] = turn[m]
      BY <2>1, <2>2, <2>3 DEF LevelTurn
    <3> QED  BY <2>0, <2>1, <3>1
  <2>4. CASE c # <<>>
    <3>1. Head(c) = Nil /\ Tail(c) \in Seq({Nil})
      BY <2>4
    <3>2. PICK q : q = turn[m]
      OBVIOUS
    <3>3. q = [visited |-> <<>>, cells |-> c] /\ turn[m + 1] = [q EXCEPT !.cells = Tail(@)]
      BY <2>1, <2>2, <2>4, <3>1, <3>2 DEF LevelTurn
    <3>4. turn[m + 1] = [visited |-> <<>>, cells |-> Tail(c)]
      BY <3>3
    <3> QED  BY <2>0, <3>1, <3>4
  <2> QED  BY <2>3, <2>4
<1>5. N \in S
  <2>1. S \subseteq 0 .. N
    OBVIOUS
  <2> HIDE DEF S
  <2>2. S = 0 .. N
    BY <1>1, <1>3, <1>4, <2>1, UpTo
  <2> QED  BY <1>1, <2>2
<1>6. PICK c : turn[N] = [visited |-> <<>>, cells |-> c]
  BY <1>5
<1> QED  BY <1>2, <1>6

\* level_order_traversal1 stops at the root.
LEMMA StopsAtRoot ==
    ASSUME StInv, top # Nil
    PROVE  LevelOrder1(heap, top) = <<top>>
<1>1. top \in DOMAIN heap /\ IsFiniteSet(DOMAIN heap)
  BY FinitelyMany DEF StInv, TopIsRoot, Pointers
<1>2. PICK N \in Nat : N = Cardinality(DOMAIN heap) /\ N # 0
  BY <1>1, FinitelyMany, FS_EmptySet
<1>2a. PICK turn : Turns1(turn, heap, top, N)
  BY <1>2, LevelOrder1Ends
<1>3. /\ turn[0] = [visited |-> <<>>, cells |-> <<top>>]
      /\ \A i \in 0 .. N - 1 : turn[i + 1] = LevelTurn1(heap, turn[i])
      /\ LevelOrder1(heap, top) = turn[N].visited
  BY <1>2a DEF Turns1
<1> DEFINE S == {m \in 0 .. N : m # 0 => turn[m] = [visited |-> <<top>>, cells |-> <<>>]}
<1>4. 0 \in S
  BY <1>2
<1>5. ASSUME NEW m \in S, m < N PROVE m + 1 \in S
  <2>0. m \in 0 .. N - 1 /\ m + 1 \in 0 .. N /\ m + 1 # 0
    BY <1>2, <1>5
  <2>1. turn[m + 1] = LevelTurn1(heap, turn[m])
    BY <1>3, <2>0
  <2>2. CASE m = 0
    <3>1. /\ <<top>> # <<>> /\ Head(<<top>>) = top /\ Tail(<<top>>) = <<>>
          /\ Append(<<>>, top) = <<top>>
      OBVIOUS
    <3>2. turn[m] = [visited |-> <<>>, cells |-> <<top>>]
      BY <1>3, <2>2
    <3> QED  BY <2>0, <2>1, <3>1, <3>2 DEF LevelTurn1
  <2>3. CASE m # 0
    <3>1. turn[m] = [visited |-> <<top>>, cells |-> <<>>]
      BY <2>3
    <3> QED  BY <2>0, <2>1, <3>1 DEF LevelTurn1
  <2> QED  BY <2>2, <2>3
<1>6. N \in S
  <2>1. S \subseteq 0 .. N
    OBVIOUS
  <2> HIDE DEF S
  <2>2. S = 0 .. N
    BY <1>2, <1>4, <1>5, <2>1, UpTo
  <2> QED  BY <1>2, <2>2
<1> QED  BY <1>2, <1>3, <1>6

\* The levels of the tree.
LEMMA Levels ==
    ASSUME StInv
    PROVE  /\ ToSet(LevelOrder(heap, top)) = contents
           /\ Len(LevelOrder(heap, top)) = Cardinality(contents)
           /\ \A i, j \in 1 .. Len(LevelOrder(heap, top)) :
                 i < j => Before2(LevelOrder(heap, top)[i], LevelOrder(heap, top)[j])
<1>1. CASE top = Nil
  <2>1. contents = {} /\ LevelOrder(heap, top) = <<>>
    BY <1>1, NoLevels, TreeIsClosed
  <2> QED  BY <2>1, FS_EmptySet DEF ToSet
<1>2. CASE top # Nil
  <2>1. PICK w : /\ Queued(w, Len(w)) /\ LevelOrder(heap, top) \in Seq(contents)
                 /\ Len(LevelOrder(heap, top)) = Len(w)
                 /\ \A j \in 1 .. Len(w) : LevelOrder(heap, top)[j] = w[j]
    BY <1>2, LevelOrderIs
  <2>2. PICK v : v = LevelOrder(heap, top)
    OBVIOUS
  <2>3. /\ v \in Seq(contents) /\ w \in Seq(contents) /\ Len(v) = Len(w) /\ DOMAIN v = 1 .. Len(w)
        /\ \A j \in 1 .. Len(w) : v[j] = w[j]
    BY <2>1, <2>2 DEF Queued
  <2>4. ToSet(w) = contents /\ Len(w) = Cardinality(contents)
    BY <2>1, QueuedAll
  <2>5. ToSet(v) = ToSet(w)
    BY <2>3 DEF ToSet
  <2>6. \A i, j \in 1 .. Len(v) : i < j => Before2(v[i], v[j])
    <3>1. \A i, j \in 1 .. Len(w) : i < j => Before2(w[i], w[j])
      BY <2>1 DEF Queued
    <3> QED  BY <2>3, <3>1
  <2> QED  BY <2>2, <2>3, <2>4, <2>5, <2>6
<1> QED  BY <1>1, <1>2

\* The nodes that were not deleted know their parents.
LEMMA HasParent ==
    ASSUME StInv, ~deleted, NEW k \in contents \ {top}
    PROVE  k \in {heap[heap[k].p].l, heap[heap[k].p].r}
<1>1. Founded(heap) /\ contents = Under(heap, top) /\ top \in DOMAIN heap
  BY TreeIsClosed DEF StInv, TreeShape, TopIsRoot, Pointers, IsForest
<1>2. PICK z \in Under(heap, top) : k \in Kids(heap, z)
  BY <1>1, ParentBelow
<1>3. z \in DOMAIN heap
  BY <1>1, UnderNodes
<1>4. heap[k].p = z
  BY <1>2, <1>3 DEF StInv, ParentsKnown
<1> QED  BY <1>2, <1>4 DEF Kids

\* Insertion, find_node, delete_node, release_tree and the traversals of tree/bst_tree and
\* tree/bb_tree agree on the tree they build, after any history of calls.
THEOREM TreeIsSearchTreeSafety == StSpec => []TreeIsSearchTree
<1>1. ASSUME StInv PROVE TreeIsSearchTree
  <2>1. IsForest(heap) /\ Founded(heap) /\ top \in Pointers(heap) /\ contents = Under(heap, top)
    BY <1>1 DEF StInv, TreeShape, TopIsRoot, IsForest
  <2>2. /\ ToSet(Inorder(heap, top)) = contents /\ ToSet(Preorder(heap, top)) = contents
        /\ ToSet(Postorder(heap, top)) = contents
    BY <2>1, InorderVisits, PreorderVisits, PostorderVisits
  <2>3. \A i, j \in 1 .. Len(Inorder(heap, top)) :
           i < j => Inorder(heap, top)[i] < Inorder(heap, top)[j]
    BY <2>1, InorderIncreases DEF Increasing
  <2>4. \A k \in TreeKeys : FindNode(heap, top, k) = IF k \in contents THEN k ELSE Nil
    BY <2>1, FindsKey
  <2>5. ASSUME NEW k \in TreeKeys \ DOMAIN heap, top # Nil
        PROVE  InsertBack(heap, top, k) = [heap |-> InsertNode(heap, top, k), node |-> top]
    BY <2>1, <2>5, InsertsAlike DEF Pointers
  <2>6. /\ ToSet(LevelOrder(heap, top)) = contents
        /\ Len(LevelOrder(heap, top)) = Cardinality(contents)
        /\ \A i, j \in 1 .. Len(LevelOrder(heap, top)) :
              i < j => Before2(LevelOrder(heap, top)[i], LevelOrder(heap, top)[j])
    BY <1>1, Levels
  <2>7. top # Nil => LevelOrder1(heap, top) = <<top>>
    BY <1>1, StopsAtRoot
  <2>8. ~deleted => \A k \in contents \ {top} : k \in {heap[heap[k].p].l, heap[heap[k].p].r}
    BY <1>1, HasParent
  <2> QED  BY <2>2, <2>3, <2>4, <2>5, <2>6, <2>7, <2>8 DEF TreeIsSearchTree, Before2
<1> QED  BY <1>1, StInvariance, PTL
-----------------------------------------------------------------------------
(***************************************************************************)
(* RbTree: any number of keys.                                             *)
(*                                                                         *)
(* Each node of the tree lies between two bounds, that its ancestors set,  *)
(* so that the width between the bounds falls on every way down: the tree  *)
(* is finite, ordered, and searched in fewer turns than it has levels.     *)
(* During a deletion one black node is missing, on one side of one node;   *)
(* during an insertion one red node may have a red parent.                 *)
(***************************************************************************)

Ptr == Keys \cup {nil}

Trees == [root : Ptr, child : [Sides -> [Keys -> Ptr]], parent : [Ptr -> Ptr],
          color : [Ptr -> {"red", "black"}]]

\* What the assignments to one field do.
Rooted(t, r, c) == r \in Trees /\ r.root = c /\ r.child = t.child /\ r.parent = t.parent
     /\ r.color = t.color

ChildIs(t, r, side, n, c) ==
    /\ r \in Trees /\ r.root = t.root /\ r.parent = t.parent /\ r.color = t.color
    /\ \A s \in Sides, m \in Keys : r.child[s][m] = IF s = side /\ m = n THEN c ELSE t.child[s][m]

ParentIs(t, r, n, p) ==
    /\ r \in Trees /\ r.root = t.root /\ r.child = t.child /\ r.color = t.color
    /\ \A m \in Ptr : r.parent[m] = IF m = n THEN p ELSE t.parent[m]

ColorIs(t, r, n, c) ==
    /\ r \in Trees /\ r.root = t.root /\ r.child = t.child /\ r.parent = t.parent
    /\ \A m \in Ptr : r.color[m] = IF m = n THEN c ELSE t.color[m]

\* The assignments to a field of a node.
LEMMA Assignments ==
    ASSUME NEW t \in Trees
    PROVE  /\ \A c \in Ptr : Rooted(t, [t EXCEPT !.root = c], c)
           /\ \A side \in Sides, n \in Keys, c \in Ptr : ChildIs(t, SetChild(t, side, n, c), side, n, c)
           /\ \A n \in Ptr, p \in Ptr : ParentIs(t, SetParent(t, n, p), n, p)
           /\ \A n \in Ptr, c \in {"red", "black"} : ColorIs(t, SetColor(t, n, c), n, c)
<1>1. ASSUME NEW c \in Ptr PROVE Rooted(t, [t EXCEPT !.root = c], c)
  BY DEF Rooted, Trees
<1>2. ASSUME NEW side \in Sides, NEW n \in Keys, NEW c \in Ptr
      PROVE  ChildIs(t, SetChild(t, side, n, c), side, n, c)
  <2>1. PICK r : r = SetChild(t, side, n, c)
    OBVIOUS
  <2>2. PICK f : f = t.child
    OBVIOUS
  <2>3. PICK g : g = [f EXCEPT ![side][n] = c]
    OBVIOUS
  <2>4. f \in [Sides -> [Keys -> Ptr]] /\ r = [t EXCEPT !.child = g]
    BY <2>1, <2>2, <2>3 DEF SetChild, Trees
  <2>5. g \in [Sides -> [Keys -> Ptr]]
    BY <2>3, <2>4
  <2>6. \A s \in Sides, m \in Keys : g[s][m] = IF s = side /\ m = n THEN c ELSE f[s][m]
    BY <2>3, <2>4
  <2>7. /\ r \in Trees /\ r.root = t.root /\ r.parent = t.parent /\ r.color = t.color
        /\ r.child = g
    BY <2>4, <2>5 DEF Trees
  <2> QED  BY <2>1, <2>2, <2>6, <2>7 DEF ChildIs
<1>3. ASSUME NEW n \in Ptr, NEW p \in Ptr PROVE ParentIs(t, SetParent(t, n, p), n, p)
  BY DEF ParentIs, SetParent, Trees
<1>4. ASSUME NEW n \in Ptr, NEW c \in {"red", "black"} PROVE ColorIs(t, SetColor(t, n, c), n, c)
  BY DEF ColorIs, SetColor, Trees
<1> QED  BY <1>1, <1>2, <1>3, <1>4

\* The two sides.
LEMMA TwoSides ==
    /\ Sides = {"left", "right"} /\ "left" # "right"
    /\ \A s \in Sides : /\ Opposite(s) \in Sides /\ Opposite(s) # s /\ Opposite(Opposite(s)) = s
                        /\ \A q \in Sides : q = s \/ q = Opposite(s)
    /\ Opposite("left") = "right" /\ Opposite("right") = "left"
BY DEF Sides, Opposite

\* The keys are numbers, and the sentinel is none of them.
LEMMA KeysAreNumbers == /\ nil \notin Keys /\ nil \in Ptr /\ Keys \subseteq Ptr /\ MaxKey \in Nat
                        /\ \A k \in Keys : k \in Nat /\ 0 < k /\ k < MaxKey + 1
BY KeyAssumption DEF Keys, nil, Ptr

\* The nodes of the tree, each between two bounds: on each side of a node are the keys between
\* the node and its bound on that side.
Bounded(K, B) ==
    /\ B \in [Sides -> [K -> 0 .. MaxKey + 1]]
    /\ \A n \in K : B["left"][n] < n /\ n < B["right"][n]

ChildFits(t, K, B, n, s) ==
    LET c == t.child[s][n]
    IN  c # nil => c \in K /\ t.parent[c] = n /\ B[s][c] = B[s][n] /\ B[Opposite(s)][c] = n

RootFits(t, K, B) ==
    /\ t.root = nil <=> K = {}
    /\ t.root # nil => /\ t.root \in K /\ t.parent[t.root] = nil
                       /\ B["left"][t.root] = 0 /\ B["right"][t.root] = MaxKey + 1

\* A tree of the nodes K: linked both ways, and ordered.
Shape(t, K, B) ==
    /\ t \in Trees /\ K \subseteq Keys /\ Bounded(K, B) /\ RootFits(t, K, B)
    /\ \A n \in K, s \in Sides : ChildFits(t, K, B, n, s)
    /\ \A n \in K : n = t.root \/ (t.parent[n] \in K /\ \E s \in Sides : t.child[s][t.parent[n]] = n)

\* How far the bounds of a node are from each other.
Width(B, n) == B["right"][n] - B["left"][n]

\* A child is between its parent and the parent's bound.
LEMMA Narrower ==
    ASSUME NEW t, NEW K, NEW B, Shape(t, K, B), NEW n \in K, NEW s \in Sides, t.child[s][n] # nil
    PROVE  /\ t.child[s][n] \in K /\ t.child[s][n] # n /\ t.parent[t.child[s][n]] = n
           /\ Width(B, t.child[s][n]) \in Nat /\ Width(B, n) \in Nat
           /\ Width(B, t.child[s][n]) < Width(B, n)
           /\ s = "left" => t.child[s][n] < n
           /\ s = "right" => t.child[s][n] > n
<1>1. PICK c : c = t.child[s][n]
  OBVIOUS
<1>2. c \in K /\ t.parent[c] = n /\ B[s][c] = B[s][n] /\ B[Opposite(s)][c] = n
  BY <1>1 DEF Shape, ChildFits
<1>3. /\ B["left"][n] \in Nat /\ B["right"][n] \in Nat /\ B["left"][n] < n /\ n < B["right"][n]
      /\ B["left"][c] \in Nat /\ B["right"][c] \in Nat /\ B["left"][c] < c /\ c < B["right"][c]
  BY <1>2, TwoSides, KeysAreNumbers DEF Shape, Bounded
<1>4. n \in Nat /\ c \in Nat
  BY <1>2, KeysAreNumbers DEF Shape
<1>5. CASE s = "left"
  <2>1. B["left"][c] = B["left"][n] /\ B["right"][c] = n
    BY <1>2, <1>5, TwoSides
  <2> QED  BY <1>1, <1>2, <1>3, <1>4, <1>5, <2>1, TwoSides DEF Width
<1>6. CASE s = "right"
  <2>1. B["right"][c] = B["right"][n] /\ B["left"][c] = n
    BY <1>2, <1>6, TwoSides
  <2> QED  BY <1>1, <1>2, <1>3, <1>4, <1>6, <2>1, TwoSides DEF Width
<1> QED  BY <1>5, <1>6, TwoSides

\* The width of a node is bounded.
LEMMA Widths ==
    ASSUME NEW t, NEW K, NEW B, Shape(t, K, B), NEW n \in K
    PROVE  Width(B, n) \in Nat /\ 1 < Width(B, n) /\ Width(B, n) <= MaxKey + 1
<1>1. /\ B["left"][n] \in 0 .. MaxKey + 1 /\ B["right"][n] \in 0 .. MaxKey + 1
      /\ B["left"][n] < n /\ n < B["right"][n]
  BY TwoSides DEF Shape, Bounded
<1>2. n \in Nat /\ MaxKey \in Nat
  BY KeysAreNumbers DEF Shape
<1> QED  BY <1>1, <1>2 DEF Width

\* What passes from the children to their parent holds of every node.
LEMMA Upwards ==
    ASSUME NEW t, NEW K, NEW B, Shape(t, K, B), NEW T,
           \A n \in K : (\A s \in Sides : t.child[s][n] = nil \/ t.child[s][n] \in T) => n \in T
    PROVE  K \subseteq T
<1> DEFINE S == {m \in 0 .. MaxKey + 2 : \A n \in K : Width(B, n) < m => n \in T}
<1>1. MaxKey + 2 \in Nat /\ 0 \in S /\ S \subseteq 0 .. MaxKey + 2
  BY KeysAreNumbers, Widths
<1>2. ASSUME NEW m \in S, m < MaxKey + 2 PROVE m + 1 \in S
  <2>1. m + 1 \in 0 .. MaxKey + 2
    BY <1>1, <1>2
  <2>2. ASSUME NEW n \in K, Width(B, n) < m + 1 PROVE n \in T
    <3>1. ASSUME NEW s \in Sides, t.child[s][n] # nil PROVE t.child[s][n] \in T
      <4>1. PICK c : c = t.child[s][n]
        OBVIOUS
      <4>2. c \in K /\ Width(B, c) \in Nat /\ Width(B, n) \in Nat /\ Width(B, c) < Width(B, n)
        BY <3>1, <4>1, Narrower
      <4>3. Width(B, c) < m
        BY <2>2, <4>2
      <4> QED  BY <4>1, <4>2, <4>3
    <3> QED  BY <3>1
  <2> QED  BY <2>1, <2>2
<1>3. S = 0 .. MaxKey + 2
  <2> HIDE DEF S
  <2> QED  BY <1>1, <1>2, UpTo
<1>4. MaxKey + 2 \in S
  BY <1>1, <1>3
<1>5. \A n \in K : Width(B, n) < MaxKey + 2
  BY Widths, KeysAreNumbers
<1> QED  BY <1>4, <1>5

\* What passes from the root down to the children holds of every node.
LEMMA Downwards ==
    ASSUME NEW t, NEW K, NEW B, Shape(t, K, B), NEW T,
           t.root \in T \/ K = {},
           \A n \in K, s \in Sides : n \in T /\ t.child[s][n] # nil => t.child[s][n] \in T
    PROVE  K \subseteq T
<1> DEFINE S == {m \in 0 .. MaxKey + 2 : \A n \in K : Width(B, n) >= MaxKey + 2 - m => n \in T}
<1>1. MaxKey + 2 \in Nat /\ S \subseteq 0 .. MaxKey + 2
  BY KeysAreNumbers
<1>2. 0 \in S
  <2>1. \A n \in K : ~(Width(B, n) >= MaxKey + 2 - 0)
    BY Widths, KeysAreNumbers
  <2>2. 0 \in 0 .. MaxKey + 2
    BY <1>1
  <2> QED  BY <2>1, <2>2
<1>3. ASSUME NEW m \in S, m < MaxKey + 2 PROVE m + 1 \in S
  <2>1. m + 1 \in 0 .. MaxKey + 2 /\ m \in Nat
    BY <1>1, <1>3
  <2>2. ASSUME NEW n \in K, Width(B, n) >= MaxKey + 2 - (m + 1) PROVE n \in T
    <3>1. CASE n = t.root
      BY <3>1
    <3>2. CASE n # t.root
      <4>1. PICK p \in K, s \in Sides : t.child[s][p] = n
        BY <3>2 DEF Shape
      <4>2. n # nil /\ t.child[s][p] # nil
        BY <4>1, KeysAreNumbers DEF Shape
      <4>3. Width(B, p) \in Nat /\ Width(B, n) \in Nat /\ Width(B, n) < Width(B, p)
        BY <4>1, <4>2, Narrower
      <4>4. Width(B, p) >= MaxKey + 2 - m
        <5>1. PICK a, b : a = Width(B, n) /\ b = Width(B, p)
          OBVIOUS
        <5>2. a \in Nat /\ b \in Nat /\ a < b /\ a >= MaxKey + 2 - (m + 1) /\ MaxKey \in Nat /\ m \in Nat
          BY <2>1, <2>2, <4>3, <5>1, KeysAreNumbers
        <5>3. b >= MaxKey + 2 - m
          BY <5>2
        <5> QED  BY <5>1, <5>3
      <4>5. p \in T
        BY <4>4
      <4> QED  BY <4>1, <4>2, <4>5
    <3> QED  BY <3>1, <3>2
  <2> QED  BY <2>1, <2>2
<1>4. S = 0 .. MaxKey + 2
  <2> HIDE DEF S
  <2> QED  BY <1>1, <1>2, <1>3, UpTo
<1>5. MaxKey + 2 \in S
  BY <1>1, <1>4
<1>6. \A n \in K : Width(B, n) >= MaxKey + 2 - (MaxKey + 2)
  BY Widths, KeysAreNumbers
<1> QED  BY <1>5, <1>6

\* Sets of nodes with a node and, with each, its children.
Closed(t, m, T) == m \in T /\ \A n \in T, s \in Sides : t.child[s][n] # nil => t.child[s][n] \in T

\* The nodes below a node, itself included.
Desc(t, m) == {k \in Keys : \A T \in SUBSET Keys : Closed(t, m, T) => k \in T}

DescOrNone(t, c) == IF c = nil THEN {} ELSE Desc(t, c)

\* Below a node are the node and what is below its children.
LEMMA DescOf ==
    ASSUME NEW t \in Trees, NEW m \in Keys
    PROVE  /\ m \in Desc(t, m) /\ Closed(t, m, Desc(t, m))
           /\ Desc(t, m) = {m} \cup DescOrNone(t, t.child["left"][m])
                 \cup DescOrNone(t, t.child["right"][m])
<1>1. \A s \in Sides, n \in Keys : t.child[s][n] \in Ptr
  BY DEF Trees
<1>2. \A c \in Keys : c \in Desc(t, c)
  BY DEF Desc, Closed
<1>3. ASSUME NEW c \in Keys PROVE Closed(t, c, Desc(t, c))
  <2>1. ASSUME NEW n \in Desc(t, c), NEW s \in Sides, t.child[s][n] # nil
        PROVE t.child[s][n] \in Desc(t, c)
    <3>1. n \in Keys /\ t.child[s][n] \in Keys
      BY <1>1, <2>1 DEF Desc, Ptr
    <3>2. ASSUME NEW T \in SUBSET Keys, Closed(t, c, T) PROVE t.child[s][n] \in T
      <4>1. n \in T
        BY <3>2 DEF Desc
      <4> QED  BY <2>1, <3>2, <4>1 DEF Closed
    <3> QED  BY <3>1, <3>2 DEF Desc
  <2> QED  BY <1>2, <2>1 DEF Closed
<1>4. ASSUME NEW s \in Sides, t.child[s][m] # nil PROVE Desc(t, t.child[s][m]) \subseteq Desc(t, m)
  <2>1. ASSUME NEW T \in SUBSET Keys, Closed(t, m, T) PROVE Closed(t, t.child[s][m], T)
    BY <1>4, <2>1 DEF Closed
  <2> QED  BY <2>1 DEF Desc
<1> DEFINE D == {m} \cup DescOrNone(t, t.child["left"][m]) \cup DescOrNone(t, t.child["right"][m])
<1>5. D \subseteq Desc(t, m)
  BY <1>2, <1>4, TwoSides DEF DescOrNone
<1>6. Closed(t, m, D)
  <2>1. ASSUME NEW n \in D, NEW s \in Sides, t.child[s][n] # nil PROVE t.child[s][n] \in D
    <3>1. CASE n = m
      <4>1. t.child[s][m] \in Keys /\ t.child[s][m] \in Desc(t, t.child[s][m])
        BY <1>1, <1>2, <2>1, <3>1 DEF Ptr
      <4> QED  BY <2>1, <3>1, <4>1, TwoSides DEF DescOrNone
    <3>2. ASSUME NEW q \in Sides, n \in DescOrNone(t, t.child[q][m]) PROVE t.child[s][n] \in D
      <4>1. t.child[q][m] # nil /\ t.child[q][m] \in Keys /\ n \in Desc(t, t.child[q][m])
        BY <1>1, <3>2 DEF DescOrNone, Ptr
      <4>2. t.child[s][n] \in Desc(t, t.child[q][m])
        BY <1>3, <2>1, <4>1 DEF Closed
      <4> QED  BY <4>1, <4>2, TwoSides DEF DescOrNone
    <3> QED  BY <2>1, <3>1, <3>2, TwoSides
  <2> QED  BY <2>1 DEF Closed
<1>7. D \in SUBSET Keys
  BY DEF DescOrNone, Desc
<1>8. Desc(t, m) \subseteq D
  BY <1>6, <1>7 DEF Desc
<1> QED  BY <1>2, <1>3, <1>5, <1>8

\* What is below a node is between its bounds.
LEMMA DescBounds ==
    ASSUME NEW t, NEW K, NEW B, Shape(t, K, B), NEW m \in K, NEW k \in Desc(t, m)
    PROVE  /\ k \in K /\ B["left"][m] <= B["left"][k] /\ B["right"][k] <= B["right"][m]
           /\ B["left"][m] < k /\ k < B["right"][m]
<1> DEFINE T == {n \in K : B["left"][m] <= B["left"][n] /\ B["right"][n] <= B["right"][m]}
<1>1. /\ K \subseteq Keys /\ m \in Nat
      /\ \A n \in K : /\ n \in Nat /\ B["left"][n] \in Nat /\ B["right"][n] \in Nat
                      /\ B["left"][n] < n /\ n < B["right"][n]
  <2>1. K \subseteq Keys /\ \A n \in K : n \in Nat
    BY KeysAreNumbers DEF Shape
  <2>2. \A n \in K : /\ B["left"][n] \in 0 .. MaxKey + 1 /\ B["right"][n] \in 0 .. MaxKey + 1
                     /\ B["left"][n] < n /\ n < B["right"][n]
    BY TwoSides DEF Shape, Bounded
  <2> QED  BY <2>1, <2>2
<1>2. m \in T
  BY <1>1
<1>3. ASSUME NEW n \in T, NEW s \in Sides, t.child[s][n] # nil PROVE t.child[s][n] \in T
  <2>1. PICK c : c = t.child[s][n]
    OBVIOUS
  <2>2. c \in K /\ B[s][c] = B[s][n] /\ B[Opposite(s)][c] = n
    BY <1>3, <2>1 DEF Shape, ChildFits
  <2>3. \/ B["left"][c] = B["left"][n] /\ B["right"][c] = n
        \/ B["right"][c] = B["right"][n] /\ B["left"][c] = n
    BY <2>2, TwoSides
  <2>4. B["left"][m] <= B["left"][c] /\ B["right"][c] <= B["right"][m]
    BY <1>1, <2>2, <2>3
  <2> QED  BY <2>1, <2>2, <2>4
<1>4. Closed(t, m, T) /\ T \in SUBSET Keys
  BY <1>1, <1>2, <1>3 DEF Closed
<1>5. k \in T
  BY <1>4 DEF Desc
<1> QED  BY <1>1, <1>5

\* The nodes of the tree are below the root.
LEMMA BelowRoot ==
    ASSUME NEW t, NEW K, NEW B, Shape(t, K, B), t.root # nil
    PROVE  K = Desc(t, t.root)
<1>1. t.root \in K /\ K \subseteq Keys /\ t \in Trees
  BY DEF Shape, RootFits
<1>2. Closed(t, t.root, Desc(t, t.root))
  BY <1>1, DescOf
<1>3. K \subseteq Desc(t, t.root)
  BY <1>2, Downwards DEF Closed
<1>4. Desc(t, t.root) \subseteq K
  BY <1>1, DescBounds
<1> QED  BY <1>3, <1>4

\* On which side of a node what is below it is.
LEMMA SideOfDesc ==
    ASSUME NEW t, NEW K, NEW B, Shape(t, K, B), NEW m \in K, NEW k \in Desc(t, m), k # m
    PROVE  \E s \in Sides : /\ t.child[s][m] # nil /\ t.child[s][m] \in K /\ k \in Desc(t, t.child[s][m])
                            /\ IF s = "left" THEN k < m ELSE k > m
<1>1. m \in Keys /\ t \in Trees
  BY DEF Shape
<1>2. PICK s \in Sides : k \in DescOrNone(t, t.child[s][m])
  BY <1>1, DescOf, TwoSides
<1>3. PICK c : c = t.child[s][m]
  OBVIOUS
<1>4. c # nil /\ k \in Desc(t, c)
  BY <1>2, <1>3 DEF DescOrNone
<1>5. c \in K /\ B[Opposite(s)][c] = m
  BY <1>3, <1>4 DEF Shape, ChildFits
<1>6. B["left"][c] < k /\ k < B["right"][c]
  BY <1>4, <1>5, DescBounds
<1>7. IF s = "left" THEN k < m ELSE k > m
  <2>1. k \in K
    BY <1>4, <1>5, DescBounds
  <2>2. k \in Nat /\ m \in Nat
    BY <2>1, KeysAreNumbers DEF Shape
  <2> QED  BY <1>5, <1>6, <2>2, TwoSides
<1> QED  BY <1>3, <1>4, <1>5, <1>7

\* The keys between the bounds of a node are below it.
LEMMA NoGap ==
    ASSUME NEW t, NEW K, NEW B, Shape(t, K, B), NEW m \in K, NEW k \in K,
           B["left"][m] < k, k < B["right"][m]
    PROVE  k \in Desc(t, m)
<1> DEFINE T == {n \in K : B["left"][n] < k /\ k < B["right"][n] => k \in Desc(t, n)}
<1>1. t.root \in T \/ K = {}
  BY BelowRoot DEF Shape, RootFits
<1>2. ASSUME NEW n \in K, NEW s \in Sides, n \in T, t.child[s][n] # nil PROVE t.child[s][n] \in T
  <2>1. PICK c : c = t.child[s][n]
    OBVIOUS
  <2>2. c \in K /\ B[s][c] = B[s][n] /\ B[Opposite(s)][c] = n
    BY <1>2, <2>1 DEF Shape, ChildFits
  <2>3. SUFFICES ASSUME B["left"][c] < k, k < B["right"][c] PROVE k \in Desc(t, c)
    BY <2>1, <2>2
  <2>4. /\ B["left"][n] \in Nat /\ B["right"][n] \in Nat /\ B["left"][n] < n /\ n < B["right"][n]
        /\ n \in Nat /\ k \in Nat
    BY TwoSides, KeysAreNumbers DEF Shape, Bounded
  <2>5. \/ s = "left" /\ B["left"][c] = B["left"][n] /\ B["right"][c] = n
        \/ s = "right" /\ B["right"][c] = B["right"][n] /\ B["left"][c] = n
    BY <2>2, TwoSides
  <2>6. B["left"][n] < k /\ k < B["right"][n] /\ k # n /\ (s = "left" => k < n) /\ (s = "right" => k > n)
    BY <2>3, <2>4, <2>5, TwoSides
  <2>7. PICK q \in Sides : k \in Desc(t, t.child[q][n]) /\ IF q = "left" THEN k < n ELSE k > n
    BY <1>2, <2>6, SideOfDesc
  <2>8. q = s
    BY <2>4, <2>6, <2>7, TwoSides
  <2> QED  BY <2>1, <2>7, <2>8
<1>3. K \subseteq T
  <2> HIDE DEF T
  <2> QED  BY <1>1, <1>2, Downwards
<1> QED  BY <1>3

\* The nodes that are not in the tree have no children.
Clear(t, F) == \A n \in F, s \in Sides : t.child[s][n] = nil

\* Recursion along a chain that ends.
LEMMA EndsExist ==
    ASSUME NEW N \in Nat, NEW rank \in [Keys -> 0 .. N], NEW next \in [Keys -> Ptr],
           \A m \in Keys : next[m] # nil => rank[next[m]] < rank[m]
    PROVE  \E f : f = [m \in Keys |-> IF next[m] = nil THEN m ELSE f[next[m]]]
<1> DEFINE Upto(i, f) == f = [m \in Keys |-> IF rank[m] >= i \/ next[m] = nil THEN m ELSE f[next[m]]]
           S == {i \in 0 .. N + 1 : \E f : Upto(i, f)}
<1>1. 0 \in S
  <2>1. PICK f : f = [m \in Keys |-> m]
    OBVIOUS
  <2>2. \A m \in Keys : rank[m] >= 0
    OBVIOUS
  <2>3. Upto(0, f)
    BY <2>1, <2>2
  <2> QED  BY <2>3
<1>2. ASSUME NEW i \in S, i < N + 1 PROVE i + 1 \in S
  <2>1. PICK f : Upto(i, f)
    OBVIOUS
  <2>2. PICK g : g = [m \in Keys |-> IF rank[m] >= i + 1 \/ next[m] = nil THEN m ELSE f[next[m]]]
    OBVIOUS
  <2>3. ASSUME NEW m \in Keys, ~(rank[m] >= i + 1), next[m] # nil PROVE f[next[m]] = g[next[m]]
    <3>1. PICK c \in Keys : c = next[m]
      BY <2>3 DEF Ptr
    <3>2. rank[c] < rank[m] /\ rank[c] \in 0 .. N /\ rank[m] \in 0 .. N
      BY <2>3, <3>1
    <3>3. ~(rank[c] >= i) /\ ~(rank[c] >= i + 1)
      BY <2>3, <3>2
    <3>4. f[c] = IF next[c] = nil THEN c ELSE f[next[c]]
      BY <2>1, <3>3
    <3>5. g[c] = IF next[c] = nil THEN c ELSE f[next[c]]
      BY <2>2, <3>3
    <3> QED  BY <3>1, <3>4, <3>5
  <2>4. Upto(i + 1, g)
    BY <2>2, <2>3
  <2>5. i + 1 \in 0 .. N + 1
    BY <1>2
  <2> QED  BY <2>4, <2>5
<1>3. N + 1 \in S
  <2>1. S \subseteq 0 .. N + 1 /\ N + 1 \in Nat
    OBVIOUS
  <2> HIDE DEF S
  <2>2. S = 0 .. N + 1
    BY <1>1, <1>2, <2>1, UpTo
  <2> QED  BY <2>1, <2>2
<1>4. PICK f : Upto(N + 1, f)
  BY <1>3
<1>5. \A m \in Keys : ~(rank[m] >= N + 1)
  OBVIOUS
<1>6. f = [m \in Keys |-> IF next[m] = nil THEN m ELSE f[next[m]]]
  BY <1>4, <1>5
<1> QED  BY <1>6

\* A tree with all other memory cleared.
Whole(t, K, B) == Shape(t, K, B) /\ Clear(t, Keys \ K)

\* The ranks along which the recursive functions end.
LEMMA RanksFall ==
    ASSUME NEW t, NEW K, NEW B, Whole(t, K, B)
    PROVE  \E rank \in [Keys -> 0 .. MaxKey + 1] :
              \A m \in Keys, s \in Sides :
                 t.child[s][m] # nil => t.child[s][m] \in Keys /\ rank[t.child[s][m]] < rank[m]
<1>1. Shape(t, K, B) /\ K \subseteq Keys /\ MaxKey + 1 \in Nat /\ 0 \in 0 .. MaxKey + 1
  BY KeysAreNumbers DEF Whole, Shape
<1>2. PICK rank : rank = [m \in Keys |-> IF m \in K THEN Width(B, m) ELSE 0]
  OBVIOUS
<1>3. \A m \in K : Width(B, m) \in 0 .. MaxKey + 1
  BY <1>1, Widths, KeysAreNumbers
<1>4. rank \in [Keys -> 0 .. MaxKey + 1]
  BY <1>1, <1>2, <1>3
<1>5. ASSUME NEW m \in Keys, NEW s \in Sides, t.child[s][m] # nil
      PROVE  t.child[s][m] \in Keys /\ rank[t.child[s][m]] < rank[m]
  <2>1. m \in K
    BY <1>5 DEF Whole, Clear
  <2>2. t.child[s][m] \in K /\ Width(B, t.child[s][m]) < Width(B, m)
    BY <1>1, <1>5, <2>1, Narrower
  <2> QED  BY <1>1, <1>2, <2>1, <2>2
<1> QED  BY <1>4, <1>5

\* Where the search for a key goes on.
Onward(t, k, m) == t.child[IF k < m THEN "left" ELSE "right"][m]

\* The way down to a key, step by step.
LEMMA DescendOf ==
    ASSUME NEW t, NEW K, NEW B, Whole(t, K, B), NEW k \in Keys, NEW m \in Keys
    PROVE  Descend(t, m, k) = IF m = k \/ Onward(t, k, m) = nil THEN m ELSE Descend(t, Onward(t, k, m), k)
<1> DEFINE Step(f) == f = [n \in Keys |-> IF n = k \/ Onward(t, k, n) = nil THEN n ELSE f[Onward(t, k, n)]]
           descend == CHOOSE f : Step(f)
<1>1. \A n : Descend(t, n, k) = descend[n]
  BY DEF Descend, Onward
<1>2. PICK rank \in [Keys -> 0 .. MaxKey + 1] :
              \A n \in Keys, s \in Sides :
                 t.child[s][n] # nil => t.child[s][n] \in Keys /\ rank[t.child[s][n]] < rank[n]
  BY RanksFall
<1>3. \A n \in Keys : Onward(t, k, n) \in Ptr /\ (Onward(t, k, n) # nil =>
          Onward(t, k, n) \in Keys /\ rank[Onward(t, k, n)] < rank[n])
  BY <1>2, TwoSides DEF Onward, Ptr
<1>4. PICK next : next = [n \in Keys |-> IF n = k THEN nil ELSE Onward(t, k, n)]
  OBVIOUS
<1>5. next \in [Keys -> Ptr] /\ \A n \in Keys : next[n] # nil => rank[next[n]] < rank[n]
  BY <1>3, <1>4, KeysAreNumbers
<1>6. PICK f : f = [n \in Keys |-> IF next[n] = nil THEN n ELSE f[next[n]]]
  BY <1>5, EndsExist, KeysAreNumbers
<1>7. \A n \in Keys : (IF next[n] = nil THEN n ELSE f[next[n]])
                       = IF n = k \/ Onward(t, k, n) = nil THEN n ELSE f[Onward(t, k, n)]
  BY <1>4
<1>8. Step(f)
  BY <1>6, <1>7
<1>9. Step(descend)
  <2> HIDE DEF Step
  <2> QED  BY <1>8
<1> HIDE DEF descend
<1>10. descend[m] = IF m = k \/ Onward(t, k, m) = nil THEN m ELSE descend[Onward(t, k, m)]
  BY <1>9
<1> QED  BY <1>1, <1>10

\* The way down ends at the key or where it belongs.
LEMMA DescendFinds ==
    ASSUME NEW t, NEW K, NEW B, Whole(t, K, B), NEW k \in Keys, NEW m \in K,
           B["left"][m] < k, k < B["right"][m]
    PROVE  LET e == Descend(t, m, k)
           IN /\ e \in K /\ B["left"][e] < k /\ k < B["right"][e]
              /\ e = k \/ (k \notin K /\ Onward(t, k, e) = nil)
<1> DEFINE Good(e) == /\ e \in K /\ B["left"][e] < k /\ k < B["right"][e]
                      /\ e = k \/ (k \notin K /\ Onward(t, k, e) = nil)
           T == {n \in K : B["left"][n] < k /\ k < B["right"][n] => Good(Descend(t, n, k))}
<1>1. Shape(t, K, B) /\ t \in Trees /\ K \subseteq Keys
  BY DEF Whole, Shape
<1>2. ASSUME NEW n \in K, \A s \in Sides : t.child[s][n] = nil \/ t.child[s][n] \in T PROVE n \in T
  <2>1. SUFFICES ASSUME B["left"][n] < k, k < B["right"][n] PROVE Good(Descend(t, n, k))
    OBVIOUS
  <2>2. n \in Keys /\ n \in Nat /\ k \in Nat
    BY <1>1, KeysAreNumbers
  <2>3. CASE n = k
    BY <2>1, <2>2, <2>3, DescendOf
  <2>4. CASE n # k
    <3>1. PICK s \in Sides : s = IF k < n THEN "left" ELSE "right"
      BY TwoSides
    <3>2. PICK c : c = t.child[s][n]
      OBVIOUS
    <3>3. Onward(t, k, n) = c
      BY <3>1, <3>2 DEF Onward
    <3>4. CASE c = nil
      <4>1. Descend(t, n, k) = n
        BY <2>2, <3>3, <3>4, DescendOf
      <4>2. ASSUME k \in K PROVE FALSE
        <5>1. k \in Desc(t, n)
          BY <1>1, <2>1, <4>2, NoGap
        <5>2. PICK q \in Sides : t.child[q][n] # nil /\ IF q = "left" THEN k < n ELSE k > n
          BY <1>1, <2>4, <5>1, SideOfDesc
        <5>3. q = s
          BY <2>2, <3>1, <5>2, TwoSides
        <5> QED  BY <3>2, <3>4, <5>2, <5>3
      <4> QED  BY <2>1, <3>3, <3>4, <4>1, <4>2
    <3>5. CASE c # nil
      <4>1. c \in K /\ c \in T /\ B[s][c] = B[s][n] /\ B[Opposite(s)][c] = n
        BY <1>1, <1>2, <3>2, <3>5 DEF Shape, ChildFits
      <4>2. B["left"][c] < k /\ k < B["right"][c]
        BY <2>1, <2>2, <2>4, <3>1, <4>1, TwoSides
      <4>3. Descend(t, n, k) = Descend(t, c, k)
        BY <2>2, <2>4, <3>3, <3>5, DescendOf
      <4> QED  BY <4>1, <4>2, <4>3
    <3> QED  BY <3>4, <3>5
  <2> QED  BY <2>3, <2>4
<1>3. K \subseteq T
  <2> HIDE DEF T
  <2> QED  BY <1>1, <1>2, Upwards
<1> QED  BY <1>3

\* Leftmost, step by step.
LEMMA LeftmostOf ==
    ASSUME NEW t, NEW K, NEW B, Whole(t, K, B), NEW m \in Keys
    PROVE  Leftmost(t, m) = IF t.child["left"][m] = nil THEN m ELSE Leftmost(t, t.child["left"][m])
<1> DEFINE Step(f) == f = [n \in Keys |-> IF t.child["left"][n] = nil THEN n ELSE f[t.child["left"][n]]]
           leftmost == CHOOSE f : Step(f)
<1>1. \A n : Leftmost(t, n) = leftmost[n]
  BY DEF Leftmost
<1>2. PICK rank \in [Keys -> 0 .. MaxKey + 1] :
              \A n \in Keys, s \in Sides :
                 t.child[s][n] # nil => t.child[s][n] \in Keys /\ rank[t.child[s][n]] < rank[n]
  BY RanksFall
<1>3. PICK next : next = [n \in Keys |-> t.child["left"][n]]
  OBVIOUS
<1>4. next \in [Keys -> Ptr] /\ \A n \in Keys : next[n] # nil => rank[next[n]] < rank[n]
  BY <1>2, <1>3, TwoSides DEF Ptr
<1>5. PICK f : f = [n \in Keys |-> IF next[n] = nil THEN n ELSE f[next[n]]]
  BY <1>4, EndsExist, KeysAreNumbers
<1>6. Step(f)
  BY <1>3, <1>5
<1>7. Step(leftmost)
  <2> HIDE DEF Step
  <2> QED  BY <1>6
<1> HIDE DEF leftmost
<1>8. leftmost[m] = IF t.child["left"][m] = nil THEN m ELSE leftmost[t.child["left"][m]]
  BY <1>7
<1> QED  BY <1>1, <1>8

\* The leftmost node below a node has its lower bound, and no left child.
LEMMA LeftmostIs ==
    ASSUME NEW t, NEW K, NEW B, Whole(t, K, B), NEW m \in K
    PROVE  LET e == Leftmost(t, m)
           IN /\ e \in K /\ t.child["left"][e] = nil /\ B["left"][e] = B["left"][m]
              /\ B["right"][e] <= B["right"][m]
<1> DEFINE Good(e, n) == /\ e \in K /\ t.child["left"][e] = nil /\ B["left"][e] = B["left"][n]
                         /\ B["right"][e] <= B["right"][n]
           T == {n \in K : Good(Leftmost(t, n), n)}
<1>1. Shape(t, K, B) /\ K \subseteq Keys
  BY DEF Whole, Shape
<1>2. \A n \in K : B["right"][n] \in Nat /\ n < B["right"][n] /\ n \in Nat
  BY <1>1, KeysAreNumbers, TwoSides DEF Shape, Bounded
<1>3. ASSUME NEW n \in K, \A s \in Sides : t.child[s][n] = nil \/ t.child[s][n] \in T PROVE n \in T
  <2>1. PICK c : c = t.child["left"][n]
    OBVIOUS
  <2>2. CASE c = nil
    <3>1. Leftmost(t, n) = n
      BY <1>1, <2>1, <2>2, LeftmostOf
    <3>2. B["right"][n] <= B["right"][n]
      BY <1>2
    <3>3. Good(n, n)
      BY <2>1, <2>2, <3>2
    <3> QED  BY <3>1, <3>3
  <2>3. CASE c # nil
    <3>1. c \in K /\ c \in T /\ B["left"][c] = B["left"][n] /\ B["right"][c] = n
      BY <1>1, <1>3, <2>1, <2>3, TwoSides DEF Shape, ChildFits
    <3>2. Leftmost(t, n) = Leftmost(t, c)
      BY <1>1, <2>1, <2>3, LeftmostOf
    <3>3. PICK e : e = Leftmost(t, c)
      OBVIOUS
    <3>4. e \in K /\ t.child["left"][e] = nil /\ B["left"][e] = B["left"][c]
               /\ B["right"][e] <= B["right"][c]
      BY <3>1, <3>3
    <3>5. B["right"][e] <= B["right"][n]
      BY <1>2, <3>1, <3>4
    <3>6. Good(e, n)
      BY <3>1, <3>4, <3>5
    <3> QED  BY <3>2, <3>3, <3>6
  <2> QED  BY <2>2, <2>3
<1>4. K \subseteq T
  <2> HIDE DEF T
  <2> QED  BY <1>1, <1>3, Upwards
<1> QED  BY <1>4

\* The node that is taken out: it has at most one child, and if it is another than the node to
\* be deleted, it holds the next key.
LEMMA VictimIs ==
    ASSUME NEW t, NEW K, NEW B, Whole(t, K, B), NEW z \in K
    PROVE  LET y == Victim(t, z)
           IN /\ y \in K /\ \E s \in Sides : t.child[s][y] = nil
              /\ y # z => /\ z < y /\ B["left"][y] = z /\ y < B["right"][z] /\ t.child["left"][y] = nil
                          /\ \A k \in K : ~(z < k /\ k < y)
<1>1. Shape(t, K, B) /\ K \subseteq Keys /\ t \in Trees
  BY DEF Whole, Shape
<1>2. CASE \E s \in Sides : t.child[s][z] = nil
  BY <1>2 DEF Victim
<1>3. CASE \A s \in Sides : t.child[s][z] # nil
  <2>1. PICK c : c = t.child["right"][z]
    OBVIOUS
  <2>2. c \in K /\ B["right"][c] = B["right"][z] /\ B["left"][c] = z
    BY <1>1, <1>3, <2>1, TwoSides DEF Shape, ChildFits
  <2>3. PICK y : y = Leftmost(t, c)
    OBVIOUS
  <2>4. y = Victim(t, z)
    BY <1>3, <2>1, <2>3 DEF Victim
  <2>5. y \in K /\ t.child["left"][y] = nil /\ B["left"][y] = z /\ B["right"][y] <= B["right"][z]
    BY <2>2, <2>3, LeftmostIs
  <2>6. /\ y \in Nat /\ z \in Nat /\ B["left"][y] < y /\ y < B["right"][y] /\ B["right"][y] \in Nat
        /\ B["right"][z] \in Nat
    BY <1>1, <2>5, KeysAreNumbers, TwoSides DEF Shape, Bounded
  <2>7. ASSUME NEW k \in K, z < k, k < y PROVE FALSE
    <3>1. k \in Nat /\ B["left"][y] < k /\ k < B["right"][y]
      BY <1>1, <2>5, <2>6, <2>7, KeysAreNumbers
    <3>2. k \in Desc(t, y) /\ k # y
      BY <1>1, <2>5, <2>7, <3>1, NoGap
    <3>3. PICK s \in Sides : t.child[s][y] # nil /\ IF s = "left" THEN k < y ELSE k > y
      BY <1>1, <2>5, <3>2, SideOfDesc
    <3> QED  BY <2>5, <2>6, <2>7, <3>1, <3>3
  <2>8. z < y /\ y < B["right"][z]
    BY <2>5, <2>6
  <2> QED  BY <2>4, <2>5, <2>7, <2>8, TwoSides
<1> QED  BY <1>2, <1>3

\* A node is the child of its parent only, and on one side only.
LEMMA Parents ==
    ASSUME NEW t, NEW K, NEW B, Shape(t, K, B), NEW n \in K
    PROVE  /\ n \in Keys /\ n # nil /\ n \in Ptr
           /\ \A m \in K, s \in Sides :
                 t.child[s][m] = n => m = t.parent[n] /\ m # n /\ t.child[Opposite(s)][m] # n
           /\ n = t.root => t.parent[n] = nil
           /\ n # t.root => t.parent[n] \in K /\ \E s \in Sides : t.child[s][t.parent[n]] = n
<1>1. n \in Keys /\ n # nil /\ n \in Ptr /\ n \in Nat
  BY KeysAreNumbers DEF Shape
<1>2. ASSUME NEW m \in K, NEW s \in Sides, t.child[s][m] = n
      PROVE  m = t.parent[n] /\ m # n /\ t.child[Opposite(s)][m] # n
  <2>1. t.parent[n] = m /\ n # m /\ (s = "left" => n < m) /\ (s = "right" => n > m)
    BY <1>1, <1>2, Narrower
  <2>2. ASSUME t.child[Opposite(s)][m] = n PROVE FALSE
    <3>1. (Opposite(s) = "left" => n < m) /\ (Opposite(s) = "right" => n > m)
      BY <1>1, <2>2, Narrower, TwoSides
    <3>2. m \in Nat
      BY KeysAreNumbers DEF Shape
    <3> QED  BY <1>1, <2>1, <3>1, <3>2, TwoSides
  <2> QED  BY <2>1, <2>2
<1>3. n = t.root => t.parent[n] = nil
  BY <1>1 DEF Shape, RootFits
<1>4. n # t.root => t.parent[n] \in K /\ \E s \in Sides : t.child[s][t.parent[n]] = n
  BY DEF Shape
<1> QED  BY <1>1, <1>2, <1>3, <1>4

\* What is a child on one side is not one on the other.
LEMMA OnOneSide ==
    ASSUME NEW t, NEW K, NEW B, Shape(t, K, B), NEW m \in K, NEW s \in Sides, t.child[s][m] \in K
    PROVE  t.child[Opposite(s)][m] # t.child[s][m]
<1>1. \A n \in K, q \in Sides : t.child[q][m] = n => t.child[Opposite(q)][m] # n
  BY Parents
<1> QED  BY <1>1

\* y takes the place of x.
LEMMA ReplaceIs ==
    ASSUME NEW t \in Trees, NEW x \in Keys, NEW y \in Ptr, NEW r, r = Replace(t, x, y)
    PROVE  LET p == t.parent[x]
               s == IF x = t.child["left"][p] THEN "left" ELSE "right"
           IN  IF p = nil THEN Rooted(t, r, y) ELSE ChildIs(t, r, s, p, y)
<1>1. PICK p \in Ptr : p = t.parent[x]
  BY KeysAreNumbers DEF Trees
<1>2. CASE p = nil
  BY <1>1, <1>2, Assignments DEF Replace
<1>3. CASE p # nil
  <2>0. "left" \in Sides /\ "right" \in Sides
    BY TwoSides
  <2>1. p \in Keys
    BY <1>3 DEF Ptr
  <2>2. CASE x = t.child["left"][p]
    <3>1. r = SetChild(t, "left", p, y)
      BY <1>1, <1>3, <2>2 DEF Replace
    <3>2. ChildIs(t, r, "left", p, y)
      BY <2>1, <2>0, <3>1, Assignments
    <3> QED  BY <1>1, <1>3, <2>2, <3>2
  <2>3. CASE x # t.child["left"][p]
    <3>1. r = SetChild(t, "right", p, y)
      BY <1>1, <1>3, <2>3 DEF Replace
    <3>2. ChildIs(t, r, "right", p, y)
      BY <2>1, <2>0, <3>1, Assignments
    <3> QED  BY <1>1, <1>3, <2>3, <3>2
  <2> QED  BY <2>2, <2>3
<1> QED  BY <1>2, <1>3

\* What a rotation does: y comes up from below x, x goes down to the side, and the inner
\* subtree changes from y to x.
RotatedTo(t, K, r, side, x, y) ==
    /\ r \in Trees /\ r.color = t.color
    /\ r.root = IF x = t.root THEN y ELSE t.root
    /\ \A s \in Sides, n \in K : r.child[s][n] = IF n = x /\ s # side THEN t.child[side][y]
                                                 ELSE IF n = y /\ s = side THEN x
                                                 ELSE IF t.child[s][n] = x THEN y
                                                 ELSE t.child[s][n]
    /\ \A s \in Sides, n \in Keys \ K : r.child[s][n] = t.child[s][n]
    /\ \A n \in K \cup {nil} : r.parent[n] = IF n = x THEN y
                                             ELSE IF n = y THEN t.parent[x]
                                             ELSE IF n # nil /\ n = t.child[side][y] THEN x
                                             ELSE t.parent[n]

\* The assignments of a rotation.
RotateParts(t, side, x, y, b, t1, t2, t3, t4, t5, r) ==
    /\ y = t.child[Opposite(side)][x] /\ b = t.child[side][y]
    /\ t1 = SetChild(t, Opposite(side), x, b)
    /\ t2 = IF b = nil THEN t1 ELSE SetParent(t1, b, x)
    /\ t3 = SetParent(t2, y, t.parent[x]) /\ t4 = Replace(t3, x, y)
    /\ t5 = SetChild(t4, side, y, x) /\ r = SetParent(t5, x, y)

\* Together they make it.
LEMMA RotateSteps ==
    ASSUME NEW t, NEW side, NEW x, NEW y, NEW b, NEW t1, NEW t2, NEW t3, NEW t4, NEW t5, NEW r,
           RotateParts(t, side, x, y, b, t1, t2, t3, t4, t5, r)
    PROVE  r = Rotate(t, side, x)
<1>0. /\ y = t.child[Opposite(side)][x] /\ b = t.child[side][y]
      /\ t1 = SetChild(t, Opposite(side), x, b)
      /\ t2 = IF b = nil THEN t1 ELSE SetParent(t1, b, x)
      /\ t3 = SetParent(t2, y, t.parent[x]) /\ t4 = Replace(t3, x, y)
      /\ t5 = SetChild(t4, side, y, x) /\ r = SetParent(t5, x, y)
  BY DEF RotateParts
<1>1. Rotate(t, side, x) = Relink(t, side, x, y, b)
  BY <1>0 DEF Rotate
<1>2. CASE b = nil
  <2>1. Relink(t, side, x, y, b)
        = SetParent(SetChild(Replace(SetParent(t1, y, t.parent[x]), x, y), side, y, x), x, y)
    BY <1>0, <1>2 DEF Relink
  <2> QED  BY <1>0, <1>1, <1>2, <2>1
<1>3. CASE b # nil
  <2>1. Relink(t, side, x, y, b)
        = SetParent(SetChild(Replace(SetParent(SetParent(t1, b, x), y, t.parent[x]), x, y), side, y, x), x, y)
    BY <1>0, <1>3 DEF Relink
  <2> QED  BY <1>0, <1>1, <1>3, <2>1
<1> QED  BY <1>2, <1>3

\* rbtree_left_rotate, rbtree_right_rotate.
LEMMA RotateIs ==
    ASSUME NEW t, NEW K, NEW B, Shape(t, K, B), NEW side \in Sides, NEW x \in K, NEW y,
           y = t.child[Opposite(side)][x], y # nil
    PROVE  RotatedTo(t, K, Rotate(t, side, x), side, x, y) /\ y \in K /\ x # y
<1> DEFINE up == Opposite(side)
<1>1. /\ t \in Trees /\ K \subseteq Keys /\ up \in Sides /\ up # side
            /\ (\A s \in Sides : s = side \/ s = up)
      /\ (\A s \in Sides, n \in Keys : t.child[s][n] \in Ptr) /\ y = t.child[up][x]
  BY TwoSides DEF Shape, Trees
<1>2. y \in K /\ y # x /\ t.parent[y] = x /\ x \in Keys /\ y \in Keys
  BY <1>1, Narrower
<1> HIDE DEF up
<1>3. PICK b \in Ptr : b = t.child[side][y]
  BY <1>1, <1>2
<1>4. b # nil => b \in K /\ t.parent[b] = y /\ b # x /\ b # y
  <2>1. ASSUME b # nil PROVE b \in K /\ t.parent[b] = y /\ b # y
    BY <1>2, <1>3, <2>1, Narrower
  <2>2. ASSUME b # nil, b = x PROVE FALSE
    <3>1. Width(B, b) < Width(B, y) /\ Width(B, y) < Width(B, x) /\ Width(B, b) \in Nat
               /\ Width(B, y) \in Nat
      <4>1. Width(B, y) < Width(B, x) /\ Width(B, y) \in Nat
        BY <1>1, <1>2, Narrower
      <4>2. Width(B, b) < Width(B, y) /\ Width(B, b) \in Nat
        <5>1. t.child[side][y] # nil /\ y \in K
          BY <1>2, <1>3, <2>2
        <5>2. /\ Width(B, t.child[side][y]) < Width(B, y)
              /\ Width(B, t.child[side][y]) \in Nat
          BY <5>1, Narrower
        <5> QED  BY <1>3, <5>2
      <4> QED  BY <4>1, <4>2
    <3> QED  BY <2>2, <3>1
  <2> QED  BY <2>1, <2>2
<1>5. PICK p \in Ptr : p = t.parent[x]
  BY <1>1, KeysAreNumbers DEF Trees
<1>6. p # nil => p \in K /\ p # x /\ p # y /\ x # t.root
  <2>1. ASSUME p # nil PROVE p \in K /\ x # t.root /\ \E s \in Sides : t.child[s][p] = x
    BY <1>5, <2>1, Parents
  <2>2. ASSUME p # nil, p = x \/ p = y PROVE FALSE
    <3>1. PICK s \in Sides : t.child[s][p] = x
      BY <2>1, <2>2
    <3>2. x # nil
      BY <1>2, KeysAreNumbers
    <3>3. Width(B, x) < Width(B, p) /\ Width(B, x) \in Nat /\ Width(B, p) \in Nat
      BY <2>1, <2>2, <3>1, <3>2, Narrower
    <3>4. Width(B, y) < Width(B, x) /\ Width(B, y) \in Nat
      BY <1>1, <1>2, Narrower
    <3> QED  BY <2>2, <3>3, <3>4
  <2> QED  BY <2>1, <2>2
<1>7. PICK t1 : t1 = SetChild(t, up, x, b)
  OBVIOUS
<1>8. ChildIs(t, t1, up, x, b) /\ t1 \in Trees
  <2>1. ChildIs(t, t1, up, x, b)
    BY <1>1, <1>2, <1>7, Assignments
  <2> QED  BY <2>1 DEF ChildIs
<1>9. PICK t2 : t2 = IF b = nil THEN t1 ELSE SetParent(t1, b, x)
  OBVIOUS
<1>10. /\ t2 \in Trees /\ t2.root = t1.root /\ t2.child = t1.child /\ t2.color = t1.color
       /\ \A n \in Ptr : t2.parent[n] = IF n = b /\ b # nil THEN x ELSE t1.parent[n]
  <2>1. b # nil => ParentIs(t1, t2, b, x)
    BY <1>2, <1>3, <1>8, <1>9, Assignments, KeysAreNumbers
  <2> QED  BY <1>8, <1>9, <2>1 DEF ParentIs
<1>11. PICK t3 : t3 = SetParent(t2, y, t.parent[x])
  OBVIOUS
<1>12. ParentIs(t2, t3, y, p) /\ t3 \in Trees
  <2>1. y \in Ptr
    BY <1>2, KeysAreNumbers
  <2>2. ParentIs(t2, t3, y, p)
    BY <1>5, <1>10, <1>11, <2>1, Assignments
  <2> QED  BY <2>2 DEF ParentIs
<1>13. t3.parent[x] = p
  BY <1>2, <1>4, <1>5, <1>8, <1>10, <1>12, KeysAreNumbers DEF ParentIs, ChildIs
<1>14. PICK t4 : t4 = Replace(t3, x, y)
  OBVIOUS
<1>15. IF p = nil THEN Rooted(t3, t4, y)
       ELSE ChildIs(t3, t4, IF x = t3.child["left"][p] THEN "left" ELSE "right", p, y)
  BY <1>2, <1>12, <1>13, <1>14, ReplaceIs, KeysAreNumbers
<1>16. PICK t5 : t5 = SetChild(t4, side, y, x)
  OBVIOUS
<1>17. t4 \in Trees
  BY <1>15 DEF Rooted, ChildIs
<1>18. ChildIs(t4, t5, side, y, x) /\ t5 \in Trees
  <2>1. x \in Ptr
    BY <1>2, KeysAreNumbers
  <2>2. ChildIs(t4, t5, side, y, x)
    BY <1>2, <1>16, <1>17, <2>1, Assignments
  <2> QED  BY <2>2 DEF ChildIs
<1>19. PICK r : r = SetParent(t5, x, y)
  OBVIOUS
<1>20. ParentIs(t5, r, x, y) /\ r \in Trees
  <2>1. x \in Ptr /\ y \in Ptr
    BY <1>2, KeysAreNumbers
  <2>2. ParentIs(t5, r, x, y)
    BY <1>18, <1>19, <2>1, Assignments
  <2> QED  BY <2>2 DEF ParentIs
<1>21. r = Rotate(t, side, x)
  <2>1. t1 = SetChild(t, Opposite(side), x, b)
    BY <1>7 DEF up
  <2>2. RotateParts(t, side, x, y, b, t1, t2, t3, t4, t5, r)
    BY <1>3, <1>9, <1>11, <1>14, <1>16, <1>19, <2>1 DEF RotateParts
  <2> QED  BY <2>2, RotateSteps
<1>22. r.color = t.color
  BY <1>8, <1>10, <1>12, <1>15, <1>18, <1>20 DEF ChildIs, ParentIs, Rooted
<1>23. p = nil <=> x = t.root
  BY <1>5, <1>6, Parents
<1>24. r.root = IF x = t.root THEN y ELSE t.root
  BY <1>8, <1>10, <1>12, <1>15, <1>18, <1>20, <1>23 DEF ChildIs, ParentIs, Rooted
<1>25. \A s \in Sides, n \in Keys : t3.child[s][n] = IF s = up /\ n = x THEN b ELSE t.child[s][n]
  BY <1>8, <1>10, <1>12 DEF ChildIs, ParentIs
<1>26. ASSUME NEW s \in Sides, NEW n \in Keys
       PROVE  /\ n \in K => t4.child[s][n] = IF n = x /\ s = up THEN b
                                             ELSE IF t.child[s][n] = x THEN y ELSE t.child[s][n]
              /\ n \notin K => t4.child[s][n] = t.child[s][n]
  <2>1. CASE p = nil
    <3>1. t4.child[s][n] = t3.child[s][n]
      BY <1>15, <2>1 DEF Rooted
    <3>2. n \in K => t.child[s][n] # x
      BY <1>23, <2>1, <1>5, <1>1, Parents, KeysAreNumbers
    <3> QED  BY <1>2, <1>25, <3>1, <3>2
  <2>2. CASE p # nil
    <3>1. PICK q : q = IF x = t3.child["left"][p] THEN "left" ELSE "right"
      OBVIOUS
    <3>2. ChildIs(t3, t4, q, p, y)
      BY <1>15, <2>2, <3>1
    <3>3. t4.child[s][n] = IF s = q /\ n = p THEN y ELSE t3.child[s][n]
      BY <3>2 DEF ChildIs
    <3>4. PICK v \in Sides : t.child[v][p] = x
      BY <1>5, <1>6, <2>2, Parents
    <3>5. t.child[Opposite(v)][p] # x
      BY <1>6, <2>2, <3>4, Parents
    <3>6. q = v
      <4>1. t3.child["left"][p] = t.child["left"][p]
        BY <1>1, <1>6, <1>25, <2>2, TwoSides
      <4> QED  BY <3>1, <3>4, <3>5, <4>1, TwoSides
    <3>7. ASSUME n \in K PROVE t.child[s][n] = x <=> (s = q /\ n = p)
      <4>1. t.child[s][n] = x => n = p
        BY <1>5, <3>7, Parents
      <4>2. t.child[s][p] = x => s = q
        BY <3>5, <3>6, TwoSides
      <4> QED  BY <3>4, <3>6, <4>1, <4>2
    <3> QED  BY <1>2, <1>6, <1>25, <2>2, <3>3, <3>7
  <2> QED  BY <2>1, <2>2
<1>27. ASSUME NEW s \in Sides, NEW n \in Keys
       PROVE r.child[s][n] = IF s = side /\ n = y THEN x ELSE t4.child[s][n]
  BY <1>18, <1>20 DEF ChildIs, ParentIs
<1>28. \A s \in Sides, n \in K : r.child[s][n] = IF n = x /\ s # side THEN t.child[side][y]
                                                 ELSE IF n = y /\ s = side THEN x
                                                 ELSE IF t.child[s][n] = x THEN y
                                                 ELSE t.child[s][n]
  BY <1>1, <1>2, <1>3, <1>26, <1>27
<1>29. \A s \in Sides, n \in Keys \ K : r.child[s][n] = t.child[s][n]
  BY <1>2, <1>26, <1>27
<1>30. \A n \in K \cup {nil} : r.parent[n] = IF n = x THEN y
                                             ELSE IF n = y THEN t.parent[x]
                                             ELSE IF n # nil /\ n = t.child[side][y] THEN x
                                             ELSE t.parent[n]
  <2>1. \A n \in Ptr : t4.parent[n] = t3.parent[n]
    BY <1>15 DEF Rooted, ChildIs
  <2>2. \A n \in Ptr : t5.parent[n] = t4.parent[n] /\ r.parent[n] = IF n = x THEN y ELSE t5.parent[n]
    BY <1>18, <1>20 DEF ParentIs, ChildIs
  <2>3. \A n \in Ptr : t3.parent[n] = IF n = y THEN p ELSE IF n = b /\ b # nil THEN x ELSE t.parent[n]
    BY <1>8, <1>10, <1>12 DEF ParentIs, ChildIs
  <2>4. K \cup {nil} \subseteq Ptr
    BY <1>1 DEF Ptr
  <2> QED  BY <1>3, <1>5, <2>1, <2>2, <2>3, <2>4
<1> QED  BY <1>2, <1>20, <1>21, <1>22, <1>24, <1>28, <1>29, <1>30 DEF RotatedTo

\* The bounds after a rotation.
Rebound(B, C, K, side, x, y) ==
    /\ C \in [Sides -> [K -> 0 .. MaxKey + 1]]
    /\ \A s \in Sides, n \in K : C[s][n] = IF n = y /\ s = side THEN B[s][x]
                                           ELSE IF n = x /\ s # side THEN y
                                           ELSE B[s][n]

\* There are such bounds.
LEMMA ReboundExists ==
    ASSUME NEW t, NEW K, NEW B, Shape(t, K, B), NEW side \in Sides, NEW x \in K, NEW y \in K
    PROVE  \E C : Rebound(B, C, K, side, x, y)
<1>1. PICK C : C = [s \in Sides |-> [n \in K |-> IF n = y /\ s = side THEN B[s][x]
                                                 ELSE IF n = x /\ s # side THEN y
                                                 ELSE B[s][n]]]
  OBVIOUS
<1>2. y \in 0 .. MaxKey + 1
  BY KeysAreNumbers DEF Shape
<1>3. \A s \in Sides, n \in K : B[s][n] \in 0 .. MaxKey + 1
  BY DEF Shape, Bounded
<1>4. \A s \in Sides, n \in K : C[s][n] = IF n = y /\ s = side THEN B[s][x]
                                          ELSE IF n = x /\ s # side THEN y
                                          ELSE B[s][n]
  BY <1>1
<1>5. C \in [Sides -> [K -> 0 .. MaxKey + 1]]
  BY <1>1, <1>2, <1>3
<1> QED  BY <1>4, <1>5 DEF Rebound

\* A rotation keeps the shape of the tree.
LEMMA RotateShape ==
    ASSUME NEW t, NEW K, NEW B, Shape(t, K, B), NEW side \in Sides, NEW x \in K, NEW y \in K,
           y = t.child[Opposite(side)][x], NEW r, RotatedTo(t, K, r, side, x, y),
           NEW C, Rebound(B, C, K, side, x, y)
    PROVE  Shape(r, K, C)
<1>1. PICK up \in Sides : /\ up = Opposite(side) /\ up # side /\ (\A s \in Sides : s = side \/ s = up)
                          /\ y = t.child[up][x] /\ Opposite(up) = side
  BY TwoSides
<1>2. /\ t \in Trees /\ r \in Trees /\ K \subseteq Keys /\ y # nil /\ x # nil
      /\ \A n \in K : n # nil /\ n \in Nat
  BY KeysAreNumbers DEF Shape, RotatedTo
<1>3. y # x /\ t.parent[y] = x /\ B[up][y] = B[up][x] /\ B[side][y] = x
  BY <1>1, <1>2, Narrower DEF Shape, ChildFits
<1>4. PICK b : b = t.child[side][y]
  OBVIOUS
<1>5. b # nil => b \in K /\ t.parent[b] = y /\ b # x /\ b # y /\ B[side][b] = x /\ B[up][b] = y
  <2>1. ASSUME b # nil PROVE b \in K /\ t.parent[b] = y /\ B[side][b] = B[side][y] /\ B[up][b] = y
    BY <1>1, <1>4, <2>1 DEF Shape, ChildFits
  <2>2. ASSUME b # nil PROVE b # y
    BY <1>2, <1>4, <2>2, Narrower
  <2>3. ASSUME b = x PROVE FALSE
    <3>1. B[up][x] = y
      BY <1>2, <2>1, <2>3
    <3>2. B[up][y] = y
      BY <1>3, <3>1
    <3> QED  BY <1>2, <3>2, TwoSides DEF Shape, Bounded
  <2> QED  BY <1>3, <2>1, <2>2, <2>3
<1>6. /\ C \in [Sides -> [K -> 0 .. MaxKey + 1]]
      /\ C[side][y] = B[side][x] /\ C[up][x] = y
      /\ \A s \in Sides, n \in K : ~(n = y /\ s = side) /\ ~(n = x /\ s # side) => C[s][n] = B[s][n]
  BY <1>1, <1>3 DEF Rebound
<1>7. \A q \in Sides : C[q][y] = B[q][x]
  BY <1>1, <1>3, <1>6
<1>8. \A n \in K, s \in Sides : n # x /\ n # y => C[s][n] = B[s][n]
  BY <1>6
<1>9. Bounded(K, C)
  <2>1. \A n \in K : B["left"][n] \in Nat /\ B["right"][n] \in Nat /\ B["left"][n] < n /\ n < B["right"][n]
    BY TwoSides DEF Shape, Bounded
  <2>2. C["left"][y] < y /\ y < C["right"][y] /\ C["left"][x] < x /\ x < C["right"][x]
    <3>1. CASE side = "left"
      <4>1. up = "right"
        BY <1>1, <3>1, TwoSides
      <4>2. B["left"][y] = x /\ C["right"][x] = y /\ C["left"][x] = B["left"][x]
        BY <1>1, <1>3, <1>6, <3>1, <4>1, TwoSides
      <4>3. C["left"][y] = B["left"][x] /\ C["right"][y] = B["right"][y]
        BY <1>3, <1>6, <3>1, TwoSides
      <4> QED  BY <1>2, <2>1, <4>2, <4>3
    <3>2. CASE side = "right"
      <4>1. up = "left"
        BY <1>1, <3>2, TwoSides
      <4>2. B["right"][y] = x /\ C["left"][x] = y /\ C["right"][x] = B["right"][x]
        BY <1>1, <1>3, <1>6, <3>2, <4>1, TwoSides
      <4>3. C["right"][y] = B["right"][x] /\ C["left"][y] = B["left"][y]
        BY <1>3, <1>6, <3>2, TwoSides
      <4> QED  BY <1>2, <2>1, <4>2, <4>3
    <3> QED  BY <3>1, <3>2, TwoSides
  <2>3. \A n \in K : n # x /\ n # y => C["left"][n] < n /\ n < C["right"][n]
    BY <1>8, <2>1, TwoSides
  <2> QED  BY <1>6, <2>2, <2>3 DEF Bounded
<1>10. /\ r.root = IF x = t.root THEN y ELSE t.root
       /\ \A s \in Sides, n \in K : r.child[s][n] = IF n = x /\ s # side THEN b
                                                    ELSE IF n = y /\ s = side THEN x
                                                    ELSE IF t.child[s][n] = x THEN y
                                                    ELSE t.child[s][n]
       /\ \A n \in K : r.parent[n] = IF n = x THEN y
                                     ELSE IF n = y THEN t.parent[x]
                                     ELSE IF n = b THEN x
                                     ELSE t.parent[n]
  BY <1>2, <1>4 DEF RotatedTo
<1>11. t.root \in K /\ t.parent[t.root] = nil /\ B["left"][t.root] = 0 /\ B["right"][t.root] = MaxKey + 1
  BY DEF Shape, RootFits
<1>12. RootFits(r, K, C)
  <2>1. CASE x = t.root
    <3>1. r.root = y /\ r.parent[y] = nil
      BY <1>3, <1>10, <1>11, <2>1
    <3>2. C["left"][y] = 0 /\ C["right"][y] = MaxKey + 1
      BY <1>7, <1>11, <2>1, TwoSides
    <3> QED  BY <1>2, <3>1, <3>2 DEF RootFits
  <2>2. CASE x # t.root
    <3>1. r.root = t.root /\ t.root # y /\ t.root # b /\ t.root # nil
      BY <1>2, <1>3, <1>5, <1>10, <1>11, <2>2
    <3>2. r.parent[t.root] = nil
      BY <1>10, <1>11, <2>2, <3>1
    <3>3. C["left"][t.root] = 0 /\ C["right"][t.root] = MaxKey + 1
      BY <1>8, <1>11, <2>2, <3>1, TwoSides
    <3> QED  BY <1>11, <3>1, <3>2, <3>3 DEF RootFits
  <2> QED  BY <2>1, <2>2
<1>13. \A n \in K : t.parent[n] = nil \/ t.parent[n] \in K
  BY Parents
<1>14. ASSUME NEW n \in K, NEW s \in Sides PROVE ChildFits(r, K, C, n, s)
  <2>0. Opposite(s) \in Sides /\ Opposite(s) # s
    BY TwoSides
  <2>1. CASE n = x /\ s = up
    <3>1. r.child[s][n] = b
      BY <1>1, <1>10, <2>1
    <3>2. ASSUME b # nil PROVE r.parent[b] = x /\ C[up][b] = y /\ C[side][b] = x
      BY <1>1, <1>5, <1>8, <1>10, <3>2
    <3> QED  BY <1>1, <1>5, <1>6, <2>1, <3>1, <3>2 DEF ChildFits
  <2>2. CASE n = y /\ s = side
    <3>1. r.child[s][n] = x /\ r.parent[x] = y
      BY <1>3, <1>10, <2>2
    <3>2. C[side][x] = B[side][x]
      BY <1>3, <1>6
    <3> QED  BY <1>1, <1>6, <2>2, <3>1, <3>2 DEF ChildFits
  <2>3. CASE t.child[s][n] = x /\ ~(n = x /\ s = up) /\ ~(n = y /\ s = side)
    <3>1. n = t.parent[x] /\ n # x
      BY <2>3, Parents
    <3>2. n # y
      <4>1. ASSUME n = y PROVE FALSE
        <5>1. Width(B, x) < Width(B, y) /\ Width(B, x) \in Nat /\ Width(B, y) \in Nat
          BY <1>2, <2>3, <4>1, Narrower
        <5>2. Width(B, y) < Width(B, x)
          BY <1>1, <1>2, Narrower
        <5> QED  BY <5>1, <5>2
      <4> QED  BY <4>1
    <3>3. r.child[s][n] = y /\ r.parent[y] = n
      BY <1>3, <1>10, <2>3, <3>1, <3>2
    <3>4. B[s][x] = B[s][n] /\ B[Opposite(s)][x] = n
      BY <1>2, <2>3 DEF Shape, ChildFits
    <3>5. C[s][y] = C[s][n] /\ C[Opposite(s)][y] = n
      BY <1>7, <1>8, <2>0, <3>1, <3>2, <3>4
    <3> QED  BY <3>3, <3>5 DEF ChildFits
  <2>4. CASE t.child[s][n] # x /\ ~(n = x /\ s = up) /\ ~(n = y /\ s = side)
    <3>1. PICK c : c = t.child[s][n]
      OBVIOUS
    <3>2. r.child[s][n] = c
      BY <1>1, <1>10, <2>4, <3>1
    <3>3. SUFFICES ASSUME c # nil
                   PROVE  c \in K /\ r.parent[c] = n /\ C[s][c] = C[s][n] /\ C[Opposite(s)][c] = n
      BY <3>2 DEF ChildFits
    <3>4. c \in K /\ t.parent[c] = n /\ B[s][c] = B[s][n] /\ B[Opposite(s)][c] = n
      BY <3>1, <3>3 DEF Shape, ChildFits
    <3>5. c # y
      <4>1. ASSUME c = y PROVE FALSE
        <5>1. n = x
          BY <1>3, <3>4, <4>1
        <5>2. \A m \in K, q \in Sides : t.child[q][m] = y => t.child[Opposite(q)][m] # y
          <6>1. PICK k \in K : k = y
            OBVIOUS
          <6> QED  BY <6>1, Parents, SMTT(30)
        <5>3. t.child[Opposite(up)][x] # y
          BY <1>1, <5>2
        <5> QED  BY <1>1, <2>4, <3>1, <4>1, <5>1, <5>3
      <4> QED  BY <4>1
    <3>6. c # b
      <4>1. ASSUME c = b PROVE FALSE
        <5>1. n = y
          BY <1>5, <3>3, <3>4, <4>1
        <5>2. t.child[Opposite(side)][y] # b
          <6>1. t.child[side][y] \in K
            BY <1>4, <3>4, <4>1
          <6> QED  BY <1>4, <6>1, OnOneSide
        <5> QED  BY <1>1, <2>4, <3>1, <4>1, <5>1, <5>2
      <4> QED  BY <4>1
    <3>7. r.parent[c] = n
      BY <1>10, <2>4, <3>1, <3>4, <3>5, <3>6
    <3>8. C[s][c] = B[s][c] /\ C[Opposite(s)][c] = B[Opposite(s)][c]
      BY <1>8, <2>0, <2>4, <3>1, <3>4, <3>5
    <3>9. C[s][n] = B[s][n]
      BY <1>1, <1>6, <2>4
    <3> QED  BY <3>4, <3>7, <3>8, <3>9
  <2> QED  BY <2>1, <2>2, <2>3, <2>4
<1>15. ASSUME NEW n \in K, n # r.root
       PROVE  r.parent[n] \in K /\ \E s \in Sides : r.child[s][r.parent[n]] = n
  <2>1. CASE n = x
    <3>1. r.parent[n] = y /\ r.child[side][y] = x
      BY <1>3, <1>10, <2>1
    <3> QED  BY <2>1, <3>1
  <2>2. CASE n = y
    <3>1. x # t.root /\ r.parent[n] = t.parent[x]
      BY <1>3, <1>10, <1>15, <2>2
    <3>2. PICK p \in K, s \in Sides : p = t.parent[x] /\ t.child[s][p] = x
      BY <3>1, Parents
    <3>3. p # x
      BY <3>2, Parents
    <3>4. p # y
      <4>1. ASSUME p = y PROVE FALSE
        <5>1. Width(B, x) < Width(B, y) /\ Width(B, x) \in Nat /\ Width(B, y) \in Nat
          BY <1>2, <3>2, <4>1, Narrower
        <5>2. Width(B, y) < Width(B, x)
          BY <1>1, <1>2, Narrower
        <5> QED  BY <5>1, <5>2
      <4> QED  BY <4>1
    <3>5. r.child[s][p] = y
      BY <1>10, <3>2, <3>3, <3>4
    <3> QED  BY <2>2, <3>1, <3>2, <3>5
  <2>3. CASE n # x /\ n # y /\ n = b
    <3>1. r.parent[n] = x /\ r.child[up][x] = b
      BY <1>1, <1>10, <2>3
    <3> QED  BY <2>3, <3>1
  <2>4. CASE n # x /\ n # y /\ n # b
    <3>1. r.parent[n] = t.parent[n] /\ n # t.root
      BY <1>10, <1>15, <2>4
    <3>2. PICK p \in K, s \in Sides : p = t.parent[n] /\ t.child[s][p] = n
      BY <3>1, Parents
    <3>3. r.child[s][p] = n
      BY <1>1, <1>4, <1>10, <2>4, <3>2
    <3> QED  BY <3>1, <3>2, <3>3
  <2> QED  BY <2>1, <2>2, <2>3, <2>4
<1> QED  BY <1>2, <1>9, <1>12, <1>14, <1>15 DEF Shape

\* What a node adds to the black height.
Unit(t, n) == IF t.color[n] = "black" THEN 1 ELSE 0

\* One black node is missing below p on the side d.
Lack(p, d, n, s) == IF n = p /\ s = d THEN 1 ELSE 0

Heights(h) == h \in [Ptr -> Nat] /\ h[nil] = 0

HeightFits(t, h, p, d, n) == \A s \in Sides : h[n] = h[t.child[s][n]] + Unit(t, n) + Lack(p, d, n, s)

\* h is the black height of every node, but for what is missing.
Balanced(t, K, h, p, d) == Heights(h) /\ \A n \in K : HeightFits(t, h, p, d, n)

\* A red node has black children, but for the node e.
RedFits(t, e, n) ==
    t.color[n] = "red" => \A s \in Sides : t.child[s][n] # e => t.color[t.child[s][n]] = "black"

\* Only colors change.
SameLinks(t, r) == r \in Trees /\ r.root = t.root /\ r.child = t.child /\ r.parent = t.parent

\* Colors have nothing to do with the shape.
LEMMA PaintedShape ==
    ASSUME NEW t, NEW K, NEW B, Shape(t, K, B), NEW r, SameLinks(t, r)
    PROVE  Shape(r, K, B)
<1>1. \A n \in K, s \in Sides : ChildFits(t, K, B, n, s) => ChildFits(r, K, B, n, s)
  BY DEF ChildFits, SameLinks
<1>2. RootFits(r, K, B)
  BY DEF Shape, RootFits, SameLinks
<1> QED  BY <1>1, <1>2 DEF Shape, SameLinks

\* The other nodes keep their children, but for y in the place of x.
OthersKeep(t, K, r, x, y) ==
    \A n \in K \ {x, y}, s \in Sides :
        /\ t.child[s][n] = x => r.child[s][n] = y
        /\ t.child[s][n] # x => r.child[s][n] = t.child[s][n] /\ t.child[s][n] # y

\* The children of the two nodes after a rotation, and of the others.
LEMMA RotatedKids ==
    ASSUME NEW t, NEW K, NEW B, Shape(t, K, B), NEW side \in Sides, NEW x \in K, NEW y \in K,
           y = t.child[Opposite(side)][x], NEW r, RotatedTo(t, K, r, side, x, y)
    PROVE  /\ r.child[side][x] = t.child[side][x]
           /\ r.child[Opposite(side)][x] = t.child[side][y]
           /\ r.child[side][y] = x
           /\ r.child[Opposite(side)][y] = t.child[Opposite(side)][y]
           /\ x # y
           /\ t.child[side][x] # x /\ t.child[side][x] # y
           /\ t.child[side][y] # x /\ t.child[side][y] # y
           /\ t.child[Opposite(side)][y] # x /\ t.child[Opposite(side)][y] # y
           /\ OthersKeep(t, K, r, x, y)
<1>1. PICK up \in Sides : up = Opposite(side) /\ up # side /\ y = t.child[up][x]
  BY TwoSides
<1>2. y # nil /\ x # nil /\ y # x
  BY <1>1, Parents
<1>3. \A m \in K, s \in Sides : t.child[s][m] = y => m = x /\ t.child[Opposite(s)][m] # y
  <2>1. PICK k \in K : k = y
    OBVIOUS
  <2>2. t.parent[k] = x
    BY <1>1, <2>1, Parents
  <2> QED  BY <2>1, <2>2, Parents
<1>4. \A m \in K, s \in Sides : t.child[s][m] = x => m # x /\ m # y
  <2>1. ASSUME NEW s \in Sides, t.child[s][y] = x PROVE FALSE
    <3>1. Width(B, x) < Width(B, y) /\ Width(B, x) \in Nat /\ Width(B, y) \in Nat
      BY <1>2, <2>1, Narrower
    <3>2. Width(B, y) < Width(B, x)
      BY <1>1, <1>2, Narrower
    <3> QED  BY <3>1, <3>2
  <2>2. \A m \in K, s \in Sides : t.child[s][m] = x => m # x
    <3>1. PICK k \in K : k = x
      OBVIOUS
    <3> QED  BY <3>1, Parents
  <2> QED  BY <2>1, <2>2
<1>5. t.child[side][x] # y
  <2>1. t.child[Opposite(up)][x] # y
    BY <1>1, <1>3
  <2> QED  BY <1>1, <2>1, TwoSides
<1>6. \A s \in Sides, n \in K : r.child[s][n] = IF n = x /\ s # side THEN t.child[side][y]
                                                 ELSE IF n = y /\ s = side THEN x
                                                 ELSE IF t.child[s][n] = x THEN y
                                                 ELSE t.child[s][n]
  BY DEF RotatedTo
<1>7. \A s \in Sides : /\ t.child[s][x] # x /\ t.child[s][y] # x /\ t.child[s][y] # y
  BY <1>2, <1>3, <1>4
<1>8. r.child[side][x] = t.child[side][x] /\ r.child[up][x] = t.child[side][y]
  BY <1>1, <1>2, <1>6, <1>7
<1>9. r.child[side][y] = x /\ r.child[up][y] = t.child[up][y]
  BY <1>1, <1>2, <1>6, <1>7
<1>10. OthersKeep(t, K, r, x, y)
  BY <1>3, <1>6 DEF OthersKeep
<1> QED  BY <1>1, <1>2, <1>5, <1>7, <1>8, <1>9, <1>10

\* The heights after a rotation: only x has a new one, and y that of x before.
Reheight(h, g, x, y, hx) ==
    Heights(g) /\ g[x] = hx /\ g[y] = h[x] /\ \A n \in Ptr \ {x, y} : g[n] = h[n]

\* What the heights have to be before it, when hx is the height that x gets.
HeightsReady(t, K, h, p, d, side, x, y, hx) ==
    /\ Heights(h) /\ hx \in Nat /\ \A n \in K \ {x, y} : HeightFits(t, h, p, d, n)
    /\ hx = h[t.child[side][x]] + Unit(t, x) + Lack(p, d, x, side)
    /\ hx = h[t.child[side][y]] + Unit(t, x) + Lack(p, d, x, Opposite(side))
    /\ h[x] = hx + Unit(t, y) + Lack(p, d, y, side)
    /\ h[x] = h[t.child[Opposite(side)][y]] + Unit(t, y) + Lack(p, d, y, Opposite(side))

\* With such heights every node but x and y keeps fitting, and so do these two.
LEMMA RotateBalance ==
    ASSUME NEW t, NEW K, NEW B, Shape(t, K, B), NEW side \in Sides, NEW x \in K, NEW y \in K,
           y = t.child[Opposite(side)][x], NEW r, RotatedTo(t, K, r, side, x, y),
           NEW h, NEW p, NEW d, NEW hx, HeightsReady(t, K, h, p, d, side, x, y, hx)
    PROVE  \E g : Balanced(r, K, g, p, d) /\ Reheight(h, g, x, y, hx)
<1>0. /\ Heights(h) /\ hx \in Nat /\ \A n \in K \ {x, y} : HeightFits(t, h, p, d, n)
      /\ hx = h[t.child[side][x]] + Unit(t, x) + Lack(p, d, x, side)
      /\ hx = h[t.child[side][y]] + Unit(t, x) + Lack(p, d, x, Opposite(side))
      /\ h[x] = hx + Unit(t, y) + Lack(p, d, y, side)
      /\ h[x] = h[t.child[Opposite(side)][y]] + Unit(t, y) + Lack(p, d, y, Opposite(side))
  BY DEF HeightsReady
<1>1. PICK g : g = [n \in Ptr |-> IF n = x THEN hx ELSE IF n = y THEN h[x] ELSE h[n]]
  OBVIOUS
<1>2. x \in Keys /\ y \in Keys /\ x \in Ptr /\ y \in Ptr /\ x # nil /\ y # nil /\ x # y
  <2>1. x \in Keys /\ x \in Ptr /\ x # nil
    BY Parents
  <2>2. y \in Keys /\ y \in Ptr /\ y # nil
    BY Parents
  <2>3. x # y
    BY RotatedKids
  <2> QED  BY <2>1, <2>2, <2>3
<1>3. Heights(g) /\ \A n \in Ptr : g[n] = IF n = x THEN hx ELSE IF n = y THEN h[x] ELSE h[n]
  BY <1>0, <1>1, <1>2, KeysAreNumbers DEF Heights
<1>4. Reheight(h, g, x, y, hx)
  BY <1>2, <1>3 DEF Reheight
<1>5. PICK a, b, c : a = t.child[side][x] /\ b = t.child[side][y] /\ c = t.child[Opposite(side)][y]
  OBVIOUS
<1>6. /\ r.child[side][x] = a /\ r.child[Opposite(side)][x] = b
      /\ r.child[side][y] = x /\ r.child[Opposite(side)][y] = c
      /\ a # x /\ a # y /\ b # x /\ b # y /\ c # x /\ c # y
  BY <1>5, RotatedKids
<1>7. \A n \in K \ {x, y}, s \in Sides :
                 /\ t.child[s][n] = x => r.child[s][n] = y
                 /\ t.child[s][n] # x => r.child[s][n] = t.child[s][n] /\ t.child[s][n] # y
  <2>1. OthersKeep(t, K, r, x, y)
    BY RotatedKids
  <2> QED  BY <2>1 DEF OthersKeep
<1>8. \A s \in Sides, n \in Keys : t.child[s][n] \in Ptr
  BY DEF Shape, Trees
<1>9. g[a] = h[a] /\ g[b] = h[b] /\ g[c] = h[c]
  <2>1. a \in Ptr /\ b \in Ptr /\ c \in Ptr
    <3>1. Opposite(side) \in Sides
      BY TwoSides
    <3> QED  BY <1>2, <1>5, <1>8, <3>1
  <2> QED  BY <1>3, <1>6, <2>1
<1>10. \A n : Unit(r, n) = Unit(t, n)
  BY DEF Unit, RotatedTo
<1>11. HeightFits(r, g, p, d, x)
  <2>1. /\ g[x] = g[r.child[side][x]] + Unit(r, x) + Lack(p, d, x, side)
        /\ g[x] = g[r.child[Opposite(side)][x]] + Unit(r, x) + Lack(p, d, x, Opposite(side))
    BY <1>0, <1>2, <1>3, <1>5, <1>6, <1>9, <1>10
  <2>2. \A s \in Sides : s = side \/ s = Opposite(side)
    BY TwoSides
  <2> QED  BY <2>1, <2>2 DEF HeightFits
<1>12. HeightFits(r, g, p, d, y)
  <2>1. /\ g[y] = g[r.child[side][y]] + Unit(r, y) + Lack(p, d, y, side)
        /\ g[y] = g[r.child[Opposite(side)][y]] + Unit(r, y) + Lack(p, d, y, Opposite(side))
    BY <1>0, <1>2, <1>3, <1>5, <1>6, <1>9, <1>10
  <2>2. \A s \in Sides : s = side \/ s = Opposite(side)
    BY TwoSides
  <2> QED  BY <2>1, <2>2 DEF HeightFits
<1>13. ASSUME NEW n \in K \ {x, y} PROVE HeightFits(r, g, p, d, n)
  <2>1. n \in Keys /\ n \in Ptr /\ g[n] = h[n]
    BY <1>3, Parents
  <2>2. ASSUME NEW s \in Sides PROVE g[r.child[s][n]] = h[t.child[s][n]]
    BY <1>2, <1>3, <1>7, <1>8, <2>1
  <2> QED  BY <1>0, <1>10, <2>1, <2>2 DEF HeightFits
<1>14. Balanced(r, K, g, p, d)
  BY <1>3, <1>11, <1>12, <1>13 DEF Balanced
<1> QED  BY <1>4, <1>14

\* What the colors have to be before a rotation.
RedsReady(t, K, side, x, y, e) ==
    /\ \A n \in K \ {x, y}, s \in Sides :
          t.color[n] = "red" /\ t.child[s][n] # e /\ t.child[s][n] # x => t.color[t.child[s][n]] = "black"
    /\ \A n \in K, s \in Sides : t.child[s][n] = x /\ t.color[n] = "red" => t.color[y] = "black"
    /\ t.color[x] = "red" =>
          \A c \in {t.child[side][x], t.child[side][y]} : c = e \/ t.color[c] = "black"
    /\ t.color[y] = "red" => \A c \in {x, t.child[Opposite(side)][y]} : c = e \/ t.color[c] = "black"

\* The colors after a rotation.
LEMMA RotateReds ==
    ASSUME NEW t, NEW K, NEW B, Shape(t, K, B), NEW side \in Sides, NEW x \in K, NEW y \in K,
           y = t.child[Opposite(side)][x], NEW r, RotatedTo(t, K, r, side, x, y),
           NEW e, RedsReady(t, K, side, x, y, e)
    PROVE  \A n \in K : RedFits(r, e, n)
<1>0. \A s \in Sides : s = side \/ s = Opposite(side)
  BY TwoSides
<1>1. r.color = t.color
  BY DEF RotatedTo
<1>2. RedFits(r, e, x)
  <2>1. r.child[side][x] = t.child[side][x] /\ r.child[Opposite(side)][x] = t.child[side][y]
    BY RotatedKids
  <2> QED  BY <1>0, <1>1, <2>1 DEF RedFits, RedsReady
<1>3. RedFits(r, e, y)
  <2>1. r.child[side][y] = x /\ r.child[Opposite(side)][y] = t.child[Opposite(side)][y]
    BY RotatedKids
  <2> QED  BY <1>0, <1>1, <2>1 DEF RedFits, RedsReady
<1>4. ASSUME NEW n \in K \ {x, y} PROVE RedFits(r, e, n)
  <2>1. ASSUME NEW s \in Sides, t.color[n] = "red", r.child[s][n] # e
        PROVE t.color[r.child[s][n]] = "black"
    <3>0. OthersKeep(t, K, r, x, y)
      BY RotatedKids
    <3>1. /\ t.child[s][n] = x => r.child[s][n] = y
          /\ t.child[s][n] # x => r.child[s][n] = t.child[s][n]
      BY <3>0 DEF OthersKeep
    <3> QED  BY <1>1, <2>1, <3>1 DEF RedsReady
  <2> QED  BY <1>1, <2>1 DEF RedFits
<1> QED  BY <1>2, <1>3, <1>4

\* During an insertion: only the red node z may have a red parent, or be a red root.
InsertingAt(t, K, B, h, z) ==
    /\ Whole(t, K, B) /\ Balanced(t, K, h, nil, "left")
    /\ z \in K /\ t.color[z] = "red" /\ t.color[nil] = "black"
    /\ \A n \in K : RedFits(t, z, n)
    /\ t.color[t.root] = "black" \/ t.root = z

\* A red-black tree of the keys K.
RedBlack(t, K, B, h) ==
    /\ Whole(t, K, B) /\ Balanced(t, K, h, nil, "left")
    /\ t.color[nil] = "black" /\ t.color[t.root] = "black"
    /\ \A n \in K : RedFits(t, nil, n)

\* The new node z is a red leaf below y.
PutIn(t, r, z, y, side) ==
    /\ r \in Trees
    /\ r.root = IF y = nil THEN z ELSE t.root
    /\ \A s \in Sides, n \in Keys :
            r.child[s][n] = IF y # nil /\ s = side /\ n = y THEN z
                                                            ELSE t.child[s][n]
    /\ \A n \in Ptr : r.parent[n] = IF n = z THEN y ELSE t.parent[n]
    /\ \A n \in Ptr : r.color[n] = IF n = z THEN "red" ELSE t.color[n]

\* What rbtree_insert writes before the fixup is this.
LEMMA PutInIs ==
    ASSUME NEW t \in Trees, NEW z \in Keys, NEW y \in Ptr, NEW side \in Sides, NEW t1, NEW r,
           t1 = SetColor(SetParent(t, z, y), z, "red"),
           r = IF y = nil THEN [t1 EXCEPT !.root = z] ELSE SetChild(t1, side, y, z)
    PROVE  PutIn(t, r, z, y, side)
<1>1. z \in Ptr
  BY KeysAreNumbers
<1>2. PICK t0 : t0 = SetParent(t, z, y)
  OBVIOUS
<1>3. ParentIs(t, t0, z, y)
  BY <1>1, <1>2, Assignments
<1>4. t0 \in Trees
  BY <1>3 DEF ParentIs
<1>5. ColorIs(t0, t1, z, "red")
  BY <1>1, <1>2, <1>4, Assignments
<1>6. t1 \in Trees
  BY <1>5 DEF ColorIs
<1>7. CASE y = nil
  <2>1. Rooted(t1, r, z)
    BY <1>1, <1>6, <1>7, Assignments
  <2> QED  BY <1>3, <1>5, <1>7, <2>1 DEF PutIn, ParentIs, ColorIs, Rooted
<1>8. CASE y # nil
  <2>1. y \in Keys
    BY <1>8 DEF Ptr
  <2>2. ChildIs(t1, r, side, y, z)
    BY <1>1, <1>6, <1>8, <2>1, Assignments
  <2>3. /\ r \in Trees /\ r.root = t.root
        /\ \A s \in Sides, n \in Keys : r.child[s][n] = IF s = side /\ n = y THEN z ELSE t.child[s][n]
    BY <1>3, <1>5, <2>2 DEF ParentIs, ColorIs, ChildIs
  <2>4. /\ \A n \in Ptr : r.parent[n] = IF n = z THEN y ELSE t.parent[n]
        /\ \A n \in Ptr : r.color[n] = IF n = z THEN "red" ELSE t.color[n]
    BY <1>3, <1>5, <2>2 DEF ParentIs, ColorIs, ChildIs
  <2> QED  BY <1>8, <2>3, <2>4 DEF PutIn
<1> QED  BY <1>7, <1>8

\* z belongs below y: there is no child yet, and it is between the bounds of y.
Belongs(t, K, B, z, y, side) ==
    /\ y = nil <=> K = {}
    /\ y # nil => /\ y \in K /\ t.child[side][y] = nil
                  /\ B["left"][y] < z /\ z < B["right"][y]
                  /\ IF side = "left" THEN z < y ELSE y < z

\* The shape of the tree with the new leaf.
LEMMA PutInShape ==
    ASSUME NEW t, NEW K, NEW B, Whole(t, K, B), NEW z \in Keys \ K, NEW y \in Ptr, NEW side \in Sides,
           Belongs(t, K, B, z, y, side), NEW r, PutIn(t, r, z, y, side)
    PROVE  \E C : Whole(r, K \cup {z}, C)
<1> DEFINE J == K \cup {z}
<1>1. Shape(t, K, B) /\ K \subseteq Keys /\ Clear(t, Keys \ K) /\ t \in Trees
  BY DEF Whole, Shape
<1>2. /\ MaxKey + 1 \in Nat /\ 0 \in 0 .. MaxKey + 1 /\ MaxKey + 1 \in 0 .. MaxKey + 1
      /\ \A k \in Keys : k \in 0 .. MaxKey + 1 /\ k \in Nat /\ k # nil /\ 0 < k /\ k < MaxKey + 1
            /\ k \in Ptr
  BY KeysAreNumbers
<1>3. PICK C : C = [s \in Sides |-> [n \in J |-> IF n # z THEN B[s][n]
                                                 ELSE IF y = nil THEN (IF s = "left" THEN 0
                                                      ELSE MaxKey + 1)
                                                 ELSE IF s = side THEN B[s][y] ELSE y]]
  OBVIOUS
<1>4. \A s \in Sides, n \in J : C[s][n] = IF n # z THEN B[s][n]
                                          ELSE IF y = nil THEN (IF s = "left" THEN 0 ELSE MaxKey + 1)
                                          ELSE IF s = side THEN B[s][y] ELSE y
  BY <1>3
<1>5. /\ \A s \in Sides, n \in K : B[s][n] \in 0 .. MaxKey + 1
      /\ \A n \in K : B["left"][n] < n /\ n < B["right"][n]
  BY <1>1 DEF Shape, Bounded
<1>6. y # nil => /\ y \in K /\ t.child[side][y] = nil /\ y \in Keys
                 /\ B["left"][y] < z /\ z < B["right"][y]
                 /\ IF side = "left" THEN z < y ELSE y < z
  BY <1>1 DEF Belongs
<1>7. Bounded(J, C)
  <2>1. C \in [Sides -> [J -> 0 .. MaxKey + 1]]
    <3>1. \A s \in Sides, n \in J : (IF n # z THEN B[s][n]
                                     ELSE IF y = nil THEN (IF s = "left" THEN 0 ELSE MaxKey + 1)
                                     ELSE IF s = side THEN B[s][y] ELSE y) \in 0 .. MaxKey + 1
      BY <1>2, <1>5, <1>6
    <3> QED  BY <1>3, <3>1
  <2>2. C["left"][z] < z /\ z < C["right"][z]
    <3>1. CASE y = nil
      BY <1>2, <1>4, <3>1, TwoSides
    <3>2. CASE y # nil
      BY <1>4, <1>6, <3>2, TwoSides
    <3> QED  BY <3>1, <3>2
  <2>3. \A n \in K : C["left"][n] < n /\ n < C["right"][n]
    BY <1>4, <1>5, TwoSides
  <2> QED  BY <2>1, <2>2, <2>3 DEF Bounded
<1>8. /\ r \in Trees
      /\ r.root = IF y = nil THEN z ELSE t.root
      /\ \A s \in Sides, n \in Keys :
              r.child[s][n] = IF y # nil /\ s = side /\ n = y THEN z
                                                              ELSE t.child[s][n]
      /\ \A n \in Keys : r.parent[n] = IF n = z THEN y ELSE t.parent[n]
  BY <1>2 DEF PutIn
<1>9. \A s \in Sides : r.child[s][z] = nil
  BY <1>1, <1>6, <1>8 DEF Clear
<1>10. RootFits(r, J, C)
  <2>1. CASE y = nil
    BY <1>2, <1>4, <1>8, <2>1, TwoSides DEF RootFits
  <2>2. CASE y # nil
    <3>1. t.root \in K /\ t.parent[t.root] = nil /\ B["left"][t.root] = 0
               /\ B["right"][t.root] = MaxKey + 1
      BY <1>1, <1>6, <2>2 DEF Shape, RootFits
    <3> QED  BY <1>1, <1>2, <1>4, <1>8, <2>2, <3>1, TwoSides DEF RootFits
  <2> QED  BY <2>1, <2>2
<1>11. ASSUME NEW n \in J, NEW s \in Sides PROVE ChildFits(r, J, C, n, s)
  <2>1. CASE n = z
    BY <1>9, <2>1 DEF ChildFits
  <2>2. CASE n # z /\ y # nil /\ s = side /\ n = y
    <3>1. r.child[s][n] = z /\ r.parent[z] = y
      BY <1>6, <1>8, <2>2
    <3>2. C[s][z] = C[s][n] /\ C[Opposite(s)][z] = n
      BY <1>4, <2>2, TwoSides
    <3> QED  BY <2>2, <3>1, <3>2 DEF ChildFits
  <2>3. CASE n # z /\ ~(y # nil /\ s = side /\ n = y)
    <3>1. PICK c : c = t.child[s][n]
      OBVIOUS
    <3>2. n \in K /\ r.child[s][n] = c
      BY <1>1, <1>8, <2>3, <3>1
    <3>3. ASSUME c # nil PROVE c \in K /\ r.parent[c] = n /\ C[s][c] = C[s][n] /\ C[Opposite(s)][c] = n
      <4>1. c \in K /\ t.parent[c] = n /\ B[s][c] = B[s][n] /\ B[Opposite(s)][c] = n
        BY <1>1, <3>1, <3>2, <3>3 DEF Shape, ChildFits
      <4>2. c # z /\ c \in Keys
        BY <1>1, <4>1
      <4> QED  BY <1>4, <1>8, <2>3, <3>2, <4>1, <4>2, TwoSides
    <3> QED  BY <3>2, <3>3 DEF ChildFits
  <2> QED  BY <2>1, <2>2, <2>3
<1>12. ASSUME NEW n \in J, n # r.root
       PROVE  r.parent[n] \in J /\ \E s \in Sides : r.child[s][r.parent[n]] = n
  <2>1. CASE n = z
    <3>1. y # nil /\ r.parent[n] = y
      BY <1>8, <1>12, <2>1
    <3> QED  BY <1>6, <1>8, <2>1, <3>1
  <2>2. CASE n # z
    <3>1. n \in K /\ y # nil /\ n # t.root /\ r.parent[n] = t.parent[n]
      BY <1>1, <1>8, <1>12, <2>2 DEF Belongs
    <3>2. PICK p \in K, s \in Sides : p = t.parent[n] /\ t.child[s][p] = n
      BY <1>1, <3>1, Parents
    <3>3. r.child[s][p] = n
      BY <1>1, <1>2, <1>6, <1>8, <3>1, <3>2
    <3> QED  BY <3>1, <3>2, <3>3
  <2> QED  BY <2>1, <2>2
<1>13. Shape(r, J, C)
  <2>1. J \subseteq Keys
    BY <1>1
  <2> HIDE DEF J
  <2> QED  BY <1>7, <1>8, <1>10, <1>11, <1>12, <2>1 DEF Shape
<1>14. Clear(r, Keys \ J)
  BY <1>1, <1>6, <1>8 DEF Clear
<1> QED  BY <1>13, <1>14 DEF Whole

\* rbtree_insert before the fixup.
LEMMA InsertStarts ==
    ASSUME NEW t, NEW K, NEW B, NEW h, RedBlack(t, K, B, h), NEW z \in Keys \ K, NEW y \in Ptr,
           NEW side \in Sides, Belongs(t, K, B, z, y, side), NEW r, PutIn(t, r, z, y, side)
    PROVE  \E C, g : InsertingAt(r, K \cup {z}, C, g, z)
<1>1. /\ Whole(t, K, B) /\ Shape(t, K, B) /\ K \subseteq Keys /\ Clear(t, Keys \ K) /\ t \in Trees
      /\ Heights(h) /\ (\A n \in K : HeightFits(t, h, nil, "left", n))
      /\ t.color[nil] = "black" /\ t.color[t.root] = "black"
      /\ \A n \in K : RedFits(t, nil, n)
  BY DEF RedBlack, Whole, Shape, Balanced
<1>2. PICK C : Whole(r, K \cup {z}, C)
  BY <1>1, PutInShape
<1>3. PICK g : g = [n \in Ptr |-> IF n = z THEN 0 ELSE h[n]]
  OBVIOUS
<1>4. z \in Keys /\ z # nil /\ z \in Ptr /\ nil \in Ptr /\ Keys \subseteq Ptr /\ z \notin K
  BY KeysAreNumbers
<1>5. Heights(g) /\ g[z] = 0 /\ \A n \in Ptr : n # z => g[n] = h[n]
  BY <1>1, <1>3, <1>4 DEF Heights
<1>6. /\ r.root = IF y = nil THEN z ELSE t.root
      /\ \A s \in Sides, n \in Keys :
              r.child[s][n] = IF y # nil /\ s = side /\ n = y THEN z
                                                              ELSE t.child[s][n]
      /\ \A n \in Ptr : r.color[n] = IF n = z THEN "red" ELSE t.color[n]
  BY DEF PutIn
<1>7. y # nil => y \in K /\ t.child[side][y] = nil
  BY DEF Belongs
<1>8. \A s \in Sides : r.child[s][z] = nil
  BY <1>1, <1>4, <1>6, <1>7 DEF Clear
<1>9. \A s \in Sides, n \in K : t.child[s][n] \in Ptr /\ t.child[s][n] # z
  BY <1>1, <1>4 DEF Shape, ChildFits, Ptr
<1>10. ASSUME NEW n \in K PROVE HeightFits(r, g, nil, "left", n) /\ RedFits(r, z, n)
  <2>1. n # z /\ n \in Keys /\ n \in Ptr /\ g[n] = h[n] /\ Unit(r, n) = Unit(t, n)
             /\ r.color[n] = t.color[n]
    BY <1>1, <1>4, <1>5, <1>6 DEF Unit
  <2>2. ASSUME NEW s \in Sides PROVE g[r.child[s][n]] = h[t.child[s][n]]
    <3>1. CASE y # nil /\ s = side /\ n = y
      BY <1>1, <1>5, <1>6, <1>7, <2>1, <3>1 DEF Heights
    <3>2. CASE ~(y # nil /\ s = side /\ n = y)
      BY <1>5, <1>6, <1>9, <2>1, <3>2
    <3> QED  BY <3>1, <3>2
  <2>3. HeightFits(r, g, nil, "left", n)
    BY <1>1, <2>1, <2>2 DEF HeightFits
  <2>4. ASSUME NEW s \in Sides, t.color[n] = "red", r.child[s][n] # z
        PROVE r.color[r.child[s][n]] = "black"
    <3>1. r.child[s][n] = t.child[s][n]
      BY <1>6, <2>1, <2>4
    <3>2. t.color[t.child[s][n]] = "black"
      BY <1>1, <2>4 DEF RedFits
    <3> QED  BY <1>6, <1>9, <3>1, <3>2
  <2> QED  BY <2>1, <2>3, <2>4 DEF RedFits
<1>11. HeightFits(r, g, nil, "left", z) /\ RedFits(r, z, z)
  <2>1. Unit(r, z) = 0 /\ r.color[z] = "red" /\ r.color[nil] = "black"
    BY <1>1, <1>4, <1>6 DEF Unit
  <2> QED  BY <1>4, <1>5, <1>8, <2>1 DEF HeightFits, RedFits, Lack, Heights
<1>12. r.color[r.root] = "black" \/ r.root = z
  <2>1. t.root \in Ptr
    BY <1>1 DEF Trees
  <2> QED  BY <1>1, <1>4, <1>6, <2>1
<1>13. Balanced(r, K \cup {z}, g, nil, "left")
  BY <1>5, <1>10, <1>11 DEF Balanced
<1>14. r.color[z] = "red" /\ r.color[nil] = "black" /\ z \in K \cup {z}
  BY <1>1, <1>4, <1>6
<1>15. \A n \in K \cup {z} : RedFits(r, z, n)
  BY <1>10, <1>11
<1> QED  BY <1>2, <1>12, <1>13, <1>14, <1>15 DEF InsertingAt

\* Colors do not disturb a tree with all other memory cleared.
LEMMA PaintedWhole ==
    ASSUME NEW t, NEW K, NEW B, Whole(t, K, B), NEW r, SameLinks(t, r)
    PROVE  Whole(r, K, B)
<1>1. Shape(r, K, B)
  BY PaintedShape DEF Whole
<1>2. Clear(r, Keys \ K)
  BY DEF Whole, Clear, SameLinks
<1> QED  BY <1>1, <1>2 DEF Whole

\* Neither does a rotation.
LEMMA RotateWhole ==
    ASSUME NEW t, NEW K, NEW B, Whole(t, K, B), NEW side \in Sides, NEW x \in K, NEW y \in K,
           y = t.child[Opposite(side)][x], NEW r, RotatedTo(t, K, r, side, x, y)
    PROVE  \E C : Whole(r, K, C)
<1>1. Shape(t, K, B) /\ Clear(t, Keys \ K)
  BY DEF Whole
<1>2. PICK C : Rebound(B, C, K, side, x, y)
  BY <1>1, ReboundExists
<1>3. Shape(r, K, C)
  BY <1>1, <1>2, RotateShape
<1>4. Clear(r, Keys \ K)
  BY <1>1 DEF Clear, RotatedTo
<1> QED  BY <1>3, <1>4 DEF Whole

\* z, its red parent p and its grandparent g.
Family(t, K, side, z, p, g) ==
    /\ p \in K /\ g \in K /\ z # p /\ z # g /\ p # g
    /\ t.parent[z] = p /\ t.parent[p] = g /\ t.child[side][g] = p /\ t.child[Opposite(side)][g] # p
    /\ t.child[Opposite(side)][g] # z
    /\ t.color[p] = "red" /\ t.color[g] = "black" /\ t.root # p /\ t.color[t.root] = "black"
    /\ \E s \in Sides : t.child[s][p] = z /\ t.child[Opposite(s)][p] # z

\* A red node whose parent is red has a black grandparent, which is above both.
LEMMA FamilyIs ==
    ASSUME NEW t, NEW K, NEW B, NEW h, NEW z, InsertingAt(t, K, B, h, z), t.color[t.parent[z]] = "red",
           NEW p, p = t.parent[z], NEW g, g = t.parent[p],
           NEW side, side = IF p = t.child["left"][g] THEN "left" ELSE "right"
    PROVE  Family(t, K, side, z, p, g) /\ side \in Sides
<1>1. /\ Shape(t, K, B) /\ K \subseteq Keys /\ z \in K /\ t.color[z] = "red" /\ t.color[nil] = "black"
      /\ (\A n \in K : RedFits(t, z, n)) /\ (t.color[t.root] = "black" \/ t.root = z)
  BY DEF InsertingAt, Whole, Shape
<1>2. z # t.root /\ p \in K
  BY <1>1, Parents
<1>3. PICK s \in Sides : t.child[s][p] = z /\ t.child[Opposite(s)][p] # z /\ p # z
  BY <1>1, <1>2, Parents
<1>4. t.color[t.root] = "black" /\ p # t.root
  BY <1>1, <1>2
<1>5. g \in K /\ \E q \in Sides : t.child[q][g] = p
  BY <1>1, <1>2, <1>4, Parents
<1>6. PICK q \in Sides : t.child[q][g] = p
  BY <1>5
<1>7. t.child[Opposite(q)][g] # p /\ g # p
  BY <1>1, <1>2, <1>5, <1>6, Parents
<1>8. side = q
  BY <1>6, <1>7, TwoSides
<1>9. t.color[g] = "black"
  <2>1. t \in Trees /\ g \in Ptr
    BY <1>1, <1>5, KeysAreNumbers DEF Shape
  <2>2. t.color[g] # "red"
    BY <1>1, <1>3, <1>5, <1>6 DEF RedFits
  <2> QED  BY <2>1, <2>2 DEF Trees
<1>10. t.child[Opposite(side)][g] # z
  <2>1. \A m \in K, v \in Sides : t.child[v][m] = z => m = p
    BY <1>1, Parents
  <2> QED  BY <1>5, <1>7, <1>8, <2>1, TwoSides
<1>11. z # g
  BY <1>1, <1>9
<1> QED  BY <1>2, <1>3, <1>4, <1>5, <1>6, <1>7, <1>8, <1>9, <1>10, <1>11 DEF Family

\* The uncle is red: the two change color with their parent, which is the next red node.
LEMMA UncleIsRed ==
    ASSUME NEW t, NEW K, NEW B, NEW h, NEW z, InsertingAt(t, K, B, h, z), NEW side \in Sides, NEW p, NEW g,
           Family(t, K, side, z, p, g), NEW u, u = t.child[Opposite(side)][g], t.color[u] = "red",
           NEW r, r = SetColor(SetColor(SetColor(t, p, "black"), u, "black"), g, "red")
    PROVE  \E f : InsertingAt(r, K, B, f, g)
<1>1. /\ Whole(t, K, B) /\ Shape(t, K, B) /\ t \in Trees /\ K \subseteq Ptr /\ nil \notin K
      /\ Heights(h) /\ (\A n \in K : HeightFits(t, h, nil, "left", n))
      /\ z \in K /\ t.color[z] = "red" /\ t.color[nil] = "black"
      /\ \A n \in K : RedFits(t, z, n)
  BY KeysAreNumbers DEF InsertingAt, Whole, Shape, Balanced
<1>2. /\ p \in K /\ g \in K /\ z # p /\ z # g /\ p # g /\ t.parent[z] = p
      /\ t.child[side][g] = p /\ u # p /\ u # z
      /\ t.color[p] = "red" /\ t.color[g] = "black" /\ t.root # p /\ t.color[t.root] = "black"
  BY DEF Family
<1>3. u \in K /\ t.parent[u] = g /\ u # g
  <2>1. u # nil
    BY <1>1
  <2> QED  BY <1>1, <1>2, <2>1, TwoSides, Narrower
<1>4. PICK t1, t2 : t1 = SetColor(t, p, "black") /\ t2 = SetColor(t1, u, "black")
  OBVIOUS
<1>5. ColorIs(t, t1, p, "black")
  BY <1>1, <1>2, <1>4, Assignments
<1>6. t1 \in Trees
  BY <1>5 DEF ColorIs
<1>7. ColorIs(t1, t2, u, "black")
  BY <1>1, <1>3, <1>4, <1>6, Assignments
<1>8. t2 \in Trees
  BY <1>7 DEF ColorIs
<1>9. ColorIs(t2, r, g, "red")
  BY <1>1, <1>2, <1>4, <1>8, Assignments
<1>10. /\ SameLinks(t, r)
       /\ \A n \in Ptr : r.color[n] = IF n = g THEN "red" ELSE IF n = p \/ n = u THEN "black"
             ELSE t.color[n]
  BY <1>5, <1>7, <1>9 DEF ColorIs, SameLinks
<1>11. Whole(r, K, B) /\ r.child = t.child /\ r.root = t.root
  BY <1>1, <1>10, PaintedWhole DEF SameLinks
<1>12. \A n \in K, s \in Sides : /\ t.child[s][n] \in Ptr
                                 /\ (t.child[s][n] = p \/ t.child[s][n] = u) => n = g
                                 /\ t.child[s][n] = z => n = p
  <2>1. \A n \in K, s \in Sides : t.child[s][n] \in Ptr
    BY <1>1 DEF Shape, Trees
  <2>2. \A n \in K, s \in Sides : t.child[s][n] = p => n = g
    <3>1. t.parent[p] = g
      BY DEF Family
    <3> QED  BY <1>1, <1>2, <3>1, Parents
  <2>3. \A n \in K, s \in Sides : t.child[s][n] = u => n = g
    BY <1>1, <1>3, Parents
  <2>4. \A n \in K, s \in Sides : t.child[s][n] = z => n = p
    BY <1>1, <1>2, Parents
  <2> QED  BY <2>1, <2>2, <2>3, <2>4
<1>13. PICK f : f = [n \in Ptr |-> IF n = p \/ n = u THEN h[n] + 1 ELSE h[n]]
  OBVIOUS
<1>14. Heights(f) /\ \A n \in Ptr : f[n] = IF n = p \/ n = u THEN h[n] + 1 ELSE h[n]
  BY <1>1, <1>2, <1>3, <1>13, KeysAreNumbers DEF Heights
<1>15. \A n \in Ptr : h[n] \in Nat
  BY <1>1 DEF Heights
<1>16. ASSUME NEW n \in K PROVE HeightFits(r, f, nil, "left", n)
  <2>1. CASE n = g
    <3>1. Unit(r, g) = 0 /\ Unit(t, g) = 1 /\ f[g] = h[g]
      BY <1>1, <1>2, <1>3, <1>10, <1>14 DEF Unit
    <3>2. \A s \in Sides : t.child[s][g] = p \/ t.child[s][g] = u
      BY <1>2, TwoSides
    <3>3. \A s \in Sides : f[t.child[s][g]] = h[t.child[s][g]] + 1
      BY <1>12, <1>14, <2>1, <3>2
    <3>4. \A s \in Sides : h[g] = h[t.child[s][g]] + 1 + Lack(nil, "left", g, s)
      BY <1>1, <2>1, <3>1 DEF HeightFits
    <3>5. \A s \in Sides : Lack(nil, "left", g, s) = 0
      BY <1>1, <1>2 DEF Lack
    <3> QED  BY <1>11, <1>12, <1>15, <2>1, <3>1, <3>3, <3>4, <3>5 DEF HeightFits
  <2>2. CASE n # g
    <3>1. \A s \in Sides : f[t.child[s][n]] = h[t.child[s][n]]
      BY <1>12, <1>14, <2>2
    <3>2. \A s \in Sides : h[n] = h[t.child[s][n]] + Unit(t, n) + Lack(nil, "left", n, s)
      BY <1>1 DEF HeightFits
    <3>3. \A s \in Sides : Lack(nil, "left", n, s) = 0
      BY <1>1 DEF Lack
    <3>4. CASE n = p \/ n = u
      <4>1. Unit(r, n) = 1 /\ Unit(t, n) = 0 /\ f[n] = h[n] + 1
        BY <1>1, <1>2, <1>10, <1>14, <2>2, <3>4 DEF Unit
      <4> QED  BY <1>11, <1>12, <1>15, <3>1, <3>2, <3>3, <4>1 DEF HeightFits
    <3>5. CASE ~(n = p \/ n = u)
      <4>1. Unit(r, n) = Unit(t, n) /\ f[n] = h[n]
        BY <1>1, <1>10, <1>14, <2>2, <3>5 DEF Unit
      <4> QED  BY <1>11, <3>1, <3>2, <4>1 DEF HeightFits
    <3> QED  BY <3>4, <3>5
  <2> QED  BY <2>1, <2>2
<1>17. ASSUME NEW n \in K PROVE RedFits(r, g, n)
  <2>1. SUFFICES ASSUME r.color[n] = "red", NEW s \in Sides, t.child[s][n] # g
                 PROVE  r.color[t.child[s][n]] = "black"
    BY <1>11 DEF RedFits
  <2>2. CASE n = g
    BY <1>2, <1>10, <1>12, <2>1, <2>2, TwoSides
  <2>3. CASE n # g
    <3>1. n # p /\ n # u /\ t.color[n] = "red"
      BY <1>1, <1>10, <2>1, <2>3
    <3>2. t.child[s][n] # z /\ t.child[s][n] # p /\ t.child[s][n] # u
      BY <1>12, <2>3, <3>1
    <3>3. t.color[t.child[s][n]] = "black"
      BY <1>1, <3>1, <3>2 DEF RedFits
    <3> QED  BY <1>10, <1>12, <2>1, <3>2, <3>3
  <2> QED  BY <2>2, <2>3
<1>18. r.color[g] = "red" /\ r.color[nil] = "black"
  BY <1>1, <1>2, <1>3, <1>10, KeysAreNumbers
<1>19. r.color[r.root] = "black" \/ r.root = g
  BY <1>1, <1>2, <1>10, <1>11 DEF Trees
<1>20. Balanced(r, K, f, nil, "left")
  BY <1>14, <1>16 DEF Balanced
<1> QED  BY <1>2, <1>11, <1>17, <1>18, <1>19, <1>20 DEF InsertingAt

\* z is the inner child: after the first rotation its parent is, of it.
LEMMA Straighten ==
    ASSUME NEW t, NEW K, NEW B, NEW h, NEW z, InsertingAt(t, K, B, h, z), NEW side \in Sides, NEW p, NEW g,
           Family(t, K, side, z, p, g), t.child[Opposite(side)][p] = z, NEW r, r = Rotate(t, side, p)
    PROVE  /\ \E C, f : InsertingAt(r, K, C, f, p)
           /\ Family(r, K, side, p, z, g) /\ r.child[side][z] = p
           /\ r.child[Opposite(side)][g] = t.child[Opposite(side)][g] /\ r.color = t.color
<1>1. /\ Whole(t, K, B) /\ Shape(t, K, B) /\ t \in Trees /\ K \subseteq Ptr /\ nil \notin K
      /\ Heights(h) /\ (\A n \in K : HeightFits(t, h, nil, "left", n))
      /\ z \in K /\ t.color[z] = "red" /\ t.color[nil] = "black"
      /\ (\A n \in K : RedFits(t, z, n)) /\ \A s \in Sides, n \in K : t.child[s][n] \in Ptr
  BY KeysAreNumbers DEF InsertingAt, Whole, Shape, Balanced, Trees
<1>2. /\ p \in K /\ g \in K /\ z # p /\ z # g /\ p # g /\ t.parent[z] = p /\ t.parent[p] = g
      /\ t.child[side][g] = p /\ t.child[Opposite(side)][g] # p /\ t.child[Opposite(side)][g] # z
      /\ t.color[p] = "red" /\ t.color[g] = "black" /\ t.root # p /\ t.color[t.root] = "black"
  BY DEF Family
<1>3. z # nil
  BY <1>1
<1>4. RotatedTo(t, K, r, side, p, z)
  BY <1>1, <1>2, <1>3, RotateIs
<1>5. PICK C : Whole(r, K, C)
  BY <1>1, <1>2, <1>4, RotateWhole
<1>6. PICK a, b, c : a = t.child[side][p] /\ b = t.child[side][z] /\ c = t.child[Opposite(side)][z]
  OBVIOUS
<1>7. /\ r.child[side][z] = p /\ a # p /\ a # z /\ b # p /\ b # z /\ c # p /\ c # z
      /\ OthersKeep(t, K, r, p, z)
  BY <1>1, <1>2, <1>4, <1>6, RotatedKids
<1>8. a \in Ptr /\ b \in Ptr /\ c \in Ptr
  BY <1>1, <1>2, <1>6, TwoSides
<1>9. /\ h[a] \in Nat /\ h[b] \in Nat /\ h[c] \in Nat /\ h[p] \in Nat /\ h[z] \in Nat
      /\ h[p] = h[a] /\ h[p] = h[z] /\ h[z] = h[b] /\ h[z] = h[c]
      /\ Unit(t, p) = 0 /\ Unit(t, z) = 0
      /\ \A s \in Sides : Lack(nil, "left", p, s) = 0 /\ Lack(nil, "left", z, s) = 0
  <2>1. Unit(t, p) = 0 /\ Unit(t, z) = 0
    BY <1>1, <1>2 DEF Unit
  <2>2. \A s \in Sides : Lack(nil, "left", p, s) = 0 /\ Lack(nil, "left", z, s) = 0
    BY <1>1, <1>2 DEF Lack
  <2>3. h[a] \in Nat /\ h[b] \in Nat /\ h[c] \in Nat /\ h[p] \in Nat /\ h[z] \in Nat
    BY <1>1, <1>2, <1>8 DEF Heights
  <2>4. \A s \in Sides : h[p] = h[t.child[s][p]] + 0 + 0 /\ h[z] = h[t.child[s][z]] + 0 + 0
    BY <1>1, <1>2, <2>1, <2>2 DEF HeightFits
  <2>5. Opposite(side) \in Sides
    BY TwoSides
  <2>6. h[p] = h[a] + 0 + 0 /\ h[z] = h[b] + 0 + 0
    BY <1>6, <2>4
  <2>7. h[p] = h[z] + 0 + 0 /\ h[z] = h[c] + 0 + 0
    BY <1>6, <2>4, <2>5
  <2> QED  BY <2>1, <2>2, <2>3, <2>6, <2>7
<1>10. PICK f : Balanced(r, K, f, nil, "left")
  <2>1. /\ h[a] = h[t.child[side][p]] + Unit(t, p) + Lack(nil, "left", p, side)
        /\ h[a] = h[t.child[side][z]] + Unit(t, p) + Lack(nil, "left", p, Opposite(side))
        /\ h[p] = h[a] + Unit(t, z) + Lack(nil, "left", z, side)
        /\ h[p] = h[t.child[Opposite(side)][z]] + Unit(t, z) + Lack(nil, "left", z, Opposite(side))
    BY <1>6, <1>9, TwoSides
  <2>2. \A n \in K \ {p, z} : HeightFits(t, h, nil, "left", n)
    BY <1>1
  <2>3. PICK hx \in Nat : hx = h[a]
    BY <1>9
  <2>4. /\ hx = h[t.child[side][p]] + Unit(t, p) + Lack(nil, "left", p, side)
        /\ hx = h[t.child[side][z]] + Unit(t, p) + Lack(nil, "left", p, Opposite(side))
        /\ h[p] = hx + Unit(t, z) + Lack(nil, "left", z, side)
    BY <2>1, <2>3
  <2>5. HeightsReady(t, K, h, nil, "left", side, p, z, hx)
    BY <1>1, <2>1, <2>2, <2>4 DEF HeightsReady
  <2>6. \E f : Balanced(r, K, f, nil, "left") /\ Reheight(h, f, p, z, hx)
    BY <1>1, <1>2, <1>4, <2>5, RotateBalance
  <2> QED  BY <2>6
<1>11. \A n \in K, s \in Sides : (t.child[s][n] = z => n = p) /\ (t.child[s][n] = p => n = g)
  BY <1>1, <1>2, Parents
<1>12. \A n \in K : RedFits(r, p, n)
  <2>1. \A n \in K \ {p, z}, s \in Sides :
            t.color[n] = "red" /\ t.child[s][n] # p /\ t.child[s][n] # p
                 => t.color[t.child[s][n]] = "black"
    BY <1>1, <1>11 DEF RedFits
  <2>2. \A n \in K, s \in Sides : t.child[s][n] = p /\ t.color[n] = "red" => t.color[z] = "black"
    BY <1>2, <1>11
  <2>3. t.color[a] = "black" /\ t.color[b] = "black" /\ t.color[c] = "black"
    BY <1>1, <1>2, <1>6, <1>7, TwoSides DEF RedFits
  <2>4. \A e \in {a, b} : e = p \/ t.color[e] = "black"
    BY <2>3
  <2>5. \A e \in {p, c} : e = p \/ t.color[e] = "black"
    BY <2>3
  <2>6. RedsReady(t, K, side, p, z, p)
    BY <1>6, <2>1, <2>2, <2>4, <2>5 DEF RedsReady
  <2> QED  BY <1>1, <1>2, <1>4, <2>6, RotateReds
<1>13. r.color = t.color /\ r.root = t.root
  BY <1>2, <1>4 DEF RotatedTo
<1>14. InsertingAt(r, K, C, f, p)
  BY <1>1, <1>2, <1>5, <1>10, <1>12, <1>13 DEF InsertingAt
<1>15. r.child[side][g] = z /\ r.child[Opposite(side)][g] = t.child[Opposite(side)][g]
  BY <1>2, <1>7, TwoSides DEF OthersKeep
<1>16. r.parent[p] = z /\ r.parent[z] = g
  BY <1>1, <1>2, <1>4 DEF RotatedTo
<1>17. r.child[Opposite(side)][z] # p
  BY <1>1, <1>2, <1>4, <1>6, <1>7, RotatedKids
<1>18. t.root # z
  BY <1>1, <1>2
<1>19. Family(r, K, side, p, z, g)
  BY <1>1, <1>2, <1>7, <1>13, <1>15, <1>16, <1>17, <1>18 DEF Family
<1> QED  BY <1>7, <1>13, <1>14, <1>15, <1>19

\* The last case: z is the outer child of its parent, and the uncle is black.
LEMMA LiftOuterIs ==
    ASSUME NEW t, NEW K, NEW B, NEW h, NEW z, InsertingAt(t, K, B, h, z), NEW side \in Sides, NEW p, NEW g,
           Family(t, K, side, z, p, g), t.child[side][p] = z,
           NEW u, u = t.child[Opposite(side)][g], t.color[u] # "red",
           NEW r, r = LiftOuter(t, side, z, g)
    PROVE  (\E C, f : InsertingAt(r, K, C, f, z)) /\ r.color[r.parent[z]] = "black"
<1>1. /\ Whole(t, K, B) /\ Shape(t, K, B) /\ t \in Trees /\ K \subseteq Ptr /\ nil \notin K
      /\ Heights(h) /\ (\A n \in K : HeightFits(t, h, nil, "left", n))
      /\ z \in K /\ t.color[z] = "red" /\ t.color[nil] = "black"
      /\ (\A n \in K : RedFits(t, z, n)) /\ \A s \in Sides, n \in K : t.child[s][n] \in Ptr
  BY KeysAreNumbers DEF InsertingAt, Whole, Shape, Balanced, Trees
<1>2. /\ p \in K /\ g \in K /\ z # p /\ z # g /\ p # g /\ t.parent[z] = p /\ t.parent[p] = g
      /\ t.child[side][g] = p /\ u # p /\ u # z
      /\ t.color[p] = "red" /\ t.color[g] = "black" /\ t.root # p /\ t.color[t.root] = "black"
  BY DEF Family
<1>3. PICK far \in Sides : far = Opposite(side) /\ far # side /\ Opposite(far) = side
  BY TwoSides
<1>4. u \in Ptr /\ t.color[u] = "black"
  <2>1. u \in Ptr
    BY <1>1, <1>2, <1>3
  <2> QED  BY <1>1, <2>1 DEF Trees
<1>5. PICK t1, t2 : t1 = SetColor(t, p, "black") /\ t2 = SetColor(t1, g, "red")
  OBVIOUS
<1>6. ColorIs(t, t1, p, "black")
  BY <1>1, <1>2, <1>5, Assignments
<1>7. t1 \in Trees
  BY <1>6 DEF ColorIs
<1>8. ColorIs(t1, t2, g, "red")
  BY <1>1, <1>2, <1>5, <1>7, Assignments
<1>9. /\ SameLinks(t, t2) /\ t2.child = t.child /\ t2.root = t.root /\ t2.parent = t.parent
      /\ \A n \in Ptr : t2.color[n] = IF n = g THEN "red" ELSE IF n = p THEN "black" ELSE t.color[n]
  BY <1>6, <1>8 DEF ColorIs, SameLinks
<1>10. r = Rotate(t2, far, g)
  BY <1>2, <1>3, <1>5 DEF LiftOuter
<1>11. Whole(t2, K, B) /\ Shape(t2, K, B)
  BY <1>1, <1>9, PaintedWhole DEF Whole
<1>12. p = t2.child[Opposite(far)][g] /\ p # nil
  BY <1>1, <1>2, <1>3, <1>9
<1>13. RotatedTo(t2, K, r, far, g, p)
  BY <1>2, <1>10, <1>11, <1>12, RotateIs
<1>14. PICK C : Whole(r, K, C)
  BY <1>2, <1>11, <1>12, <1>13, RotateWhole
<1>15. PICK b : b = t.child[far][p]
  OBVIOUS
<1>16. b \in Ptr /\ b # z /\ b # p /\ b # g /\ u # g
  <2>1. t2.child[far][g] # g /\ t2.child[far][p] # g /\ t2.child[far][p] # p
    BY <1>2, <1>3, <1>11, <1>12, <1>13, RotatedKids
  <2>2. t.child[Opposite(side)][p] # z
    BY <1>1, <1>2, Parents
  <2> QED  BY <1>1, <1>2, <1>3, <1>9, <1>15, <2>1, <2>2
<1>17. \A n \in Ptr : h[n] \in Nat
  BY <1>1 DEF Heights
<1>18. \A n \in K, s \in Sides : h[n] = h[t.child[s][n]] + Unit(t, n) + 0
  BY <1>1 DEF HeightFits, Lack
<1>19. Unit(t, p) = 0 /\ Unit(t, g) = 1 /\ Unit(t2, p) = 1 /\ Unit(t2, g) = 0
  BY <1>1, <1>2, <1>9 DEF Unit
<1>20. h[p] = h[z] /\ h[p] = h[b] /\ h[g] = h[p] + 1 /\ h[g] = h[u] + 1
  <2>1. h[p] = h[z] + 0 + 0 /\ h[p] = h[b] + 0 + 0
    BY <1>2, <1>3, <1>15, <1>18, <1>19
  <2>2. h[g] = h[p] + 1 + 0 /\ h[g] = h[u] + 1 + 0
    BY <1>2, <1>3, <1>18, <1>19
  <2> QED  BY <1>1, <1>2, <1>4, <1>16, <1>17, <2>1, <2>2
<1>21. PICK f : Balanced(r, K, f, nil, "left")
  <2>1. \A n \in K \ {g, p} : HeightFits(t2, h, nil, "left", n)
    <3>1. \A n \in K \ {g, p} : Unit(t2, n) = Unit(t, n)
      BY <1>1, <1>9 DEF Unit
    <3> QED  BY <1>1, <1>9, <3>1 DEF HeightFits
  <2>2. PICK hx \in Nat : hx = h[u]
    BY <1>4, <1>17
  <2>3. h[u] = h[p] /\ h[p] \in Nat /\ h[z] \in Nat /\ h[b] \in Nat /\ h[u] \in Nat
    BY <1>1, <1>2, <1>4, <1>16, <1>17, <1>20
  <2>4. \A s \in Sides : Lack(nil, "left", g, s) = 0 /\ Lack(nil, "left", p, s) = 0
    BY <1>1, <1>2 DEF Lack
  <2>5. /\ hx = h[t2.child[far][g]] + Unit(t2, g) + Lack(nil, "left", g, far)
        /\ hx = h[t2.child[far][p]] + Unit(t2, g) + Lack(nil, "left", g, Opposite(far))
        /\ h[g] = hx + Unit(t2, p) + Lack(nil, "left", p, far)
        /\ h[g] = h[t2.child[Opposite(far)][p]] + Unit(t2, p) + Lack(nil, "left", p, Opposite(far))
    <3>1. /\ t2.child[far][g] = u /\ t2.child[far][p] = b /\ t2.child[Opposite(far)][p] = z
      BY <1>3, <1>9, <1>15
    <3>2. /\ Lack(nil, "left", g, far) = 0 /\ Lack(nil, "left", p, far) = 0
          /\ Lack(nil, "left", g, Opposite(far)) = 0 /\ Lack(nil, "left", p, Opposite(far)) = 0
      BY <1>3, <2>4
    <3>3. hx = h[u] + 0 + 0 /\ hx = h[b] + 0 + 0 /\ h[g] = hx + 1 + 0 /\ h[g] = h[z] + 1 + 0
      BY <1>20, <2>2, <2>3
    <3> QED  BY <1>19, <3>1, <3>2, <3>3
  <2>6. HeightsReady(t2, K, h, nil, "left", far, g, p, hx)
    BY <1>1, <2>1, <2>5 DEF HeightsReady
  <2>7. \E f : Balanced(r, K, f, nil, "left") /\ Reheight(h, f, g, p, hx)
    BY <1>2, <1>11, <1>12, <1>13, <2>6, RotateBalance
  <2> QED  BY <2>7
<1>22. \A n \in K, s \in Sides : (t.child[s][n] = p => n = g) /\ (t.child[s][n] = z => n = p)
  BY <1>1, <1>2, Parents
<1>23. \A n \in K : RedFits(r, z, n)
  <2>1. ASSUME NEW n \in K \ {g, p}, NEW s \in Sides, t2.color[n] = "red", t2.child[s][n] # z,
               t2.child[s][n] # g
        PROVE  t2.color[t2.child[s][n]] = "black"
    <3>1. t.color[n] = "red" /\ t.child[s][n] # z /\ t.child[s][n] # g /\ t.child[s][n] \in Ptr
      BY <1>1, <1>9, <2>1
    <3>2. t.color[t.child[s][n]] = "black"
      BY <1>1, <3>1 DEF RedFits
    <3> QED  BY <1>9, <3>1, <3>2
  <2>2. \A n \in K, s \in Sides : t2.child[s][n] = g /\ t2.color[n] = "red" => t2.color[p] = "black"
    BY <1>1, <1>2, <1>9
  <2>3. t.color[b] = "black"
    BY <1>1, <1>2, <1>15, <1>16 DEF RedFits
  <2>4. t2.color[u] = "black" /\ t2.color[b] = "black" /\ t2.color[p] # "red"
    BY <1>1, <1>2, <1>4, <1>9, <1>16, <2>3
  <2>5. \A c \in {t2.child[far][g], t2.child[far][p]} : c = z \/ t2.color[c] = "black"
    BY <1>3, <1>9, <1>15, <2>4
  <2>6. t2.color[g] = "red" => \A c \in {t2.child[far][g], t2.child[far][p]} :
                                 c = z \/ t2.color[c] = "black"
    BY <2>5
  <2>7. RedsReady(t2, K, far, g, p, z)
    BY <2>1, <2>2, <2>4, <2>6 DEF RedsReady
  <2> QED  BY <1>2, <1>11, <1>12, <1>13, <2>7, RotateReds
<1>24. r.color = t2.color /\ r.root = IF g = t.root THEN p ELSE t.root
  BY <1>9, <1>13 DEF RotatedTo
<1>25. r.color[r.root] = "black"
  <2>1. t.root \in Ptr
    BY <1>1 DEF Trees
  <2> QED  BY <1>1, <1>2, <1>9, <1>24, <2>1
<1>26. r.color[z] = "red" /\ r.color[nil] = "black"
  BY <1>1, <1>2, <1>9, <1>24, KeysAreNumbers
<1>27. InsertingAt(r, K, C, f, z)
  BY <1>1, <1>14, <1>21, <1>23, <1>25, <1>26 DEF InsertingAt
<1>28. r.parent[z] = p
  <2>1. t2.child[far][p] # z
    BY <1>9, <1>15, <1>16
  <2> QED  BY <1>1, <1>2, <1>9, <1>13, <2>1 DEF RotatedTo
<1>29. r.color[p] = "black"
  BY <1>1, <1>2, <1>9, <1>24
<1> QED  BY <1>27, <1>28, <1>29

\* Turns are left only as many as there are nodes above.
InsertSafe(q, K, m) ==
    \E B, h : /\ InsertingAt(q.tree, K, B, h, q.node)
              /\ q.tree.color[q.tree.parent[q.node]] # "red" \/ m <= Width(B, q.node)

\* A turn of rbtree_insert_fixup.
LEMMA InsertTurns ==
    ASSUME NEW q, NEW K, NEW m \in Nat, InsertSafe(q, K, m)
    PROVE  InsertSafe(InsertTurn(q), K, m + 1)
<1>1. PICK t, z : t = q.tree /\ z = q.node
  OBVIOUS
<1>2. PICK B, h : InsertingAt(t, K, B, h, z) /\ (t.color[t.parent[z]] # "red" \/ m <= Width(B, z))
  BY <1>1 DEF InsertSafe
<1>3. CASE t.color[t.parent[z]] # "red"
  <2>1. InsertTurn(q) = q
    BY <1>1, <1>3 DEF InsertTurn
  <2> QED  BY <1>1, <1>2, <1>3, <2>1 DEF InsertSafe
<1>4. CASE t.color[t.parent[z]] = "red"
  <2>1. PICK p, g, side : p = t.parent[z] /\ g = t.parent[p]
                          /\ side = IF p = t.child["left"][g] THEN "left" ELSE "right"
    OBVIOUS
  <2>2. Family(t, K, side, z, p, g) /\ side \in Sides
    BY <1>2, <1>4, <2>1, FamilyIs
  <2>3. InsertTurn(q) = LiftRed(t, side, z, p, g)
    BY <1>1, <1>4, <2>1 DEF InsertTurn
  <2>4. PICK u : u = t.child[Opposite(side)][g]
    OBVIOUS
  <2>5. CASE t.color[u] = "red"
    <3>1. PICK r : r = SetColor(SetColor(SetColor(t, p, "black"), u, "black"), g, "red")
      OBVIOUS
    <3>2. InsertTurn(q) = [tree |-> r, node |-> g]
      BY <2>3, <2>4, <2>5, <3>1 DEF LiftRed
    <3>3. PICK f : InsertingAt(r, K, B, f, g)
      BY <1>2, <2>2, <2>4, <2>5, <3>1, UncleIsRed
    <3>4. m + 1 <= Width(B, g)
      <4>1. Shape(t, K, B) /\ p \in K /\ g \in K /\ z \in K /\ z # nil /\ p # nil
        BY <1>2, <2>2, KeysAreNumbers DEF InsertingAt, Whole, Shape, Family
      <4>2. PICK s \in Sides : t.child[s][p] = z
        BY <2>2 DEF Family
      <4>3. Width(B, z) < Width(B, p) /\ Width(B, z) \in Nat /\ Width(B, p) \in Nat
        BY <4>1, <4>2, Narrower
      <4>4. t.child[side][g] = p
        BY <2>2 DEF Family
      <4>5. Width(B, p) < Width(B, g) /\ Width(B, g) \in Nat
        BY <2>2, <4>1, <4>4, Narrower
      <4> QED  BY <1>2, <1>4, <4>3, <4>5
    <3>5. PICK q1 : q1 = [tree |-> r, node |-> g]
      OBVIOUS
    <3>6. q1.tree = r /\ q1.node = g
      BY <3>5
    <3>7. InsertSafe(q1, K, m + 1)
      BY <3>3, <3>4, <3>6 DEF InsertSafe
    <3> QED  BY <3>2, <3>5, <3>7
  <2>6. CASE t.color[u] # "red"
    <3>1. ASSUME NEW r, NEW y, (\E C, f : InsertingAt(r, K, C, f, y)) /\ r.color[r.parent[y]] = "black",
                 InsertTurn(q) = [tree |-> r, node |-> y]
          PROVE  InsertSafe(InsertTurn(q), K, m + 1)
      <4>1. PICK q1 : q1 = [tree |-> r, node |-> y]
        OBVIOUS
      <4>2. q1.tree = r /\ q1.node = y
        BY <4>1
      <4>3. InsertSafe(q1, K, m + 1)
        BY <3>1, <4>2 DEF InsertSafe
      <4> QED  BY <3>1, <4>1, <4>3
    <3>2. CASE z = t.child[Opposite(side)][p]
      <4>1. PICK r, v : r = Rotate(t, side, p) /\ v = LiftOuter(r, side, p, g)
        OBVIOUS
      <4>2. InsertTurn(q) = [tree |-> v, node |-> p]
        BY <2>3, <2>4, <2>6, <3>2, <4>1 DEF LiftRed
      <4>3. /\ \E C, f : InsertingAt(r, K, C, f, p)
            /\ Family(r, K, side, p, z, g) /\ r.child[side][z] = p
            /\ r.child[Opposite(side)][g] = u /\ r.color = t.color
        BY <1>2, <2>2, <2>4, <3>2, <4>1, Straighten
      <4>4. PICK C, f : InsertingAt(r, K, C, f, p)
        BY <4>3
      <4>5. (\E D, e : InsertingAt(v, K, D, e, p)) /\ v.color[v.parent[p]] = "black"
        BY <2>2, <2>6, <4>1, <4>3, <4>4, LiftOuterIs
      <4> QED  BY <3>1, <4>2, <4>5
    <3>3. CASE z # t.child[Opposite(side)][p]
      <4>1. PICK v : v = LiftOuter(t, side, z, g)
        OBVIOUS
      <4>2. InsertTurn(q) = [tree |-> v, node |-> z]
        BY <2>3, <2>4, <2>6, <3>3, <4>1 DEF LiftRed
      <4>3. t.child[side][p] = z
        BY <2>2, <3>3, TwoSides DEF Family
      <4>4. (\E D, e : InsertingAt(v, K, D, e, z)) /\ v.color[v.parent[z]] = "black"
        BY <1>2, <2>2, <2>4, <2>6, <4>1, <4>3, LiftOuterIs
      <4> QED  BY <3>1, <4>2, <4>4
    <3> QED  BY <3>2, <3>3
  <2> QED  BY <2>5, <2>6
<1> QED  BY <1>3, <1>4

\* A red-black tree of the keys K, whatever the other memory holds.
Sound(t, K, B, h) ==
    /\ Shape(t, K, B) /\ Balanced(t, K, h, nil, "left")
    /\ t.color[nil] = "black" /\ t.color[t.root] = "black"
    /\ \A n \in K : RedFits(t, nil, n)

\* Both fixups end by making a node black: the root, or a red node above which a black one is missing.
LEMMA Blacken ==
    ASSUME NEW t, NEW K, NEW B, Shape(t, K, B), NEW h, NEW p, NEW d, Balanced(t, K, h, p, d),
           NEW x \in K \cup {nil}, \A n \in K \ {x} : RedFits(t, x, n), t.color[nil] = "black",
           t.color[t.root] = "black" \/ t.root = x,
           \/ p = nil /\ x = t.root
           \/ p \in K /\ d \in Sides /\ t.child[d][p] = x /\ t.color[x] = "red",
           NEW r, r = SetColor(t, x, "black")
    PROVE  (\E f : Sound(r, K, B, f)) /\ r.child = t.child
<1>1. /\ Shape(t, K, B) /\ t \in Trees /\ K \subseteq Ptr /\ K \subseteq Keys /\ nil \notin K
            /\ nil \in Ptr
      /\ Heights(h) /\ (\A n \in K : HeightFits(t, h, p, d, n)) /\ x \in Ptr
      /\ \A s \in Sides, n \in K : t.child[s][n] \in Ptr
  BY KeysAreNumbers DEF Shape, Balanced, Trees
<1>2. ColorIs(t, r, x, "black")
  BY <1>1, Assignments
<1>3. /\ SameLinks(t, r) /\ r.child = t.child /\ r.root = t.root
      /\ \A n \in Ptr : r.color[n] = IF n = x THEN "black" ELSE t.color[n]
  BY <1>2 DEF ColorIs, SameLinks
<1>4. Shape(r, K, B)
  BY <1>3, PaintedShape
<1>5. PICK f : f = [n \in Ptr |-> IF n = x /\ t.color[x] = "red" THEN h[n] + 1 ELSE h[n]]
  OBVIOUS
<1>6. Heights(f) /\ \A n \in Ptr : f[n] = IF n = x /\ t.color[x] = "red" THEN h[n] + 1 ELSE h[n]
  BY <1>1, <1>5 DEF Heights
<1>7. \A n \in Ptr : h[n] \in Nat
  BY <1>1 DEF Heights
<1>8. \A n \in K, s \in Sides : h[n] = h[t.child[s][n]] + Unit(t, n) + Lack(p, d, n, s)
  BY <1>1 DEF HeightFits
<1>9. \A n \in K, s \in Sides : x # nil /\ t.child[s][n] = x
           => n = p /\ s = d /\ n # x /\ t.color[x] = "red"
  <2>1. SUFFICES ASSUME NEW n \in K, NEW s \in Sides, x # nil, t.child[s][n] = x
                 PROVE  n = p /\ s = d /\ n # x /\ t.color[x] = "red"
    OBVIOUS
  <2>2. PICK k \in K : k = x
    BY <2>1
  <2>3. n = t.parent[k] /\ n # k /\ t.child[Opposite(s)][n] # k /\ k # t.root
    BY <1>1, <2>1, <2>2, Parents
  <2>4. p \in K /\ d \in Sides /\ t.child[d][p] = x /\ t.color[x] = "red"
    BY <2>2, <2>3
  <2>5. p = t.parent[k]
    BY <1>1, <2>2, <2>4, Parents
  <2> QED  BY <2>2, <2>3, <2>4, <2>5, TwoSides
<1>10. x = nil => p = nil /\ K = {}
  BY <1>1 DEF Shape, RootFits
<1>11. ASSUME NEW n \in K PROVE HeightFits(r, f, nil, "left", n)
  <2>1. \A s \in Sides : Lack(nil, "left", n, s) = 0
    BY <1>1 DEF Lack
  <2>2. n \in Ptr /\ x # nil /\ h[n] \in Nat
    BY <1>1, <1>7, <1>10
  <2>3. CASE n = x
    <3>1. \A s \in Sides : t.child[s][n] # x /\ Lack(p, d, n, s) = 0
      BY <1>1, <1>9, <2>2, <2>3 DEF Lack
    <3>2. \A s \in Sides : f[t.child[s][n]] = h[t.child[s][n]] /\ h[t.child[s][n]] \in Nat
      BY <1>1, <1>6, <1>7, <3>1
    <3>3. CASE t.color[x] = "red"
      <4>1. Unit(r, n) = 1 /\ Unit(t, n) = 0 /\ f[n] = h[n] + 1
        BY <1>3, <1>6, <2>2, <2>3, <3>3 DEF Unit
      <4> QED  BY <1>3, <1>8, <2>1, <2>2, <3>1, <3>2, <4>1 DEF HeightFits
    <3>4. CASE t.color[x] # "red"
      <4>1. t.color[x] = "black"
        BY <1>1, <3>4 DEF Trees
      <4>2. Unit(r, n) = Unit(t, n) /\ f[n] = h[n]
        BY <1>3, <1>6, <2>2, <2>3, <3>4, <4>1 DEF Unit
      <4> QED  BY <1>3, <1>8, <2>1, <2>2, <3>1, <3>2, <4>2 DEF HeightFits
    <3> QED  BY <3>3, <3>4
  <2>4. CASE n # x
    <3>1. Unit(r, n) = Unit(t, n) /\ f[n] = h[n] /\ Unit(t, n) \in Nat
      BY <1>3, <1>6, <2>2, <2>4 DEF Unit
    <3>2. ASSUME NEW s \in Sides PROVE f[n] = f[t.child[s][n]] + Unit(r, n) + 0
      <4>1. PICK c \in Ptr : c = t.child[s][n]
        BY <1>1
      <4>2. h[n] = h[c] + Unit(t, n) + Lack(p, d, n, s) /\ h[c] \in Nat
        BY <1>7, <1>8, <4>1
      <4>3. CASE c = x
        <5>1. Lack(p, d, n, s) = 1 /\ f[c] = h[c] + 1
          BY <1>6, <1>9, <2>2, <4>1, <4>3 DEF Lack
        <5> QED  BY <3>1, <4>1, <4>2, <5>1
      <4>4. CASE c # x
        <5>1. Lack(p, d, n, s) = 0 /\ f[c] = h[c]
          BY <1>1, <1>6, <4>1, <4>4 DEF Lack
        <5> QED  BY <3>1, <4>1, <4>2, <5>1
      <4> QED  BY <4>3, <4>4
    <3> QED  BY <1>3, <2>1, <3>2 DEF HeightFits
  <2> QED  BY <2>3, <2>4
<1>12. ASSUME NEW n \in K PROVE RedFits(r, nil, n)
  <2>1. SUFFICES ASSUME r.color[n] = "red", NEW s \in Sides, t.child[s][n] # nil
                 PROVE  r.color[t.child[s][n]] = "black"
    BY <1>3 DEF RedFits
  <2>2. n # x /\ t.color[n] = "red"
    BY <1>1, <1>3, <2>1
  <2>3. t.child[s][n] # x => t.color[t.child[s][n]] = "black"
    BY <2>2 DEF RedFits
  <2> QED  BY <1>1, <1>3, <2>3
<1>13. r.color[nil] = "black" /\ r.color[r.root] = "black"
  BY <1>1, <1>3 DEF Trees
<1>14. Balanced(r, K, f, nil, "left")
  BY <1>6, <1>11 DEF Balanced
<1> QED  BY <1>3, <1>4, <1>12, <1>13, <1>14 DEF Sound

InsertTurning(f, N, a) == f = [i \in 0 .. N |-> IF i = 0 THEN a ELSE InsertTurn(f[i - 1])]

\* The turns of rbtree_insert_fixup.
LEMMA InsertTurningExists ==
    ASSUME NEW N \in Nat, NEW a
    PROVE  \E f : InsertTurning(f, N, a)
<1> DEFINE S == {m \in 0 .. N : \E f : f = [i \in 0 .. m |-> IF i = 0 THEN a ELSE InsertTurn(f[i - 1])]}
<1>1. 0 \in S
  <2>1. PICK f : f = [i \in 0 .. 0 |-> a]
    OBVIOUS
  <2>2. f = [i \in 0 .. 0 |-> IF i = 0 THEN a ELSE InsertTurn(f[i - 1])]
    BY <2>1
  <2> QED  BY <2>2
<1>2. ASSUME NEW m \in S, m < N PROVE m + 1 \in S
  <2>1. PICK f : f = [i \in 0 .. m |-> IF i = 0 THEN a ELSE InsertTurn(f[i - 1])]
    OBVIOUS
  <2>2. PICK g : g = [i \in 0 .. m + 1 |-> IF i = 0 THEN a ELSE InsertTurn(f[i - 1])]
    OBVIOUS
  <2>3. \A i \in 0 .. m : g[i] = f[i]
    BY <2>1, <2>2
  <2>4. \A i \in 0 .. m + 1 : i # 0 => i - 1 \in 0 .. m
    OBVIOUS
  <2>5. g = [i \in 0 .. m + 1 |-> IF i = 0 THEN a ELSE InsertTurn(g[i - 1])]
    BY <2>2, <2>3, <2>4
  <2> QED  BY <1>2, <2>5
<1>3. S = 0 .. N
  <2>1. S \subseteq 0 .. N
    OBVIOUS
  <2> HIDE DEF S
  <2> QED  BY <1>1, <1>2, <2>1, UpTo
<1>4. N \in S
  <2> HIDE DEF S
  <2> QED  BY <1>3
<1> QED  BY <1>4 DEF InsertTurning

InsertLoop(turn, t, z) ==
    /\ turn[0] = [tree |-> t, node |-> z]
    /\ \A i \in 0 .. MaxTurns - 1 : turn[i + 1] = InsertTurn(turn[i])
    /\ InsertFixup(t, z) = SetColor(turn[MaxTurns].tree, turn[MaxTurns].tree.root, "black")

\* rbtree_insert_fixup, turn by turn.
LEMMA InsertLoops ==
    ASSUME NEW t, NEW z
    PROVE  \E turn : InsertLoop(turn, t, z)
<1> DEFINE a == [tree |-> t, node |-> z]
           Step(f) == f = [i \in 0 .. MaxTurns |-> IF i = 0 THEN a ELSE InsertTurn(f[i - 1])]
           turn == CHOOSE f : Step(f)
<1>0. MaxTurns \in Nat
  BY KeysAreNumbers DEF MaxTurns
<1>1. InsertFixup(t, z) = SetColor(turn[MaxTurns].tree, turn[MaxTurns].tree.root, "black")
  BY DEF InsertFixup
<1> HIDE DEF a
<1>2. \E f : Step(f)
  <2>1. PICK f : InsertTurning(f, MaxTurns, a)
    BY <1>0, InsertTurningExists
  <2> QED  BY <2>1 DEF InsertTurning
<1>3. Step(turn)
  <2> HIDE DEF Step
  <2> QED  BY <1>2
<1> HIDE DEF turn
<1>4. turn[0] = a
  BY <1>0, <1>3
<1>5. ASSUME NEW i \in 0 .. MaxTurns - 1 PROVE turn[i + 1] = InsertTurn(turn[i])
  <2>1. i + 1 \in 0 .. MaxTurns /\ i + 1 # 0 /\ (i + 1) - 1 = i
    BY <1>0
  <2> QED  BY <1>3, <2>1
<1> QED  BY <1>1, <1>4, <1>5 DEF a, InsertLoop

\* rbtree_insert_fixup makes a red-black tree.
LEMMA InsertFixupIs ==
    ASSUME NEW t, NEW K, NEW B, NEW h, NEW z, InsertingAt(t, K, B, h, z)
    PROVE  \E C, f : RedBlack(InsertFixup(t, z), K, C, f)
<1>1. PICK turn : InsertLoop(turn, t, z)
  BY InsertLoops
<1>2. MaxTurns \in Nat /\ MaxTurns = MaxKey + 2 /\ MaxKey \in Nat
  BY KeysAreNumbers DEF MaxTurns
<1> DEFINE S == {i \in 0 .. MaxTurns : InsertSafe(turn[i], K, i)}
<1>3. 0 \in S
  <2>1. turn[0].tree = t /\ turn[0].node = z
    BY <1>1 DEF InsertLoop
  <2>2. 0 <= Width(B, z)
    BY Widths DEF InsertingAt, Whole
  <2>3. InsertSafe(turn[0], K, 0)
    BY <2>1, <2>2 DEF InsertSafe
  <2> QED  BY <1>2, <2>3
<1>4. ASSUME NEW i \in S, i < MaxTurns PROVE i + 1 \in S
  <2>1. i \in Nat /\ i \in 0 .. MaxTurns - 1 /\ i + 1 \in 0 .. MaxTurns
    BY <1>2, <1>4
  <2>2. turn[i + 1] = InsertTurn(turn[i])
    BY <1>1, <2>1 DEF InsertLoop
  <2>3. InsertSafe(turn[i + 1], K, i + 1)
    BY <2>1, <2>2, InsertTurns
  <2> QED  BY <2>1, <2>3
<1>5. S = 0 .. MaxTurns
  <2>1. S \subseteq 0 .. MaxTurns
    OBVIOUS
  <2> HIDE DEF S
  <2> QED  BY <1>2, <1>3, <1>4, <2>1, UpTo
<1>6. MaxTurns \in S
  <2> HIDE DEF S
  <2> QED  BY <1>2, <1>5
<1>7. PICK v, y : v = turn[MaxTurns].tree /\ y = turn[MaxTurns].node
  OBVIOUS
<1>8. PICK C, f : InsertingAt(v, K, C, f, y) /\ (v.color[v.parent[y]] # "red" \/ MaxTurns <= Width(C, y))
  BY <1>6, <1>7 DEF InsertSafe
<1>9. /\ Whole(v, K, C) /\ Shape(v, K, C) /\ Balanced(v, K, f, nil, "left") /\ y \in K
      /\ v.color[nil] = "black" /\ \A n \in K : RedFits(v, y, n)
  BY <1>8 DEF InsertingAt, Whole
<1>10. v.color[v.parent[y]] # "red"
  <2>1. Width(C, y) \in Nat /\ Width(C, y) <= MaxKey + 1
    BY <1>9, Widths
  <2> QED  BY <1>2, <1>8, <2>1
<1>11. PICK x \in K : x = v.root
  BY <1>9 DEF Shape, RootFits
<1>12. ASSUME NEW n \in K \ {x} PROVE RedFits(v, x, n)
  <2>1. ASSUME NEW s \in Sides, v.color[n] = "red" PROVE v.color[v.child[s][n]] = "black"
    <3>1. v.child[s][n] # y
      BY <1>9, <1>10, <2>1, Parents
    <3> QED  BY <1>9, <2>1, <3>1 DEF RedFits
  <2> QED  BY <2>1 DEF RedFits
<1>13. PICK r : r = SetColor(v, x, "black")
  OBVIOUS
<1>14. \E g : RedBlack(r, K, C, g)
  <2>1. (\E g : Sound(r, K, C, g)) /\ r.child = v.child
    BY <1>9, <1>11, <1>12, <1>13, Blacken
  <2>2. Clear(r, Keys \ K)
    BY <1>9, <2>1 DEF Whole, Clear
  <2> QED  BY <2>1, <2>2 DEF RedBlack, Sound, Whole
<1>15. r = InsertFixup(t, z)
  BY <1>1, <1>7, <1>11, <1>13 DEF InsertLoop
<1> QED  BY <1>14, <1>15

\* rbtree_insert
LEMMA InsertKeyIs ==
    ASSUME NEW t, NEW K, NEW B, NEW h, RedBlack(t, K, B, h), NEW z \in Keys
    PROVE  \E C, f : RedBlack(InsertKey(t, z), K \cup {z}, C, f)
<1>1. Whole(t, K, B) /\ Shape(t, K, B) /\ t \in Trees /\ K \subseteq Keys
  BY DEF RedBlack, Whole, Shape
<1>2. PICK y, side, t1, r : /\ y = IF t.root = nil THEN nil ELSE Descend(t, t.root, z)
                            /\ side = IF z < y THEN "left" ELSE "right"
                            /\ t1 = SetColor(SetParent(t, z, y), z, "red")
                            /\ r = IF y = nil THEN [t1 EXCEPT !.root = z] ELSE SetChild(t1, side, y, z)
  OBVIOUS
<1>3. InsertKey(t, z) = IF y = z THEN t ELSE InsertFixup(r, z)
  BY <1>2 DEF InsertKey
<1>4. CASE t.root = nil
  <2>1. K = {} /\ y = nil /\ y # z /\ y \in Ptr /\ z \notin K /\ side \in Sides
    BY <1>1, <1>2, <1>4, KeysAreNumbers, TwoSides DEF Shape, RootFits
  <2>2. Belongs(t, K, B, z, y, side)
    BY <2>1 DEF Belongs
  <2>3. PutIn(t, r, z, y, side)
    BY <1>1, <1>2, <2>1, PutInIs
  <2>4. PICK C, g : InsertingAt(r, K \cup {z}, C, g, z)
    BY <2>1, <2>2, <2>3, InsertStarts
  <2>5. \E D, f : RedBlack(InsertFixup(r, z), K \cup {z}, D, f)
    BY <2>4, InsertFixupIs
  <2> QED  BY <1>3, <2>1, <2>5
<1>5. CASE t.root # nil
  <2>1. /\ t.root \in K /\ B["left"][t.root] = 0 /\ B["right"][t.root] = MaxKey + 1
        /\ 0 < z /\ z < MaxKey + 1
    BY <1>1, <1>5, KeysAreNumbers DEF Shape, RootFits
  <2>2. /\ y \in K /\ B["left"][y] < z /\ z < B["right"][y]
        /\ y = z \/ (z \notin K /\ Onward(t, z, y) = nil)
    BY <1>1, <1>2, <1>5, <2>1, DescendFinds
  <2>3. CASE y = z
    <3>1. K \cup {z} = K
      BY <2>2, <2>3
    <3> QED  BY <1>3, <2>3, <3>1
  <2>4. CASE y # z
    <3>1. y # nil /\ y \in Ptr /\ side \in Sides /\ K # {} /\ y \in Nat /\ z \in Nat
      BY <1>1, <1>2, <2>2, KeysAreNumbers, TwoSides
    <3>2. t.child[side][y] = nil
      BY <1>2, <2>2, <2>4 DEF Onward
    <3>3. Belongs(t, K, B, z, y, side)
      BY <1>2, <2>2, <2>4, <3>1, <3>2, TwoSides DEF Belongs
    <3>4. PutIn(t, r, z, y, side)
      BY <1>1, <1>2, <3>1, PutInIs
    <3>5. PICK C, g : InsertingAt(r, K \cup {z}, C, g, z)
      BY <2>2, <2>4, <3>1, <3>3, <3>4, InsertStarts
    <3>6. \E D, f : RedBlack(InsertFixup(r, z), K \cup {z}, D, f)
      BY <3>5, InsertFixupIs
    <3> QED  BY <1>3, <2>4, <3>6
  <2> QED  BY <2>3, <2>4
<1> QED  BY <1>4, <1>5

\* During a deletion: a black node is missing above x, on the side d of p; or nowhere, when x is the root.
\* Only x may be red and have a red parent or child.  The nodes F are not in use.
DeleteAt(t, K, F, B, h, p, d, x) ==
    /\ Shape(t, K, B) /\ Clear(t, F) /\ F \subseteq Keys \ K
    /\ Balanced(t, K, h, p, d) /\ t.color[nil] = "black" /\ x \in K \cup {nil}
    /\ \A n \in K \ {x} : RedFits(t, x, n)
    /\ t.color[t.root] = "black" \/ t.root = x
    /\ \/ p = nil /\ x = t.root
       \/ p \in K /\ d \in Sides /\ t.child[d][p] = x /\ t.parent[x] = p

\* The loop goes on: x has a parent p and, on the other side, a sibling w.
Lacking(t, K, h, p, d, x, w) ==
    /\ p \in K /\ d \in Sides /\ t.child[d][p] = x /\ t.parent[x] = p
    /\ x \in Ptr /\ x # t.root /\ x # p /\ t.color[x] = "black"
    /\ w \in K /\ w = t.child[Opposite(d)][p] /\ w # x /\ w # p /\ t.parent[w] = p
    /\ w # t.root /\ t.color[t.root] = "black"
    /\ h[w] = h[x] + 1 /\ h[p] = h[x] + 1 + Unit(t, p)
    /\ \A n \in K : RedFits(t, nil, n)
    /\ \A n \in K, s \in Sides : t.child[s][n] = w => n = p
    /\ \A n \in K, s \in Sides : t.child[s][n] = p => n # w /\ n # p

\* When rbtree_delete_fixup turns once more, x has a parent and a sibling, all of them in the tree.
LEMMA LackingIs ==
    ASSUME NEW t, NEW K, NEW F, NEW B, NEW h, NEW p, NEW d, NEW x, DeleteAt(t, K, F, B, h, p, d, x),
           x # t.root, t.color[x] = "black"
    PROVE  /\ Lacking(t, K, h, p, d, x, t.child[Opposite(d)][p])
           /\ d = IF x = t.child["left"][p] THEN "left" ELSE "right"
<1>1. /\ Shape(t, K, B) /\ t \in Trees /\ K \subseteq Ptr /\ K \subseteq Keys /\ nil \notin K
            /\ nil \in Ptr
      /\ Heights(h) /\ (\A n \in K : HeightFits(t, h, p, d, n)) /\ t.color[nil] = "black"
      /\ \A s \in Sides, n \in K : t.child[s][n] \in Ptr
  BY KeysAreNumbers DEF DeleteAt, Shape, Balanced, Trees
<1>2. /\ p \in K /\ d \in Sides /\ t.child[d][p] = x /\ t.parent[x] = p
      /\ t.color[t.root] = "black" /\ x \in Ptr
      /\ \A n \in K \ {x} : RedFits(t, x, n)
  BY <1>1 DEF DeleteAt
<1>3. PICK far \in Sides : far = Opposite(d) /\ far # d
  BY <1>2, TwoSides
<1>4. PICK w \in Ptr : w = t.child[far][p]
  BY <1>1, <1>2
<1>5. h[w] \in Nat /\ h[x] \in Nat /\ h[p] \in Nat /\ Unit(t, p) \in Nat /\ h[nil] = 0
  BY <1>1, <1>2, <1>4 DEF Heights, Unit
<1>6. h[p] = h[x] + Unit(t, p) + 1 /\ h[p] = h[w] + Unit(t, p) + 0
  <2>1. Lack(p, d, p, d) = 1 /\ Lack(p, d, p, far) = 0
    BY <1>3 DEF Lack
  <2> QED  BY <1>1, <1>2, <1>3, <1>4, <2>1 DEF HeightFits
<1>7. h[w] = h[x] + 1 /\ h[p] = h[x] + 1 + Unit(t, p)
  BY <1>5, <1>6
<1>8. w # x /\ w # nil /\ w \in K
  <2>1. w # x /\ w # nil
    BY <1>5, <1>7
  <2> QED  BY <1>1, <1>2, <1>4, <2>1, Narrower
<1>9. t.parent[w] = p /\ w # p /\ w # t.root
  BY <1>1, <1>2, <1>3, <1>4, <1>8, Parents
<1>10. x # p
  BY <1>1, <1>2, Parents
<1>11. \A n \in K : RedFits(t, nil, n)
  <2>1. SUFFICES ASSUME NEW n \in K, t.color[n] = "red", NEW s \in Sides
        PROVE t.color[t.child[s][n]] = "black"
    BY DEF RedFits
  <2>2. n # x
    BY <2>1
  <2>3. t.child[s][n] # x => t.color[t.child[s][n]] = "black"
    BY <1>2, <2>1, <2>2 DEF RedFits
  <2> QED  BY <2>3
<1>12. \A n \in K, s \in Sides : t.child[s][n] = w => n = p
  BY <1>1, <1>8, <1>9, Parents
<1>13. ASSUME NEW n \in K, NEW s \in Sides, t.child[s][n] = p PROVE n # w /\ n # p
  <2>1. n = t.parent[p] /\ n # p
    BY <1>1, <1>2, <1>13, Parents
  <2>2. Width(B, p) < Width(B, n) /\ Width(B, p) \in Nat /\ Width(B, n) \in Nat
    BY <1>1, <1>2, <1>13, Narrower
  <2>3. Width(B, w) < Width(B, p) /\ Width(B, w) \in Nat
    BY <1>1, <1>2, <1>4, <1>8, Narrower
  <2> QED  BY <2>1, <2>2, <2>3
<1>14. d = IF x = t.child["left"][p] THEN "left" ELSE "right"
  BY <1>2, <1>3, <1>4, <1>8, TwoSides
<1>15. Lacking(t, K, h, p, d, x, w)
  BY <1>2, <1>3, <1>4, <1>7, <1>8, <1>9, <1>10, <1>11, <1>12, <1>13 DEF Lacking
<1> QED  BY <1>3, <1>4, <1>14, <1>15

\* A rotation leaves the memory that is not in use alone.
LEMMA RotateApart ==
    ASSUME NEW t, NEW K, NEW F, NEW B, Shape(t, K, B), Clear(t, F), F \subseteq Keys \ K,
           NEW side \in Sides, NEW x \in K, NEW y \in K,
           y = t.child[Opposite(side)][x], NEW r, RotatedTo(t, K, r, side, x, y)
    PROVE  \E C : Shape(r, K, C) /\ Clear(r, F)
<1>1. PICK C : Rebound(B, C, K, side, x, y)
  BY ReboundExists
<1>2. Shape(r, K, C)
  BY <1>1, RotateShape
<1>3. Clear(r, F)
  BY DEF Clear, RotatedTo
<1> QED  BY <1>2, <1>3

\* The sibling of x is black now, and its parent is red.
SiblingMade(t, K, F, p, d, x) ==
    /\ \E C, g : DeleteAt(t, K, F, C, g, p, d, x)
    /\ x # t.root /\ t.color[x] = "black" /\ t.color[p] = "red"
    /\ t.color[t.child[Opposite(d)][p]] = "black"

\* The sibling is red.
LEMMA SiblingIsRed ==
    ASSUME NEW t, NEW K, NEW F, NEW B, NEW h, NEW p, NEW d, NEW x, DeleteAt(t, K, F, B, h, p, d, x),
           NEW w, Lacking(t, K, h, p, d, x, w), t.color[w] = "red",
           NEW r, r = Rotate(SetColor(SetColor(t, w, "black"), p, "red"), d, p)
    PROVE  SiblingMade(r, K, F, p, d, x)
<1>1. /\ Shape(t, K, B) /\ t \in Trees /\ K \subseteq Ptr /\ K \subseteq Keys /\ nil \notin K
            /\ nil \in Ptr
      /\ Heights(h) /\ (\A n \in K : HeightFits(t, h, p, d, n)) /\ t.color[nil] = "black"
      /\ Clear(t, F) /\ F \subseteq Keys \ K /\ x \in K \cup {nil}
      /\ \A s \in Sides, n \in K : t.child[s][n] \in Ptr
  BY KeysAreNumbers DEF DeleteAt, Shape, Balanced, Trees
<1>2. /\ p \in K /\ d \in Sides /\ t.child[d][p] = x /\ t.parent[x] = p
      /\ x \in Ptr /\ x # t.root /\ x # p /\ t.color[x] = "black"
      /\ w \in K /\ w = t.child[Opposite(d)][p] /\ w # x /\ w # p
      /\ w # t.root /\ t.color[t.root] = "black"
      /\ h[w] = h[x] + 1 /\ h[p] = h[x] + 1 + Unit(t, p)
      /\ (\A n \in K : RedFits(t, nil, n)) /\ \A n \in K, s \in Sides : t.child[s][n] = w => n = p
  BY DEF Lacking
<1>3. PICK far \in Sides : far = Opposite(d) /\ far # d /\ \A s \in Sides : s = d \/ s = far
  BY <1>2, TwoSides
<1>4. t.color[p] = "black"
  BY <1>1, <1>2, <1>3 DEF RedFits, Trees
<1>5. PICK t1, t2 : t1 = SetColor(t, w, "black") /\ t2 = SetColor(t1, p, "red")
  OBVIOUS
<1>6. ColorIs(t, t1, w, "black")
  BY <1>1, <1>2, <1>5, Assignments
<1>7. t1 \in Trees
  BY <1>6 DEF ColorIs
<1>8. ColorIs(t1, t2, p, "red")
  BY <1>1, <1>2, <1>5, <1>7, Assignments
<1>9. /\ SameLinks(t, t2) /\ t2.child = t.child /\ t2.root = t.root /\ t2.parent = t.parent
      /\ \A n \in Ptr : t2.color[n] = IF n = p THEN "red" ELSE IF n = w THEN "black" ELSE t.color[n]
  BY <1>6, <1>8 DEF ColorIs, SameLinks
<1>10. Shape(t2, K, B) /\ Clear(t2, F) /\ w = t2.child[Opposite(d)][p] /\ w # nil
  BY <1>1, <1>2, <1>9, PaintedShape DEF Clear
<1>11. RotatedTo(t2, K, r, d, p, w)
  BY <1>2, <1>5, <1>10, RotateIs
<1>12. PICK C : Shape(r, K, C) /\ Clear(r, F)
  BY <1>1, <1>2, <1>10, <1>11, RotateApart
<1>13. PICK b, c : b = t.child[d][w] /\ c = t.child[far][w]
  OBVIOUS
<1>14. /\ b \in Ptr /\ c \in Ptr /\ b # p /\ b # w /\ c # p /\ c # w
       /\ r.child[d][p] = x /\ r.child[far][p] = b /\ OthersKeep(t2, K, r, p, w)
  BY <1>1, <1>2, <1>3, <1>9, <1>10, <1>11, <1>13, RotatedKids
<1>15. \A n \in Ptr : h[n] \in Nat
  BY <1>1 DEF Heights
<1>16. Unit(t, p) = 1 /\ Unit(t, w) = 0 /\ Unit(t2, p) = 0 /\ Unit(t2, w) = 1
  BY <1>1, <1>2, <1>4, <1>9 DEF Unit
<1>17. \A s \in Sides : Lack(p, d, w, s) = 0 /\ Lack(p, d, p, s) = IF s = d THEN 1 ELSE 0
  BY <1>2 DEF Lack
<1>18. h[w] = h[b] /\ h[w] = h[c]
  <2>1. h[w] = h[b] + 0 + 0 /\ h[w] = h[c] + 0 + 0
    BY <1>1, <1>2, <1>3, <1>13, <1>16, <1>17 DEF HeightFits
  <2> QED  BY <1>14, <1>15, <2>1
<1>19. PICK g : Balanced(r, K, g, p, d)
  <2>1. \A n \in K \ {p, w} : HeightFits(t2, h, p, d, n)
    <3>1. \A n \in K \ {p, w} : Unit(t2, n) = Unit(t, n)
      BY <1>1, <1>9 DEF Unit
    <3> QED  BY <1>1, <1>9, <3>1 DEF HeightFits
  <2>2. PICK hx \in Nat : hx = h[x] + 1
    BY <1>2, <1>15
  <2>3. h[x] \in Nat /\ h[b] \in Nat /\ h[c] \in Nat /\ h[p] \in Nat /\ h[w] \in Nat
    BY <1>1, <1>2, <1>14, <1>15
  <2>4. hx = h[x] + 0 + 1 /\ hx = h[b] + 0 + 0 /\ h[p] = hx + 1 + 0 /\ h[p] = h[c] + 1 + 0
    BY <1>2, <1>16, <1>18, <2>2, <2>3
  <2>5. t2.child[d][p] = x /\ t2.child[d][w] = b /\ t2.child[far][w] = c
    BY <1>2, <1>9, <1>13
  <2>6. /\ Lack(p, d, p, d) = 1 /\ Lack(p, d, p, far) = 0
        /\ Lack(p, d, w, d) = 0 /\ Lack(p, d, w, far) = 0
    BY <1>2, <1>3, <1>17
  <2>7. /\ hx = h[t2.child[d][p]] + Unit(t2, p) + Lack(p, d, p, d)
        /\ hx = h[t2.child[d][w]] + Unit(t2, p) + Lack(p, d, p, Opposite(d))
        /\ h[p] = hx + Unit(t2, w) + Lack(p, d, w, d)
        /\ h[p] = h[t2.child[Opposite(d)][w]] + Unit(t2, w) + Lack(p, d, w, Opposite(d))
    BY <1>3, <1>16, <2>4, <2>5, <2>6
  <2>8. HeightsReady(t2, K, h, p, d, d, p, w, hx)
    BY <1>1, <2>1, <2>7 DEF HeightsReady
  <2>9. \E g : Balanced(r, K, g, p, d) /\ Reheight(h, g, p, w, hx)
    BY <1>2, <1>10, <1>11, <2>8, RotateBalance
  <2> QED  BY <2>9
<1>20. t.color[b] = "black" /\ t2.color[b] = "black" /\ t2.color[x] = "black"
  <2>1. t.color[b] = "black"
    BY <1>1, <1>2, <1>13 DEF RedFits
  <2> QED  BY <1>2, <1>9, <1>14, <2>1
<1>21. \A n \in K : RedFits(r, nil, n)
  <2>1. ASSUME NEW n \in K \ {p, w}, NEW s \in Sides, t2.color[n] = "red", t2.child[s][n] # nil,
               t2.child[s][n] # p
        PROVE  t2.color[t2.child[s][n]] = "black"
    <3>1. t.color[n] = "red" /\ t.child[s][n] # nil /\ t.child[s][n] # p /\ t.child[s][n] \in Ptr
      BY <1>1, <1>9, <2>1
    <3>2. t.color[t.child[s][n]] = "black"
      BY <1>2, <3>1 DEF RedFits
    <3> QED  BY <1>9, <3>1, <3>2
  <2>2. t2.color[w] = "black"
    BY <1>1, <1>2, <1>9
  <2>3. \A n \in K, s \in Sides : t2.child[s][n] = p /\ t2.color[n] = "red" => t2.color[w] = "black"
    BY <2>2
  <2>4. \A e \in {t2.child[d][p], t2.child[d][w]} : e = nil \/ t2.color[e] = "black"
    BY <1>2, <1>9, <1>13, <1>20
  <2>5. RedsReady(t2, K, d, p, w, nil)
    BY <2>1, <2>2, <2>3, <2>4 DEF RedsReady
  <2> QED  BY <1>2, <1>10, <1>11, <2>5, RotateReds
<1>22. r.color = t2.color /\ r.root = IF p = t.root THEN w ELSE t.root
  BY <1>9, <1>11 DEF RotatedTo
<1>23. r.color[r.root] = "black" /\ x # r.root /\ r.color[x] = "black" /\ r.color[p] = "red"
            /\ r.color[nil] = "black"
  <2>1. t.root \in Ptr
    BY <1>1 DEF Trees
  <2> QED  BY <1>1, <1>2, <1>9, <1>20, <1>22, <2>1
<1>24. r.parent[x] = p
  <2>1. x # nil => x # b
    <3>1. ASSUME x # nil, x = b PROVE FALSE
      <4>1. x \in K /\ t.parent[x] = w
        <5>1. Shape(t, K, B) /\ w \in K /\ d \in Sides /\ t.child[d][w] = x /\ t.child[d][w] # nil
          BY <1>1, <1>2, <1>13, <3>1
        <5> QED  BY <5>1, Narrower
      <4> QED  BY <1>2, <4>1
    <3> QED  BY <3>1
  <2>2. t2.child[d][w] = b
    BY <1>9, <1>13
  <2> QED  BY <1>1, <1>2, <1>9, <1>11, <2>1, <2>2 DEF RotatedTo
<1>25. \A n \in K \ {x} : RedFits(r, x, n)
  BY <1>21, <1>23 DEF RedFits
<1>26. DeleteAt(r, K, F, C, g, p, d, x)
  BY <1>1, <1>2, <1>12, <1>14, <1>19, <1>23, <1>24, <1>25 DEF DeleteAt
<1>27. r.color[r.child[Opposite(d)][p]] = "black"
  BY <1>3, <1>14, <1>20, <1>22
<1> QED  BY <1>23, <1>26, <1>27 DEF SiblingMade

\* Both nephews are black: the sibling becomes red, and the black node is missing above the parent.
LEMMA NephewsAreBlack ==
    ASSUME NEW t, NEW K, NEW F, NEW B, NEW h, NEW p, NEW d, NEW x, DeleteAt(t, K, F, B, h, p, d, x),
           NEW w, Lacking(t, K, h, p, d, x, w), t.color[w] = "black",
           \A s \in Sides : t.color[t.child[s][w]] = "black",
           NEW r, r = SetColor(t, w, "red")
    PROVE  \E g, q, e : DeleteAt(r, K, F, B, g, q, e, p)
<1>1. /\ Shape(t, K, B) /\ t \in Trees /\ K \subseteq Ptr /\ K \subseteq Keys /\ nil \notin K
            /\ nil \in Ptr
      /\ Heights(h) /\ (\A n \in K : HeightFits(t, h, p, d, n)) /\ t.color[nil] = "black"
      /\ Clear(t, F) /\ F \subseteq Keys \ K
      /\ \A s \in Sides, n \in K : t.child[s][n] \in Ptr
  BY KeysAreNumbers DEF DeleteAt, Shape, Balanced, Trees
<1>2. /\ p \in K /\ d \in Sides /\ t.child[d][p] = x
      /\ x \in Ptr /\ x # p /\ w \in K /\ w = t.child[Opposite(d)][p] /\ w # x /\ w # p
      /\ w # t.root /\ t.color[t.root] = "black"
      /\ h[w] = h[x] + 1 /\ h[p] = h[x] + 1 + Unit(t, p)
      /\ (\A n \in K : RedFits(t, nil, n))
      /\ (\A n \in K, s \in Sides : t.child[s][n] = w => n = p)
      /\ (\A n \in K, s \in Sides : t.child[s][n] = p => n # w /\ n # p)
  BY DEF Lacking
<1>3. ColorIs(t, r, w, "red")
  BY <1>1, <1>2, Assignments
<1>4. /\ SameLinks(t, r) /\ r.child = t.child /\ r.root = t.root /\ r.parent = t.parent
      /\ \A n \in Ptr : r.color[n] = IF n = w THEN "red" ELSE t.color[n]
  BY <1>3 DEF ColorIs, SameLinks
<1>5. Shape(r, K, B) /\ Clear(r, F)
  BY <1>1, <1>4, PaintedShape DEF Clear
<1>6. \A n \in Ptr : h[n] \in Nat
  BY <1>1 DEF Heights
<1>7. PICK g : g = [n \in Ptr |-> IF n = w THEN h[x] ELSE IF n = p THEN h[x] + Unit(t, p) ELSE h[n]]
  OBVIOUS
<1>8. Unit(t, p) \in Nat /\ Unit(t, w) = 1 /\ Unit(r, w) = 0
      /\ \A n \in K : n # w => Unit(r, n) = Unit(t, n)
  BY <1>1, <1>2, <1>4 DEF Unit
<1>9. Heights(g) /\ g[w] = h[x] /\ g[p] = h[x] + Unit(t, p) /\ \A n \in Ptr \ {w, p} : g[n] = h[n]
  BY <1>1, <1>2, <1>6, <1>7, <1>8 DEF Heights
<1>10. PICK q, e : /\ \/ q = nil /\ p = t.root
                      \/ q \in K /\ e \in Sides /\ t.child[e][q] = p /\ t.parent[p] = q
                   /\ \A n \in K, s \in Sides : t.child[s][n] = p <=> n = q /\ s = e
  <2>1. CASE p = t.root
    <3>1. t.parent[p] = nil
      <4>1. Shape(t, K, B) /\ p \in K
        BY <1>1, <1>2
      <4> QED  BY <2>1, <4>1, Parents
    <3>2. \A n \in K, s \in Sides : t.child[s][n] # p
      BY <1>1, <1>2, <3>1, Parents
    <3> QED  BY <1>1, <2>1, <3>2
  <2>2. CASE p # t.root
    <3>1. PICK q \in K, e \in Sides : q = t.parent[p] /\ t.child[e][q] = p
      BY <1>1, <1>2, <2>2, Parents
    <3>2. ASSUME NEW n \in K, NEW s \in Sides, t.child[s][n] = p PROVE n = q /\ s = e
      <4>1. n = q /\ t.child[Opposite(s)][n] # p
        BY <1>1, <1>2, <3>1, <3>2, Parents
      <4> QED  BY <3>1, <4>1, TwoSides
    <3> QED  BY <3>1, <3>2
  <2> QED  BY <2>1, <2>2
<1>11. q # p /\ q # w
  BY <1>1, <1>2, <1>10
<1>12. \A n \in K, s \in Sides : h[n] = h[t.child[s][n]] + Unit(t, n) + Lack(p, d, n, s)
  BY <1>1 DEF HeightFits
<1>13. ASSUME NEW n \in K, NEW s \in Sides PROVE g[n] = g[t.child[s][n]] + Unit(r, n) + Lack(q, e, n, s)
  <2>1. PICK c \in Ptr : c = t.child[s][n]
    BY <1>1
  <2>2. h[n] = h[c] + Unit(t, n) + Lack(p, d, n, s) /\ h[c] \in Nat /\ h[n] \in Nat /\ n \in Ptr
             /\ h[x] \in Nat
    BY <1>1, <1>2, <1>6, <1>12, <2>1
  <2>3. CASE n = p
    <3>1. Lack(q, e, n, s) = 0 /\ Unit(r, n) = Unit(t, p) /\ g[n] = h[x] + Unit(t, p)
      BY <1>2, <1>8, <1>9, <1>11, <2>3 DEF Lack
    <3>2. c = x \/ c = w
      BY <1>2, <2>1, <2>3, TwoSides
    <3>3. g[c] = h[x]
      BY <1>2, <1>9, <3>2
    <3> QED  BY <1>8, <2>1, <2>2, <3>1, <3>3
  <2>4. CASE n = w
    <3>1. Lack(q, e, n, s) = 0 /\ Unit(r, n) = 0 /\ Unit(t, n) = 1 /\ Lack(p, d, n, s) = 0 /\ g[n] = h[x]
      BY <1>2, <1>8, <1>9, <1>11, <2>4 DEF Lack
    <3>2. c # w /\ c # p
      BY <1>2, <2>1, <2>4
    <3>3. g[c] = h[c]
      BY <1>9, <3>2
    <3>4. h[x] + 1 = h[c] + 1 + 0
      BY <1>2, <2>2, <2>4, <3>1
    <3> QED  BY <2>1, <2>2, <3>1, <3>3, <3>4
  <2>5. CASE n # p /\ n # w
    <3>1. Lack(p, d, n, s) = 0 /\ Unit(r, n) = Unit(t, n) /\ g[n] = h[n] /\ Unit(t, n) \in Nat
      BY <1>8, <1>9, <2>2, <2>5 DEF Lack, Unit
    <3>2. c # w
      BY <1>2, <2>1, <2>5
    <3>3. CASE c = p
      <4>1. Lack(q, e, n, s) = 1 /\ g[c] = h[x] + Unit(t, p) /\ h[c] = h[x] + 1 + Unit(t, p)
        <5>1. n = q /\ s = e
          BY <1>10, <2>1, <3>3
        <5>2. Lack(q, e, n, s) = 1
          BY <5>1 DEF Lack
        <5> QED  BY <1>2, <1>9, <3>3, <5>2
      <4> QED  BY <1>8, <2>1, <2>2, <3>1, <4>1
    <3>4. CASE c # p
      <4>1. Lack(q, e, n, s) = 0 /\ g[c] = h[c]
        BY <1>9, <1>10, <2>1, <3>2, <3>4 DEF Lack
      <4> QED  BY <2>1, <2>2, <3>1, <4>1
    <3> QED  BY <3>3, <3>4
  <2> QED  BY <2>3, <2>4, <2>5
<1>14. Balanced(r, K, g, q, e)
  BY <1>4, <1>9, <1>13 DEF Balanced, HeightFits
<1>15. ASSUME NEW n \in K \ {p} PROVE RedFits(r, p, n)
  <2>1. SUFFICES ASSUME r.color[n] = "red", NEW s \in Sides, t.child[s][n] # p
                 PROVE  r.color[t.child[s][n]] = "black"
    BY <1>4 DEF RedFits
  <2>2. t.child[s][n] # w /\ t.child[s][n] \in Ptr
    BY <1>1, <1>2, <1>15
  <2>3. t.color[t.child[s][n]] = "black"
    <3>1. CASE n = w
      BY <3>1
    <3>2. CASE n # w
      BY <1>1, <1>2, <1>4, <2>1, <3>2 DEF RedFits
    <3> QED  BY <3>1, <3>2
  <2> QED  BY <1>4, <2>2, <2>3
<1>16. r.color[nil] = "black" /\ r.color[r.root] = "black"
  BY <1>1, <1>2, <1>4 DEF Trees
<1>17. \/ q = nil /\ p = r.root
       \/ q \in K /\ e \in Sides /\ r.child[e][q] = p /\ r.parent[p] = q
  BY <1>4, <1>10
<1>18. DeleteAt(r, K, F, B, g, q, e, p)
  BY <1>1, <1>2, <1>5, <1>14, <1>15, <1>16, <1>17 DEF DeleteAt
<1> QED  BY <1>18

\* Only the near nephew is red: the rotation makes it the sibling, with a red far child.
LEMMA NephewIsNear ==
    ASSUME NEW t, NEW K, NEW F, NEW B, NEW h, NEW p, NEW d, NEW x, DeleteAt(t, K, F, B, h, p, d, x),
           NEW w, Lacking(t, K, h, p, d, x, w), t.color[w] = "black",
           NEW v, v = t.child[d][w], t.color[v] # "black", t.color[t.child[Opposite(d)][w]] = "black",
           NEW r, r = NephewOut(t, d, w)
    PROVE  /\ \E C, g : DeleteAt(r, K, F, C, g, p, d, x)
           /\ x # r.root /\ r.color[x] = "black"
           /\ r.child[Opposite(d)][p] = v /\ r.color[v] = "black"
                 /\ r.color[r.child[Opposite(d)][v]] = "red"
<1>1. /\ Shape(t, K, B) /\ t \in Trees /\ K \subseteq Ptr /\ K \subseteq Keys /\ nil \notin K
            /\ nil \in Ptr
      /\ Heights(h) /\ (\A n \in K : HeightFits(t, h, p, d, n)) /\ t.color[nil] = "black"
      /\ Clear(t, F) /\ F \subseteq Keys \ K /\ x \in K \cup {nil}
      /\ \A s \in Sides, n \in K : t.child[s][n] \in Ptr
  BY KeysAreNumbers DEF DeleteAt, Shape, Balanced, Trees
<1>2. /\ p \in K /\ d \in Sides /\ t.child[d][p] = x /\ t.parent[x] = p
      /\ x \in Ptr /\ x # t.root /\ x # p /\ t.color[x] = "black"
      /\ w \in K /\ w = t.child[Opposite(d)][p] /\ w # x /\ w # p
      /\ w # t.root /\ t.color[t.root] = "black"
      /\ (\A n \in K : RedFits(t, nil, n)) /\ (\A n \in K, s \in Sides : t.child[s][n] = w => n = p)
      /\ (\A n \in K, s \in Sides : t.child[s][n] = p => n # w /\ n # p)
  BY DEF Lacking
<1>3. PICK far \in Sides : /\ far = Opposite(d) /\ far # d /\ Opposite(far) = d
                           /\ \A s \in Sides : s = d \/ s = far
  BY <1>2, TwoSides
<1>4. /\ v # nil /\ v \in K /\ t.parent[v] = w /\ v # w /\ t.color[v] = "red" /\ v # p
  <2>1. v # nil /\ v \in Ptr /\ t.color[v] = "red" /\ v # p
    BY <1>1, <1>2 DEF Trees
  <2>2. Shape(t, K, B) /\ w \in K /\ d \in Sides /\ t.child[d][w] = v
    BY <1>1, <1>2
  <2> QED  BY <2>1, <2>2, Narrower
<1>5. PICK t1, t2 : t1 = SetColor(t, v, "black") /\ t2 = SetColor(t1, w, "red")
  OBVIOUS
<1>6. ColorIs(t, t1, v, "black")
  BY <1>1, <1>4, <1>5, Assignments
<1>7. t1 \in Trees
  BY <1>6 DEF ColorIs
<1>8. ColorIs(t1, t2, w, "red")
  BY <1>1, <1>2, <1>5, <1>7, Assignments
<1>9. /\ SameLinks(t, t2) /\ t2.child = t.child /\ t2.root = t.root /\ t2.parent = t.parent
      /\ \A n \in Ptr : t2.color[n] = IF n = w THEN "red" ELSE IF n = v THEN "black" ELSE t.color[n]
  BY <1>6, <1>8 DEF ColorIs, SameLinks
<1>10. r = Rotate(t2, far, w)
  BY <1>3, <1>5 DEF NephewOut
<1>11. Shape(t2, K, B) /\ Clear(t2, F) /\ v = t2.child[Opposite(far)][w]
  BY <1>1, <1>3, <1>9, PaintedShape DEF Clear
<1>12. RotatedTo(t2, K, r, far, w, v)
  <2>1. far \in Sides /\ w \in K /\ v \in K /\ v # nil
    BY <1>2, <1>3, <1>4
  <2> QED  BY <1>10, <1>11, <2>1, RotateIs
<1>13. PICK C : Shape(r, K, C) /\ Clear(r, F)
  BY <1>1, <1>2, <1>4, <1>11, <1>12, RotateApart
<1>14. PICK a, b, c : a = t.child[far][w] /\ b = t.child[far][v] /\ c = t.child[d][v]
  OBVIOUS
<1>15. /\ a \in Ptr /\ b \in Ptr /\ c \in Ptr /\ b # w /\ b # v /\ c # w /\ c # v /\ a # w /\ a # v
       /\ r.child[far][v] = w /\ OthersKeep(t2, K, r, w, v)
  <2>0. far \in Sides /\ w \in K /\ v \in K
    BY <1>2, <1>3, <1>4
  <2>1. /\ r.child[far][v] = w
        /\ t2.child[far][w] # w /\ t2.child[far][w] # v
        /\ t2.child[far][v] # w /\ t2.child[far][v] # v
        /\ t2.child[Opposite(far)][v] # w /\ t2.child[Opposite(far)][v] # v
        /\ OthersKeep(t2, K, r, w, v)
    BY <1>11, <1>12, <2>0, RotatedKids
  <2>2. t2.child[far][w] = a /\ t2.child[far][v] = b /\ t2.child[Opposite(far)][v] = c
    BY <1>3, <1>9, <1>14
  <2> QED  BY <1>1, <1>2, <1>3, <1>4, <1>14, <2>1, <2>2
<1>16. \A n \in Ptr : h[n] \in Nat
  BY <1>1 DEF Heights
<1>17. Unit(t, w) = 1 /\ Unit(t, v) = 0 /\ Unit(t2, w) = 0 /\ Unit(t2, v) = 1
  BY <1>1, <1>2, <1>4, <1>9 DEF Unit
<1>18. \A s \in Sides : Lack(p, d, w, s) = 0 /\ Lack(p, d, v, s) = 0
  BY <1>2, <1>4 DEF Lack
<1>19. h[w] = h[v] + 1 /\ h[w] = h[a] + 1 /\ h[v] = h[b] /\ h[v] = h[c]
  <2>1. h[w] = h[v] + 1 + 0 /\ h[w] = h[a] + 1 + 0 /\ h[v] = h[b] + 0 + 0 /\ h[v] = h[c] + 0 + 0
    <3>1. \A n \in K, s \in Sides : h[n] = h[t.child[s][n]] + Unit(t, n) + Lack(p, d, n, s)
      BY <1>1 DEF HeightFits
    <3>2. /\ w \in K /\ v \in K /\ d \in Sides /\ far \in Sides
          /\ t.child[d][w] = v /\ t.child[far][w] = a /\ t.child[far][v] = b /\ t.child[d][v] = c
      BY <1>2, <1>3, <1>4, <1>14
    <3>3. h[w] = h[v] + 1 + 0 /\ h[w] = h[a] + 1 + 0
      BY <1>17, <1>18, <3>1, <3>2
    <3>4. h[v] = h[b] + 0 + 0 /\ h[v] = h[c] + 0 + 0
      BY <1>17, <1>18, <3>1, <3>2
    <3> QED  BY <3>3, <3>4
  <2> QED  BY <1>1, <1>4, <1>15, <1>16, <2>1
<1>20. PICK g : Balanced(r, K, g, p, d)
  <2>1. \A n \in K \ {w, v} : HeightFits(t2, h, p, d, n)
    <3>1. \A n \in K \ {w, v} : Unit(t2, n) = Unit(t, n)
      BY <1>1, <1>9 DEF Unit
    <3> QED  BY <1>1, <1>9, <3>1 DEF HeightFits
  <2>2. PICK hx \in Nat : hx = h[a]
    BY <1>15, <1>16
  <2>3. h[a] \in Nat /\ h[b] \in Nat /\ h[c] \in Nat /\ h[v] \in Nat /\ h[w] \in Nat
    BY <1>1, <1>2, <1>4, <1>15, <1>16
  <2>4. hx = h[a] + 0 + 0 /\ hx = h[b] + 0 + 0 /\ h[w] = hx + 1 + 0 /\ h[w] = h[c] + 1 + 0
    BY <1>19, <2>2, <2>3
  <2>5. t2.child[far][w] = a /\ t2.child[far][v] = b /\ t2.child[d][v] = c
    BY <1>9, <1>14
  <2>6. /\ Lack(p, d, w, far) = 0 /\ Lack(p, d, w, d) = 0
        /\ Lack(p, d, v, far) = 0 /\ Lack(p, d, v, d) = 0
    BY <1>2, <1>3, <1>18
  <2>7. /\ hx = h[t2.child[far][w]] + Unit(t2, w) + Lack(p, d, w, far)
        /\ hx = h[t2.child[far][v]] + Unit(t2, w) + Lack(p, d, w, Opposite(far))
        /\ h[w] = hx + Unit(t2, v) + Lack(p, d, v, far)
        /\ h[w] = h[t2.child[Opposite(far)][v]] + Unit(t2, v) + Lack(p, d, v, Opposite(far))
    BY <1>3, <1>17, <2>4, <2>5, <2>6
  <2>8. \E g : Balanced(r, K, g, p, d) /\ Reheight(h, g, w, v, hx)
    <3>1. far \in Sides /\ w \in K /\ v \in K
      BY <1>2, <1>3, <1>4
    <3>2. HeightsReady(t2, K, h, p, d, far, w, v, hx)
      BY <1>1, <2>1, <2>7 DEF HeightsReady
    <3> QED  BY <1>11, <1>12, <3>1, <3>2, RotateBalance
  <2> QED  BY <2>8
<1>21. t.color[a] = "black" /\ t.color[b] = "black"
  BY <1>1, <1>2, <1>3, <1>4, <1>14 DEF RedFits
<1>22. \A n \in K, s \in Sides : t.child[s][n] = v => n = w
  BY <1>1, <1>4, Parents
<1>23. \A n \in K : RedFits(r, nil, n)
  <2>1. ASSUME NEW n \in K \ {w, v}, NEW s \in Sides, t2.color[n] = "red", t2.child[s][n] # nil,
               t2.child[s][n] # w
        PROVE  t2.color[t2.child[s][n]] = "black"
    <3>1. t.color[n] = "red" /\ t.child[s][n] # nil /\ t.child[s][n] # w /\ t.child[s][n] \in Ptr
      BY <1>1, <1>9, <2>1
    <3>2. t.color[t.child[s][n]] = "black"
      BY <1>2, <3>1 DEF RedFits
    <3> QED  BY <1>9, <3>1, <3>2
  <2>2. t2.color[v] = "black" /\ t2.color[a] = "black" /\ t2.color[b] = "black"
    BY <1>1, <1>4, <1>9, <1>15, <1>21
  <2>3. \A n \in K, s \in Sides : t2.child[s][n] = w /\ t2.color[n] = "red" => t2.color[v] = "black"
    BY <2>2
  <2>4. \A e \in {t2.child[far][w], t2.child[far][v]} : e = nil \/ t2.color[e] = "black"
    BY <1>9, <1>14, <2>2
  <2>5. far \in Sides /\ w \in K /\ v \in K
    BY <1>2, <1>3, <1>4
  <2>6. RedsReady(t2, K, far, w, v, nil)
    BY <2>1, <2>2, <2>3, <2>4 DEF RedsReady
  <2> QED  BY <1>11, <1>12, <2>5, <2>6, RotateReds
<1>24. r.color = t2.color /\ r.root = t.root
  BY <1>2, <1>9, <1>12 DEF RotatedTo
<1>25. x # v
  BY <1>2, <1>4
<1>26. r.color[r.root] = "black" /\ x # r.root /\ r.color[x] = "black" /\ r.color[nil] = "black"
  <2>1. t.root \in Ptr
    BY <1>1 DEF Trees
  <2>2. t2.color[t.root] = "black"
    BY <1>2, <1>9, <2>1
  <2>3. t2.color[x] = "black" /\ t2.color[nil] = "black"
    BY <1>1, <1>2, <1>9
  <2> QED  BY <1>2, <1>24, <2>2, <2>3
<1>27. r.parent[x] = p
  <2>1. x # nil => x # b
    <3>1. ASSUME x # nil, x = b PROVE FALSE
      <4>1. t.parent[b] = v
        <5>1. Shape(t, K, B) /\ v \in K /\ far \in Sides /\ t.child[far][v] = b /\ t.child[far][v] # nil
          BY <1>1, <1>3, <1>4, <1>14, <3>1
        <5> QED  BY <5>1, Narrower
      <4> QED  BY <1>2, <1>4, <3>1, <4>1
    <3> QED  BY <3>1
  <2>2. t2.child[far][v] = b /\ t2.parent[x] = p
    BY <1>2, <1>9, <1>14
  <2>3. \A n \in K \cup {nil} : n # w /\ n # v /\ (n # nil => n # t2.child[far][v])
                               => r.parent[n] = t2.parent[n]
    BY <1>12 DEF RotatedTo
  <2>4. x \in K \cup {nil} /\ x # w /\ x # v
    BY <1>1, <1>2, <1>25
  <2> QED  BY <2>1, <2>2, <2>3, <2>4
<1>28. r.child[d][p] = x /\ r.child[far][p] = v
  <2>1. p \in K \ {w, v} /\ t2.child[d][p] = x /\ x # w /\ t2.child[far][p] = w
    BY <1>2, <1>3, <1>4, <1>9
  <2>2. OthersKeep(t2, K, r, w, v) /\ d \in Sides /\ far \in Sides
    BY <1>2, <1>3, <1>15
  <2> QED  BY <2>1, <2>2 DEF OthersKeep
<1>29. \A n \in K \ {x} : RedFits(r, x, n)
  BY <1>23, <1>26 DEF RedFits
<1>30. DeleteAt(r, K, F, C, g, p, d, x)
  BY <1>1, <1>2, <1>13, <1>20, <1>26, <1>27, <1>28, <1>29 DEF DeleteAt
<1>31. r.color[v] = "black" /\ r.color[r.child[far][v]] = "red"
  <2>1. t2.color[v] = "black" /\ t2.color[w] = "red"
    BY <1>1, <1>2, <1>4, <1>9
  <2> QED  BY <1>15, <1>24, <2>1
<1> QED  BY <1>3, <1>26, <1>28, <1>30, <1>31

\* The far nephew is red: the sibling comes up above the parent, and nothing is missing any more.
LEMMA NephewIsFar ==
    ASSUME NEW t, NEW K, NEW F, NEW B, NEW h, NEW p, NEW d, NEW x, DeleteAt(t, K, F, B, h, p, d, x),
           NEW w, Lacking(t, K, h, p, d, x, w), t.color[w] = "black",
           NEW f, f = t.child[Opposite(d)][w], t.color[f] = "red",
           NEW r, r = SiblingUp(t, d, p)
    PROVE  \E C, g : DeleteAt(r, K, F, C, g, nil, "left", r.root)
<1>1. /\ Shape(t, K, B) /\ t \in Trees /\ K \subseteq Ptr /\ K \subseteq Keys /\ nil \notin K
            /\ nil \in Ptr
      /\ Heights(h) /\ (\A n \in K : HeightFits(t, h, p, d, n)) /\ t.color[nil] = "black"
      /\ Clear(t, F) /\ F \subseteq Keys \ K /\ x \in K \cup {nil}
      /\ \A s \in Sides, n \in K : t.child[s][n] \in Ptr
  BY KeysAreNumbers DEF DeleteAt, Shape, Balanced, Trees
<1>2. /\ p \in K /\ d \in Sides /\ t.child[d][p] = x /\ t.parent[x] = p
      /\ x \in Ptr /\ x # t.root /\ x # p /\ t.color[x] = "black"
      /\ w \in K /\ w = t.child[Opposite(d)][p] /\ w # x /\ w # p
      /\ w # t.root /\ t.color[t.root] = "black"
      /\ h[w] = h[x] + 1 /\ h[p] = h[x] + 1 + Unit(t, p)
      /\ (\A n \in K : RedFits(t, nil, n)) /\ (\A n \in K, s \in Sides : t.child[s][n] = w => n = p)
      /\ (\A n \in K, s \in Sides : t.child[s][n] = p => n # w /\ n # p)
  BY DEF Lacking
<1>3. PICK far \in Sides : /\ far = Opposite(d) /\ far # d /\ \A s \in Sides : s = d \/ s = far
  BY <1>2, TwoSides
<1>4. /\ f # nil /\ f \in K /\ t.parent[f] = w /\ f # w /\ f # p /\ f # x
  <2>1. f # nil /\ f \in Ptr /\ f # p /\ f # x
    BY <1>1, <1>2, <1>3
  <2> QED  BY <1>1, <1>2, <1>3, <2>1, Narrower
<1>5. PICK t1, t2, t3 : t1 = SetColor(t, w, t.color[p]) /\ t2 = SetColor(t1, p, "black")
                        /\ t3 = SetColor(t2, f, "black")
  OBVIOUS
<1>6. t.color[p] \in {"red", "black"}
  BY <1>1, <1>2 DEF Trees
<1>7. ColorIs(t, t1, w, t.color[p])
  BY <1>1, <1>2, <1>5, <1>6, Assignments
<1>8. t1 \in Trees
  BY <1>7 DEF ColorIs
<1>9. ColorIs(t1, t2, p, "black")
  BY <1>1, <1>2, <1>5, <1>8, Assignments
<1>10. t2 \in Trees
  BY <1>9 DEF ColorIs
<1>11. ColorIs(t2, t3, f, "black")
  BY <1>1, <1>4, <1>5, <1>10, Assignments
<1>12. /\ SameLinks(t, t3) /\ t3.child = t.child /\ t3.root = t.root /\ t3.parent = t.parent
       /\ \A n \in Ptr : t3.color[n] = IF n = f \/ n = p THEN "black"
             ELSE IF n = w THEN t.color[p] ELSE t.color[n]
  BY <1>7, <1>9, <1>11 DEF ColorIs, SameLinks
<1>13. r = Rotate(t3, d, p)
  BY <1>2, <1>5 DEF SiblingUp
<1>14. Shape(t3, K, B) /\ Clear(t3, F) /\ w = t3.child[Opposite(d)][p] /\ w # nil
  BY <1>1, <1>2, <1>12, PaintedShape DEF Clear
<1>15. RotatedTo(t3, K, r, d, p, w)
  BY <1>2, <1>13, <1>14, RotateIs
<1>16. PICK C : Shape(r, K, C) /\ Clear(r, F)
  BY <1>1, <1>2, <1>14, <1>15, RotateApart
<1>17. PICK b : b = t.child[d][w]
  OBVIOUS
<1>18. b \in Ptr /\ b # w /\ b # p /\ b # f
  <2>1. b \in Ptr /\ b # w /\ b # p
    BY <1>1, <1>2, <1>17
  <2>2. t.child[Opposite(far)][w] # f
    <3>1. Shape(t, K, B) /\ t.child[far][w] \in K /\ w \in K /\ far \in Sides /\ t.child[far][w] = f
      BY <1>1, <1>2, <1>3, <1>4
    <3> QED  BY <3>1, OnOneSide
  <2> QED  BY <1>3, <1>17, <2>1, <2>2, TwoSides
<1>19. \A n \in Ptr : h[n] \in Nat
  BY <1>1 DEF Heights
<1>20. Unit(t, w) = 1 /\ Unit(t, f) = 0 /\ Unit(t3, f) = 1 /\ Unit(t3, p) = 1 /\ Unit(t3, w) = Unit(t, p)
       /\ Unit(t, p) \in Nat
  BY <1>1, <1>2, <1>4, <1>12 DEF Unit
<1>21. h[b] = h[x] /\ h[f] = h[x]
  <2>1. \A s \in Sides : Lack(p, d, w, s) = 0
    BY <1>2 DEF Lack
  <2>2. h[w] = h[b] + 1 + 0 /\ h[w] = h[f] + 1 + 0
    BY <1>1, <1>2, <1>3, <1>17, <1>20, <2>1 DEF HeightFits
  <2> QED  BY <1>1, <1>2, <1>4, <1>18, <1>19, <2>2
<1>22. PICK h1 : h1 = [n \in Ptr |-> IF n = f THEN h[n] + 1 ELSE h[n]]
  OBVIOUS
<1>23. Heights(h1) /\ \A n \in Ptr : h1[n] = IF n = f THEN h[n] + 1 ELSE h[n]
  BY <1>1, <1>4, <1>19, <1>22 DEF Heights
<1>24. \A n \in K, s \in Sides : t.child[s][n] = f => n = w
  BY <1>1, <1>4, Parents
<1>25. ASSUME NEW n \in K \ {p, w} PROVE HeightFits(t3, h1, nil, "left", n)
  <2>1. ASSUME NEW s \in Sides PROVE h1[n] = h1[t.child[s][n]] + Unit(t3, n) + Lack(nil, "left", n, s)
    <3>1. PICK c \in Ptr : c = t.child[s][n]
      BY <1>1
    <3>2. Lack(p, d, n, s) = 0 /\ Lack(nil, "left", n, s) = 0
      BY <1>1, <1>25 DEF Lack
    <3>3. h[n] = h[c] + Unit(t, n) + 0 /\ h[c] \in Nat /\ h[n] \in Nat /\ Unit(t, n) \in Nat
      BY <1>1, <1>19, <3>1, <3>2 DEF HeightFits, Unit
    <3>4. h1[c] = h[c]
      BY <1>23, <1>24, <1>25, <3>1
    <3>5. CASE n = f
      <4>1. Unit(t3, n) = 1 /\ Unit(t, n) = 0 /\ h1[n] = h[n] + 1
        BY <1>1, <1>20, <1>23, <3>5
      <4> QED  BY <3>1, <3>2, <3>3, <3>4, <4>1
    <3>6. CASE n # f
      <4>1. Unit(t3, n) = Unit(t, n) /\ h1[n] = h[n]
        BY <1>1, <1>12, <1>23, <1>25, <3>6 DEF Unit
      <4> QED  BY <3>1, <3>2, <3>3, <3>4, <4>1
    <3> QED  BY <3>5, <3>6
  <2> QED  BY <1>12, <2>1 DEF HeightFits
<1>26. PICK g : Balanced(r, K, g, nil, "left")
  <2>1. PICK hx \in Nat : hx = h[x] + 1
    BY <1>2, <1>19
  <2>2. h1[x] = h[x] /\ h1[b] = h[b] /\ h1[p] = h[p] /\ h1[f] = h[f] + 1 /\ h[x] \in Nat
    BY <1>1, <1>2, <1>4, <1>18, <1>19, <1>23
  <2>3. /\ hx = h1[x] + 1 + 0 /\ hx = h1[b] + 1 + 0 /\ h1[p] = hx + Unit(t, p) + 0
        /\ h1[p] = h1[f] + Unit(t, p) + 0
    BY <1>2, <1>20, <1>21, <2>1, <2>2
  <2>4. t3.child[d][p] = x /\ t3.child[d][w] = b /\ t3.child[far][w] = f
    BY <1>2, <1>3, <1>12, <1>17
  <2>5. /\ Lack(nil, "left", p, d) = 0 /\ Lack(nil, "left", p, far) = 0
        /\ Lack(nil, "left", w, d) = 0 /\ Lack(nil, "left", w, far) = 0
    BY <1>1, <1>2 DEF Lack
  <2>6. /\ hx = h1[t3.child[d][p]] + Unit(t3, p) + Lack(nil, "left", p, d)
        /\ hx = h1[t3.child[d][w]] + Unit(t3, p) + Lack(nil, "left", p, Opposite(d))
        /\ h1[p] = hx + Unit(t3, w) + Lack(nil, "left", w, d)
        /\ h1[p] = h1[t3.child[Opposite(d)][w]] + Unit(t3, w) + Lack(nil, "left", w, Opposite(d))
    BY <1>3, <1>20, <2>3, <2>4, <2>5
  <2>7. HeightsReady(t3, K, h1, nil, "left", d, p, w, hx)
    BY <1>23, <1>25, <2>6 DEF HeightsReady
  <2>8. \E g : Balanced(r, K, g, nil, "left") /\ Reheight(h1, g, p, w, hx)
    BY <1>2, <1>14, <1>15, <2>7, RotateBalance
  <2> QED  BY <2>8
<1>27. \A n \in K : RedFits(r, nil, n)
  <2>1. ASSUME NEW n \in K \ {p, w}, NEW s \in Sides, t3.color[n] = "red", t3.child[s][n] # nil,
               t3.child[s][n] # p
        PROVE  t3.color[t3.child[s][n]] = "black"
    <3>1. /\ t.color[n] = "red" /\ t.child[s][n] # nil /\ t.child[s][n] # p /\ t.child[s][n] \in Ptr
          /\ t.child[s][n] # w
      BY <1>1, <1>2, <1>12, <2>1
    <3>2. t.color[t.child[s][n]] = "black"
      BY <1>2, <3>1 DEF RedFits
    <3> QED  BY <1>12, <3>1, <3>2
  <2>2. ASSUME NEW n \in K, NEW s \in Sides, t3.child[s][n] = p, t3.color[n] = "red"
        PROVE  t3.color[w] = "black"
    <3>1. t.child[s][n] = p /\ n # w /\ n # p /\ n # f /\ t.color[n] = "red" /\ p # nil
      BY <1>1, <1>2, <1>12, <2>2
    <3>2. t.color[p] = "black"
      BY <1>2, <3>1 DEF RedFits
    <3> QED  BY <1>1, <1>2, <1>4, <1>12, <3>2
  <2>3. t3.color[p] = "black" /\ t3.color[f] = "black"
    BY <1>1, <1>2, <1>4, <1>12
  <2>4. \A e \in {p, t3.child[Opposite(d)][w]} : e = nil \/ t3.color[e] = "black"
    BY <1>12, <2>3
  <2>5. RedsReady(t3, K, d, p, w, nil)
    BY <2>1, <2>2, <2>3, <2>4 DEF RedsReady
  <2> QED  BY <1>2, <1>14, <1>15, <2>5, RotateReds
<1>28. r.color = t3.color
  BY <1>15 DEF RotatedTo
<1>29. r.color[nil] = "black"
  BY <1>1, <1>2, <1>4, <1>12, <1>28
<1>30. \A n \in K \ {r.root} : RedFits(r, r.root, n)
  BY <1>27, <1>29 DEF RedFits
<1>31. r.root \in K \cup {nil}
  BY <1>16 DEF Shape, RootFits
<1> QED  BY <1>1, <1>16, <1>26, <1>29, <1>30, <1>31 DEF DeleteAt

\* What a turn of rbtree_delete_fixup has made.
Lifted(q, K, F) == \E B, h, p, d : DeleteAt(q.tree, K, F, B, h, p, d, q.node)

\* The sibling is black.
LEMMA LiftBlackIs ==
    ASSUME NEW t, NEW K, NEW F, NEW B, NEW h, NEW p, NEW d, NEW x, DeleteAt(t, K, F, B, h, p, d, x),
           x # t.root, t.color[x] = "black", t.color[t.child[Opposite(d)][p]] = "black",
           NEW q, q = LiftBlack(t, d, p)
    PROVE  \/ q.node = q.tree.root /\ Lifted(q, K, F)
           \/ /\ q.node = p /\ q.tree.color[p] = t.color[p]
              /\ \E g, o, e : DeleteAt(q.tree, K, F, B, g, o, e, q.node)
<1>1. PICK far, w : far = Opposite(d) /\ w = t.child[far][p]
  OBVIOUS
<1>2. Lacking(t, K, h, p, d, x, w)
  BY <1>1, LackingIs
<1>3. t \in Trees /\ K \subseteq Ptr /\ w \in K /\ p \in K /\ w # p /\ d \in Sides /\ t.color[w] = "black"
  BY <1>1, <1>2, KeysAreNumbers DEF DeleteAt, Shape, Lacking
<1>4. \A s \in Sides : t.child[s][w] \in Ptr
  BY <1>3 DEF Trees, DeleteAt, Shape
<1>5. CASE \A s \in Sides : t.color[t.child[s][w]] = "black"
  <2>1. PICK r : r = SetColor(t, w, "red")
    OBVIOUS
  <2>2. q = [tree |-> r, node |-> p]
    BY <1>1, <1>5, <2>1 DEF LiftBlack
  <2>3. q.tree = r /\ q.node = p
    BY <2>2
  <2>4. \E g, o, e : DeleteAt(r, K, F, B, g, o, e, p)
    BY <1>2, <1>3, <1>5, <2>1, NephewsAreBlack
  <2>5. ColorIs(t, r, w, "red")
    BY <1>3, <2>1, Assignments
  <2>6. r.color[p] = t.color[p]
    BY <1>3, <2>5 DEF ColorIs
  <2> QED  BY <2>3, <2>4, <2>6
<1>6. CASE ~(\A s \in Sides : t.color[t.child[s][w]] = "black")
  <2>1. PICK u, r : u = NephewOut(t, d, w) /\ r = SiblingUp(u, d, p)
    OBVIOUS
  <2>2. q = [tree |-> r, node |-> r.root]
    BY <1>1, <1>6, <2>1 DEF LiftBlack
  <2>3. q.tree = r /\ q.node = r.root
    BY <2>2
  <2>4. ASSUME \E C, g : DeleteAt(r, K, F, C, g, nil, "left", r.root)
        PROVE  q.node = q.tree.root /\ Lifted(q, K, F)
    BY <2>3, <2>4 DEF Lifted
  <2>5. CASE t.color[t.child[far][w]] # "black"
    <3>1. u = t
      BY <1>1, <2>1, <2>5 DEF NephewOut
    <3>2. t.color[t.child[Opposite(d)][w]] = "red"
      BY <1>1, <1>3, <1>4, <2>5, TwoSides DEF Trees
    <3>3. \E C, g : DeleteAt(r, K, F, C, g, nil, "left", r.root)
      BY <1>2, <1>3, <2>1, <3>1, <3>2, NephewIsFar
    <3> QED  BY <2>4, <3>3
  <2>6. CASE t.color[t.child[far][w]] = "black"
    <3>1. PICK v : v = t.child[d][w]
      OBVIOUS
    <3>2. t.color[v] # "black"
      BY <1>1, <1>3, <1>6, <2>6, <3>1, TwoSides
    <3>3. /\ \E C, g : DeleteAt(u, K, F, C, g, p, d, x)
          /\ x # u.root /\ u.color[x] = "black"
          /\ u.child[Opposite(d)][p] = v /\ u.color[v] = "black"
                /\ u.color[u.child[Opposite(d)][v]] = "red"
      <4>1. t.color[t.child[Opposite(d)][w]] = "black" /\ t.color[w] = "black" /\ u = NephewOut(t, d, w)
        BY <1>1, <1>3, <2>1, <2>6
      <4> QED  BY <1>2, <3>1, <3>2, <4>1, NephewIsNear
    <3>4. PICK C, g : DeleteAt(u, K, F, C, g, p, d, x)
      BY <3>3
    <3>5. Lacking(u, K, g, p, d, x, v)
      BY <3>3, <3>4, LackingIs
    <3>6. \E D, e : DeleteAt(r, K, F, D, e, nil, "left", r.root)
      BY <2>1, <3>3, <3>4, <3>5, NephewIsFar
    <3> QED  BY <2>4, <3>6
  <2> QED  BY <2>5, <2>6
<1> QED  BY <1>5, <1>6

\* How far the bounds of a node, or of the sentinel, are from each other.
WidthOf(B, x) == IF x = nil THEN 0 ELSE Width(B, x)

\* Turns are left only as many as there are nodes above.
DeleteSafe(q, K, F, m) ==
    \E B, h, p, d : /\ DeleteAt(q.tree, K, F, B, h, p, d, q.node)
                    /\ \/ q.node = q.tree.root \/ q.tree.color[q.node] # "black"
                       \/ m <= WidthOf(B, q.node)

\* A turn of rbtree_delete_fixup.
LEMMA DeleteTurns ==
    ASSUME NEW q, NEW K, NEW F, NEW m \in Nat, DeleteSafe(q, K, F, m)
    PROVE  DeleteSafe(DeleteTurn(q), K, F, m + 1)
<1>1. PICK t, x : t = q.tree /\ x = q.node
  OBVIOUS
<1>2. PICK B, h, p, d : /\ DeleteAt(t, K, F, B, h, p, d, x)
                        /\ x = t.root \/ t.color[x] # "black" \/ m <= WidthOf(B, x)
  BY <1>1 DEF DeleteSafe
<1>3. CASE x = t.root \/ t.color[x] # "black"
  <2>1. DeleteTurn(q) = q
    BY <1>1, <1>3 DEF DeleteTurn
  <2> QED  BY <1>1, <1>2, <1>3, <2>1 DEF DeleteSafe
<1>4. CASE x # t.root /\ t.color[x] = "black"
  <2>1. PICK w : w = t.child[Opposite(d)][p]
    OBVIOUS
  <2>2. Lacking(t, K, h, p, d, x, w) /\ d = IF x = t.child["left"][p] THEN "left" ELSE "right"
    BY <1>2, <1>4, <2>1, LackingIs
  <2>3. t.parent[x] = p /\ p \in K /\ w \in K /\ d \in Sides /\ t.child[d][p] = x
    BY <2>2 DEF Lacking
  <2>4. PICK u : u = BlackSibling(t, d, p)
    OBVIOUS
  <2>5. PICK v : v = LiftBlack(u, d, p)
    OBVIOUS
  <2>6. DeleteTurn(q) = v
    BY <1>1, <1>4, <2>2, <2>3, <2>4, <2>5 DEF DeleteTurn
  <2>7. ASSUME v.node = v.tree.root, Lifted(v, K, F) PROVE DeleteSafe(v, K, F, m + 1)
    BY <2>7 DEF Lifted, DeleteSafe
  <2>8. CASE t.color[w] = "red"
    <3>1. u = Rotate(SetColor(SetColor(t, w, "black"), p, "red"), d, p)
      BY <2>1, <2>4, <2>8 DEF BlackSibling
    <3>2. /\ \E C, g : DeleteAt(u, K, F, C, g, p, d, x)
          /\ x # u.root /\ u.color[x] = "black" /\ u.color[p] = "red"
          /\ u.color[u.child[Opposite(d)][p]] = "black"
      <4>1. DeleteAt(t, K, F, B, h, p, d, x)
        BY <1>2
      <4>2. SiblingMade(u, K, F, p, d, x)
        BY <2>2, <2>8, <3>1, <4>1, SiblingIsRed
      <4> QED  BY <4>2 DEF SiblingMade
    <3>3. PICK C, g : DeleteAt(u, K, F, C, g, p, d, x)
      BY <3>2
    <3>4. \/ v.node = v.tree.root /\ Lifted(v, K, F)
          \/ /\ v.node = p /\ v.tree.color[p] = u.color[p]
             /\ \E f, o, e : DeleteAt(v.tree, K, F, C, f, o, e, v.node)
      BY <2>5, <3>2, <3>3, LiftBlackIs
    <3>5. ASSUME v.node = p, v.tree.color[p] = u.color[p],
                 \E f, o, e : DeleteAt(v.tree, K, F, C, f, o, e, v.node)
          PROVE  DeleteSafe(v, K, F, m + 1)
      BY <3>2, <3>5 DEF DeleteSafe
    <3> QED  BY <2>6, <2>7, <3>4, <3>5
  <2>9. CASE t.color[w] # "red"
    <3>1. u = t
      BY <2>1, <2>4, <2>9 DEF BlackSibling
    <3>2. /\ Shape(t, K, B) /\ t \in Trees /\ w \in Ptr /\ \A n \in Ptr : t.color[n] \in {"red", "black"}
      BY <1>2, <2>3, KeysAreNumbers DEF DeleteAt, Shape, Trees
    <3>3. t.color[w] = "black"
      BY <2>9, <3>2
    <3>4. \/ v.node = v.tree.root /\ Lifted(v, K, F)
          \/ /\ v.node = p /\ v.tree.color[p] = t.color[p]
             /\ \E f, o, e : DeleteAt(v.tree, K, F, B, f, o, e, v.node)
      BY <1>2, <1>4, <2>1, <2>5, <3>1, <3>3, LiftBlackIs
    <3>5. m + 1 <= WidthOf(B, p)
      <4>1. p # nil /\ Width(B, p) \in Nat /\ 1 < Width(B, p)
        BY <2>3, <3>2, Widths, KeysAreNumbers DEF Shape
      <4>2. CASE x = nil
        BY <1>2, <1>4, <4>1, <4>2 DEF WidthOf
      <4>3. CASE x # nil
        <5>1. Width(B, x) \in Nat /\ Width(B, x) < Width(B, p)
          BY <2>3, <3>2, <4>3, Narrower
        <5> QED  BY <1>2, <1>4, <4>1, <4>3, <5>1 DEF WidthOf
      <4> QED  BY <4>2, <4>3
    <3>6. ASSUME v.node = p, \E f, o, e : DeleteAt(v.tree, K, F, B, f, o, e, v.node)
          PROVE  DeleteSafe(v, K, F, m + 1)
      BY <3>5, <3>6 DEF DeleteSafe
    <3> QED  BY <2>6, <2>7, <3>4, <3>6
  <2> QED  BY <2>8, <2>9
<1> QED  BY <1>3, <1>4

DeleteTurning(f, N, a) == f = [i \in 0 .. N |-> IF i = 0 THEN a ELSE DeleteTurn(f[i - 1])]

\* The turns of rbtree_delete_fixup.
LEMMA DeleteTurningExists ==
    ASSUME NEW N \in Nat, NEW a
    PROVE  \E f : DeleteTurning(f, N, a)
<1> DEFINE S == {m \in 0 .. N : \E f : f = [i \in 0 .. m |-> IF i = 0 THEN a ELSE DeleteTurn(f[i - 1])]}
<1>1. 0 \in S
  <2>1. PICK f : f = [i \in 0 .. 0 |-> a]
    OBVIOUS
  <2>2. f = [i \in 0 .. 0 |-> IF i = 0 THEN a ELSE DeleteTurn(f[i - 1])]
    BY <2>1
  <2> QED  BY <2>2
<1>2. ASSUME NEW m \in S, m < N PROVE m + 1 \in S
  <2>1. PICK f : f = [i \in 0 .. m |-> IF i = 0 THEN a ELSE DeleteTurn(f[i - 1])]
    OBVIOUS
  <2>2. PICK g : g = [i \in 0 .. m + 1 |-> IF i = 0 THEN a ELSE DeleteTurn(f[i - 1])]
    OBVIOUS
  <2>3. \A i \in 0 .. m : g[i] = f[i]
    BY <2>1, <2>2
  <2>4. \A i \in 0 .. m + 1 : i # 0 => i - 1 \in 0 .. m
    OBVIOUS
  <2>5. g = [i \in 0 .. m + 1 |-> IF i = 0 THEN a ELSE DeleteTurn(g[i - 1])]
    BY <2>2, <2>3, <2>4
  <2> QED  BY <1>2, <2>5
<1>3. S = 0 .. N
  <2>1. S \subseteq 0 .. N
    OBVIOUS
  <2> HIDE DEF S
  <2> QED  BY <1>1, <1>2, <2>1, UpTo
<1>4. N \in S
  <2> HIDE DEF S
  <2> QED  BY <1>3
<1> QED  BY <1>4 DEF DeleteTurning

DeleteLoop(turn, t, x) ==
    /\ turn[0] = [tree |-> t, node |-> x]
    /\ \A i \in 0 .. MaxTurns - 1 : turn[i + 1] = DeleteTurn(turn[i])
    /\ DeleteFixup(t, x) = SetColor(turn[MaxTurns].tree, turn[MaxTurns].node, "black")

\* rbtree_delete_fixup, turn by turn.
LEMMA DeleteLoops ==
    ASSUME NEW t, NEW x
    PROVE  \E turn : DeleteLoop(turn, t, x)
<1> DEFINE a == [tree |-> t, node |-> x]
           Step(f) == f = [i \in 0 .. MaxTurns |-> IF i = 0 THEN a ELSE DeleteTurn(f[i - 1])]
           turn == CHOOSE f : Step(f)
<1>0. MaxTurns \in Nat
  BY KeysAreNumbers DEF MaxTurns
<1>1. DeleteFixup(t, x) = SetColor(turn[MaxTurns].tree, turn[MaxTurns].node, "black")
  BY DEF DeleteFixup
<1> HIDE DEF a
<1>2. \E f : Step(f)
  <2>1. PICK f : DeleteTurning(f, MaxTurns, a)
    BY <1>0, DeleteTurningExists
  <2> QED  BY <2>1 DEF DeleteTurning
<1>3. Step(turn)
  <2> HIDE DEF Step
  <2> QED  BY <1>2
<1> HIDE DEF turn
<1>4. turn[0] = a
  BY <1>0, <1>3
<1>5. ASSUME NEW i \in 0 .. MaxTurns - 1 PROVE turn[i + 1] = DeleteTurn(turn[i])
  <2>1. i + 1 \in 0 .. MaxTurns /\ i + 1 # 0 /\ (i + 1) - 1 = i
    BY <1>0
  <2> QED  BY <1>3, <2>1
<1> QED  BY <1>1, <1>4, <1>5 DEF a, DeleteLoop

\* rbtree_delete_fixup makes a red-black tree again.
LEMMA DeleteFixupIs ==
    ASSUME NEW t, NEW K, NEW F, NEW B, NEW h, NEW p, NEW d, NEW x, DeleteAt(t, K, F, B, h, p, d, x)
    PROVE  \E C, f : Sound(DeleteFixup(t, x), K, C, f) /\ Clear(DeleteFixup(t, x), F)
<1>1. PICK turn : DeleteLoop(turn, t, x)
  BY DeleteLoops
<1>2. MaxTurns \in Nat /\ MaxTurns = MaxKey + 2 /\ MaxKey \in Nat
  BY KeysAreNumbers DEF MaxTurns
<1> DEFINE S == {i \in 0 .. MaxTurns : DeleteSafe(turn[i], K, F, i)}
<1>3. 0 \in S
  <2>1. turn[0].tree = t /\ turn[0].node = x
    BY <1>1 DEF DeleteLoop
  <2>2. 0 <= WidthOf(B, x)
    BY Widths DEF DeleteAt, WidthOf
  <2>3. DeleteSafe(turn[0], K, F, 0)
    BY <2>1, <2>2 DEF DeleteSafe
  <2> QED  BY <1>2, <2>3
<1>4. ASSUME NEW i \in S, i < MaxTurns PROVE i + 1 \in S
  <2>1. i \in Nat /\ i \in 0 .. MaxTurns - 1 /\ i + 1 \in 0 .. MaxTurns
    BY <1>2, <1>4
  <2>2. turn[i + 1] = DeleteTurn(turn[i])
    BY <1>1, <2>1 DEF DeleteLoop
  <2>3. DeleteSafe(turn[i + 1], K, F, i + 1)
    BY <2>1, <2>2, DeleteTurns
  <2> QED  BY <2>1, <2>3
<1>5. S = 0 .. MaxTurns
  <2>1. S \subseteq 0 .. MaxTurns
    OBVIOUS
  <2> HIDE DEF S
  <2> QED  BY <1>2, <1>3, <1>4, <2>1, UpTo
<1>6. MaxTurns \in S
  <2> HIDE DEF S
  <2> QED  BY <1>2, <1>5
<1>7. PICK v, y : v = turn[MaxTurns].tree /\ y = turn[MaxTurns].node
  OBVIOUS
<1>8. PICK C, f, o, e : /\ DeleteAt(v, K, F, C, f, o, e, y)
                        /\ y = v.root \/ v.color[y] # "black" \/ MaxTurns <= WidthOf(C, y)
  BY <1>6, <1>7 DEF DeleteSafe
<1>9. /\ Shape(v, K, C) /\ v \in Trees /\ K \subseteq Ptr /\ nil \in Ptr /\ nil \notin K /\ Clear(v, F)
      /\ Balanced(v, K, f, o, e) /\ v.color[nil] = "black" /\ y \in K \cup {nil}
      /\ (\A n \in K \ {y} : RedFits(v, y, n))
      /\ v.color[v.root] = "black" \/ v.root = y
      /\ \/ o = nil /\ y = v.root
         \/ o \in K /\ e \in Sides /\ v.child[e][o] = y /\ v.parent[y] = o
  BY <1>8, KeysAreNumbers DEF DeleteAt, Shape
<1>10. y = v.root \/ v.color[y] # "black"
  <2>1. y # nil => Width(C, y) \in Nat /\ Width(C, y) <= MaxKey + 1
    BY <1>9, Widths
  <2> QED  BY <1>2, <1>8, <2>1 DEF WidthOf
<1>11. \/ o = nil /\ y = v.root
       \/ o \in K /\ e \in Sides /\ v.child[e][o] = y /\ v.color[y] = "red"
  <2>1. SUFFICES ASSUME o \in K, e \in Sides, v.child[e][o] = y PROVE v.color[y] = "red"
    BY <1>9
  <2>2. y # v.root
    <3>1. ASSUME y = v.root PROVE FALSE
      <4>1. y \in K /\ y = v.root /\ v.parent[y] = nil
        BY <1>9, <2>1, <3>1 DEF Shape, RootFits
      <4>2. o = v.parent[y]
        BY <1>9, <2>1, <4>1, Parents
      <4> QED  BY <1>9, <2>1, <4>1, <4>2
    <3> QED  BY <3>1
  <2> QED  BY <1>9, <1>10, <2>2 DEF Trees
<1>12. PICK r : r = SetColor(v, y, "black")
  OBVIOUS
<1>13. (\E g : Sound(r, K, C, g)) /\ r.child = v.child
  BY <1>9, <1>11, <1>12, Blacken
<1>14. Clear(r, F)
  BY <1>9, <1>13 DEF Clear
<1>15. r = DeleteFixup(t, x)
  BY <1>1, <1>7, <1>12 DEF DeleteLoop
<1> QED  BY <1>13, <1>14, <1>15

\* y, which has no child but x, on the side o, is taken out of the tree: x takes its place.
OnlyChild(t, y, x, o) == o \in Sides /\ t.child[o][y] = x /\ t.child[Opposite(o)][y] = nil

Spliced(t, K, r, y, x) ==
    /\ r \in Trees /\ r.color = t.color
    /\ r.root = IF y = t.root THEN x ELSE t.root
    /\ \A s \in Sides, n \in K : r.child[s][n] = IF t.child[s][n] = y THEN x ELSE t.child[s][n]
    /\ \A s \in Sides, n \in Keys \ K : r.child[s][n] = t.child[s][n]
    /\ \A n \in Ptr : r.parent[n] = IF n = x THEN t.parent[y] ELSE t.parent[n]

\* What rbtree_delete writes when it takes y out is this.
LEMMA SpliceIs ==
    ASSUME NEW t, NEW K, NEW B, Shape(t, K, B), NEW y \in K, NEW x, NEW o, OnlyChild(t, y, x, o),
           NEW r, r = Replace(SetParent(t, x, t.parent[y]), y, x)
    PROVE  Spliced(t, K, r, y, x)
<1>1. /\ t \in Trees /\ K \subseteq Keys /\ y \in Keys /\ y # nil /\ y \in Ptr /\ nil \notin K
            /\ Keys \subseteq Ptr
      /\ \A s \in Sides, n \in Keys : t.child[s][n] \in Ptr
  BY KeysAreNumbers DEF Shape, Trees
<1>2. x \in Ptr /\ x # y
  <2>1. t.child[o][y] \in Ptr /\ t.child[o][y] # y
    BY <1>1, Parents DEF OnlyChild
  <2> QED  BY <2>1 DEF OnlyChild
<1>3. PICK p \in Ptr : p = t.parent[y]
  BY <1>1 DEF Trees
<1>4. PICK t0 : t0 = SetParent(t, x, p)
  OBVIOUS
<1>5. ParentIs(t, t0, x, p)
  BY <1>1, <1>2, <1>3, <1>4, Assignments
<1>6. /\ t0 \in Trees /\ t0.root = t.root /\ t0.child = t.child /\ t0.color = t.color /\ t0.parent[y] = p
      /\ \A n \in Ptr : t0.parent[n] = IF n = x THEN p ELSE t.parent[n]
  BY <1>1, <1>2, <1>3, <1>5 DEF ParentIs
<1>7. IF p = nil THEN Rooted(t0, r, x)
      ELSE ChildIs(t0, r, IF y = t0.child["left"][p] THEN "left" ELSE "right", p, x)
  BY <1>1, <1>2, <1>3, <1>4, <1>6, ReplaceIs
<1>8. p = nil <=> y = t.root
  BY <1>1, <1>3, Parents
<1>9. p # nil => p \in K
  BY <1>3, <1>8, Parents
<1>10. /\ r \in Trees /\ r.color = t.color
       /\ r.root = IF y = t.root THEN x ELSE t.root
       /\ \A n \in Ptr : r.parent[n] = IF n = x THEN p ELSE t.parent[n]
  BY <1>6, <1>7, <1>8 DEF Rooted, ChildIs
<1>11. ASSUME NEW s \in Sides, NEW n \in Keys
       PROVE  /\ n \in K => r.child[s][n] = IF t.child[s][n] = y THEN x ELSE t.child[s][n]
              /\ n \notin K => r.child[s][n] = t.child[s][n]
  <2>1. CASE p = nil
    <3>1. r.child[s][n] = t.child[s][n]
      BY <1>6, <1>7, <2>1 DEF Rooted
    <3>2. n \in K => t.child[s][n] # y
      <4>1. ASSUME n \in K, t.child[s][n] = y PROVE FALSE
        <5>1. n = t.parent[y]
          BY <4>1, Parents
        <5> QED  BY <1>1, <1>3, <2>1, <4>1, <5>1
      <4> QED  BY <4>1
    <3> QED  BY <3>1, <3>2
  <2>2. CASE p # nil
    <3>1. PICK q : q = IF y = t.child["left"][p] THEN "left" ELSE "right"
      OBVIOUS
    <3>2. ChildIs(t0, r, q, p, x)
      BY <1>6, <1>7, <2>2, <3>1
    <3>3. r.child[s][n] = IF s = q /\ n = p THEN x ELSE t.child[s][n]
      BY <1>6, <3>2 DEF ChildIs
    <3>4. PICK v \in Sides : t.child[v][p] = y
      BY <1>3, <1>8, <2>2, Parents
    <3>5. t.child[Opposite(v)][p] # y
      BY <1>9, <2>2, <3>4, Parents
    <3>6. q = v
      BY <3>1, <3>4, <3>5, TwoSides
    <3>7. ASSUME n \in K PROVE t.child[s][n] = y <=> (s = q /\ n = p)
      <4>1. t.child[s][n] = y => n = p
        BY <1>3, <3>7, Parents
      <4>2. t.child[s][p] = y => s = q
        BY <3>5, <3>6, TwoSides
      <4> QED  BY <3>4, <3>6, <4>1, <4>2
    <3> QED  BY <1>9, <2>2, <3>3, <3>7
  <2> QED  BY <2>1, <2>2
<1> QED  BY <1>1, <1>3, <1>10, <1>11 DEF Spliced

\* y is a bound no longer; the other bounds stay.
OtherBounds(B, C, K, y) == \A q \in Sides, n \in K \ {y} : B[q][n] # y => C[q][n] = B[q][n]

\* The nodes between the bounds that y was one of now have those of y.
LEMMA SpliceShape ==
    ASSUME NEW t, NEW K, NEW B, Shape(t, K, B), NEW y \in K, NEW x, NEW o, OnlyChild(t, y, x, o),
           NEW r, Spliced(t, K, r, y, x)
    PROVE  \E C : Shape(r, K \ {y}, C) /\ OtherBounds(B, C, K, y)
<1> DEFINE J == K \ {y}
<1>1. /\ t \in Trees /\ K \subseteq Keys /\ y \in Keys /\ y # nil /\ y \in Nat /\ nil \notin K
            /\ Keys \subseteq Ptr
      /\ y # 0 /\ y # MaxKey + 1
      /\ \A n \in K : n \in Ptr /\ n \in Nat /\ n # nil
  BY KeysAreNumbers DEF Shape, nil
<1>2. /\ B \in [Sides -> [K -> 0 .. MaxKey + 1]]
      /\ \A n \in K : B["left"][n] \in Nat /\ B["right"][n] \in Nat /\ B["left"][n] < n
            /\ n < B["right"][n]
  BY TwoSides DEF Shape, Bounded
<1>3. \A q \in Sides, n \in K : B[q][n] # n
  BY <1>1, <1>2, TwoSides
<1>4. PICK C : C = [q \in Sides |-> [n \in K |-> IF B[q][n] = y THEN B[q][y] ELSE B[q][n]]]
  OBVIOUS
<1>5. \A q \in Sides, n \in K : C[q][n] = IF B[q][n] = y THEN B[q][y] ELSE B[q][n]
  BY <1>4
<1>6. PICK D : D = [q \in Sides |-> [n \in J |-> C[q][n]]]
  OBVIOUS
<1>7. \A q \in Sides, n \in J : D[q][n] = C[q][n] /\ n \in K
  BY <1>6
<1>8. D \in [Sides -> [J -> 0 .. MaxKey + 1]]
  <2>1. \A q \in Sides, n \in J : C[q][n] \in 0 .. MaxKey + 1
    BY <1>2, <1>5
  <2> QED  BY <1>6, <2>1
<1>9. OnlyChild(t, y, x, o) /\ o \in Sides /\ Opposite(o) \in Sides /\ Opposite(o) # o
      /\ t.child[o][y] = x /\ t.child[Opposite(o)][y] = nil /\ Opposite(Opposite(o)) = o
      /\ \A q \in Sides : q = o \/ q = Opposite(o)
  BY TwoSides DEF OnlyChild
<1>10. x # nil => /\ x \in K /\ x \in J /\ t.parent[x] = y /\ B[o][x] = B[o][y] /\ B[Opposite(o)][x] = y
  <2>1. SUFFICES ASSUME x # nil
                 PROVE  /\ x \in K /\ x \in J /\ t.parent[x] = y /\ B[o][x] = B[o][y]
                      /\ B[Opposite(o)][x] = y
    OBVIOUS
  <2>2. x \in K /\ t.parent[x] = y /\ B[o][x] = B[o][y] /\ B[Opposite(o)][x] = y
    BY <1>9, <2>1 DEF Shape, ChildFits
  <2>3. x # y
    BY <1>9, <2>1, Narrower
  <2> QED  BY <2>2, <2>3
<1>11. x # nil => \A q \in Sides : D[q][x] = B[q][y]
  BY <1>3, <1>5, <1>7, <1>9, <1>10
<1>12. /\ r \in Trees /\ r.root = IF y = t.root THEN x ELSE t.root
       /\ \A s \in Sides, n \in J : r.child[s][n] = IF t.child[s][n] = y THEN x ELSE t.child[s][n]
       /\ \A n \in J : r.parent[n] = IF n = x THEN t.parent[y] ELSE t.parent[n]
  BY <1>1 DEF Spliced
<1>13. Bounded(J, D)
  <2>1. ASSUME NEW n \in J PROVE D["left"][n] < n /\ n < D["right"][n]
    <3>1. /\ D["left"][n] = IF B["left"][n] = y THEN B["left"][y] ELSE B["left"][n]
          /\ D["right"][n] = IF B["right"][n] = y THEN B["right"][y] ELSE B["right"][n]
      BY <1>5, <1>7, <2>1, TwoSides
    <3>2. /\ B["left"][n] \in Nat /\ B["right"][n] \in Nat /\ B["left"][n] < n /\ n < B["right"][n]
          /\ B["left"][y] \in Nat /\ B["right"][y] \in Nat /\ B["left"][y] < y /\ y < B["right"][y]
          /\ n \in Nat /\ y \in Nat
      BY <1>1, <1>2
    <3> QED  BY <3>1, <3>2
  <2> QED  BY <1>8, <2>1 DEF Bounded
<1>14. t.root \in K /\ t.parent[t.root] = nil /\ B["left"][t.root] = 0 /\ B["right"][t.root] = MaxKey + 1
  BY DEF Shape, RootFits
<1>15. RootFits(r, J, D)
  <2>1. CASE y = t.root
    <3>1. CASE x = nil
      <4>1. DescOrNone(t, t.child["left"][y]) = {} /\ DescOrNone(t, t.child["right"][y]) = {}
        BY <1>9, <3>1, TwoSides DEF DescOrNone
      <4>2. Desc(t, y) = {y}
        BY <1>1, <4>1, DescOf
      <4>3. K = {y}
        BY <1>1, <2>1, <4>2, BelowRoot
      <4> QED  BY <1>12, <2>1, <3>1, <4>3 DEF RootFits
    <3>2. CASE x # nil
      <4>1. r.root = x /\ x \in J /\ r.parent[x] = nil
        BY <1>10, <1>12, <1>14, <2>1, <3>2
      <4>2. D["left"][x] = 0 /\ D["right"][x] = MaxKey + 1
        BY <1>11, <1>14, <2>1, <3>2, TwoSides
      <4> QED  BY <3>2, <4>1, <4>2 DEF RootFits
    <3> QED  BY <3>1, <3>2
  <2>2. CASE y # t.root
    <3>1. r.root = t.root /\ t.root \in J /\ t.root # nil
      BY <1>1, <1>12, <1>14, <2>2
    <3>2. t.root # x
      BY <1>1, <1>10, <1>14
    <3>3. r.parent[t.root] = nil
      BY <1>12, <1>14, <3>1, <3>2
    <3>4. D["left"][t.root] = 0 /\ D["right"][t.root] = MaxKey + 1
      <4>1. B["left"][t.root] # y /\ B["right"][t.root] # y
        BY <1>1, <1>14
      <4> QED  BY <1>5, <1>7, <1>14, <3>1, <4>1, TwoSides
    <3> QED  BY <3>1, <3>3, <3>4 DEF RootFits
  <2> QED  BY <2>1, <2>2
<1>16. ASSUME NEW n \in J, NEW s \in Sides PROVE ChildFits(r, J, D, n, s)
  <2>0. Opposite(s) \in Sides /\ n \in K /\ n # y
    BY <1>16, TwoSides
  <2>1. CASE t.child[s][n] = y
    <3>1. B[s][y] = B[s][n] /\ B[Opposite(s)][y] = n /\ t.parent[y] = n
      BY <1>1, <2>0, <2>1 DEF Shape, ChildFits
    <3>2. D[s][n] = B[s][n]
      BY <1>3, <1>5, <1>7, <2>0, <3>1
    <3>3. x # nil => D[s][x] = D[s][n] /\ D[Opposite(s)][x] = n /\ r.parent[x] = n /\ x \in J
      BY <1>10, <1>11, <1>12, <2>0, <3>1, <3>2
    <3>4. r.child[s][n] = x
      BY <1>12, <2>1
    <3> QED  BY <3>3, <3>4 DEF ChildFits
  <2>2. CASE t.child[s][n] # y
    <3>1. PICK c : c = t.child[s][n]
      OBVIOUS
    <3>2. r.child[s][n] = c
      BY <1>12, <2>2, <3>1
    <3>3. SUFFICES ASSUME c # nil
                   PROVE  c \in J /\ r.parent[c] = n /\ D[s][c] = D[s][n] /\ D[Opposite(s)][c] = n
      BY <3>2 DEF ChildFits
    <3>4. c \in J /\ t.parent[c] = n /\ B[s][c] = B[s][n] /\ B[Opposite(s)][c] = n
      BY <2>0, <2>2, <3>1, <3>3 DEF Shape, ChildFits
    <3>5. c # x
      BY <1>10, <2>0, <3>3, <3>4
    <3>6. r.parent[c] = n
      BY <1>12, <3>4, <3>5
    <3>7. D[s][c] = D[s][n] /\ D[Opposite(s)][c] = n
      BY <1>5, <1>7, <2>0, <3>4
    <3> QED  BY <3>4, <3>6, <3>7
  <2> QED  BY <2>1, <2>2
<1>17. ASSUME NEW n \in J, n # r.root
       PROVE  r.parent[n] \in J /\ \E s \in Sides : r.child[s][r.parent[n]] = n
  <2>1. CASE n = x
    <3>1. y # t.root /\ r.parent[n] = t.parent[y]
      BY <1>12, <1>17, <2>1
    <3>2. PICK p \in K, s \in Sides : p = t.parent[y] /\ t.child[s][p] = y
      BY <3>1, Parents
    <3>3. p # y
      BY <3>2, Parents
    <3>4. r.child[s][p] = x /\ p \in J
      BY <1>12, <3>2, <3>3
    <3> QED  BY <2>1, <3>1, <3>2, <3>4
  <2>2. CASE n # x
    <3>1. r.parent[n] = t.parent[n] /\ n # t.root /\ n \in K /\ n # nil
      BY <1>1, <1>12, <1>17, <2>2
    <3>2. PICK p \in K, s \in Sides : p = t.parent[n] /\ t.child[s][p] = n
      BY <3>1, Parents
    <3>3. p # y
      BY <1>9, <2>2, <3>1, <3>2
    <3>4. p \in J /\ r.child[s][p] = n
      BY <1>12, <1>17, <3>2, <3>3
    <3> QED  BY <3>1, <3>2, <3>4
  <2> QED  BY <2>1, <2>2
<1>18. Shape(r, J, D)
  <2>1. J \subseteq Keys
    BY <1>1
  <2> HIDE DEF J
  <2> QED  BY <1>12, <1>13, <1>15, <1>16, <1>17, <2>1 DEF Shape
<1>19. \A q \in Sides, n \in K \ {y} : B[q][n] # y => D[q][n] = B[q][n]
  BY <1>5, <1>7
<1>20. Shape(r, K \ {y}, D) /\ OtherBounds(B, D, K, y)
  BY <1>18, <1>19 DEF OtherBounds
<1> QED  BY <1>20

\* y was black: a black node is missing above x.
LEMMA SpliceBlack ==
    ASSUME NEW t, NEW K, NEW B, NEW h, RedBlack(t, K, B, h), NEW y \in K, NEW x, NEW o,
           OnlyChild(t, y, x, o), NEW r, Spliced(t, K, r, y, x), NEW C, Shape(r, K \ {y}, C),
           t.color[y] = "black"
    PROVE  \E p, d : DeleteAt(r, K \ {y}, Keys \ K, C, h, p, d, x)
<1>1. /\ Shape(t, K, B) /\ Clear(t, Keys \ K) /\ K \subseteq Ptr /\ K \subseteq Keys /\ nil \notin K
            /\ t \in Trees
      /\ Heights(h) /\ (\A n \in K : HeightFits(t, h, nil, "left", n))
      /\ t.color[nil] = "black" /\ t.color[t.root] = "black" /\ (\A n \in K : RedFits(t, nil, n))
      /\ \A s \in Sides, n \in K : t.child[s][n] \in Ptr
  BY KeysAreNumbers DEF RedBlack, Whole, Shape, Balanced, Trees
<1>2. /\ r.color = t.color /\ r.root = IF y = t.root THEN x ELSE t.root
      /\ \A s \in Sides, n \in K : r.child[s][n] = IF t.child[s][n] = y THEN x ELSE t.child[s][n]
      /\ \A s \in Sides, n \in Keys \ K : r.child[s][n] = t.child[s][n]
      /\ \A n \in Ptr : r.parent[n] = IF n = x THEN t.parent[y] ELSE t.parent[n]
  BY DEF Spliced
<1>3. Clear(r, Keys \ K)
  BY <1>1, <1>2 DEF Clear
<1>4. o \in Sides /\ t.child[o][y] = x
  BY DEF OnlyChild
<1>5. x \in (K \ {y}) \cup {nil} /\ x \in Ptr
  <2>1. x # nil => x \in K /\ x # y
    BY <1>1, <1>4, Narrower
  <2> QED  BY <1>1, <1>4, <2>1
<1>6. h[x] \in Nat /\ h[y] = h[x] + 1
  <2>1. Unit(t, y) = 1 /\ Lack(nil, "left", y, o) = 0
    BY <1>1 DEF Unit, Lack
  <2>2. h[y] = h[x] + 1 + 0
    BY <1>1, <1>4, <2>1 DEF HeightFits
  <2>3. h[x] \in Nat
    BY <1>5, <1>1 DEF Heights
  <2> QED  BY <2>2, <2>3
<1>7. PICK p, d : /\ \/ p = nil /\ y = t.root
                     \/ p \in K \ {y} /\ d \in Sides /\ t.child[d][p] = y /\ t.parent[y] = p
                  /\ \A n \in K, s \in Sides : t.child[s][n] = y <=> n = p /\ s = d
  <2>1. CASE y = t.root
    <3>1. \A n \in K, s \in Sides : t.child[s][n] # y
      BY <1>1, <2>1, Parents
    <3> QED  BY <1>1, <2>1, <3>1
  <2>2. CASE y # t.root
    <3>1. PICK q \in K, e \in Sides : q = t.parent[y] /\ t.child[e][q] = y
      BY <1>1, <2>2, Parents
    <3>2. ASSUME NEW n \in K, NEW s \in Sides, t.child[s][n] = y PROVE n = q /\ s = e
      <4>1. n = q /\ t.child[Opposite(s)][n] # y
        BY <1>1, <3>1, <3>2, Parents
      <4> QED  BY <3>1, <4>1, TwoSides
    <3>3. q # y
      BY <1>1, <3>1, Parents
    <3> QED  BY <3>1, <3>2, <3>3
  <2> QED  BY <2>1, <2>2
<1>8. ASSUME NEW n \in K \ {y}, NEW s \in Sides
      PROVE h[n] = h[r.child[s][n]] + Unit(r, n) + Lack(p, d, n, s)
  <2>1. Unit(r, n) = Unit(t, n) /\ Unit(t, n) \in Nat /\ Lack(nil, "left", n, s) = 0
    BY <1>1, <1>2 DEF Unit, Lack
  <2>2. h[n] = h[t.child[s][n]] + Unit(t, n) + 0
    BY <1>1, <2>1 DEF HeightFits
  <2>3. CASE t.child[s][n] = y
    <3>1. r.child[s][n] = x /\ Lack(p, d, n, s) = 1
      BY <1>2, <1>7, <2>3 DEF Lack
    <3> QED  BY <1>6, <2>1, <2>2, <2>3, <3>1
  <2>4. CASE t.child[s][n] # y
    <3>1. r.child[s][n] = t.child[s][n] /\ Lack(p, d, n, s) = 0
      BY <1>2, <1>7, <2>4 DEF Lack
    <3> QED  BY <2>1, <2>2, <3>1
  <2> QED  BY <2>3, <2>4
<1>9. Balanced(r, K \ {y}, h, p, d)
  BY <1>1, <1>8 DEF Balanced, HeightFits
<1>10. ASSUME NEW n \in (K \ {y}) \ {x} PROVE RedFits(r, x, n)
  BY <1>1, <1>2 DEF RedFits
<1>11. r.color[r.root] = "black" \/ r.root = x
  BY <1>1, <1>2
<1>12. \/ p = nil /\ x = r.root
       \/ p \in K \ {y} /\ d \in Sides /\ r.child[d][p] = x /\ r.parent[x] = p
  BY <1>2, <1>5, <1>7
<1>13. Keys \ K \subseteq Keys \ (K \ {y}) /\ r.color[nil] = "black"
  BY <1>1, <1>2
<1> QED  BY <1>3, <1>5, <1>9, <1>10, <1>11, <1>12, <1>13 DEF DeleteAt

\* y was red: nothing is missing.
LEMMA SpliceRed ==
    ASSUME NEW t, NEW K, NEW B, NEW h, RedBlack(t, K, B, h), NEW y \in K, NEW x, NEW o,
           OnlyChild(t, y, x, o), NEW r, Spliced(t, K, r, y, x), NEW C, Shape(r, K \ {y}, C),
           t.color[y] # "black"
    PROVE  Sound(r, K \ {y}, C, h) /\ Clear(r, Keys \ K)
<1>1. /\ Shape(t, K, B) /\ Clear(t, Keys \ K) /\ K \subseteq Ptr /\ K \subseteq Keys /\ nil \notin K
            /\ t \in Trees
      /\ Heights(h) /\ (\A n \in K : HeightFits(t, h, nil, "left", n))
      /\ t.color[nil] = "black" /\ t.color[t.root] = "black" /\ (\A n \in K : RedFits(t, nil, n))
      /\ \A s \in Sides, n \in K : t.child[s][n] \in Ptr
  BY KeysAreNumbers DEF RedBlack, Whole, Shape, Balanced, Trees
<1>2. /\ r.color = t.color /\ r.root = t.root
      /\ \A s \in Sides, n \in K : r.child[s][n] = IF t.child[s][n] = y THEN x ELSE t.child[s][n]
      /\ \A s \in Sides, n \in Keys \ K : r.child[s][n] = t.child[s][n]
  BY <1>1 DEF Spliced
<1>3. Clear(r, Keys \ K)
  BY <1>1, <1>2 DEF Clear
<1>4. o \in Sides /\ t.child[o][y] = x /\ x \in Ptr
  BY <1>1 DEF OnlyChild
<1>5. h[x] \in Nat /\ h[y] = h[x]
  <2>1. Unit(t, y) = 0 /\ Lack(nil, "left", y, o) = 0
    BY <1>1 DEF Unit, Lack
  <2>2. h[y] = h[x] + 0 + 0
    BY <1>1, <1>4, <2>1 DEF HeightFits
  <2>3. h[x] \in Nat
    BY <1>1, <1>4 DEF Heights
  <2> QED  BY <2>2, <2>3
<1>6. ASSUME NEW n \in K \ {y}, NEW s \in Sides
      PROVE h[n] = h[r.child[s][n]] + Unit(r, n) + Lack(nil, "left", n, s)
  <2>1. Unit(r, n) = Unit(t, n)
    BY <1>1, <1>2 DEF Unit
  <2>2. h[n] = h[t.child[s][n]] + Unit(t, n) + Lack(nil, "left", n, s)
    BY <1>1 DEF HeightFits
  <2>3. h[r.child[s][n]] = h[t.child[s][n]]
    BY <1>2, <1>5
  <2> QED  BY <2>1, <2>2, <2>3
<1>7. Balanced(r, K \ {y}, h, nil, "left")
  BY <1>1, <1>6 DEF Balanced, HeightFits
<1>8. ASSUME NEW n \in K \ {y} PROVE RedFits(r, nil, n)
  <2>1. SUFFICES ASSUME t.color[n] = "red", NEW s \in Sides, r.child[s][n] # nil
                 PROVE  t.color[r.child[s][n]] = "black"
    BY <1>2 DEF RedFits
  <2>2. t.child[s][n] = nil \/ t.color[t.child[s][n]] = "black"
    BY <1>1, <2>1 DEF RedFits
  <2>3. t.child[s][n] # y
    BY <1>1, <2>2
  <2> QED  BY <1>2, <2>1, <2>2, <2>3
<1> QED  BY <1>1, <1>2, <1>3, <1>7, <1>8 DEF Sound

\* The node z gets the key y, so it is y now.
NewKey(z, y, n) == IF n = z THEN y ELSE n
OldKey(z, y, n) == IF n = y THEN z ELSE n

Renamed(t, r, z, y) ==
    /\ r \in Trees /\ r.root = NewKey(z, y, t.root)
    /\ \A s \in Sides, n \in Keys : r.child[s][n] = NewKey(z, y, t.child[s][OldKey(z, y, n)])
    /\ \A n \in Ptr : r.parent[n] = NewKey(z, y, t.parent[OldKey(z, y, n)])
    /\ \A n \in Ptr : r.color[n] = t.color[OldKey(z, y, n)]

\* What moving the key of y to z writes is this.
LEMMA TakeKeyIs ==
    ASSUME NEW t \in Trees, NEW z \in Keys, NEW y \in Keys
    PROVE  Renamed(t, TakeKey(t, z, y), z, y)
<1>1. PICK f : f = [s \in Sides |-> [n \in Keys |-> NewKey(z, y, t.child[s][OldKey(z, y, n)])]]
  OBVIOUS
<1>2. PICK g : g = [n \in Keys \cup {nil} |-> NewKey(z, y, t.parent[OldKey(z, y, n)])]
  OBVIOUS
<1>3. PICK c : c = [n \in Keys \cup {nil} |-> t.color[OldKey(z, y, n)]]
  OBVIOUS
<1>4. PICK r : r = [root |-> NewKey(z, y, t.root), child |-> f, parent |-> g, color |-> c]
  OBVIOUS
<1>5. r = TakeKey(t, z, y)
  BY <1>1, <1>2, <1>3, <1>4 DEF TakeKey, NewKey, OldKey
<1>6. /\ \A n \in Keys : OldKey(z, y, n) \in Keys
      /\ \A n \in Ptr : OldKey(z, y, n) \in Ptr /\ NewKey(z, y, n) \in Ptr
  BY KeysAreNumbers DEF NewKey, OldKey
<1>7. f \in [Sides -> [Keys -> Ptr]] /\ g \in [Ptr -> Ptr] /\ c \in [Ptr -> {"red", "black"}]
  <2>1. \A s \in Sides, n \in Keys : t.child[s][n] \in Ptr
    BY DEF Trees
  <2>2. \A n \in Ptr : t.parent[n] \in Ptr /\ t.color[n] \in {"red", "black"}
    BY DEF Trees
  <2>3. \A s \in Sides, n \in Keys : NewKey(z, y, t.child[s][OldKey(z, y, n)]) \in Ptr
    BY <1>6, <2>1
  <2>4. f \in [Sides -> [Keys -> Ptr]]
    BY <1>1, <2>3
  <2>5. g \in [Ptr -> Ptr]
    BY <1>2, <1>6, <2>2 DEF Ptr
  <2>6. c \in [Ptr -> {"red", "black"}]
    BY <1>3, <1>6, <2>2 DEF Ptr
  <2> QED  BY <2>4, <2>5, <2>6
<1>8. r \in Trees
  <2>1. NewKey(z, y, t.root) \in Ptr
    BY <1>6 DEF Trees
  <2> QED  BY <1>4, <1>7, <2>1 DEF Trees
<1>9. r.root = NewKey(z, y, t.root) /\ r.child = f /\ r.parent = g /\ r.color = c
  BY <1>4
<1>10. \A s \in Sides, n \in Keys : f[s][n] = NewKey(z, y, t.child[s][OldKey(z, y, n)])
  BY <1>1
<1>11. \A n \in Ptr : g[n] = NewKey(z, y, t.parent[OldKey(z, y, n)]) /\ c[n] = t.color[OldKey(z, y, n)]
  BY <1>2, <1>3 DEF Ptr
<1> QED  BY <1>5, <1>8, <1>9, <1>10, <1>11 DEF Renamed

\* The keys with y for z.
Swapped(J, z, y) == (J \ {z}) \cup {y}

OneToOne(J, z, y) ==
    /\ Swapped(J, z, y) \subseteq Keys
    /\ \A n \in Swapped(J, z, y) : OldKey(z, y, n) \in J /\ NewKey(z, y, OldKey(z, y, n)) = n
    /\ \A n \in J : NewKey(z, y, n) \in Swapped(J, z, y)
    /\ \A n \in J \cup {nil} : OldKey(z, y, NewKey(z, y, n)) = n /\ (NewKey(z, y, n) = nil <=> n = nil)
    /\ \A m \in J \cup {nil}, n \in J \cup {nil} : NewKey(z, y, m) = NewKey(z, y, n) => m = n
    /\ NewKey(z, y, nil) = nil /\ OldKey(z, y, nil) = nil

\* The renaming is one to one.
LEMMA SwapIs ==
    ASSUME NEW J, J \subseteq Keys, NEW z \in J, NEW y \in Keys \ J
    PROVE  OneToOne(J, z, y)
BY KeysAreNumbers DEF NewKey, OldKey, Swapped, OneToOne

\* The shape stays: y is the next key after z.
LEMMA RenameShape ==
    ASSUME NEW t, NEW J, NEW C, Shape(t, J, C), NEW z \in J, NEW y \in Keys \ J, z < y, y < C["right"][z],
           \A k \in J : ~(z < k /\ k < y), NEW r, Renamed(t, r, z, y)
    PROVE  \E D : Shape(r, Swapped(J, z, y), D)
<1> DEFINE I == Swapped(J, z, y)
           Named(n) == NewKey(z, y, n)
           Old(n) == OldKey(z, y, n)
<1>1. /\ t \in Trees /\ J \subseteq Keys /\ r \in Trees /\ z \in Keys /\ Keys \subseteq Ptr
      /\ \A n \in Keys : n \in Nat /\ n # nil /\ n # 0 /\ n # MaxKey + 1 /\ n \in 0 .. MaxKey + 1
  BY KeysAreNumbers DEF Shape, Renamed
<1>2. /\ I \subseteq Keys
      /\ \A n \in I : Old(n) \in J /\ Named(Old(n)) = n
      /\ \A n \in J : Named(n) \in I
      /\ \A n \in J \cup {nil} : Old(Named(n)) = n /\ (Named(n) = nil <=> n = nil)
      /\ Named(nil) = nil
  <2>1. OneToOne(J, z, y)
    BY <1>1, SwapIs
  <2> QED  BY <2>1 DEF OneToOne
<1>3. /\ r.root = Named(t.root)
      /\ \A s \in Sides, n \in I : r.child[s][n] = Named(t.child[s][Old(n)])
      /\ \A n \in I : r.parent[n] = Named(t.parent[Old(n)])
  BY <1>1, <1>2 DEF Renamed
<1>4. /\ C \in [Sides -> [J -> 0 .. MaxKey + 1]]
      /\ \A n \in J : C["left"][n] \in Nat /\ C["right"][n] \in Nat /\ C["left"][n] < n
            /\ n < C["right"][n]
  BY TwoSides DEF Shape, Bounded
<1>5. PICK D : D = [s \in Sides |-> [n \in I |-> Named(C[s][Old(n)])]]
  OBVIOUS
<1>6. \A s \in Sides, n \in I : D[s][n] = Named(C[s][Old(n)])
  BY <1>5
<1>7. Bounded(I, D)
  <2>1. \A s \in Sides, n \in I : Named(C[s][Old(n)]) \in 0 .. MaxKey + 1
    <3>1. \A m \in 0 .. MaxKey + 1 : Named(m) \in 0 .. MaxKey + 1
      BY <1>1 DEF NewKey
    <3> QED  BY <1>2, <1>4, <3>1
  <2>2. D \in [Sides -> [I -> 0 .. MaxKey + 1]]
    <3> HIDE DEF Named, Old
    <3> QED  BY <1>5, <2>1
  <2>3. ASSUME NEW n \in I PROVE D["left"][n] < n /\ n < D["right"][n]
    <3>1. PICK m \in J : m = Old(n)
      BY <1>2
    <3>2. PICK a, b : a = C["left"][m] /\ b = C["right"][m]
      OBVIOUS
    <3>3. D["left"][n] = Named(a) /\ D["right"][n] = Named(b) /\ n = Named(m)
      BY <1>2, <1>6, <3>1, <3>2, TwoSides
    <3>4. /\ a \in Nat /\ b \in Nat /\ a < m /\ m < b /\ m \in Nat /\ z \in Nat /\ y \in Nat
          /\ m # y /\ ~(z < m /\ m < y) /\ z < y /\ (m = z => y < b)
      BY <1>1, <1>4, <3>1, <3>2
    <3>5. CASE m = z
      <4>1. Named(m) = y /\ Named(a) = a /\ Named(b) = b
        BY <3>4, <3>5 DEF NewKey
      <4> QED  BY <3>3, <3>4, <3>5, <4>1
    <3>6. CASE m # z
      <4>1. Named(m) = m /\ Named(a) = (IF a = z THEN y ELSE a) /\ Named(b) = (IF b = z THEN y ELSE b)
        BY <3>6 DEF NewKey
      <4> QED  BY <3>3, <3>4, <3>6, <4>1
    <3> QED  BY <3>5, <3>6
  <2> QED  BY <2>2, <2>3 DEF Bounded
<1>8. t.root \in J /\ t.parent[t.root] = nil /\ C["left"][t.root] = 0 /\ C["right"][t.root] = MaxKey + 1
  BY DEF Shape, RootFits
<1>9. Named(0) = 0 /\ Named(MaxKey + 1) = MaxKey + 1
  BY <1>1 DEF NewKey
<1> HIDE DEF I, Named, Old
<1>10. RootFits(r, I, D)
  <2>1. r.root \in I /\ r.root # nil /\ Old(r.root) = t.root
    BY <1>1, <1>2, <1>3, <1>8
  <2>2. r.parent[r.root] = nil
    BY <1>2, <1>3, <1>8, <2>1
  <2>3. D["left"][r.root] = 0 /\ D["right"][r.root] = MaxKey + 1
    BY <1>6, <1>8, <1>9, <2>1, TwoSides
  <2> QED  BY <2>1, <2>2, <2>3 DEF RootFits
<1>11. ASSUME NEW n \in I, NEW s \in Sides PROVE ChildFits(r, I, D, n, s)
  <2>1. PICK m \in J : m = Old(n) /\ n = Named(m)
    BY <1>2
  <2>2. PICK e : e = t.child[s][m]
    OBVIOUS
  <2>3. r.child[s][n] = Named(e) /\ Opposite(s) \in Sides
    <3>1. r.child[s][n] = Named(e)
      BY <1>3, <2>1, <2>2
    <3> QED  BY <3>1, TwoSides
  <2>4. CASE e = nil
    BY <1>2, <2>3, <2>4 DEF ChildFits
  <2>5. CASE e # nil
    <3>1. e \in J /\ t.parent[e] = m /\ C[s][e] = C[s][m] /\ C[Opposite(s)][e] = m
      BY <2>2, <2>5 DEF Shape, ChildFits
    <3>2. Named(e) \in I /\ Old(Named(e)) = e
      BY <1>2, <3>1
    <3>3. r.parent[Named(e)] = n
      BY <1>3, <2>1, <3>1, <3>2
    <3>4. D[s][Named(e)] = D[s][n] /\ D[Opposite(s)][Named(e)] = n
      BY <1>6, <2>1, <2>3, <3>1, <3>2
    <3> QED  BY <2>3, <3>2, <3>3, <3>4 DEF ChildFits
  <2> QED  BY <2>4, <2>5
<1>12. ASSUME NEW n \in I, n # r.root
       PROVE  r.parent[n] \in I /\ \E s \in Sides : r.child[s][r.parent[n]] = n
  <2>1. PICK m \in J : m = Old(n) /\ n = Named(m)
    BY <1>2
  <2>2. m # t.root
    BY <1>3, <1>12, <2>1
  <2>3. PICK p \in J, s \in Sides : p = t.parent[m] /\ t.child[s][p] = m
    BY <2>2, Parents
  <2>4. r.parent[n] = Named(p) /\ Named(p) \in I /\ Old(Named(p)) = p
    BY <1>2, <1>3, <2>1, <2>3
  <2>5. r.child[s][Named(p)] = n
    BY <1>3, <2>1, <2>3, <2>4
  <2> QED  BY <2>4, <2>5
<1>13. Shape(r, I, D)
  BY <1>1, <1>2, <1>7, <1>10, <1>11, <1>12 DEF Shape
<1> QED  BY <1>13 DEF I

\* So do the heights.
LEMMA RenameBalance ==
    ASSUME NEW t, NEW J, NEW C, Shape(t, J, C), NEW z \in J, NEW y \in Keys \ J,
           NEW r, Renamed(t, r, z, y), NEW h, NEW p \in J \cup {nil}, NEW d, Balanced(t, J, h, p, d)
    PROVE  \E g : Balanced(r, Swapped(J, z, y), g, NewKey(z, y, p), d)
<1> DEFINE I == Swapped(J, z, y)
           Named(n) == NewKey(z, y, n)
           Old(n) == OldKey(z, y, n)
<1>1. t \in Trees /\ J \subseteq Keys /\ z \in Keys /\ Keys \subseteq Ptr /\ nil \in Ptr /\ nil \notin J
  BY KeysAreNumbers DEF Shape
<1>2. /\ I \subseteq Keys
      /\ \A n \in I : Old(n) \in J /\ Named(Old(n)) = n
      /\ \A n \in J \cup {nil} : Old(Named(n)) = n
      /\ \A m \in J \cup {nil}, n \in J \cup {nil} : Named(m) = Named(n) => m = n
      /\ Old(nil) = nil
  <2>1. OneToOne(J, z, y)
    BY <1>1, SwapIs
  <2> QED  BY <2>1 DEF OneToOne
<1>3. /\ \A s \in Sides, n \in I : r.child[s][n] = Named(t.child[s][Old(n)])
      /\ \A n \in I : r.color[n] = t.color[Old(n)]
  BY <1>1, <1>2 DEF Renamed
<1>4. \A n \in Ptr : Old(n) \in Ptr /\ Named(n) \in Ptr
  BY <1>1 DEF OldKey, NewKey
<1>5. /\ \A n \in Ptr : h[n] \in Nat
      /\ h[nil] = 0
      /\ \A s \in Sides, n \in J : h[n] = h[t.child[s][n]] + Unit(t, n) + Lack(p, d, n, s)
  BY DEF Balanced, Heights, HeightFits
<1>6. \A s \in Sides, n \in J : t.child[s][n] \in J \cup {nil}
  BY DEF Shape, ChildFits
<1> HIDE DEF I, Named, Old
<1>7. PICK g : g = [n \in Ptr |-> h[Old(n)]]
  OBVIOUS
<1>8. Heights(g) /\ \A n \in Ptr : g[n] = h[Old(n)]
  BY <1>1, <1>2, <1>4, <1>5, <1>7 DEF Heights
<1>9. ASSUME NEW n \in I, NEW s \in Sides
      PROVE  g[n] = g[r.child[s][n]] + Unit(r, n) + Lack(Named(p), d, n, s)
  <2>1. PICK m \in J : m = Old(n) /\ n = Named(m)
    BY <1>2
  <2>2. PICK e \in J \cup {nil} : e = t.child[s][m]
    BY <1>6
  <2>3. r.child[s][n] = Named(e) /\ e \in Ptr /\ Named(e) \in Ptr /\ Old(Named(e)) = e /\ n \in Ptr
    <3>1. r.child[s][n] = Named(e)
      BY <1>3, <2>1, <2>2
    <3>2. e \in Ptr /\ n \in Ptr
      BY <1>1, <1>2, <2>2
    <3>3. Old(Named(e)) = e
      BY <1>2, <2>2
    <3> QED  BY <1>4, <3>1, <3>2, <3>3
  <2>4. g[n] = h[m] /\ g[Named(e)] = h[e]
    BY <1>8, <2>1, <2>3
  <2>5. Unit(r, n) = Unit(t, m)
    BY <1>3, <2>1 DEF Unit
  <2>6. Lack(Named(p), d, n, s) = Lack(p, d, m, s)
    <3>1. n = Named(p) <=> m = p
      BY <1>2, <2>1
    <3> QED  BY <3>1 DEF Lack
  <2> QED  BY <1>5, <2>2, <2>3, <2>4, <2>5, <2>6
<1>10. Balanced(r, I, g, Named(p), d)
  BY <1>8, <1>9 DEF Balanced, HeightFits
<1> QED  BY <1>10 DEF I, Named

\* And the colors.
RedsFit(t, K, e) == \A n \in K \ {e} : RedFits(t, e, n)

\* The red nodes keep black children.
LEMMA RenameReds ==
    ASSUME NEW t, NEW J, NEW C, Shape(t, J, C), NEW z \in J, NEW y \in Keys \ J,
           NEW r, Renamed(t, r, z, y), NEW e \in J \cup {nil}, RedsFit(t, J, e)
    PROVE  RedsFit(r, Swapped(J, z, y), NewKey(z, y, e))
<1> DEFINE I == Swapped(J, z, y)
           Named(n) == NewKey(z, y, n)
           Old(n) == OldKey(z, y, n)
<1>1. t \in Trees /\ J \subseteq Keys /\ z \in Keys /\ Keys \subseteq Ptr /\ nil \in Ptr /\ nil \notin J
  BY KeysAreNumbers DEF Shape
<1>2. /\ I \subseteq Keys
      /\ \A n \in I : Old(n) \in J /\ Named(Old(n)) = n
      /\ \A n \in J \cup {nil} : Old(Named(n)) = n
  <2>1. OneToOne(J, z, y)
    BY <1>1, SwapIs
  <2> QED  BY <2>1 DEF OneToOne
<1>3. \A n \in Ptr : Named(n) \in Ptr
  BY <1>1 DEF NewKey
<1>4. /\ \A s \in Sides, n \in I : r.child[s][n] = Named(t.child[s][Old(n)])
      /\ \A n \in Ptr : r.color[n] = t.color[Old(n)]
  BY <1>1, <1>2 DEF Renamed
<1>5. \A s \in Sides, n \in J : t.child[s][n] \in J \cup {nil}
  BY DEF Shape, ChildFits
<1> HIDE DEF I, Named, Old
<1>6. ASSUME NEW n \in I \ {Named(e)} PROVE RedFits(r, Named(e), n)
  <2>1. SUFFICES ASSUME r.color[n] = "red", NEW s \in Sides, r.child[s][n] # Named(e)
                 PROVE  r.color[r.child[s][n]] = "black"
    BY DEF RedFits
  <2>2. PICK m \in J : m = Old(n) /\ n = Named(m)
    BY <1>2
  <2>3. PICK c \in J \cup {nil} : c = t.child[s][m]
    BY <1>5
  <2>4. r.child[s][n] = Named(c) /\ c # e /\ m # e
    BY <1>4, <1>6, <2>1, <2>2, <2>3
  <2>5. t.color[m] = "red"
    BY <1>1, <1>2, <1>4, <2>1, <2>2
  <2>6. t.color[c] = "black"
    BY <2>3, <2>4, <2>5 DEF RedsFit, RedFits
  <2>7. Named(c) \in Ptr /\ Old(Named(c)) = c
    BY <1>1, <1>2, <1>3, <2>3
  <2> QED  BY <1>4, <2>4, <2>6, <2>7
<1>7. RedsFit(r, I, Named(e))
  BY <1>6 DEF RedsFit
<1> QED  BY <1>7 DEF I, Named

\* The renaming in the middle of a deletion.
LEMMA RenameDelete ==
    ASSUME NEW t, NEW J, NEW F, NEW C, NEW h, NEW p, NEW d, NEW x, DeleteAt(t, J, F, C, h, p, d, x),
           NEW z \in J, NEW y \in Keys \ J, x # z, y \notin F, NEW r, Renamed(t, r, z, y),
           NEW D, Shape(r, Swapped(J, z, y), D)
    PROVE  \E g, q : DeleteAt(r, Swapped(J, z, y), F \ {z}, D, g, q, d, x)
<1> DEFINE I == Swapped(J, z, y)
           Named(n) == NewKey(z, y, n)
           Old(n) == OldKey(z, y, n)
<1>1. /\ Shape(t, J, C) /\ Clear(t, F) /\ F \subseteq Keys \ J
      /\ Balanced(t, J, h, p, d) /\ t.color[nil] = "black" /\ x \in J \cup {nil}
      /\ (\A n \in J \ {x} : RedFits(t, x, n))
      /\ t.color[t.root] = "black" \/ t.root = x
      /\ \/ p = nil /\ x = t.root
         \/ p \in J /\ d \in Sides /\ t.child[d][p] = x /\ t.parent[x] = p
      /\ J \subseteq Keys /\ Keys \subseteq Ptr /\ nil \in Ptr
  BY KeysAreNumbers DEF DeleteAt, Shape
<1>2. /\ I \subseteq Keys /\ (\A n \in J : Named(n) \in I)
      /\ (\A n \in J \cup {nil} : Old(Named(n)) = n)
      /\ Named(nil) = nil /\ Old(nil) = nil
  <2>1. OneToOne(J, z, y)
    BY <1>1, SwapIs
  <2> QED  BY <2>1 DEF OneToOne
<1>3. /\ r \in Trees /\ r.root = Named(t.root)
      /\ \A s \in Sides, n \in Keys : r.child[s][n] = Named(t.child[s][Old(n)])
      /\ \A n \in Ptr : r.parent[n] = Named(t.parent[Old(n)])
      /\ \A n \in Ptr : r.color[n] = t.color[Old(n)]
  BY DEF Renamed
<1>4. x # y /\ Named(x) = x /\ Old(x) = x /\ x \in I \cup {nil} /\ x \in Ptr
  <2>1. x # y
    BY <1>1, KeysAreNumbers
  <2> QED  BY <1>1, <1>2, <2>1 DEF NewKey, OldKey
<1>5. \A n \in F : Old(n) = n
  BY DEF OldKey
<1>6. F \ {z} \subseteq Keys \ I
  BY <1>1 DEF Swapped
<1>7. p \in J \cup {nil} /\ RedsFit(t, J, x)
  BY <1>1 DEF RedsFit
<1>8. PICK g : Balanced(r, I, g, Named(p), d)
  BY <1>1, <1>7, RenameBalance
<1>9. RedsFit(r, I, Named(x))
  BY <1>1, <1>7, RenameReds
<1>10. t.root \in J \cup {nil} /\ Named(t.root) \in Ptr
  BY <1>1, <1>2 DEF Shape, RootFits
<1> HIDE DEF I, Named, Old
<1>11. Clear(r, F \ {z})
  BY <1>1, <1>2, <1>3, <1>5 DEF Clear
<1>12. r.color[nil] = "black" /\ (r.color[r.root] = "black" \/ r.root = x)
  BY <1>1, <1>2, <1>3, <1>4, <1>10
<1>13. \A n \in I \ {x} : RedFits(r, x, n)
  BY <1>4, <1>9 DEF RedsFit
<1>14. \/ Named(p) = nil /\ x = r.root
       \/ Named(p) \in I /\ d \in Sides /\ r.child[d][Named(p)] = x /\ r.parent[x] = Named(p)
  <2>1. CASE p = nil /\ x = t.root
    BY <1>2, <1>3, <1>4, <2>1
  <2>2. CASE p \in J /\ d \in Sides /\ t.child[d][p] = x /\ t.parent[x] = p
    BY <1>2, <1>3, <1>4, <2>2
  <2> QED  BY <1>1, <2>1, <2>2
<1>15. Shape(r, I, D)
  BY DEF I
<1>16. DeleteAt(r, I, F \ {z}, D, g, Named(p), d, x)
  BY <1>4, <1>6, <1>8, <1>11, <1>12, <1>13, <1>14, <1>15 DEF DeleteAt
<1> QED  BY <1>16 DEF I

\* And when nothing is missing.
LEMMA RenameSound ==
    ASSUME NEW t, NEW J, NEW F, NEW C, NEW h, Sound(t, J, C, h), Clear(t, F), F \subseteq Keys \ J,
           NEW z \in J, NEW y \in Keys \ J, y \notin F, NEW r, Renamed(t, r, z, y),
           NEW D, Shape(r, Swapped(J, z, y), D)
    PROVE  \E g : Sound(r, Swapped(J, z, y), D, g) /\ Clear(r, F)
<1> DEFINE I == Swapped(J, z, y)
           Named(n) == NewKey(z, y, n)
           Old(n) == OldKey(z, y, n)
<1>1. /\ Shape(t, J, C) /\ Balanced(t, J, h, nil, "left") /\ t.color[nil] = "black"
      /\ t.color[t.root] = "black" /\ (\A n \in J : RedFits(t, nil, n))
      /\ J \subseteq Keys /\ Keys \subseteq Ptr /\ nil \in Ptr
  BY KeysAreNumbers DEF Sound, Shape
<1>2. /\ I \subseteq Keys /\ (\A n \in J : Named(n) \in I)
      /\ (\A n \in J \cup {nil} : Old(Named(n)) = n)
      /\ Named(nil) = nil /\ Old(nil) = nil
  <2>1. OneToOne(J, z, y)
    BY <1>1, SwapIs
  <2> QED  BY <2>1 DEF OneToOne
<1>3. /\ r \in Trees /\ r.root = Named(t.root)
      /\ \A s \in Sides, n \in Keys : r.child[s][n] = Named(t.child[s][Old(n)])
      /\ \A n \in Ptr : r.color[n] = t.color[Old(n)]
  BY DEF Renamed
<1>4. \A n \in F : Old(n) = n
  BY DEF OldKey
<1>5. RedsFit(t, J, nil)
  BY <1>1 DEF RedsFit
<1>6. PICK g : Balanced(r, I, g, Named(nil), "left")
  BY <1>1, RenameBalance
<1>7. RedsFit(r, I, Named(nil))
  BY <1>1, <1>5, RenameReds
<1>8. t.root \in J \cup {nil} /\ Named(t.root) \in Ptr
  BY <1>1, <1>2 DEF Shape, RootFits
<1> HIDE DEF I, Named, Old
<1>9. Clear(r, F)
  BY <1>1, <1>2, <1>3, <1>4 DEF Clear
<1>10. r.color[nil] = "black" /\ r.color[r.root] = "black"
  BY <1>1, <1>2, <1>3, <1>8
<1>11. \A n \in I : RedFits(r, nil, n)
  <2>1. nil \notin I
    BY <1>2, KeysAreNumbers
  <2> QED  BY <1>2, <1>7, <2>1 DEF RedsFit
<1>12. Shape(r, I, D)
  BY DEF I
<1>13. Sound(r, I, D, g)
  BY <1>2, <1>6, <1>10, <1>11, <1>12 DEF Sound
<1> QED  BY <1>9, <1>13 DEF I

\* The memory of the deleted node has no contents.
LEMMA ClearedIs ==
    ASSUME NEW t, NEW I, NEW C, NEW h, Sound(t, I, C, h), NEW z \in Keys \ I, NEW F, Clear(t, F),
           Keys \ I \subseteq F \cup {z}
    PROVE  RedBlack(Cleared(t, z), I, C, h)
<1>1. /\ Shape(t, I, C) /\ t \in Trees /\ I \subseteq Ptr /\ z \in Ptr /\ nil \in Ptr /\ nil # z
            /\ nil \notin I
      /\ Heights(h) /\ (\A n \in I : HeightFits(t, h, nil, "left", n))
      /\ t.color[nil] = "black" /\ t.color[t.root] = "black" /\ (\A n \in I : RedFits(t, nil, n))
      /\ I \subseteq Keys
  BY KeysAreNumbers DEF Sound, Shape, Balanced
<1>2. PICK t1, t2, t3, r : /\ t1 = SetChild(t, "left", z, nil) /\ t2 = SetChild(t1, "right", z, nil)
                           /\ t3 = SetParent(t2, z, nil) /\ r = SetColor(t3, z, "black")
  OBVIOUS
<1>3. r = Cleared(t, z)
  BY <1>2 DEF Cleared
<1>4. ChildIs(t, t1, "left", z, nil)
  BY <1>1, <1>2, Assignments, TwoSides
<1>5. t1 \in Trees
  BY <1>4 DEF ChildIs
<1>6. ChildIs(t1, t2, "right", z, nil)
  BY <1>1, <1>2, <1>5, Assignments, TwoSides
<1>7. t2 \in Trees
  BY <1>6 DEF ChildIs
<1>8. ParentIs(t2, t3, z, nil)
  BY <1>1, <1>2, <1>7, Assignments
<1>9. t3 \in Trees
  BY <1>8 DEF ParentIs
<1>10. ColorIs(t3, r, z, "black")
  BY <1>1, <1>2, <1>9, Assignments
<1>11. /\ r \in Trees /\ r.root = t.root
       /\ \A n \in Ptr : n # z => r.parent[n] = t.parent[n] /\ r.color[n] = t.color[n]
       /\ \A s \in Sides, n \in Keys : r.child[s][n] = IF n = z THEN nil ELSE t.child[s][n]
  <2>1. r \in Trees /\ r.root = t.root
    BY <1>4, <1>6, <1>8, <1>10 DEF ChildIs, ParentIs, ColorIs
  <2>2. \A n \in Ptr : n # z => r.parent[n] = t.parent[n] /\ r.color[n] = t.color[n]
    BY <1>4, <1>6, <1>8, <1>10 DEF ChildIs, ParentIs, ColorIs
  <2>3. r.child = t2.child
    BY <1>8, <1>10 DEF ParentIs, ColorIs
  <2>4. \A s \in Sides, n \in Keys : t2.child[s][n] = IF n = z THEN nil ELSE t.child[s][n]
    BY <1>4, <1>6, TwoSides DEF ChildIs
  <2> QED  BY <2>1, <2>2, <2>3, <2>4
<1>12. \A s \in Sides, n \in I : r.child[s][n] = t.child[s][n] /\ t.child[s][n] \in Ptr
            /\ t.child[s][n] # z
  <2>1. \A s \in Sides, n \in I : t.child[s][n] \in I \cup {nil}
    BY <1>1 DEF Shape, ChildFits
  <2> QED  BY <1>1, <1>11, <2>1
<1>13. \A n \in I : n # z /\ r.parent[n] = t.parent[n] /\ r.color[n] = t.color[n]
  BY <1>1, <1>11
<1>14. Shape(r, I, C)
  <2>1. RootFits(r, I, C)
    BY <1>1, <1>11, <1>13 DEF Shape, RootFits
  <2>2. ASSUME NEW n \in I, NEW s \in Sides PROVE ChildFits(r, I, C, n, s)
    <3>1. ChildFits(t, I, C, n, s)
      BY <1>1 DEF Shape
    <3> QED  BY <1>12, <1>13, <3>1 DEF ChildFits
  <2>3. ASSUME NEW n \in I, n # r.root
        PROVE  r.parent[n] \in I /\ \E s \in Sides : r.child[s][r.parent[n]] = n
    <3>1. PICK q \in I, s \in Sides : q = t.parent[n] /\ t.child[s][q] = n
      BY <1>1, <1>11, <2>3, Parents
    <3> QED  BY <1>12, <1>13, <3>1
  <2> QED  BY <1>1, <1>11, <2>1, <2>2, <2>3 DEF Shape
<1>15. Clear(r, Keys \ I)
  BY <1>11 DEF Clear
<1>16. Balanced(r, I, h, nil, "left")
  <2>1. \A n \in I : Unit(r, n) = Unit(t, n)
    BY <1>13 DEF Unit
  <2> QED  BY <1>1, <1>12, <2>1 DEF Balanced, HeightFits
<1>17. \A n \in I : RedFits(r, nil, n)
  BY <1>1, <1>11, <1>12, <1>13 DEF RedFits
<1>18. r.color[nil] = "black" /\ r.color[r.root] = "black"
  <2>1. t.root \in I \cup {nil}
    BY <1>1 DEF Shape, RootFits
  <2> QED  BY <1>1, <1>11, <2>1
<1>19. RedBlack(r, I, C, h)
  BY <1>14, <1>15, <1>16, <1>17, <1>18 DEF RedBlack, Whole
<1> QED  BY <1>3, <1>19

\* rbtree_delete before the fixup: the parts of its definition.
LEMMA DeleteSteps ==
    ASSUME NEW t, NEW z, NEW y, y = Victim(t, z),
           NEW x, x = IF t.child["left"][y] # nil THEN t.child["left"][y] ELSE t.child["right"][y],
           NEW t1, t1 = Replace(SetParent(t, x, t.parent[y]), y, x),
           NEW t2, t2 = IF y = z THEN t1 ELSE TakeKey(t1, z, y)
    PROVE  DeleteKey(t, z) = IF t.color[y] = "black" THEN DeleteFixup(t2, x) ELSE t2
BY DEF DeleteKey

\* rbtree_delete
LEMMA DeleteKeyIs ==
    ASSUME NEW t, NEW K, NEW B, NEW h, RedBlack(t, K, B, h), NEW z \in K
    PROVE  \E C, f : RedBlack(Cleared(DeleteKey(t, z), z), K \ {z}, C, f)
<1>1. Whole(t, K, B) /\ Shape(t, K, B) /\ t \in Trees /\ K \subseteq Keys /\ z \in Keys
  BY DEF RedBlack, Whole, Shape
<1>2. PICK y : y = Victim(t, z)
  OBVIOUS
<1>3. PICK x : x = IF t.child["left"][y] # nil THEN t.child["left"][y] ELSE t.child["right"][y]
  OBVIOUS
<1>4. PICK t1 : t1 = Replace(SetParent(t, x, t.parent[y]), y, x)
  OBVIOUS
<1>5. PICK t2 : t2 = IF y = z THEN t1 ELSE TakeKey(t1, z, y)
  OBVIOUS
<1>6. DeleteKey(t, z) = IF t.color[y] = "black" THEN DeleteFixup(t2, x) ELSE t2
  BY <1>2, <1>3, <1>4, <1>5, DeleteSteps
<1>7. /\ y \in K /\ \E s \in Sides : t.child[s][y] = nil
      /\ y # z => /\ z < y /\ y < B["right"][z] /\ t.child["left"][y] = nil
                  /\ \A k \in K : ~(z < k /\ k < y)
  BY <1>1, <1>2, VictimIs
<1>8. PICK o : OnlyChild(t, y, x, o)
  <2>1. CASE t.child["left"][y] # nil
    <3>1. OnlyChild(t, y, x, "left")
      BY <1>3, <1>7, <2>1, TwoSides DEF OnlyChild
    <3> QED  BY <3>1
  <2>2. CASE t.child["left"][y] = nil
    <3>1. OnlyChild(t, y, x, "right")
      BY <1>3, <2>2, TwoSides DEF OnlyChild
    <3> QED  BY <3>1
  <2> QED  BY <2>1, <2>2
<1>9. Spliced(t, K, t1, y, x)
  BY <1>1, <1>4, <1>7, <1>8, SpliceIs
<1>10. PICK C : Shape(t1, K \ {y}, C) /\ OtherBounds(B, C, K, y)
  BY <1>1, <1>7, <1>8, <1>9, SpliceShape
<1>11. ASSUME NEW D, NEW f, Sound(DeleteKey(t, z), K \ {z}, D, f), Clear(DeleteKey(t, z), Keys \ K)
       PROVE  \E E, e : RedBlack(Cleared(DeleteKey(t, z), z), K \ {z}, E, e)
  <2>1. z \in Keys \ (K \ {z}) /\ Keys \ (K \ {z}) \subseteq (Keys \ K) \cup {z}
    BY <1>1
  <2>2. RedBlack(Cleared(DeleteKey(t, z), z), K \ {z}, D, f)
    BY <1>11, <2>1, ClearedIs
  <2> QED  BY <2>2
<1>12. CASE y = z
  <2>1. CASE t.color[y] = "black"
    <3>1. PICK p, d : DeleteAt(t1, K \ {z}, Keys \ K, C, h, p, d, x)
      BY <1>7, <1>8, <1>9, <1>10, <1>12, <2>1, SpliceBlack
    <3>2. PICK D, f : Sound(DeleteFixup(t1, x), K \ {z}, D, f) /\ Clear(DeleteFixup(t1, x), Keys \ K)
      BY <3>1, DeleteFixupIs
    <3> QED  BY <1>5, <1>6, <1>11, <1>12, <2>1, <3>2
  <2>2. CASE t.color[y] # "black"
    <3>1. Sound(t1, K \ {z}, C, h) /\ Clear(t1, Keys \ K)
      BY <1>7, <1>8, <1>9, <1>10, <1>12, <2>2, SpliceRed
    <3> QED  BY <1>5, <1>6, <1>11, <1>12, <2>2, <3>1
  <2> QED  BY <2>1, <2>2
<1>13. CASE y # z
  <2>1. z \in K \ {y} /\ y \in Keys \ (K \ {y}) /\ y \notin Keys \ K /\ K \ {y} \subseteq Keys
    BY <1>1, <1>7, <1>13
  <2>2. Swapped(K \ {y}, z, y) = K \ {z}
    BY <1>7, <1>13 DEF Swapped
  <2>3. y < C["right"][z]
    <3>1. B["right"][z] # y /\ y \in Nat
      <4>1. y \in Nat /\ B["right"][z] \in 0 .. MaxKey + 1
        BY <1>1, <1>7, KeysAreNumbers, TwoSides DEF Shape, Bounded
      <4> QED  BY <1>7, <1>13, <4>1
    <3>2. C["right"][z] = B["right"][z]
      BY <1>10, <2>1, <3>1, TwoSides DEF OtherBounds
    <3> QED  BY <1>7, <1>13, <3>2
  <2>4. t2 = TakeKey(t1, z, y) /\ t1 \in Trees
    BY <1>5, <1>13, <1>9 DEF Spliced
  <2>5. Renamed(t1, t2, z, y)
    BY <2>1, <2>4, TakeKeyIs, <1>1
  <2>6. PICK D : Shape(t2, K \ {z}, D)
    <3>1. z < y /\ \A k \in K \ {y} : ~(z < k /\ k < y)
      BY <1>7, <1>13
    <3>2. \E D : Shape(t2, Swapped(K \ {y}, z, y), D)
      BY <1>10, <2>1, <2>3, <2>5, <3>1, RenameShape
    <3> QED  BY <2>2, <3>2
  <2>7. x # z
    <3>1. x = t.child["right"][y]
      BY <1>3, <1>7, <1>13
    <3>2. x # nil => x > y /\ x \in K
      BY <1>1, <1>7, <3>1, Narrower, TwoSides
    <3>3. z # nil /\ z \in Nat /\ y \in Nat /\ (x \in K => x \in Nat)
      BY <1>1, <1>7, KeysAreNumbers
    <3> QED  BY <1>7, <1>13, <3>2, <3>3
  <2>8. (Keys \ K) \ {z} = Keys \ K /\ Keys \ K \subseteq Keys \ (K \ {y})
    BY <1>1
  <2>9. CASE t.color[y] = "black"
    <3>1. PICK p, d : DeleteAt(t1, K \ {y}, Keys \ K, C, h, p, d, x)
      BY <1>7, <1>8, <1>9, <1>10, <2>9, SpliceBlack
    <3>2. PICK g, q : DeleteAt(t2, K \ {z}, Keys \ K, D, g, q, d, x)
      <4>1. \E g, q : DeleteAt(t2, Swapped(K \ {y}, z, y), (Keys \ K) \ {z}, D, g, q, d, x)
        BY <2>1, <2>2, <2>5, <2>6, <2>7, <3>1, RenameDelete
      <4> QED  BY <2>2, <2>8, <4>1
    <3>3. PICK E, f : Sound(DeleteFixup(t2, x), K \ {z}, E, f) /\ Clear(DeleteFixup(t2, x), Keys \ K)
      BY <3>2, DeleteFixupIs
    <3> QED  BY <1>6, <1>11, <2>9, <3>3
  <2>10. CASE t.color[y] # "black"
    <3>1. Sound(t1, K \ {y}, C, h) /\ Clear(t1, Keys \ K)
      BY <1>7, <1>8, <1>9, <1>10, <2>10, SpliceRed
    <3>2. \E g : Sound(t2, Swapped(K \ {y}, z, y), D, g) /\ Clear(t2, Keys \ K)
      BY <2>1, <2>2, <2>5, <2>6, <2>8, <3>1, RenameSound
    <3> QED  BY <1>6, <1>11, <2>2, <2>10, <3>2
  <2> QED  BY <2>9, <2>10
<1> QED  BY <1>12, <1>13

\* rbtree_search finds the keys of the tree, and only those.
LEMMA SearchIs ==
    ASSUME NEW t, NEW K, NEW B, Whole(t, K, B), NEW k \in Keys
    PROVE  SearchKey(t, k) <=> k \in K
<1>1. Shape(t, K, B)
  BY DEF Whole
<1>2. CASE t.root = nil
  BY <1>1, <1>2 DEF SearchKey, Shape, RootFits
<1>3. CASE t.root # nil
  <2>1. t.root \in K /\ B["left"][t.root] = 0 /\ B["right"][t.root] = MaxKey + 1
    BY <1>1, <1>3 DEF Shape, RootFits
  <2>2. 0 < k /\ k < MaxKey + 1
    BY KeysAreNumbers
  <2>3. PICK e : e = Descend(t, t.root, k)
    OBVIOUS
  <2>4. e \in K /\ (e = k \/ k \notin K)
    BY <2>1, <2>2, <2>3, DescendFinds
  <2> QED  BY <1>3, <2>3, <2>4 DEF SearchKey
<1> QED  BY <1>2, <1>3

\* Subtree is what is below a node.
LEMMA SubtreeIs ==
    ASSUME NEW K, NEW B, Whole(tree, K, B), NEW n \in K \cup {nil}
    PROVE  Subtree(n) = DescOrNone(tree, n)
<1> DEFINE Step(f) == f = [m \in Keys \cup {nil} |->
                            IF m = nil THEN {}
                            ELSE {m} \cup f[tree.child["left"][m]] \cup f[tree.child["right"][m]]]
           subtree == CHOOSE f : Step(f)
<1>1. Subtree(n) = subtree[n]
  BY DEF Subtree
<1>2. /\ Shape(tree, K, B) /\ tree \in Trees /\ K \subseteq Keys /\ nil \notin Keys
      /\ \A s \in Sides, m \in Keys : tree.child[s][m] \in Keys \cup {nil}
  BY KeysAreNumbers DEF Whole, Shape, Trees, Ptr
<1>3. PICK f : f = [m \in Keys \cup {nil} |-> DescOrNone(tree, m)]
  OBVIOUS
<1>4. Step(f)
  <2>1. ASSUME NEW m \in Keys
        PROVE  DescOrNone(tree, m) = {m} \cup f[tree.child["left"][m]] \cup f[tree.child["right"][m]]
    <3>1. /\ f[tree.child["left"][m]] = DescOrNone(tree, tree.child["left"][m])
          /\ f[tree.child["right"][m]] = DescOrNone(tree, tree.child["right"][m])
      BY <1>2, <1>3, TwoSides
    <3>2. DescOrNone(tree, m) = Desc(tree, m)
      BY <1>2 DEF DescOrNone
    <3> QED  BY <1>2, <3>1, <3>2, DescOf
  <2>2. DescOrNone(tree, nil) = {}
    BY DEF DescOrNone
  <2>3. \A m \in Keys \cup {nil} :
            DescOrNone(tree, m) = IF m = nil THEN {}
                                  ELSE {m} \cup f[tree.child["left"][m]] \cup f[tree.child["right"][m]]
    BY <2>1, <2>2
  <2> QED  BY <1>3, <2>3
<1>5. Step(subtree)
  <2> HIDE DEF Step
  <2> QED  BY <1>4
<1> HIDE DEF subtree
<1>6. /\ subtree[nil] = {}
      /\ \A m \in Keys : subtree[m] = {m} \cup subtree[tree.child["left"][m]]
            \cup subtree[tree.child["right"][m]]
  BY <1>2, <1>5
<1>7. DescOrNone(tree, nil) = {} /\ \A m \in Keys : DescOrNone(tree, m) = Desc(tree, m)
  BY <1>2 DEF DescOrNone
<1> DEFINE T == {m \in K : subtree[m] = DescOrNone(tree, m)}
<1>8. ASSUME NEW m \in K, \A s \in Sides : tree.child[s][m] = nil \/ tree.child[s][m] \in T PROVE m \in T
  <2>1. \A s \in Sides : subtree[tree.child[s][m]] = DescOrNone(tree, tree.child[s][m])
    BY <1>6, <1>7, <1>8
  <2>2. subtree[m] = {m} \cup DescOrNone(tree, tree.child["left"][m])
             \cup DescOrNone(tree, tree.child["right"][m])
    BY <1>2, <1>6, <2>1, TwoSides
  <2> QED  BY <1>2, <1>7, <2>2, DescOf
<1>9. K \subseteq T
  <2> HIDE DEF T
  <2> QED  BY <1>2, <1>8, Upwards
<1> QED  BY <1>1, <1>6, <1>7, <1>9

\* All paths from a node to nil have the same number of black nodes.
LEMMA BlackHeightsAre ==
    ASSUME NEW K, NEW B, NEW h, RedBlack(tree, K, B, h), NEW n \in K \cup {nil}
    PROVE  BlackHeights(n) = {h[n]}
<1> DEFINE Counted(S, m) == {e + (IF tree.color[m] = "black" THEN 1 ELSE 0) : e \in S}
           Step(f) == f = [m \in Keys \cup {nil} |->
                            IF m = nil THEN {0}
                            ELSE Counted(f[tree.child["left"][m]] \cup f[tree.child["right"][m]], m)]
           heights == CHOOSE f : Step(f)
<1>1. BlackHeights(n) = heights[n]
  BY DEF BlackHeights
<1>2. /\ Shape(tree, K, B) /\ Clear(tree, Keys \ K) /\ tree \in Trees /\ K \subseteq Keys
            /\ nil \notin Keys
      /\ h[nil] = 0 /\ (\A m \in Ptr : h[m] \in Nat)
      /\ \A s \in Sides, m \in K : h[m] = h[tree.child[s][m]] + Unit(tree, m) + 0
  BY KeysAreNumbers DEF RedBlack, Whole, Shape, Balanced, Heights, HeightFits, Lack
<1>3. \A s \in Sides, m \in K : tree.child[s][m] \in K \cup {nil}
  BY <1>2 DEF Shape, ChildFits
<1>4. \A m : Unit(tree, m) \in Nat /\ Unit(tree, m) = IF tree.color[m] = "black" THEN 1 ELSE 0
  BY DEF Unit
<1>5. \A m \in K, s \in Sides : h[m] = h[tree.child[s][m]] + Unit(tree, m)
  <2>1. \A m \in K, s \in Sides : h[tree.child[s][m]] \in Nat
    BY <1>2, <1>3 DEF Ptr
  <2> QED  BY <1>2, <1>4, <2>1
<1>6. \A m \in K : Counted({h[tree.child["left"][m]]} \cup {h[tree.child["right"][m]]}, m) = {h[m]}
  BY <1>4, <1>5, TwoSides
<1>7. PICK f : f = [m \in Keys \cup {nil} |-> IF m = nil THEN {0} ELSE IF m \in K THEN {h[m]}
           ELSE {Unit(tree, m)}]
  OBVIOUS
<1>8. /\ f[nil] = {0} /\ (\A m \in K : f[m] = {h[m]}) /\ \A m \in Keys \ K : f[m] = {Unit(tree, m)}
  BY <1>2, <1>7
<1>9. Step(f)
  <2>1. ASSUME NEW m \in K PROVE f[m] = Counted(f[tree.child["left"][m]] \cup f[tree.child["right"][m]], m)
    <3>1. \A s \in Sides : f[tree.child[s][m]] = {h[tree.child[s][m]]}
      BY <1>2, <1>3, <1>8
    <3>2. f[tree.child["left"][m]] = {h[tree.child["left"][m]]}
               /\ f[tree.child["right"][m]] = {h[tree.child["right"][m]]}
      BY <3>1, TwoSides
    <3> HIDE DEF Counted
    <3> QED  BY <1>6, <1>8, <3>2
  <2>2. ASSUME NEW m \in Keys \ K PROVE f[m] = Counted(f[tree.child["left"][m]]
             \cup f[tree.child["right"][m]], m)
    <3>1. f[tree.child["left"][m]] = {0} /\ f[tree.child["right"][m]] = {0}
      BY <1>2, <1>8, TwoSides DEF Clear
    <3>2. Counted({0} \cup {0}, m) = {Unit(tree, m)}
      BY <1>4
    <3> HIDE DEF Counted
    <3> QED  BY <1>8, <3>1, <3>2
  <2> HIDE DEF Counted
  <2>3. \A m \in Keys \cup {nil} :
            f[m] = IF m = nil THEN {0} ELSE Counted(f[tree.child["left"][m]]
                 \cup f[tree.child["right"][m]], m)
    BY <1>2, <1>8, <2>1, <2>2
  <2>4. f = [m \in Keys \cup {nil} |-> f[m]]
    BY <1>7
  <2> QED  BY <2>3, <2>4
<1>10. Step(heights)
  <2> HIDE DEF Step
  <2> QED  BY <1>9
<1> HIDE DEF heights, Counted
<1>11. /\ heights[nil] = {0}
       /\ \A m \in Keys : heights[m] = Counted(heights[tree.child["left"][m]]
             \cup heights[tree.child["right"][m]], m)
  BY <1>2, <1>10
<1> DEFINE T == {m \in K : heights[m] = {h[m]}}
<1>12. ASSUME NEW m \in K, \A s \in Sides : tree.child[s][m] = nil \/ tree.child[s][m] \in T PROVE m \in T
  <2>1. \A s \in Sides : heights[tree.child[s][m]] = {h[tree.child[s][m]]}
    BY <1>2, <1>11, <1>12
  <2>2. heights[m] = Counted({h[tree.child["left"][m]]} \cup {h[tree.child["right"][m]]}, m)
    BY <1>2, <1>11, <2>1, TwoSides
  <2> QED  BY <1>6, <2>2
<1>13. K \subseteq T
  <2> HIDE DEF T
  <2> QED  BY <1>2, <1>12, Upwards
<1> QED  BY <1>1, <1>2, <1>11, <1>13

\* The inductive invariant: there are bounds and black heights for the nodes of the tree.
RbInv == \E B, h : RedBlack(tree, keys, B, h)

\* The empty tree is red-black.
LEMMA RbInvInit == RbInit => RbInv
<1> SUFFICES ASSUME RbInit PROVE RbInv
  OBVIOUS
<1>1. PICK B : B = [s \in Sides |-> [n \in {} |-> 0]]
  OBVIOUS
<1>2. PICK h : h = [n \in Ptr |-> 0]
  OBVIOUS
<1>3. /\ tree.root = nil /\ tree.child = [side \in Sides |-> [n \in Keys |-> nil]]
      /\ tree.parent = [n \in Ptr |-> nil] /\ tree.color = [n \in Ptr |-> "black"] /\ keys = {}
  BY DEF RbInit, Ptr
<1>4. tree \in Trees
  <2>1. /\ [side \in Sides |-> [n \in Keys |-> nil]] \in [Sides -> [Keys -> Ptr]]
        /\ [n \in Ptr |-> nil] \in [Ptr -> Ptr] /\ [n \in Ptr |-> "black"] \in [Ptr -> {"red", "black"}]
        /\ nil \in Ptr
    BY KeysAreNumbers
  <2> QED  BY <2>1 DEF RbInit, Trees, Ptr
<1>5. Bounded({}, B)
  <2>1. [n \in {} |-> 0] \in [{} -> 0 .. MaxKey + 1]
    OBVIOUS
  <2> QED  BY <1>1, <2>1 DEF Bounded
<1>6. Shape(tree, {}, B)
  BY <1>3, <1>4, <1>5 DEF Shape, RootFits
<1>7. Clear(tree, Keys \ {})
  BY <1>3 DEF Clear
<1>8. Balanced(tree, {}, h, nil, "left")
  BY <1>2, KeysAreNumbers DEF Balanced, Heights
<1>9. tree.color[nil] = "black" /\ tree.color[tree.root] = "black"
  BY <1>3, KeysAreNumbers
<1>10. RedBlack(tree, keys, B, h)
  BY <1>3, <1>6, <1>7, <1>8, <1>9 DEF RedBlack, Whole
<1> QED  BY <1>10 DEF RbInv

\* rbtree_insert and rbtree_delete, with the fixups they end in, keep it so.
LEMMA RbInvNext == RbInv /\ [RbNext]_rbVars => RbInv'
<1> SUFFICES ASSUME RbInv, [RbNext]_rbVars PROVE RbInv'
  OBVIOUS
<1>1. PICK B, h : RedBlack(tree, keys, B, h)
  BY DEF RbInv
<1>2. ASSUME NEW k \in Keys, RbInsert(k) PROVE RbInv'
  <2>1. PICK C, f : RedBlack(InsertKey(tree, k), keys \cup {k}, C, f)
    BY <1>1, InsertKeyIs
  <2> QED  BY <1>2, <2>1 DEF RbInsert, RbInv
<1>3. ASSUME NEW k \in Keys, RbDelete(k) PROVE RbInv'
  <2>1. k \in keys
    BY <1>1, <1>3, SearchIs DEF RbDelete, RedBlack
  <2>2. PICK C, f : RedBlack(Cleared(DeleteKey(tree, k), k), keys \ {k}, C, f)
    BY <1>1, <2>1, DeleteKeyIs
  <2> QED  BY <1>3, <2>2 DEF RbDelete, RbInv
<1>4. CASE UNCHANGED rbVars
  BY <1>1, <1>4 DEF rbVars, RbInv
<1> QED  BY <1>2, <1>3, <1>4 DEF RbNext

\* After any sequence of rbtree_insert and rbtree_delete the tree is red-black: links both ways,
\* keys between their bounds, equal black heights, no red node below a red one.
THEOREM RbInvariance == RbSpec => []RbInv
BY RbInvInit, RbInvNext, PTL DEF RbSpec

\* The inductive invariant gives the rules of a red-black tree.
LEMMA RbInvImplies == RbInv => IsRedBlackTree
<1> SUFFICES ASSUME RbInv PROVE IsRedBlackTree
  OBVIOUS
<1>1. PICK B, h : RedBlack(tree, keys, B, h)
  BY DEF RbInv
<1>2. /\ Whole(tree, keys, B) /\ Shape(tree, keys, B) /\ tree \in Trees /\ keys \subseteq Keys
      /\ tree.color[nil] = "black" /\ tree.color[tree.root] = "black"
      /\ \A n \in keys : RedFits(tree, nil, n)
  BY <1>1 DEF RedBlack, Whole, Shape
<1>3. \A n \in keys : tree.color[n] = "red" => \A s \in Sides : tree.color[tree.child[s][n]] = "black"
  BY <1>2 DEF RedFits
<1>4. tree.root \in keys \cup {nil}
  BY <1>2 DEF Shape, RootFits
<1>5. Cardinality(BlackHeights(tree.root)) = 1
  BY <1>1, <1>4, BlackHeightsAre, FS_Singleton
<1>6. ASSUME NEW n \in keys, NEW s \in Sides, NEW m \in Subtree(tree.child[s][n])
      PROVE  IF s = "left" THEN m < n ELSE m > n
  <2>1. PICK c : c = tree.child[s][n]
    OBVIOUS
  <2>2. c \in keys \cup {nil}
    BY <1>2, <2>1 DEF Shape, ChildFits
  <2>3. m \in DescOrNone(tree, c)
    BY <1>2, <1>6, <2>1, <2>2, SubtreeIs
  <2>4. c # nil /\ c \in keys /\ m \in Desc(tree, c)
    BY <2>2, <2>3 DEF DescOrNone
  <2>5. B[Opposite(s)][c] = n
    BY <1>2, <2>1, <2>4 DEF Shape, ChildFits
  <2>6. m \in keys /\ B["left"][c] < m /\ m < B["right"][c]
    BY <1>2, <2>4, DescBounds
  <2> QED  BY <1>2, <2>5, <2>6, KeysAreNumbers, TwoSides
<1>7. Ordered
  BY <1>6, TwoSides DEF Ordered
<1>8. Linked
  BY <1>2 DEF Linked, Shape, RootFits, ChildFits
<1>9. Subtree(tree.root) = keys
  <2>1. Subtree(tree.root) = DescOrNone(tree, tree.root)
    BY <1>2, <1>4, SubtreeIs
  <2>2. CASE tree.root = nil
    BY <1>2, <2>1, <2>2 DEF DescOrNone, Shape, RootFits
  <2>3. CASE tree.root # nil
    BY <1>2, <2>1, <2>3, BelowRoot DEF DescOrNone
  <2> QED  BY <2>2, <2>3
<1>10. \A k \in Keys : SearchKey(tree, k) <=> k \in keys
  BY <1>2, SearchIs
<1> QED  BY <1>2, <1>3, <1>5, <1>7, <1>8, <1>9, <1>10 DEF IsRedBlackTree

\* The rules of a red-black tree hold after any sequence of rbtree_insert and rbtree_delete, the tree
\* holds exactly the keys that were inserted and not deleted, and rbtree_search finds these.
THEOREM RedBlackSafety == RbSpec => []IsRedBlackTree
BY RbInvariance, RbInvImplies, PTL
=============================================================================
