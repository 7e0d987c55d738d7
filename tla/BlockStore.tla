----------------------------- MODULE BlockStore -----------------------------
(***************************************************************************)
(* What a pool of blocks promises its callers: a block that is handed out  *)
(* belongs to the pool and to nobody else until it is given back.          *)
(***************************************************************************)
VARIABLES store,  \* the blocks of the pool
          held    \* those that callers have

Init == store = {} /\ held = {}

Open(blocks) == /\ store = {} /\ held = {}
                /\ store' = blocks /\ UNCHANGED held

Take(b, more) == /\ more \cap store = {}
                 /\ store' = store \cup more
                 /\ b \in store' \ held
                 /\ held' = held \cup {b}

Give(b) == b \in held /\ held' = held \ {b} /\ UNCHANGED store

Close == store' = {} /\ held' = {}

Next == \/ \E blocks \in SUBSET store' : Open(blocks)
        \/ \E b \in held', more \in SUBSET store' : Take(b, more)
        \/ \E b \in held : Give(b)
        \/ Close

Spec == Init /\ [][Next]_<<store, held>>
=============================================================================
