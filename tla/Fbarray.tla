------------------------------- MODULE Fbarray -------------------------------
(***************************************************************************)
(* The bit masks of a file-backed array                                    *)
(* (dpdk_fbarray/eal_common_fbarray.h), where one bit per element says     *)
(* whether it is used, and the searches over them.  A mask of MASK_ALIGN   *)
(* bits (64 in the code) is the set of its bits that are 1.  Every         *)
(* operation holds the lock of the array from its first look at the masks  *)
(* to its last, so each is one step.                                       *)
(***************************************************************************)
EXTENDS FiniteSetsExt, Integers

CONSTANTS MASK_ALIGN, \* the bits of a mask
          MaxLen      \* the longest array

ASSUME FbarrayAssumption == MASK_ALIGN \in Nat \ {0} /\ MaxLen \in Nat

VARIABLES len,    \* 0 before init
          count,  \* how many elements are marked used
          data    \* the masks

fbVars == <<len, count, data>>

MASK_LEN_TO_IDX(x)     == x \div MASK_ALIGN
MASK_LEN_TO_MOD(x)     == x % MASK_ALIGN
MASK_GET_IDX(idx, mod) == idx * MASK_ALIGN + mod
MaskBits               == 0 .. MASK_ALIGN - 1

\* The length rounded up to whole masks.
n_masks == MASK_LEN_TO_IDX(len + MASK_ALIGN - 1)

FbInit == len = 0 /\ count = 0 /\ data = <<>>

\* rte_fbarray_init, as far as the masks go.
rte_fbarray_init(n) ==
    /\ len = 0 /\ len' = n /\ count' = 0
    /\ data' = [i \in 0 .. MASK_LEN_TO_IDX(n + MASK_ALIGN - 1) - 1 |-> {}]
-----------------------------------------------------------------------------
IsUsed(idx) == MASK_LEN_TO_MOD(idx) \in data[MASK_LEN_TO_IDX(idx)]

set_used(idx, used) ==
    /\ idx < len /\ used # IsUsed(idx)
    /\ data' = [data EXCEPT ![MASK_LEN_TO_IDX(idx)] =
                    IF used THEN @ \cup {MASK_LEN_TO_MOD(idx)} ELSE @ \ {MASK_LEN_TO_MOD(idx)}]
    /\ count' = IF used THEN count + 1 ELSE count - 1
    /\ UNCHANGED len

rte_fbarray_set_used(idx) == set_used(idx, TRUE)
rte_fbarray_set_free(idx) == set_used(idx, FALSE)
rte_fbarray_is_used(idx)  == IF idx >= len THEN -1 ELSE IF IsUsed(idx) THEN 1 ELSE 0

FbNext == \/ \E n \in 1 .. MaxLen : rte_fbarray_init(n)
          \/ \E idx \in 0 .. MaxLen - 1 : rte_fbarray_set_used(idx) \/ rte_fbarray_set_free(idx)

FbSpec == FbInit /\ [][FbNext]_fbVars
-----------------------------------------------------------------------------
\* The bits looked for, in the mask as it is or inverted.
Wanted(idx, used) == IF used THEN data[idx] ELSE MaskBits \ data[idx]

FirstIdx(start)  == MASK_LEN_TO_IDX(start)
NotBefore(start) == {b \in MaskBits : b >= MASK_LEN_TO_MOD(start)}
LastIdx          == MASK_LEN_TO_IDX(len)           \* no mask when the length is aligned
BelowLast        == {b \in MaskBits : b < MASK_LEN_TO_MOD(len)}

find_next(start, used) ==
    LET cur(idx) == (Wanted(idx, used) \cap (IF idx = LastIdx THEN BelowLast ELSE MaskBits))
                                       \cap (IF idx = FirstIdx(start) THEN NotBefore(start) ELSE MaskBits)
        hits == {idx \in FirstIdx(start) .. n_masks - 1 : cur(idx) # {}}
    IN IF hits = {} THEN -1 ELSE MASK_GET_IDX(Min(hits), Min(cur(Min(hits))))

find_contig(start, used) ==
    LET cur(idx)  == Wanted(idx, used) \cap (IF idx = LastIdx THEN BelowLast ELSE MaskBits)
        from(idx) == IF idx = FirstIdx(start) THEN MASK_LEN_TO_MOD(start) ELSE 0
        stop(idx) == Min({b \in from(idx) .. MASK_ALIGN : b \notin cur(idx)})
        \* on to the next mask when the run goes all the way through this one
        result[idx \in FirstIdx(start) .. n_masks] ==
            IF idx = n_masks THEN 0
            ELSE stop(idx) - from(idx) + (IF stop(idx) < MASK_ALIGN THEN 0 ELSE result[idx + 1])
    IN result[FirstIdx(start)]

\* Broken variant: "and" once too little.
RunsOfFew(m, n) == {b \in m : \A j \in 1 .. n - 2 : b + j \in m}

\* n - 1 times "and" with itself shifted right: where n consecutive bits start.
RunsOf(m, n) == {b \in m : \A j \in 1 .. n - 1 : b + j \in m}

\* How many bits at the end of the mask are set: the leading zeroes of its inverse.
TopRun(m) == MASK_ALIGN - Min({b \in 0 .. MASK_ALIGN : b .. MASK_ALIGN - 1 \subseteq m})

\* Step 4 of the search: a run that goes on in the masks from idx, with left bits to go.
LookAhead(idx, left, used) ==
    LET due(k)  == left - (k - idx) * MASK_ALIGN
        need(k) == IF due(k) < MASK_ALIGN THEN due(k) ELSE MASK_ALIGN
        lost    == {k \in idx .. n_masks - 1 : due(k) > 0 /\ 0 \notin RunsOf(Wanted(k, used), need(k))}
    IN IF lost = {} THEN [found |-> due(n_masks) <= 0, skip |-> -1, need |-> 0]
                    ELSE [found |-> FALSE, skip |-> Min(lost), need |-> need(Min(lost))]

\* One turn of the loop: the answer, or -1 and msk_idx and ignore_msk of the next turn.
\* ignore_msk is joined with last_msk, not cut down to it; and after a lost run the whole
\* mask where it was lost is skipped (idx is advanced twice) while the scanned bits are
\* ignored in the mask behind it.  1ULL << 64 is 1 << 0 on the processors this builds for.
SearchMask(idx, ignore, n, used) ==
    LET keep == ignore \cup (IF idx = LastIdx THEN BelowLast ELSE {})
        cur  == IF keep = {} THEN Wanted(idx, used) ELSE Wanted(idx, used) \cap keep
        top  == TopRun(cur)
        look == LookAhead(idx + 1, n - top, used)
        Turn(run, next, ign) == [answer |-> run, msk_idx |-> next, ignore_msk |-> ign]
    IN CASE n <= MASK_ALIGN /\ RunsOf(cur, n) # {} ->
              Turn(MASK_GET_IDX(idx, Min(RunsOf(cur, n))), idx, {})
         [] OTHER ->
              IF top = 0 THEN Turn(-1, idx + 1, {})
              ELSE IF look.found THEN Turn(MASK_GET_IDX(idx, MASK_ALIGN - top), idx, {})
              ELSE IF look.skip = -1 THEN Turn(-1, idx + 1, {})
              ELSE Turn(-1, look.skip + 1, {b \in MaskBits : b >= look.need % MASK_ALIGN})

find_next_n(start, n, used) ==
    LET search[idx \in 0 .. n_masks] ==
            [ignore \in SUBSET MaskBits |->
                IF idx = n_masks THEN -1
                ELSE LET turn == SearchMask(idx, ignore, n, used)
                     IN IF turn.answer # -1 THEN turn.answer ELSE search[turn.msk_idx][turn.ignore_msk]]
    IN search[FirstIdx(start)][NotBefore(start)]
-----------------------------------------------------------------------------
\* The interface: -1 without a search where the counter already tells (with the lock held).
rte_fbarray_find_next_free(start)   == IF start >= len \/ len = count THEN -1 ELSE find_next(start, FALSE)
rte_fbarray_find_next_used(start)   == IF start >= len \/ count = 0 THEN -1 ELSE find_next(start, TRUE)
rte_fbarray_find_next_n_free(start, n) ==
    IF start >= len \/ n > len \/ len = count \/ len - count < n THEN -1 ELSE find_next_n(start, n, FALSE)
rte_fbarray_find_next_n_used(start, n) ==
    IF start >= len \/ n > len \/ count < n THEN -1 ELSE find_next_n(start, n, TRUE)
rte_fbarray_find_contig_free(start) ==
    CASE start >= len \/ len = count -> -1
      [] start < len /\ count = 0    -> len - start
      [] OTHER                       -> find_contig(start, FALSE)
rte_fbarray_find_contig_used(start) == IF start >= len THEN -1 ELSE find_contig(start, TRUE)
-----------------------------------------------------------------------------
Elements       == 0 .. len - 1
Holding(used)  == {i \in Elements : IsUsed(i) = used}
LeastOr(S)     == IF S = {} THEN -1 ELSE Min(S)
RunFrom(i, n, used) == i + n <= len /\ i .. i + n - 1 \subseteq Holding(used)

\* What the searches for one element and for the length of a run mean, whatever the masks
\* hold, wherever the length cuts the last mask: the least index from start on, and the
\* distance to the first element of the other kind.  Only a full array answers -1 where a
\* run of length 0 is meant.  The counter the shortcuts rely on is exact.
SingleSearchesAreRight ==
    len > 0 =>
        /\ count = Cardinality(Holding(TRUE))
        /\ \A start \in Elements :
              /\ rte_fbarray_find_next_free(start) = LeastOr({i \in Holding(FALSE) : i >= start})
              /\ rte_fbarray_find_next_used(start) = LeastOr({i \in Holding(TRUE) : i >= start})
              /\ \A used \in BOOLEAN :
                    LET ends == {i \in Elements : i >= start /\ i \notin Holding(used)}
                        run  == (IF ends = {} THEN len ELSE Min(ends)) - start
                    IN IF used THEN rte_fbarray_find_contig_used(start) = run
                       ELSE rte_fbarray_find_contig_free(start) = IF count = len THEN -1 ELSE run

FirstRun(start, n, used) == LeastOr({i \in Elements : i >= start /\ RunFrom(i, n, used)})

\* Where find_next_n can be trusted: when it starts before the mask the length cuts, and
\* no run of the wanted kind reaches the end of a mask from there on, its answer is the
\* least start of n such elements; and an answer for used elements is always such a run,
\* though neither the first nor found whenever there is one.
NextNIsRight ==
    len > 0 =>
        \A start \in Elements, n \in 1 .. len, used \in BOOLEAN :
            LET answer == IF used THEN rte_fbarray_find_next_n_used(start, n)
                                  ELSE rte_fbarray_find_next_n_free(start, n)
            IN FirstIdx(start) # LastIdx =>
                  /\ (\A idx \in FirstIdx(start) .. n_masks - 1 :
                         MASK_ALIGN - 1 \notin Wanted(idx, used) \cap
                             (IF idx = FirstIdx(start) THEN NotBefore(start) ELSE MaskBits))
                     => answer = FirstRun(start, n, used)
                  /\ used /\ answer # -1 => answer >= start /\ RunFrom(answer, n, used)

\* What each search can be trusted to answer.
SearchesAreRight == SingleSearchesAreRight /\ NextNIsRight

\* rte_fbarray.h: "Find index of next chunk of n free elements" -- of the array, from start on.
NextNFindsAChunk ==
    len > 0 =>
        \A start \in Elements, n \in 1 .. len :
            LET answer == rte_fbarray_find_next_n_free(start, n)
            IN answer # -1 => answer >= start /\ RunFrom(answer, n, FALSE)
=============================================================================
