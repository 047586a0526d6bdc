-------------------------------- MODULE Heap --------------------------------
(***************************************************************************)
(* The areas of a memory (kernel/tkernel/memory.c, memory.h and the same   *)
(* algorithm in mempool.c), as operators on a heap h.  Sizes and addresses *)
(* are in units of sizeof(QUEUE), 8 bytes.                                 *)
(*   areas    the AreaQue: the areas in the order of their addresses.  A   *)
(*            unit before each area but the first holds the links; that of *)
(*            the first one lies outside the memory (in the MPLCB of a     *)
(*            pool, before knl_lowmem_top in the internal allocator).      *)
(*   freeque  the FreeQue: per size a chain of the free areas of that      *)
(*            size, from small to large.  The links of a free area are in  *)
(*            its first MIN_FRAGMENT units, FreeSize in those of the first *)
(*            area of a chain only.                                        *)
(***************************************************************************)
EXTENDS Integers, SequencesExt

UNIT == 8                       \* sizeof(QUEUE)
MIN_FRAGMENT == 2               \* in units
NoBlk == -1                     \* a NULL pointer

\* roundSize: the units of a block of sz bytes.
RoundSize(sz) ==
    LET n == (sz + UNIT - 1) \div UNIT
    IN  IF n < MIN_FRAGMENT THEN MIN_FRAGMENT ELSE n

IndexOf(h, at) == CHOOSE i \in DOMAIN h.areas : h.areas[i].at = at
FreeSizes(h) == [i \in DOMAIN h.freeque |-> h.freeque[i].size]

(***************************************************************************)
(* The FreeQue.  A position past its end stands for &imacb->freeque.       *)
(***************************************************************************)
\* The last chain of a size up to blksz, or the one behind it.
SearchFromLarger(h, blksz) ==
    LET S == {i \in DOMAIN h.freeque : h.freeque[i].size <= blksz}
        last == CHOOSE i \in S : \A j \in S : j <= i
    IN  IF S = {} THEN 1
        ELSE IF h.freeque[last].size < blksz THEN last + 1 ELSE last

\* The first chain of a size from blksz on.
SearchFromSmaller(h, blksz) ==
    LET S == {i \in DOMAIN h.freeque : h.freeque[i].size >= blksz} \cup {Len(h.freeque) + 1}
    IN  CHOOSE i \in S : \A j \in S : i <= j

\* knl_searchFreeArea
SearchFreeArea(h, blksz) ==
    IF blksz > h.memsz \div 4 THEN SearchFromLarger(h, blksz) ELSE SearchFromSmaller(h, blksz)

\* knl_appendFreeArea and knl_appendFreeAreaBound: a free area of a size that
\* is there already becomes the second of its chain.
AppendFreeArea(h, at) ==
    LET i == IndexOf(h, at)
        size == h.areas[i].size
        pos == SearchFreeArea(h, size)
        h1 == [h EXCEPT !.areas[i].use = FALSE]
    IN  IF pos \in DOMAIN h.freeque /\ h.freeque[pos].size = size
        THEN [h1 EXCEPT !.freeque[pos].at = <<Head(@), at>> \o Tail(@)]
        ELSE [h1 EXCEPT !.freeque = InsertAt(@, pos, [size |-> size, at |-> <<at>>])]

\* knl_removeFreeQue: the second of a chain takes the place of the first.
RemoveFreeQue(h, at) ==
    LET pos == CHOOSE i \in DOMAIN h.freeque : at \in ToSet(h.freeque[i].at)
    IN  IF Len(h.freeque[pos].at) = 1 THEN [h EXCEPT !.freeque = RemoveAt(@, pos)]
        ELSE [h EXCEPT !.freeque[pos].at = SelectSeq(@, LAMBDA e : e # at)]

(***************************************************************************)
(* Blocks.                                                                 *)
(***************************************************************************)

\* knl_get_blk, knl_Imalloc: the first area of the smallest size that is large
\* enough; what is left becomes an area of its own, unless it is too small.
GetBlk(h, blksz) ==
    LET pos == SearchFreeArea(h, blksz)
        size == h.freeque[pos].size
        at == Head(h.freeque[pos].at)
        i == IndexOf(h, at)
        h1 == [RemoveFreeQue(h, at) EXCEPT !.areas[i].use = TRUE]
        rest == [at |-> at + blksz + 1, size |-> size - blksz - 1, use |-> FALSE]
    IN  IF pos > Len(h.freeque) THEN [heap |-> h, blk |-> NoBlk]
        ELSE [heap |-> IF size - blksz < MIN_FRAGMENT + 1 THEN h1
                       ELSE AppendFreeArea(
                              [h1 EXCEPT !.areas = InsertAt([@ EXCEPT ![i].size = blksz],
                                                            i + 1, rest)], rest.at),
              blk |-> at]

\* Area i takes in the area behind it.
MergeNext(h, i) ==
    [h EXCEPT !.areas = RemoveAt([@ EXCEPT ![i].size = @ + 1 + h.areas[i + 1].size], i + 1)]

\* Fault: the area in front is not looked at.
RelBlkForward(h, at) ==
    LET i == IndexOf(h, at)
        h1 == IF i < Len(h.areas) /\ ~h.areas[i + 1].use
              THEN MergeNext(RemoveFreeQue(h, h.areas[i + 1].at), i) ELSE h
    IN  AppendFreeArea(h1, at)

\* knl_rel_blk, knl_Ifree: the free areas behind and in front are merged.
RelBlk(h, at) ==
    LET i == IndexOf(h, at)
        h1 == IF i < Len(h.areas) /\ ~h.areas[i + 1].use
              THEN MergeNext(RemoveFreeQue(h, h.areas[i + 1].at), i) ELSE h
    IN  IF i > 1 /\ ~h.areas[i - 1].use
        THEN AppendFreeArea(MergeNext(RemoveFreeQue(h1, h.areas[i - 1].at), i - 1),
                            h.areas[i - 1].at)
        ELSE AppendFreeArea(h1, at)

\* The memory of n units: one free area (init_mempool, knl_init_Imalloc).
NewHeap(n) ==
    AppendFreeArea([memsz |-> n, areas |-> <<[at |-> 0, size |-> n, use |-> FALSE]>>,
                    freeque |-> <<>>], 0)

Used(h) == {h.areas[i].at : i \in {j \in DOMAIN h.areas : h.areas[j].use}}

\* knl_MaxFreeSize
MaxFreeSize(h) == IF h.freeque = <<>> THEN 0 ELSE Last(h.freeque).size

(***************************************************************************)
(* The areas tile the memory, none is too small for its links, and no two  *)
(* free areas are neighbours; the FreeQue has exactly the free areas, each *)
(* in the chain of its size.                                               *)
(***************************************************************************)
Exact(h) ==
    LET n == Len(h.areas)
        unused == {i \in DOMAIN h.areas : ~h.areas[i].use}
    IN  /\ h.areas[1].at = 0
        /\ h.areas[n].at + h.areas[n].size = h.memsz
        /\ \A i \in 1..n-1 :
              /\ h.areas[i + 1].at = h.areas[i].at + h.areas[i].size + 1
              /\ i \notin unused \/ i + 1 \notin unused
        /\ \A i \in 1..n : h.areas[i].size >= MIN_FRAGMENT
        /\ \A i, j \in DOMAIN h.freeque : i < j => h.freeque[i].size < h.freeque[j].size
        /\ \A i \in DOMAIN h.freeque : IsInjective(h.freeque[i].at) /\ h.freeque[i].at # <<>>
        /\ UNION {{<<a, h.freeque[i].size>> : a \in ToSet(h.freeque[i].at)} : i \in DOMAIN h.freeque}
              = {<<h.areas[i].at, h.areas[i].size>> : i \in unused}
=============================================================================
