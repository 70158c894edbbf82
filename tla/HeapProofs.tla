----------------------------- MODULE HeapProofs -----------------------------
(***************************************************************************)
(* Proofs about the heap: for every size of heap, header and word, the     *)
(* blocks tile the heap after any sequence of calls, every call is one the *)
(* abstract allocator allows, and the counters agree with the blocks.      *)
(*                                                                         *)
(* The inductive invariant is HeaderOK, the type of the list and its       *)
(* tiling, and NoFreePair; each part of kmalloc and kfree keeps them       *)
(* (TakenOK, SplitOK, TurnOK, MergeOK), and what they do to the blocks in  *)
(* use, which is all the abstract allocator sees, is proved along with     *)
(* them.  That the merge loop ends within HEAP_SIZE turns is TurnPasses.   *)
(***************************************************************************)
EXTENDS HeapAllocator, Ranges, TLAPS

HeaderOK(header) ==
  /\ header \in [DOMAIN header -> block_header_t]
  /\ DOMAIN header \subseteq Addresses
  /\ Tiling(header)

Pointers(header) == DOMAIN header \cup {NULL}

InUse(header) == {a \in DOMAIN header : ~header[a].is_free}

\* No block in use is lost, made or resized.
SameInUse(header, new) ==
  /\ InUse(new) = InUse(header)
  /\ \A a \in InUse(header) : new[a].size = header[a].size

\* No two free blocks follow each other.
NoFreePair(header) ==
  \A a \in DOMAIN header :
    header[a].is_free /\ header[a].next # NULL => ~header[header[a].next].is_free

-----------------------------------------------------------------------------
(* Sizes. *)

\* Rounding gives a size, and one that is long enough unless the sum wrapped.
LEMMA RoundedType ==
  ASSUME NEW size \in 0 .. WORD - 1
  PROVE  /\ Rounded(size) \in Nat
         /\ ~Wraps(size) => Rounded(size) >= size
<1> DEFINE up == (size + ALIGN - 1) % WORD
<1> DEFINE low == up % ALIGN
<1>1. up \in 0 .. WORD - 1
  BY HeapAssumption
<1>2. ~Wraps(size) => up = size + ALIGN - 1
  BY HeapAssumption DEF Wraps
<1>3. low \in 0 .. ALIGN - 1
  <2> HIDE DEF up
  <2>1. QED
    BY <1>1, HeapAssumption
<1>4. Rounded(size) = IF up - low < MIN_BLOCK_SIZE THEN MIN_BLOCK_SIZE ELSE up - low
  BY DEF Rounded
<1> HIDE DEF up, low
<1>5. QED
  BY <1>1, <1>2, <1>3, <1>4, HeapAssumption
-----------------------------------------------------------------------------
(* Walking the list. *)

\* What the tiling says of one block: its successor in the list is the block
\* that starts where it ends, and there is none only at the end of the heap.
LEMMA NextInList ==
  ASSUME NEW header, HeaderOK(header), NEW a \in DOMAIN header
  PROVE  /\ header[a] \in block_header_t /\ a \in Addresses
         /\ header[a].next \in Pointers(header)
         /\ header[a].next = NULL => After(header, a) = HEAP_SIZE
         /\ header[a].next # NULL => header[a].next = After(header, a)
         /\ After(header, a) \in Nat /\ a < After(header, a) /\ After(header, a) <= HEAP_SIZE
         /\ \A b \in DOMAIN header : a < b => After(header, a) <= b
<1>1. header[a] \in block_header_t /\ a \in Addresses
  BY DEF HeaderOK
<1>2. TiledFrom(header, a)
  BY DEF HeaderOK, Tiling
<1>3. header[a].size \in Nat /\ a \in Nat /\ After(header, a) \in Nat /\ a < After(header, a)
  BY <1>1, HeapAssumption DEF block_header_t, Addresses, After
<1> DEFINE after == After(header, a)
<1>4. /\ IF header[a].next = NULL THEN after = HEAP_SIZE
         ELSE header[a].next = after /\ after \in DOMAIN header
      /\ \A b \in DOMAIN header : a < b => after <= b
  BY <1>2 DEF TiledFrom
<1>5. after <= HEAP_SIZE
  <2>1. DOMAIN header \subseteq 0 .. HEAP_SIZE - 1
    BY DEF HeaderOK, Addresses
  <2> HIDE DEF after
  <2>2. QED
    BY <1>4, <2>1, HeapAssumption
<1> HIDE DEF after
<1>6. header[a].next \in Pointers(header)
  BY <1>4 DEF Pointers
<1>7. QED
  BY <1>1, <1>3, <1>4, <1>5, <1>6 DEF after

\* What the recursive definition of Walk defines.
LEMMA WalkDef ==
  ASSUME NEW header, HeaderOK(header)
  PROVE  /\ Walk(header)[0] = heap_start
         /\ \A k \in 1 .. HEAP_SIZE :
              Walk(header)[k] = IF Walk(header)[k - 1] = NULL THEN NULL
                                ELSE header[Walk(header)[k - 1]].next
<1> DEFINE after == [a \in Pointers(header) |-> IF a = NULL THEN NULL ELSE header[a].next]
<1> DEFINE IsWalk(f) ==
      f = [k \in 0 .. HEAP_SIZE |->
             IF k = 0 THEN heap_start
             ELSE IF f[k - 1] = NULL THEN NULL ELSE header[f[k - 1]].next]
<1>1. heap_start \in Pointers(header)
  BY DEF HeaderOK, Tiling, Pointers
<1>2. after \in [Pointers(header) -> Pointers(header)]
  BY NextInList DEF Pointers
<1>3. PICK f \in [0 .. HEAP_SIZE -> Pointers(header)] :
        IsIteration(f, HEAP_SIZE, heap_start, after)
  <2>1. HEAP_SIZE \in Nat
    BY HeapAssumption
  <2> HIDE DEF after
  <2>2. QED
    BY <1>1, <1>2, <2>1, Iterates
<1>4. IsWalk(f)
  <2>1. ASSUME NEW k \in 1 .. HEAP_SIZE
        PROVE  f[k] = IF f[k - 1] = NULL THEN NULL ELSE header[f[k - 1]].next
    <3>1. k - 1 \in 0 .. HEAP_SIZE
      BY HeapAssumption
    <3>2. QED
      BY <1>3, <3>1 DEF IsIteration
  <2>2. QED
    BY <1>3, <2>1 DEF IsIteration
<1>5. Walk(header) = CHOOSE g : IsWalk(g)
  BY DEF Walk
<1>6. IsWalk(Walk(header))
  <2> HIDE DEF IsWalk
  <2>1. QED
    BY <1>4, <1>5
<1> DEFINE W == Walk(header)
<1>7. W = [k \in 0 .. HEAP_SIZE |->
             IF k = 0 THEN heap_start
             ELSE IF W[k - 1] = NULL THEN NULL ELSE header[W[k - 1]].next]
  BY <1>6
<1> HIDE DEF W, IsWalk
<1>8. 0 \in 0 .. HEAP_SIZE /\ \A k \in 1 .. HEAP_SIZE : k \in 0 .. HEAP_SIZE /\ k # 0
  BY HeapAssumption
<1>9. W[0] = heap_start
  BY <1>7, <1>8
<1>10. ASSUME NEW k \in 1 .. HEAP_SIZE
       PROVE  W[k] = IF W[k - 1] = NULL THEN NULL ELSE header[W[k - 1]].next
  BY <1>7, <1>8
<1>11. QED
  BY <1>9, <1>10 DEF W

\* A walk along the list never leaves it but by its end.
LEMMA WalkType ==
  ASSUME NEW header, HeaderOK(header)
  PROVE  \A k \in 0 .. HEAP_SIZE : Walk(header)[k] \in Pointers(header)
<1> DEFINE at == Walk(header)
<1> DEFINE P == {k \in 0 .. HEAP_SIZE : at[k] \in Pointers(header)}
<1>1. 0 \in P
  BY WalkDef, HeapAssumption DEF HeaderOK, Tiling, Pointers
<1>2. ASSUME NEW k \in 0 .. HEAP_SIZE - 1, k \in P PROVE k + 1 \in P
  <2>1. k + 1 \in 1 .. HEAP_SIZE /\ (k + 1) - 1 = k
    BY HeapAssumption
  <2>2. at[k + 1] = IF at[k] = NULL THEN NULL ELSE header[at[k]].next
    BY <2>1, WalkDef
  <2>3. at[k + 1] \in Pointers(header)
    BY <1>2, <2>2, NextInList DEF Pointers
  <2>4. QED
    BY <2>1, <2>3
<1>3. P = 0 .. HEAP_SIZE
  <2>1. P \in SUBSET (0 .. HEAP_SIZE)
    OBVIOUS
  <2> HIDE DEF P
  <2>2. QED
    BY <1>1, <1>2, <2>1, RangeInduction, HeapAssumption
<1>4. QED
  BY <1>3

\* A block that find_free_block returns is free and long enough.
LEMMA Found ==
  ASSUME NEW header, HeaderOK(header), NEW size \in Nat,
         find_free_block(header, size) # NULL
  PROVE  LET block == find_free_block(header, size)
         IN block \in DOMAIN header /\ header[block].is_free /\ header[block].size >= size
<1> DEFINE at == Walk(header)
<1> DEFINE fits == {k \in 0 .. HEAP_SIZE :
                      at[k] # NULL /\ header[at[k]].is_free /\ header[at[k]].size >= size}
<1>1. fits # {} /\ find_free_block(header, size) = at[Min(fits)]
  BY DEF find_free_block
<1>2. Min(fits) \in fits
  <2>1. fits \in SUBSET Nat
    BY HeapAssumption
  <2> HIDE DEF fits
  <2>2. QED
    BY <1>1, <2>1, MinOfNaturals
<1>3. QED
  BY <1>1, <1>2, WalkType DEF Pointers

-----------------------------------------------------------------------------
(* kmalloc *)

\* Marking a block keeps the tiling.
LEMMA MarkOK ==
  ASSUME NEW header, HeaderOK(header), NEW block \in DOMAIN header, NEW free \in BOOLEAN
  PROVE  HeaderOK([header EXCEPT ![block].is_free = free])
<1> DEFINE new == [header EXCEPT ![block].is_free = free]
<1>1. DOMAIN new = DOMAIN header
  OBVIOUS
<1>2. ASSUME NEW a \in DOMAIN header
      PROVE  /\ new[a] \in block_header_t
             /\ new[a].size = header[a].size /\ new[a].next = header[a].next
  BY NextInList DEF HeaderOK, block_header_t
<1>3. new \in [DOMAIN new -> block_header_t]
  BY <1>1, <1>2
<1> HIDE DEF new
<1>4. Tiling(new)
  BY <1>1, <1>2 DEF HeaderOK, Tiling, TiledFrom, After
<1>5. HeaderOK(new)
  BY <1>1, <1>3, <1>4 DEF HeaderOK
<1>6. QED
  BY <1>5 DEF new

\* Splitting a free block that is long enough keeps the tiling and the blocks in
\* use, and leaves the block with the size asked for.
LEMMA SplitOK ==
  ASSUME NEW header, HeaderOK(header), NEW block \in DOMAIN header, NEW size \in Nat,
         header[block].is_free,
         header[block].size > size + BLOCK_HEADER_SIZE + MIN_BLOCK_SIZE
  PROVE  LET split == split_block(header, block, size)
         IN /\ HeaderOK(split)
            /\ SameInUse(header, split)
            /\ block \in DOMAIN split /\ split[block].is_free /\ split[block].size = size
            /\ \A a \in DOMAIN header : split[a].is_free = header[a].is_free
            /\ \A a \in DOMAIN split \ {block} :
                 \/ a \in DOMAIN header /\ split[a].next = header[a].next
                 \/ split[a].next = header[block].next
<1> DEFINE split == split_block(header, block, size)
<1> DEFINE new == block + BLOCK_HEADER_SIZE + size
<1>1. /\ header[block] \in block_header_t /\ block \in Nat
      /\ block < new /\ new < After(header, block) /\ new \in Nat
      /\ After(header, block) <= HEAP_SIZE /\ After(header, block) \in Nat
  BY NextInList, HeapAssumption DEF After, block_header_t, Addresses, Pointers, HeaderOK
<1>2. new \notin DOMAIN header
  BY <1>1, NextInList
<1>3. new \in Addresses
  BY <1>1, HeapAssumption DEF Addresses
<1>4. DOMAIN split = DOMAIN header \cup {new}
  BY DEF split_block
<1>5. /\ split[new].size = header[block].size - size - BLOCK_HEADER_SIZE
      /\ split[new].is_free = TRUE
      /\ split[new].next = header[block].next
      /\ split[new] \in block_header_t
  <2>1. split[new] = [size |-> header[block].size - size - BLOCK_HEADER_SIZE,
                      is_free |-> TRUE, next |-> header[block].next]
    BY DEF split_block
  <2>2. header[block].size - size - BLOCK_HEADER_SIZE \in Nat
    BY <1>1, HeapAssumption DEF block_header_t
  <2>3. QED
    BY <1>1, <2>1, <2>2 DEF block_header_t
<1>6. /\ split[block].size = size /\ split[block].next = new
      /\ split[block].is_free = header[block].is_free
      /\ split[block] \in block_header_t
  <2>1. split[block] = [header[block] EXCEPT !.size = size, !.next = new]
    BY <1>2 DEF split_block
  <2>2. QED
    BY <1>1, <1>3, <2>1 DEF block_header_t
<1>7. \A a \in DOMAIN header \ {block} : split[a] = header[a]
  BY <1>2 DEF split_block
<1> HIDE DEF split
<1>8. split \in [DOMAIN split -> block_header_t]
  <2>1. split = [a \in DOMAIN split |-> split[a]]
    BY DEF split, split_block
  <2>2. \A a \in DOMAIN split : split[a] \in block_header_t
    BY <1>4, <1>5, <1>6, <1>7, NextInList
  <2>3. QED
    BY <2>1, <2>2
<1>9. After(split, block) = new /\ After(split, new) = After(header, block)
  BY <1>1, <1>5, <1>6, HeapAssumption DEF After, block_header_t
<1>10. \A a \in DOMAIN header \ {block} : After(split, a) = After(header, a)
  BY <1>7 DEF After
<1>11. Tiling(split)
  <2>1. heap_start \in DOMAIN split
    BY <1>4 DEF HeaderOK, Tiling
  <2>2. TiledFrom(split, block)
    <3>1. new # NULL
      BY <1>1 DEF NULL
    <3>2. \A b \in DOMAIN header : block < b => new <= b
      BY <1>1, NextInList DEF HeaderOK, Tiling, TiledFrom, Addresses
    <3>3. QED
      BY <1>1, <1>4, <1>6, <1>9, <3>1, <3>2 DEF TiledFrom
  <2>3. TiledFrom(split, new)
    <3>1. \A b \in DOMAIN header : new < b => After(header, block) <= b
      BY <1>1, NextInList DEF HeaderOK, Tiling, TiledFrom, Addresses
    <3>2. QED
      BY <1>1, <1>4, <1>5, <1>9, <3>1, NextInList DEF TiledFrom, HeaderOK, Tiling, Pointers
  <2>4. ASSUME NEW a \in DOMAIN header \ {block} PROVE TiledFrom(split, a)
    <3>1. TiledFrom(header, a) /\ a \in Nat /\ After(header, a) \in Nat
      BY NextInList DEF HeaderOK, Tiling, Addresses
    <3>2. a < new => After(header, a) <= new
      <4>1. CASE a < block
        BY <1>1, <3>1, <4>1 DEF TiledFrom
      <4>2. CASE block < a
        BY <1>1, <3>1, <4>2, NextInList
      <4>3. QED
        BY <1>1, <3>1, <4>1, <4>2
    <3>3. QED
      BY <1>4, <1>7, <1>10, <3>1, <3>2 DEF TiledFrom
  <2>5. QED
    BY <1>4, <2>1, <2>2, <2>3, <2>4 DEF Tiling
<1>12. HeaderOK(split)
  BY <1>3, <1>4, <1>8, <1>11 DEF HeaderOK
<1>13. SameInUse(header, split)
  BY <1>2, <1>4, <1>5, <1>6, <1>7 DEF SameInUse, InUse
<1>14. QED
  BY <1>4, <1>5, <1>6, <1>7, <1>12, <1>13 DEF split

\* kmalloc of a free block adds that block to those in use and touches no other.
LEMMA TakenOK ==
  ASSUME NEW h, HeaderOK(h.header), NEW block \in DOMAIN h.header, NEW size \in Nat,
         h.header[block].is_free, h.header[block].size >= size
  PROVE  LET new == Taken(h, block, size).header
         IN /\ HeaderOK(new)
            /\ InUse(new) = InUse(h.header) \cup {block}
            /\ \A a \in InUse(h.header) : new[a].size = h.header[a].size
            /\ new[block].size >= size
            /\ block \notin InUse(h.header)
<1> DEFINE worth == h.header[block].size > size + BLOCK_HEADER_SIZE + MIN_BLOCK_SIZE
<1> DEFINE header == IF worth THEN split_block(h.header, block, size) ELSE h.header
<1> DEFINE new == Taken(h, block, size).header
<1>1. new = [header EXCEPT ![block].is_free = FALSE]
  BY DEF Taken
<1>2. /\ HeaderOK(header) /\ SameInUse(h.header, header)
      /\ block \in DOMAIN header /\ header[block].is_free /\ header[block].size >= size
  <2>1. CASE worth
    BY <2>1, SplitOK
  <2>2. CASE ~worth
    BY <2>2 DEF SameInUse
  <2>3. QED
    BY <2>1, <2>2
<1> HIDE DEF header, new
<1>3. HeaderOK(new)
  BY <1>1, <1>2, MarkOK
<1>4. /\ DOMAIN new = DOMAIN header
      /\ \A a \in DOMAIN header \ {block} : new[a] = header[a]
  BY <1>1
<1>5. header[block] \in block_header_t
  BY <1>2, NextInList
<1>6. new[block].is_free = FALSE /\ new[block].size = header[block].size
  BY <1>1, <1>2, <1>5 DEF block_header_t
<1>7. InUse(new) = InUse(header) \cup {block} /\ block \notin InUse(header)
  BY <1>2, <1>4, <1>6 DEF InUse
<1>8. \A a \in InUse(header) : new[a].size = header[a].size
  BY <1>4, <1>7 DEF InUse
<1>9. QED
  BY <1>2, <1>3, <1>6, <1>7, <1>8 DEF SameInUse, new

\* What a split leaves over borders a block in use, so kmalloc makes no free pair.
LEMMA TakenNoFreePair ==
  ASSUME NEW h, HeaderOK(h.header), NoFreePair(h.header),
         NEW block \in DOMAIN h.header, NEW size \in Nat, h.header[block].is_free
  PROVE  NoFreePair(Taken(h, block, size).header)
<1> DEFINE worth == h.header[block].size > size + BLOCK_HEADER_SIZE + MIN_BLOCK_SIZE
<1> DEFINE header == IF worth THEN split_block(h.header, block, size) ELSE h.header
<1> DEFINE new == Taken(h, block, size).header
<1>1. new = [header EXCEPT ![block].is_free = FALSE]
  BY DEF Taken
<1>2. /\ HeaderOK(header) /\ block \in DOMAIN header
      /\ \A a \in DOMAIN h.header : header[a].is_free = h.header[a].is_free
      /\ \A a \in DOMAIN header \ {block} :
           \/ a \in DOMAIN h.header /\ header[a].next = h.header[a].next
           \/ header[a].next = h.header[block].next
  <2>1. CASE worth
    BY <2>1, SplitOK
  <2>2. CASE ~worth
    BY <2>2
  <2>3. QED
    BY <2>1, <2>2
<1> HIDE DEF header, new
<1>3. /\ DOMAIN new = DOMAIN header
      /\ \A a \in DOMAIN header \ {block} : new[a] = header[a]
      /\ ~new[block].is_free
  BY <1>1, <1>2, NextInList DEF block_header_t
<1>4. ASSUME NEW a \in DOMAIN new, new[a].is_free, new[a].next # NULL
      PROVE  ~new[new[a].next].is_free
  <2>1. a \in DOMAIN header \ {block} /\ new[a] = header[a]
    BY <1>3, <1>4
  <2>2. PICK b \in DOMAIN h.header : /\ header[a].next = h.header[b].next
                                    /\ h.header[b].is_free
    BY <1>2, <1>4, <2>1
  <2> DEFINE next == h.header[b].next
  <2>3. next \in DOMAIN h.header /\ ~h.header[next].is_free
    BY <1>4, <2>1, <2>2, NextInList DEF NoFreePair, Pointers
  <2>4. next \in DOMAIN header
    BY <1>2, <1>4, <2>1, <2>2, NextInList DEF Pointers
  <2>5. QED
    BY <1>2, <1>3, <2>1, <2>2, <2>3, <2>4
<1>5. NoFreePair(new)
  BY <1>4 DEF NoFreePair
<1>6. QED
  BY <1>5 DEF new

-----------------------------------------------------------------------------
(* kfree *)

\* What one turn of the merge loop starts from and ends in.
Turning(first, m) ==
  /\ m = [header |-> m.header, current |-> m.current]
  /\ HeaderOK(m.header)
  /\ m.current \in DOMAIN m.header
  /\ SameInUse(first, m.header)

\* Where a turn has a pair to merge.
Merging(m) ==
  LET next == m.header[m.current].next
  IN /\ next # NULL
     /\ m.header[m.current].is_free /\ m.header[next].is_free
     /\ After(m.header, m.current) = next

\* A turn that merges: one header less, the block before it ends where that ended.
LEMMA TurnMerges ==
  ASSUME NEW first, NEW m, Turning(first, m), Merging(m)
  PROVE  LET header == m.header
             next == header[m.current].next
             merged == merge_turn(m).header
         IN /\ merge_turn(m) = [header |-> merged, current |-> m.current]
            /\ next \in DOMAIN header /\ m.current < next /\ m.current # next
            /\ m.current \in Nat /\ next \in Nat
            /\ merged \in [DOMAIN merged -> block_header_t]
            /\ DOMAIN merged = DOMAIN header \ {next} /\ m.current \in DOMAIN merged
            /\ merged[m.current].next = header[next].next
            /\ merged[m.current].is_free = header[m.current].is_free
            /\ After(merged, m.current) = After(header, next)
            /\ \A a \in DOMAIN merged \ {m.current} : merged[a] = header[a]
<1> DEFINE header == m.header
<1> DEFINE current == m.current
<1> DEFINE next == header[current].next
<1> DEFINE merged == [a \in DOMAIN header \ {next} |->
                        IF a = current
                        THEN [header[a] EXCEPT !.size = @ + BLOCK_HEADER_SIZE + header[next].size,
                                               !.next = header[next].next]
                        ELSE header[a]]
<1>1. /\ HeaderOK(header) /\ current \in DOMAIN header
      /\ m = [header |-> header, current |-> current]
      /\ current # NULL /\ next \in Pointers(header)
      /\ next # NULL /\ header[current].is_free /\ header[next].is_free
      /\ After(header, current) = next
  BY NextInList DEF Turning, HeaderOK, Addresses, NULL, Merging
<1>2. merge_turn(m) = [header |-> merged, current |-> current]
  BY <1>1 DEF merge_turn
<1>3. /\ next \in DOMAIN header /\ current < next /\ current # next
      /\ header[current] \in block_header_t /\ header[next] \in block_header_t
      /\ current \in Nat /\ next \in Nat
  BY <1>1, NextInList DEF Pointers, Addresses
<1>4. DOMAIN merged = DOMAIN header \ {next} /\ current \in DOMAIN merged
  BY <1>1, <1>3
<1>5. /\ merged[current].size = header[current].size + BLOCK_HEADER_SIZE + header[next].size
      /\ merged[current].next = header[next].next
      /\ merged[current].is_free = header[current].is_free
      /\ merged[current] \in block_header_t
  <2>1. merged[current] =
          [header[current] EXCEPT !.size = @ + BLOCK_HEADER_SIZE + header[next].size,
                                  !.next = header[next].next]
    BY <1>4
  <2>2. header[next].next \in Addresses \cup {NULL}
    BY <1>3 DEF block_header_t
  <2>3. header[current].size + BLOCK_HEADER_SIZE + header[next].size \in Nat
    BY <1>3, HeapAssumption DEF block_header_t
  <2> DEFINE M == merged[current]
  <2> DEFINE H == header[current]
  <2> DEFINE bytes == H.size + BLOCK_HEADER_SIZE + header[next].size
  <2> DEFINE beyond == header[next].next
  <2>4. H \in block_header_t /\ bytes \in Nat /\ beyond \in Addresses \cup {NULL}
        /\ M = [H EXCEPT !.size = bytes, !.next = beyond]
    BY <1>3, <2>1, <2>2, <2>3
  <2> HIDE DEF M, H, bytes, beyond
  <2>5. M.size = bytes /\ M.next = beyond /\ M.is_free = H.is_free /\ M \in block_header_t
    BY <2>4 DEF block_header_t
  <2>6. QED
    BY <2>5 DEF M, H, bytes, beyond
<1>6. \A a \in DOMAIN merged \ {current} : merged[a] = header[a]
  OBVIOUS
<1>7. merged \in [DOMAIN merged -> block_header_t]
  <2>1. \A a \in DOMAIN merged : merged[a] \in block_header_t
    BY <1>1, <1>4, <1>5, <1>6, NextInList
  <2> DEFINE M == merged
  <2>2. M = [a \in DOMAIN M |-> M[a]]
    OBVIOUS
  <2> HIDE DEF M
  <2>3. QED
    BY <2>1, <2>2 DEF M
<1> HIDE DEF merged
<1>8. After(merged, current) = After(header, next)
  <2>1. next = current + BLOCK_HEADER_SIZE + header[current].size
    BY <1>1 DEF After
  <2>2. /\ header[current].size \in Nat /\ header[next].size \in Nat
        /\ current \in Nat /\ BLOCK_HEADER_SIZE \in Nat
    BY <1>3, HeapAssumption DEF block_header_t
  <2>3. After(merged, current) = current + BLOCK_HEADER_SIZE + merged[current].size
    BY DEF After
  <2>4. After(header, next) = next + BLOCK_HEADER_SIZE + header[next].size
    BY DEF After
  <2> DEFINE here == header[current].size
  <2> DEFINE there == header[next].size
  <2> DEFINE both == merged[current].size
  <2>5. both = here + BLOCK_HEADER_SIZE + there
    BY <1>5
  <2> HIDE DEF next, here, there, both
  <2>6. current + BLOCK_HEADER_SIZE + both = next + BLOCK_HEADER_SIZE + there
    BY <2>1, <2>2, <2>5 DEF here, there
  <2>7. QED
    BY <2>3, <2>4, <2>6 DEF there, both
<1>9. merge_turn(m).header = merged
  BY <1>2
<1>10. QED
  BY <1>2, <1>3, <1>4, <1>5, <1>6, <1>7, <1>8, <1>9

\* A turn of merge_free_blocks keeps the tiling and the blocks in use.
LEMMA TurnOK ==
  ASSUME NEW first, NEW m, Turning(first, m)
  PROVE  Turning(first, merge_turn(m))
<1> DEFINE header == m.header
<1> DEFINE current == m.current
<1> DEFINE next == header[current].next
<1> DEFINE merged == merge_turn(m).header
<1>1. /\ HeaderOK(header) /\ current \in DOMAIN header /\ SameInUse(first, header)
      /\ m = [header |-> header, current |-> current]
      /\ current # NULL /\ next \in Pointers(header)
  BY NextInList DEF Turning, HeaderOK, Addresses, NULL
<1>2. CASE next = NULL
  BY <1>2 DEF merge_turn
<1>3. CASE next # NULL /\ ~Merging(m)
  <2>1. merge_turn(m) = [header |-> header, current |-> next]
    BY <1>1, <1>3 DEF merge_turn, Merging
  <2>2. next \in DOMAIN header
    BY <1>1, <1>3 DEF Pointers
  <2>3. QED
    BY <1>1, <2>1, <2>2 DEF Turning
<1>4. CASE Merging(m)
  <2>1. /\ merge_turn(m) = [header |-> merged, current |-> current]
        /\ next \in DOMAIN header /\ current < next /\ current # next
        /\ current \in Nat /\ next \in Nat
        /\ header[current].is_free /\ header[next].is_free /\ After(header, current) = next
    BY <1>4, TurnMerges DEF Merging
  <2>2. /\ merged \in [DOMAIN merged -> block_header_t]
        /\ DOMAIN merged = DOMAIN header \ {next} /\ current \in DOMAIN merged
        /\ merged[current].next = header[next].next
        /\ merged[current].is_free = header[current].is_free
        /\ After(merged, current) = After(header, next)
        /\ \A a \in DOMAIN merged \ {current} : merged[a] = header[a]
    BY <1>4, TurnMerges
  <2> HIDE DEF merged
  <2>3. \A a \in DOMAIN merged \ {current} : After(merged, a) = After(header, a)
    BY <2>2 DEF After
  <2>4. Tiling(merged)
    <3>1. heap_start \in DOMAIN merged
      <4>1. heap_start \in DOMAIN header /\ heap_start # next
        BY <1>1, <2>1 DEF HeaderOK, Tiling, heap_start
      <4>2. QED
        BY <2>2, <4>1
    <3>2. TiledFrom(merged, current)
      <4>1. /\ header[next].next = NULL => After(header, next) = HEAP_SIZE
            /\ header[next].next # NULL => /\ header[next].next = After(header, next)
                                           /\ After(header, next) \in DOMAIN header
                                           /\ After(header, next) # next
        BY <1>1, <2>1, NextInList DEF Pointers
      <4>2. ASSUME NEW b \in DOMAIN header, b # next, current < b
            PROVE  After(header, next) <= b
        <5>1. next <= b /\ b \in Nat
          BY <1>1, <1>4, <4>2, NextInList DEF HeaderOK, Addresses
        <5>2. next < b
          BY <2>1, <4>2, <5>1
        <5>3. QED
          BY <1>1, <2>1, <5>2, NextInList
      <4>3. QED
        BY <2>2, <4>1, <4>2 DEF TiledFrom
    <3>3. ASSUME NEW a \in DOMAIN merged, a # current PROVE TiledFrom(merged, a)
      <4>1. a \in DOMAIN header /\ TiledFrom(header, a) /\ a \in Nat
        BY <1>1, <2>2, NextInList DEF HeaderOK, Tiling, Addresses
      <4>2. header[a].next # next
        <5>1. CASE a < current
          BY <1>1, <2>1, <4>1, <5>1, NextInList
        <5>2. CASE current < a
          BY <1>1, <1>4, <2>1, <4>1, <5>2, NextInList
        <5>3. QED
          BY <2>1, <3>3, <4>1, <5>1, <5>2
      <4>3. QED
        BY <2>2, <2>3, <3>3, <4>1, <4>2 DEF TiledFrom
    <3>4. QED
      BY <3>1, <3>2, <3>3 DEF Tiling
  <2>5. HeaderOK(merged)
    BY <1>1, <2>2, <2>4 DEF HeaderOK
  <2>6. SameInUse(header, merged)
    BY <1>4, <2>1, <2>2 DEF SameInUse, InUse
  <2>7. SameInUse(first, merged)
    BY <1>1, <2>6 DEF SameInUse
  <2> DEFINE after == merge_turn(m)
  <2>8. /\ after.header = merged /\ after.current = current
        /\ after = [header |-> after.header, current |-> after.current]
    BY <2>1
  <2> HIDE DEF after
  <2>9. Turning(first, after)
    BY <2>2, <2>5, <2>7, <2>8 DEF Turning
  <2>10. QED
    BY <2>9 DEF after
<1>5. QED
  BY <1>2, <1>3, <1>4

\* The pairs the loop has passed are not free, and it has come k bytes far.
Passed(m, k) ==
  /\ \A a \in DOMAIN m.header :
       a < m.current /\ m.header[a].is_free /\ m.header[a].next # NULL
       => ~m.header[m.header[a].next].is_free
  /\ m.header[m.current].next = NULL \/ k < After(m.header, m.current)

\* Each turn takes the loop a byte further at least, past no free pair.
LEMMA TurnPasses ==
  ASSUME NEW first, NEW m, Turning(first, m), NEW k \in Nat, Passed(m, k)
  PROVE  Passed(merge_turn(m), k + 1)
<1> DEFINE header == m.header
<1> DEFINE current == m.current
<1> DEFINE next == header[current].next
<1> DEFINE merged == merge_turn(m).header
<1>1. /\ HeaderOK(header) /\ current \in DOMAIN header
      /\ current # NULL /\ next \in Pointers(header)
      /\ \A a \in DOMAIN header : a \in Nat /\ After(header, a) \in Nat
  BY NextInList DEF Turning, HeaderOK, Addresses, NULL
<1>2. CASE next = NULL
  <2>1. merge_turn(m) = m
    BY <1>2 DEF merge_turn
  <2>2. QED
    BY <1>2, <2>1 DEF Passed
<1>3. CASE next # NULL /\ ~Merging(m)
  <2>1. merge_turn(m) = [header |-> header, current |-> next]
    BY <1>1, <1>3 DEF merge_turn, Merging, Turning
  <2>2. next \in DOMAIN header /\ next = After(header, current) /\ next < After(header, next)
    BY <1>1, <1>3, NextInList DEF Pointers
  <2>3. k + 1 < After(header, next)
    BY <1>1, <1>3, <2>2 DEF Passed
  <2>4. ~(header[current].is_free /\ header[next].is_free)
    BY <1>3, <2>2 DEF Merging
  <2>5. ASSUME NEW a \in DOMAIN header, a < next,
               header[a].is_free, header[a].next # NULL
        PROVE  ~header[header[a].next].is_free
    <3>1. ~(current < a)
      BY <1>1, <2>2, <2>5, NextInList
    <3>2. CASE a < current
      BY <2>5, <3>2 DEF Passed
    <3>3. CASE a = current
      BY <2>4, <2>5, <3>3
    <3>4. QED
      BY <1>1, <3>1, <3>2, <3>3
  <2>6. merge_turn(m).header = header /\ merge_turn(m).current = next
    BY <2>1
  <2> HIDE DEF header, next
  <2>7. QED
    BY <2>3, <2>5, <2>6 DEF Passed
<1>4. CASE Merging(m)
  <2>1. /\ merge_turn(m) = [header |-> merged, current |-> current]
        /\ next \in DOMAIN header /\ current < next
        /\ header[current].is_free /\ After(header, current) = next
        /\ DOMAIN merged = DOMAIN header \ {next}
        /\ merged[current].next = header[next].next
        /\ merged[current].is_free = header[current].is_free
        /\ After(merged, current) = After(header, next)
        /\ \A a \in DOMAIN merged \ {current} : merged[a] = header[a]
    BY <1>4, TurnMerges DEF Merging
  <2>2. merge_turn(m) = [header |-> merged, current |-> current]
    BY <2>1
  <2> HIDE DEF merged
  <2>3. k + 1 < After(merged, current)
    <3>1. k < After(header, current) /\ next # NULL
      BY <1>4 DEF Passed, Merging
    <3>2. next < After(header, next) /\ next \in Nat /\ After(header, next) \in Nat
      BY <1>1, <2>1, NextInList
    <3>3. k < next /\ After(merged, current) = After(header, next)
      BY <2>1, <3>1
    <3> DEFINE end == After(header, next)
    <3> HIDE DEF next, end
    <3>4. k + 1 < end
      BY <3>2, <3>3 DEF end
    <3>5. QED
      BY <3>3, <3>4 DEF end
  <2>4. ASSUME NEW a \in DOMAIN merged, a < current,
               merged[a].is_free, merged[a].next # NULL
        PROVE  ~merged[merged[a].next].is_free
    <3>1. a \in DOMAIN header /\ a # current /\ merged[a] = header[a]
      <4>1. current \in Nat /\ a \in DOMAIN header
        BY <1>1, <2>1
      <4>2. a # current
        BY <2>4, <4>1
      <4>3. QED
        BY <2>1, <4>1, <4>2
    <3>2. ~header[header[a].next].is_free
      BY <2>4, <3>1 DEF Passed
    <3>3. header[a].next \in DOMAIN header /\ header[a].next # current /\ header[a].next # next
      <4>1. header[current].is_free /\ header[next].is_free
        BY <1>4 DEF Merging
      <4>2. header[a].next \in DOMAIN header
        BY <1>1, <2>4, <3>1, NextInList DEF Pointers
      <4>3. QED
        BY <3>2, <4>1, <4>2
    <3>4. QED
      BY <2>1, <3>1, <3>2, <3>3
  <2>5. merge_turn(m).header = merged /\ merge_turn(m).current = current
    BY <2>2
  <2> HIDE DEF header, current, next
  <2>6. QED
    BY <2>3, <2>4, <2>5 DEF Passed
<1>5. QED
  BY <1>2, <1>3, <1>4

\* After HEAP_SIZE turns there is nowhere left to go: the loop has ended.
LEMMA PassedAll ==
  ASSUME NEW first, NEW m, Turning(first, m), Passed(m, HEAP_SIZE)
  PROVE  NoFreePair(m.header)
<1> DEFINE header == m.header
<1>1. HeaderOK(header) /\ m.current \in DOMAIN header
  BY DEF Turning
<1>2. header[m.current].next = NULL /\ After(header, m.current) = HEAP_SIZE
  BY <1>1, NextInList, HeapAssumption DEF Passed
<1>3. ASSUME NEW a \in DOMAIN header, header[a].next # NULL PROVE a < m.current
  <2>1. a \in Nat /\ m.current \in Nat /\ a < HEAP_SIZE
    BY <1>1, HeapAssumption DEF HeaderOK, Addresses
  <2>2. ~(m.current < a)
    BY <1>1, <1>2, <2>1, NextInList, HeapAssumption
  <2>3. QED
    BY <1>2, <1>3, <2>1, <2>2
<1>4. QED
  BY <1>3 DEF NoFreePair, Passed

Headers == UNION {[D -> block_header_t] : D \in SUBSET Addresses}

\* So does the whole loop: its turns are an iteration over the headers so far.
LEMMA MergeOK ==
  ASSUME NEW first, HeaderOK(first)
  PROVE  /\ HeaderOK(merge_free_blocks(first)) /\ SameInUse(first, merge_free_blocks(first))
         /\ NoFreePair(merge_free_blocks(first))
<1> DEFINE S == {m \in [header : Headers, current : Addresses] : Turning(first, m)}
<1> DEFINE start == [header |-> first, current |-> heap_start]
<1> DEFINE turn == [m \in S |-> merge_turn(m)]
<1> DEFINE IsRun(f) ==
      f = [k \in 0 .. HEAP_SIZE |->
             IF k = 0 THEN [header |-> first, current |-> heap_start]
             ELSE merge_turn(f[k - 1])]
<1> DEFINE run == CHOOSE f : IsRun(f)
<1>1. ASSUME NEW m, Turning(first, m) PROVE m \in S
  <2>1. m.header \in Headers
    BY <1>1 DEF Turning, HeaderOK, Headers
  <2>2. m.current \in Addresses
    BY <1>1 DEF Turning, HeaderOK
  <2>3. m = [header |-> m.header, current |-> m.current]
    BY <1>1 DEF Turning
  <2>4. m \in [header : Headers, current : Addresses]
    BY <2>1, <2>2, <2>3
  <2>5. QED
    BY <1>1, <2>4
<1>2. Turning(first, start)
  BY DEF Turning, HeaderOK, Tiling, SameInUse
<1>3. start \in S
  BY <1>1, <1>2
<1>4. turn \in [S -> S]
  <2>1. ASSUME NEW m \in S PROVE merge_turn(m) \in S
    BY <1>1, TurnOK
  <2> HIDE DEF S
  <2>2. QED
    BY <2>1
<1>5. PICK f \in [0 .. HEAP_SIZE -> S] : IsIteration(f, HEAP_SIZE, start, turn)
  <2>1. HEAP_SIZE \in Nat
    BY HeapAssumption
  <2> HIDE DEF S, start, turn
  <2>2. QED
    BY <1>3, <1>4, <2>1, Iterates
<1>6. IsRun(f)
  <2> HIDE DEF S
  <2>1. ASSUME NEW k \in 1 .. HEAP_SIZE PROVE f[k] = merge_turn(f[k - 1])
    <3>1. k - 1 \in 0 .. HEAP_SIZE
      BY HeapAssumption
    <3>2. f[k - 1] \in S /\ f[k] = turn[f[k - 1]]
      BY <1>5, <3>1 DEF IsIteration
    <3>3. QED
      BY <3>2
  <2>2. f[0] = start
    BY <1>5 DEF IsIteration
  <2>3. QED
    BY <2>1, <2>2
<1>7. IsRun(run)
  <2> HIDE DEF IsRun
  <2>1. QED
    BY <1>6
<1> HIDE DEF run
<1> DEFINE P == {k \in 0 .. HEAP_SIZE : Turning(first, run[k]) /\ Passed(run[k], k)}
<1>8. 0 \in P
  <2>1. Passed(start, 0)
    <3>1. \A a \in DOMAIN first : a \in Nat
      BY DEF HeaderOK, Addresses
    <3>2. 0 < After(first, heap_start)
      BY NextInList DEF HeaderOK, Tiling, heap_start
    <3>3. QED
      BY <3>1, <3>2 DEF Passed, heap_start
  <2>2. run[0] = start /\ 0 \in 0 .. HEAP_SIZE
    BY <1>7, HeapAssumption
  <2>3. QED
    BY <1>2, <2>1, <2>2
<1>9. ASSUME NEW k \in 0 .. HEAP_SIZE - 1, k \in P PROVE k + 1 \in P
  <2>1. k \in Nat /\ k + 1 \in 0 .. HEAP_SIZE /\ run[k + 1] = merge_turn(run[k])
    BY <1>7, HeapAssumption
  <2>2. Turning(first, run[k]) /\ Passed(run[k], k)
    BY <1>9
  <2>3. QED
    BY <2>1, <2>2, TurnOK, TurnPasses
<1>10. P = 0 .. HEAP_SIZE
  <2>1. P \in SUBSET (0 .. HEAP_SIZE)
    OBVIOUS
  <2> HIDE DEF P
  <2>2. QED
    BY <1>8, <1>9, <2>1, RangeInduction, HeapAssumption
<1>11. Turning(first, run[HEAP_SIZE]) /\ Passed(run[HEAP_SIZE], HEAP_SIZE)
  BY <1>10, HeapAssumption
<1>12. merge_free_blocks(first) = run[HEAP_SIZE].header
  BY DEF merge_free_blocks, run
<1>13. QED
  BY <1>11, <1>12, PassedAll DEF Turning

\* kfree takes its block out of those in use and touches no other.
LEMMA ReleasedOK ==
  ASSUME NEW h, HeaderOK(h.header), NEW block \in DOMAIN h.header, ~h.header[block].is_free
  PROVE  LET new == Released(h, block).header
         IN /\ HeaderOK(new) /\ NoFreePair(new)
            /\ InUse(new) = InUse(h.header) \ {block}
            /\ \A a \in InUse(new) : new[a].size = h.header[a].size
<1> DEFINE marked == [h.header EXCEPT ![block].is_free = TRUE]
<1> DEFINE new == Released(h, block).header
<1>1. new = merge_free_blocks(marked)
  BY DEF Released
<1>2. HeaderOK(marked)
  BY MarkOK
<1>3. h.header[block] \in block_header_t
  BY NextInList
<1>4. /\ DOMAIN marked = DOMAIN h.header
      /\ marked[block].is_free
      /\ \A a \in DOMAIN h.header \ {block} : marked[a] = h.header[a]
  BY <1>3 DEF block_header_t
<1> HIDE DEF marked, new
<1>5. HeaderOK(new) /\ SameInUse(marked, new) /\ NoFreePair(new)
  BY <1>1, <1>2, MergeOK
<1>6. InUse(marked) = InUse(h.header) \ {block}
  BY <1>4 DEF InUse
<1>7. QED
  BY <1>4, <1>5, <1>6 DEF SameInUse, InUse, new

-----------------------------------------------------------------------------
(* The invariant. *)

IInv == TypeOK /\ Tiled /\ NoFreePair(heap.header)

\* The invariant in the form the lemmas about one header map use.
LEMMA IInvHeaderOK == IInv => HeaderOK(heap.header) /\ NoFreePair(heap.header)
  BY DEF IInv, TypeOK, Tiled, HeaderOK

\* memory_init makes one block that spans the heap.
LEMMA InitIInv == Init => IInv
<1> SUFFICES ASSUME Init PROVE IInv
  OBVIOUS
<1> DEFINE first == heap.header
<1>1. /\ first = [a \in {heap_start} |-> [size |-> HEAP_SIZE - BLOCK_HEADER_SIZE,
                                          is_free |-> TRUE, next |-> NULL]]
      /\ heap.used_memory = BLOCK_HEADER_SIZE
      /\ heap.free_memory = HEAP_SIZE - BLOCK_HEADER_SIZE
      /\ heap.num_allocations = 0
  BY DEF Init, memory_init
<1>2. DOMAIN first = {heap_start} /\ heap_start \in Addresses
  BY <1>1, HeapAssumption DEF heap_start, Addresses
<1>3. first[heap_start] = [size |-> HEAP_SIZE - BLOCK_HEADER_SIZE,
                           is_free |-> TRUE, next |-> NULL]
  BY <1>1
<1>4. first[heap_start] \in block_header_t
  BY <1>3, HeapAssumption DEF block_header_t
<1>5. first \in [DOMAIN first -> block_header_t]
  BY <1>1, <1>2, <1>4
<1>6. After(first, heap_start) = HEAP_SIZE
  BY <1>3, HeapAssumption DEF After, heap_start
<1>7. Tiling(first)
  BY <1>2, <1>3, <1>6 DEF Tiling, TiledFrom, heap_start
<1>8. NoFreePair(first)
  BY <1>2, <1>3 DEF NoFreePair
<1>9. QED
  BY <1>1, <1>2, <1>5, <1>7, <1>8, HeapAssumption DEF IInv, TypeOK, Tiled

\* Every call keeps the types and the tiling.
LEMMA NextIInv == IInv /\ [Next]_heap => IInv'
<1> SUFFICES ASSUME IInv, [Next]_heap PROVE IInv'
  OBVIOUS
<1> DEFINE Ranged(h) == /\ h.used_memory \in 0 .. WORD - 1
                        /\ h.free_memory \in 0 .. WORD - 1
                        /\ h.num_allocations \in 0 .. WORD - 1
<1>1. HeaderOK(heap.header) /\ NoFreePair(heap.header)
  BY IInvHeaderOK
<1>2. SUFFICES HeaderOK(heap'.header) /\ NoFreePair(heap'.header) /\ Ranged(heap')
  BY DEF IInv, TypeOK, Tiled, HeaderOK
<1>3. Ranged(heap)
  BY DEF IInv, TypeOK
<1>4. CASE heap' = heap
  BY <1>1, <1>3, <1>4
<1>5. ASSUME NEW size \in Requests, kmalloc(size), heap' # heap
      PROVE  HeaderOK(heap'.header) /\ NoFreePair(heap'.header) /\ Ranged(heap')
  <2> DEFINE block == KmallocBlock(heap, size)
  <2>1. block # NULL /\ heap' = Taken(heap, block, Rounded(size))
    BY <1>5 DEF kmalloc, Kmalloc
  <2>2. Rounded(size) \in Nat
    BY HeapAssumption, RoundedType
  <2>3. block = find_free_block(heap.header, Rounded(size))
    BY <2>1 DEF KmallocBlock
  <2>4. HeaderOK(heap'.header) /\ NoFreePair(heap'.header)
    BY <1>1, <2>1, <2>2, <2>3, Found, TakenOK, TakenNoFreePair
  <2>5. heap.header[block] \in block_header_t
    BY <1>1, <2>1, <2>2, <2>3, Found, NextInList
  <2> HIDE DEF block
  <2>6. \E bytes \in Int :
          /\ heap'.used_memory = (heap.used_memory + bytes) % WORD
          /\ heap'.free_memory = (heap.free_memory - bytes) % WORD
    <3> DEFINE header == IF heap.header[block].size > Rounded(size) + BLOCK_HEADER_SIZE
                                                        + MIN_BLOCK_SIZE
                         THEN split_block(heap.header, block, Rounded(size))
                         ELSE heap.header
    <3>1. header[block].size \in Nat
      BY <1>1, <2>2, <2>3, <2>1, <2>5, Found, SplitOK DEF block_header_t
    <3>2. header[block].size + BLOCK_HEADER_SIZE \in Int
      BY <3>1, HeapAssumption
    <3>3. QED
      BY <2>1, <3>2 DEF Taken
  <2>7. heap'.num_allocations = (heap.num_allocations + 1) % WORD
    BY <2>1 DEF Taken
  <2>8. QED
    BY <1>3, <2>4, <2>6, <2>7, HeapAssumption
<1>6. ASSUME NEW block \in DOMAIN heap.header \cup {NULL}, kfree(block), heap' # heap
      PROVE  HeaderOK(heap'.header) /\ NoFreePair(heap'.header) /\ Ranged(heap')
  <2>1. /\ block \in DOMAIN heap.header /\ ~heap.header[block].is_free
        /\ heap' = Released(heap, block)
    BY <1>6 DEF kfree, Kfree
  <2>2. HeaderOK(heap'.header) /\ NoFreePair(heap'.header)
    BY <1>1, <2>1, ReleasedOK
  <2>3. heap.header[block] \in block_header_t
    BY <1>1, <2>1, NextInList
  <2>4. PICK bytes \in Int :
          /\ heap'.used_memory = (heap.used_memory - bytes) % WORD
          /\ heap'.free_memory = (heap.free_memory + bytes) % WORD
    <3>1. heap.header[block].size + BLOCK_HEADER_SIZE \in Int
      BY <2>3, HeapAssumption DEF block_header_t
    <3>2. QED
      BY <2>1, <3>1 DEF Released
  <2>5. heap'.num_allocations = (heap.num_allocations - 1) % WORD
    BY <2>1 DEF Released
  <2>6. QED
    BY <1>3, <2>2, <2>4, <2>5, HeapAssumption
<1>7. QED
  BY <1>4, <1>5, <1>6 DEF Next

(* IInv holds in every reachable state. *)
THEOREM HeapInvariant == Spec => []IInv
  BY InitIInv, NextIInv, PTL DEF Spec

(* Every header of the list and every counter keeps its C type. *)
THEOREM HeapTypeCorrect == Spec => []TypeOK
<1>1. IInv => TypeOK
  BY DEF IInv
<1>2. QED
  BY <1>1, HeapInvariant, PTL

(* The blocks tile the heap, whatever its size, after any sequence of calls. *)
THEOREM HeapTiled == Spec => []Tiled
<1>1. IInv => Tiled
  BY DEF IInv
<1>2. QED
  BY <1>1, HeapInvariant, PTL
-----------------------------------------------------------------------------
(* Giving up. *)

\* Every byte of the heap is in a block, its header counted.
LEMMA Covered ==
  ASSUME NEW header, HeaderOK(header), NEW lo \in Addresses
  PROVE  \E a \in DOMAIN header : a <= lo /\ lo < After(header, a)
<1> DEFINE In(x, a) == a <= x /\ x < After(header, a)
<1> DEFINE P == {x \in 0 .. HEAP_SIZE - 1 : \E a \in DOMAIN header : In(x, a)}
<1>1. 0 \in P
  <2>1. heap_start \in DOMAIN header /\ In(0, heap_start)
    BY NextInList DEF HeaderOK, Tiling, heap_start
  <2>2. QED
    BY <2>1, HeapAssumption
<1>2. ASSUME NEW x \in 0 .. HEAP_SIZE - 2, x \in P PROVE x + 1 \in P
  <2>1. PICK a \in DOMAIN header : In(x, a)
    BY <1>2
  <2>2. /\ a \in Nat /\ After(header, a) \in Nat
        /\ header[a].next = NULL => After(header, a) = HEAP_SIZE
        /\ header[a].next # NULL => /\ header[a].next = After(header, a)
                                    /\ header[a].next \in DOMAIN header
                                    /\ After(header, a) < After(header, header[a].next)
    BY NextInList DEF Addresses, Pointers
  <2>3. CASE x + 1 < After(header, a)
    BY <2>1, <2>2, <2>3, HeapAssumption
  <2>4. CASE x + 1 = After(header, a)
    <3>1. header[a].next # NULL
      BY <2>2, <2>4, HeapAssumption
    <3>2. In(x + 1, header[a].next)
      BY <2>2, <2>4, <3>1
    <3>3. QED
      BY <2>2, <3>1, <3>2, HeapAssumption
  <2>5. QED
    BY <2>1, <2>2, <2>3, <2>4
<1>3. P = 0 .. HEAP_SIZE - 1
  <2>1. P \in SUBSET (0 .. HEAP_SIZE - 1) /\ HEAP_SIZE - 1 \in Nat /\ HEAP_SIZE - 1 - 1 = HEAP_SIZE - 2
    BY HeapAssumption
  <2> HIDE DEF P
  <2>2. QED
    BY <1>1, <1>2, <2>1, RangeInduction
<1>4. QED
  BY <1>3 DEF Addresses

\* A walk along the list comes by every block.
LEMMA WalkReaches ==
  ASSUME NEW header, HeaderOK(header), NEW a \in DOMAIN header
  PROVE  \E k \in 0 .. HEAP_SIZE : Walk(header)[k] = a
<1> SUFFICES ASSUME \A k \in 0 .. HEAP_SIZE : Walk(header)[k] # a
             PROVE  FALSE
  OBVIOUS
<1> DEFINE at == Walk(header)
<1> DEFINE P == {k \in 0 .. HEAP_SIZE : at[k] \in DOMAIN header /\ at[k] < a /\ k <= at[k]}
<1>1. a \in Addresses
  BY NextInList
<1>2. 0 \in P
  <2>1. at[0] = 0 /\ 0 \in DOMAIN header /\ 0 \in 0 .. HEAP_SIZE
    BY WalkDef, HeapAssumption DEF HeaderOK, Tiling, heap_start
  <2>2. a # 0
    BY <2>1
  <2>3. QED
    BY <1>1, <2>1, <2>2 DEF Addresses
<1>3. ASSUME NEW k \in 0 .. HEAP_SIZE - 1, k \in P PROVE k + 1 \in P
  <2> DEFINE here == at[k]
  <2>1. here \in DOMAIN header /\ here < a /\ k <= here
    BY <1>3
  <2>2. /\ here \in Nat /\ After(header, here) \in Nat /\ here < After(header, here)
        /\ After(header, here) <= a
        /\ header[here].next = NULL => After(header, here) = HEAP_SIZE
        /\ header[here].next # NULL => header[here].next = After(header, here)
        /\ header[here].next \in Pointers(header)
    BY <2>1, NextInList DEF Addresses
  <2>3. header[here].next # NULL
    BY <1>1, <2>2, HeapAssumption DEF Addresses
  <2>4. at[k + 1] = header[here].next /\ k + 1 \in 0 .. HEAP_SIZE
    <3>1. k + 1 \in 1 .. HEAP_SIZE /\ (k + 1) - 1 = k /\ here # NULL
      BY <2>2, HeapAssumption DEF NULL
    <3>2. QED
      BY <3>1, WalkDef
  <2>5. at[k + 1] # a
    BY <2>4
  <2> HIDE DEF here, at
  <2>6. at[k + 1] \in DOMAIN header
    BY <2>2, <2>3, <2>4 DEF Pointers
  <2>7. at[k + 1] < a /\ k + 1 <= at[k + 1]
    BY <1>1, <2>1, <2>2, <2>3, <2>4, <2>5 DEF Addresses
  <2>8. QED
    BY <2>4, <2>6, <2>7
<1>4. HEAP_SIZE \in P
  <2>1. P \in SUBSET (0 .. HEAP_SIZE) /\ HEAP_SIZE \in Nat
    BY HeapAssumption
  <2> HIDE DEF P
  <2>2. P = 0 .. HEAP_SIZE
    BY <1>2, <1>3, <2>1, RangeInduction
  <2>3. QED
    BY <2>1, <2>2
<1>5. QED
  BY <1>1, <1>4, HeapAssumption DEF Addresses, HeaderOK

\* So find_free_block gives up only when no free block is long enough.
LEMMA NotFound ==
  ASSUME NEW header, HeaderOK(header), NEW size, find_free_block(header, size) = NULL,
         NEW a \in DOMAIN header, header[a].is_free
  PROVE  ~(header[a].size >= size)
<1> DEFINE at == Walk(header)
<1> DEFINE fits == {k \in 0 .. HEAP_SIZE :
                      at[k] # NULL /\ header[at[k]].is_free /\ header[at[k]].size >= size}
<1>1. SUFFICES ASSUME header[a].size >= size PROVE FALSE
  OBVIOUS
<1>2. PICK k \in 0 .. HEAP_SIZE : at[k] = a
  BY WalkReaches
<1>3. k \in fits
  <2>1. a # NULL
    BY NextInList DEF Addresses, NULL
  <2>2. QED
    BY <1>1, <1>2, <2>1
<1>4. Min(fits) \in fits
  <2>1. fits \in SUBSET Nat /\ fits # {}
    BY <1>3, HeapAssumption
  <2> HIDE DEF fits
  <2>2. QED
    BY <2>1, MinOfNaturals
<1>5. find_free_block(header, size) = at[Min(fits)]
  BY <1>3 DEF find_free_block
<1>6. QED
  BY <1>4, <1>5

\* A gap begins in a free block, and what ends it is the block in use behind.
LEMMA GapFits ==
  ASSUME NEW h, HeaderOK(h.header), NoFreePair(h.header), NEW n \in Nat \ {0},
         NEW lo \in 0 .. HEAP_SIZE - n, Gap(h, lo, n)
  PROVE  \E a \in DOMAIN h.header :
            h.header[a].is_free /\ BLOCK_HEADER_SIZE + h.header[a].size >= n
<1> DEFINE header == h.header
<1>1. lo \in Addresses
  BY HeapAssumption DEF Addresses
<1>2. PICK a \in DOMAIN header : a <= lo /\ lo < After(header, a)
  BY <1>1, Covered
<1>3. /\ a \in Nat /\ header[a].size \in Nat
      /\ After(header, a) = a + BLOCK_HEADER_SIZE + header[a].size
  BY NextInList DEF Addresses, After, block_header_t
<1>4. header[a].is_free
  BY <1>2, <1>3, HeapAssumption DEF Gap, Used
<1>5. SUFFICES ASSUME BLOCK_HEADER_SIZE + header[a].size < n PROVE FALSE
  BY <1>3, <1>4, HeapAssumption
<1>6. After(header, a) < lo + n /\ lo + n <= HEAP_SIZE
  BY <1>2, <1>3, <1>5, HeapAssumption
<1> DEFINE b == header[a].next
<1>7. b \in DOMAIN header /\ b = After(header, a) /\ ~header[b].is_free
  BY <1>3, <1>4, <1>6, NextInList, HeapAssumption DEF Pointers, NoFreePair
<1>8. b < After(header, b) /\ After(header, b) \in Nat /\ b \in Nat
  BY <1>7, NextInList DEF Addresses
<1>9. lo + n <= b \/ After(header, b) <= lo
  BY <1>7 DEF Gap, Used
<1> HIDE DEF b
<1>10. QED
  BY <1>1, <1>2, <1>6, <1>7, <1>8, <1>9 DEF Addresses

(* kmalloc gives up only when no gap between the blocks in use has room for
   what is asked for and a header, for every size of heap and every request. *)
THEOREM HeapFailsOnlyWhenFull == Spec => []FailsOnlyWhenFull
<1>1. IInv => FailsOnlyWhenFull
  <2> SUFFICES ASSUME IInv, NEW size \in Requests \ {0}, KmallocBlock(heap, size) = NULL,
                      NEW lo \in 0 .. HEAP_SIZE - (Rounded(size) + BLOCK_HEADER_SIZE),
                      Gap(heap, lo, Rounded(size) + BLOCK_HEADER_SIZE)
               PROVE  FALSE
    BY DEF FailsOnlyWhenFull
  <2>1. Rounded(size) \in Nat
    BY HeapAssumption, RoundedType
  <2>2. Rounded(size) + BLOCK_HEADER_SIZE \in Nat \ {0}
    BY <2>1, HeapAssumption
  <2>3. find_free_block(heap.header, Rounded(size)) = NULL
    BY DEF KmallocBlock
  <2>4. HeaderOK(heap.header) /\ NoFreePair(heap.header)
    BY IInvHeaderOK
  <2>5. PICK a \in DOMAIN heap.header :
          /\ heap.header[a].is_free
          /\ BLOCK_HEADER_SIZE + heap.header[a].size >= Rounded(size) + BLOCK_HEADER_SIZE
    BY <2>2, <2>4, GapFits
  <2>6. heap.header[a].size >= Rounded(size)
    BY <2>1, <2>4, <2>5, NextInList, HeapAssumption DEF block_header_t
  <2>7. QED
    BY <2>3, <2>4, <2>5, <2>6, NotFound
<1>2. QED
  BY <1>1, HeapInvariant, PTL

-----------------------------------------------------------------------------
(* The refinement. *)

\* The regions are the data of the blocks in use.
LEMMA RegionsDef ==
  ASSUME NEW h, HeaderOK(h.header)
  PROVE  /\ DOMAIN Regions(h) = {a + BLOCK_HEADER_SIZE : a \in InUse(h.header)}
         /\ \A a \in InUse(h.header) :
              Regions(h)[a + BLOCK_HEADER_SIZE] = h.header[a].size
<1>1. \A a \in InUse(h.header) : (a + BLOCK_HEADER_SIZE) - BLOCK_HEADER_SIZE = a
  BY NextInList, HeapAssumption DEF InUse, Addresses
<1>2. QED
  BY <1>1 DEF Regions, Used, InUse

\* kmalloc of a block is the request for its size.
LEMMA KmallocRefines ==
  ASSUME HeaderOK(heap.header), NEW size \in Requests,
         kmalloc(size), KmallocBlock(heap, size) # NULL
  PROVE  Abstract!Allocate(size, pointer(KmallocBlock(heap, size)))
<1> DEFINE block == KmallocBlock(heap, size)
<1> DEFINE header == heap.header
<1> DEFINE new == heap'.header
<1> DEFINE p == block + BLOCK_HEADER_SIZE
<1> DEFINE n == new[block].size
<1> DEFINE old == Regions(heap)
<1>1. heap' = Taken(heap, block, Rounded(size))
  BY DEF kmalloc, Kmalloc
<1>2. Rounded(size) \in Nat /\ (Rounded(size) >= size \/ Wraps(size)) /\ size \in Nat
  BY HeapAssumption, RoundedType
<1>3. block \in DOMAIN header /\ header[block].is_free /\ header[block].size >= Rounded(size)
  BY <1>2, Found DEF KmallocBlock
<1>4. /\ HeaderOK(new)
      /\ InUse(new) = InUse(header) \cup {block}
      /\ \A a \in InUse(header) : new[a].size = header[a].size
      /\ new[block].size >= Rounded(size)
      /\ block \notin InUse(header)
  BY <1>1, <1>2, <1>3, TakenOK
<1> HIDE DEF block, new, header
<1>5. block \in DOMAIN new /\ \A a \in InUse(header) : a \in DOMAIN new /\ a # block
  BY <1>4 DEF InUse
<1>6. \A a \in DOMAIN new : /\ a \in Nat /\ new[a].size \in Nat
                            /\ After(new, a) = a + BLOCK_HEADER_SIZE + new[a].size
                            /\ After(new, a) <= HEAP_SIZE
  BY <1>4, NextInList DEF After, Addresses, block_header_t
<1>7. \A a, b \in DOMAIN new : a < b => After(new, a) <= b
  BY <1>4, NextInList
<1>8. p \in BLOCK_HEADER_SIZE .. HEAP_SIZE /\ n \in 0 .. HEAP_SIZE - p
  BY <1>5, <1>6, HeapAssumption
<1>9. n >= size \/ Wraps(size)
  BY <1>2, <1>4, <1>5, <1>6
<1>10. /\ DOMAIN old = {a + BLOCK_HEADER_SIZE : a \in InUse(header)}
       /\ \A a \in InUse(header) : old[a + BLOCK_HEADER_SIZE] = new[a].size
  BY <1>4, RegionsDef DEF header
<1>11. /\ DOMAIN Regions(heap') = {a + BLOCK_HEADER_SIZE : a \in InUse(new)}
       /\ \A a \in InUse(new) : Regions(heap')[a + BLOCK_HEADER_SIZE] = new[a].size
  BY <1>4, RegionsDef DEF new
<1>12. ASSUME NEW q \in DOMAIN old
       PROVE  q # p /\ (p + n <= q - BLOCK_HEADER_SIZE \/ q + old[q] <= p - BLOCK_HEADER_SIZE)
  <2>1. PICK a \in InUse(header) : q = a + BLOCK_HEADER_SIZE
    BY <1>10
  <2>2. a \in DOMAIN new /\ a # block /\ a \in Nat /\ block \in Nat /\ old[q] = new[a].size
    BY <1>5, <1>6, <1>10, <2>1
  <2>3. CASE a < block
    BY <1>5, <1>6, <1>7, <2>1, <2>2, <2>3, HeapAssumption
  <2>4. CASE block < a
    BY <1>5, <1>6, <1>7, <2>1, <2>2, <2>4, HeapAssumption
  <2>5. QED
    BY <2>2, <2>3, <2>4
<1>13. Regions(heap') = [q \in DOMAIN old \cup {p} |-> IF q = p THEN n ELSE old[q]]
  <2> DEFINE R == Regions(heap')
  <2>1. DOMAIN R = DOMAIN old \cup {p}
    BY <1>4, <1>10, <1>11
  <2>2. ASSUME NEW q \in DOMAIN R PROVE R[q] = IF q = p THEN n ELSE old[q]
    <3>1. CASE q = p
      BY <1>4, <1>11, <3>1
    <3>2. CASE q # p
      <4>1. q \in DOMAIN old
        BY <2>1, <2>2, <3>2
      <4>2. PICK a \in InUse(header) : q = a + BLOCK_HEADER_SIZE
        BY <1>10, <4>1
      <4>3. QED
        BY <1>4, <1>10, <1>11, <3>2, <4>2
    <3>3. QED
      BY <3>1, <3>2
  <2>3. R = [q \in DOMAIN R |-> R[q]]
    BY DEF Regions
  <2> HIDE DEF R, p, n, old
  <2>4. R = [q \in DOMAIN old \cup {p} |-> IF q = p THEN n ELSE old[q]]
    BY <2>1, <2>2, <2>3
  <2>5. QED
    BY <2>4 DEF R
<1> HIDE DEF p, n, old
<1>14. p \notin DOMAIN old
  BY <1>12
<1>15. Abstract!Clear(p, n)
  BY <1>12 DEF Abstract!Clear, old
<1>16. QED
  BY <1>8, <1>9, <1>13, <1>14, <1>15 DEF Abstract!Allocate, old, pointer, p, block

\* kfree of a block in use gives its region back.
LEMMA KfreeRefines ==
  ASSUME HeaderOK(heap.header), NEW block \in DOMAIN heap.header,
         ~heap.header[block].is_free, kfree(block)
  PROVE  Abstract!Free(pointer(block))
<1> DEFINE header == heap.header
<1> DEFINE new == heap'.header
<1> DEFINE p == block + BLOCK_HEADER_SIZE
<1> DEFINE old == Regions(heap)
<1> DEFINE R == Regions(heap')
<1>1. heap' = Released(heap, block)
  <2>1. block # NULL
    BY NextInList DEF Addresses, NULL
  <2>2. QED
    BY <2>1 DEF kfree, Kfree
<1>2. /\ HeaderOK(new)
      /\ InUse(new) = InUse(header) \ {block}
      /\ \A a \in InUse(new) : new[a].size = header[a].size
  BY <1>1, ReleasedOK
<1>3. block \in InUse(header) /\ \A a \in InUse(header) : a \in Nat
  BY NextInList DEF InUse, Addresses
<1>4. /\ DOMAIN old = {a + BLOCK_HEADER_SIZE : a \in InUse(header)}
      /\ \A a \in InUse(header) : old[a + BLOCK_HEADER_SIZE] = header[a].size
  BY RegionsDef
<1>5. /\ DOMAIN R = {a + BLOCK_HEADER_SIZE : a \in InUse(new)}
      /\ \A a \in InUse(new) : R[a + BLOCK_HEADER_SIZE] = new[a].size
  BY <1>2, RegionsDef
<1>6. R = [q \in DOMAIN R |-> R[q]]
  BY DEF Regions
<1> HIDE DEF header, new, old, R
<1>7. p \in DOMAIN old
  BY <1>3, <1>4
<1>8. DOMAIN R = DOMAIN old \ {p}
  <2>1. \A a \in InUse(header) : a + BLOCK_HEADER_SIZE = p => a = block
    BY <1>3, HeapAssumption
  <2>2. QED
    BY <1>2, <1>4, <1>5, <2>1
<1>9. \A q \in DOMAIN R : R[q] = old[q]
  BY <1>2, <1>4, <1>5
<1>10. R = [q \in DOMAIN old \ {p} |-> old[q]]
  BY <1>6, <1>8, <1>9
<1>11. QED
  BY <1>7, <1>10 DEF Abstract!Free, R, old, pointer

(* Whatever the sizes, the heap behaves as the abstract allocator and every
   call does its own part of it: kmalloc returns a region as long as it was
   asked for, unless that request itself wraps, which overlaps none in use;
   kfree gives back the region it was called with; no other region changes. *)
THEOREM HeapImplementsAllocator == Spec => ImplementsAllocator
<1> DEFINE Served == /\ \A size \in Requests : kmalloc(size) => kmalloc_served(size)
                     /\ \A block \in DOMAIN heap.header \cup {NULL} :
                          kfree(block) => kfree_served(block)
<1>1. Init => Abstract!Init
  <2> SUFFICES ASSUME Init PROVE Abstract!Init
    OBVIOUS
  <2>1. Used(heap) = {}
    BY DEF Init, memory_init, Used
  <2>2. QED
    BY <2>1 DEF Abstract!Init, Regions
<1>2. ASSUME IInv, NEW size \in Requests, kmalloc(size) PROVE kmalloc_served(size)
  <2>1. CASE KmallocBlock(heap, size) = NULL
    BY <1>2, <2>1 DEF kmalloc, Kmalloc, kmalloc_served
  <2>2. CASE KmallocBlock(heap, size) # NULL
    BY <1>2, <2>2, IInvHeaderOK, KmallocRefines DEF kmalloc_served
  <2>3. QED
    BY <2>1, <2>2
<1>3. ASSUME IInv, NEW block \in DOMAIN heap.header \cup {NULL}, kfree(block)
      PROVE  kfree_served(block)
  <2>1. NULL \notin DOMAIN heap.header
    BY <1>3, IInvHeaderOK, NextInList DEF Addresses, NULL
  <2>2. CASE block \in Used(heap)
    BY <1>3, <2>2, IInvHeaderOK, KfreeRefines DEF kfree_served, Used
  <2>3. CASE block \notin Used(heap)
    BY <1>3, <2>1, <2>3 DEF kfree, Kfree, kfree_served, Used
  <2>4. QED
    BY <2>2, <2>3
<1>4. IInv /\ [Next]_heap => [Abstract!Next]_(Regions(heap))
  <2> SUFFICES ASSUME IInv, [Next]_heap
               PROVE  Abstract!Next \/ UNCHANGED Regions(heap)
    OBVIOUS
  <2>1. CASE heap' = heap
    BY <2>1
  <2>2. ASSUME NEW size \in Requests, kmalloc(size)
        PROVE  Abstract!Next \/ UNCHANGED Regions(heap)
    <3> DEFINE p == pointer(KmallocBlock(heap, size))
    <3>1. CASE UNCHANGED Regions(heap)
      BY <3>1
    <3>2. CASE Abstract!Allocate(size, p)
      <4>1. p \in BLOCK_HEADER_SIZE .. HEAP_SIZE
        BY <3>2 DEF Abstract!Allocate
      <4>2. QED
        BY <3>2, <4>1 DEF Abstract!Next
    <3>3. QED
      BY <1>2, <2>2, <3>1, <3>2 DEF kmalloc_served
  <2>3. ASSUME NEW block \in DOMAIN heap.header \cup {NULL}, kfree(block)
        PROVE  Abstract!Next \/ UNCHANGED Regions(heap)
    <3>1. CASE UNCHANGED Regions(heap)
      BY <3>1
    <3>2. CASE Abstract!Free(pointer(block))
      BY <3>2 DEF Abstract!Next, Abstract!Free
    <3>3. QED
      BY <1>3, <2>3, <3>1, <3>2 DEF kfree_served
  <2>4. QED
    BY <2>1, <2>2, <2>3 DEF Next
<1>5. IInv /\ [Next]_heap => [Served]_heap
  BY <1>2, <1>3
<1>6. Spec => Abstract!Spec
  BY <1>1, <1>4, HeapInvariant, PTL DEF Spec, Abstract!Spec
<1>7. Spec => [][Served]_heap
  BY <1>5, HeapInvariant, PTL DEF Spec
<1>8. QED
  BY <1>6, <1>7 DEF ImplementsAllocator

-----------------------------------------------------------------------------
(* The counters. *)

\* The bytes of some of the blocks.
Span(header, blocks) ==
  {b \in Addresses : \E a \in blocks : a <= b /\ b < After(header, a)}

\* Blocks do not overlap, so a block adds its own bytes to those of others.
LEMMA SpanJoins ==
  ASSUME NEW header, HeaderOK(header), NEW blocks \in SUBSET (DOMAIN header),
         NEW a \in DOMAIN header, a \notin blocks
  PROVE  /\ Cardinality(Span(header, blocks)) \in 0 .. HEAP_SIZE
         /\ Cardinality(Span(header, blocks \cup {a})) \in 0 .. HEAP_SIZE
         /\ After(header, a) - a \in Nat
         /\ Cardinality(Span(header, blocks \cup {a})) =
              Cardinality(Span(header, blocks)) + (After(header, a) - a)
<1> DEFINE S == Span(header, blocks)
<1> DEFINE T == a .. After(header, a) - 1
<1>1. /\ a \in Nat /\ After(header, a) \in Nat /\ a < After(header, a)
      /\ After(header, a) <= HEAP_SIZE
      /\ \A b \in DOMAIN header : a < b => After(header, a) <= b
  BY NextInList DEF Addresses
<1>2. IsFiniteSet(T) /\ Cardinality(T) = After(header, a) - a
  <2>1. PICK last \in Int : last = After(header, a) - 1 /\ ~(a > last)
    BY <1>1
  <2>2. IsFiniteSet(a .. last) /\ Cardinality(a .. last) = IF a > last THEN 0 ELSE last - a + 1
    <3>1. a \in Int
      BY <1>1
    <3>2. QED
      BY <3>1, FS_Interval
  <2>3. QED
    BY <1>1, <2>1, <2>2
<1>3. ASSUME NEW R \in SUBSET Addresses
      PROVE  IsFiniteSet(R) /\ Cardinality(R) \in 0 .. HEAP_SIZE
  BY CountBelow, HeapAssumption DEF Addresses
<1>4. S \in SUBSET Addresses /\ S \cup T \in SUBSET Addresses
  BY <1>1, HeapAssumption DEF Span, Addresses
<1>5. Span(header, blocks \cup {a}) = S \cup T
  BY <1>1, HeapAssumption DEF Span, Addresses
<1>6. S \cap T = {}
  <2>1. SUFFICES ASSUME NEW b \in Addresses, NEW c \in blocks,
                        c <= b, b < After(header, c), a <= b, b < After(header, a)
                 PROVE  FALSE
    BY <1>1 DEF Span, Addresses
  <2>2. /\ c \in Nat /\ After(header, c) \in Nat
        /\ c < a => After(header, c) <= a
    BY NextInList DEF Addresses
  <2>3. a < c => After(header, a) <= c
    BY <1>1
  <2>4. b \in Nat /\ a # c
    BY HeapAssumption DEF Addresses
  <2>5. QED
    BY <1>1, <2>1, <2>2, <2>3, <2>4
<1> HIDE DEF S, T
<1>7. Cardinality(S \cup T) = Cardinality(S) + Cardinality(T)
  <2>1. IsFiniteSet(S) /\ Cardinality(S) \in Nat /\ Cardinality(T) \in Nat
    BY <1>2, <1>3, <1>4, FS_CardinalityType
  <2>2. Cardinality(S \cup T) = Cardinality(S) + Cardinality(T) - Cardinality({})
    BY <1>2, <1>6, <2>1, FS_Union
  <2>3. Cardinality({}) = 0
    BY FS_EmptySet
  <2>4. QED
    BY <2>1, <2>2, <2>3
<1>8. After(header, a) - a \in Nat
  BY <1>1
<1>9. QED
  BY <1>2, <1>3, <1>4, <1>5, <1>7, <1>8 DEF S

\* Bytes depend on where blocks start and on their sizes only.
LEMMA SpanSame ==
  ASSUME NEW header, NEW new, NEW blocks, \A a \in blocks : new[a].size = header[a].size
  PROVE  Span(new, blocks) = Span(header, blocks)
  BY DEF Span, After

\* The counters of the heap h, the last part of the property left out.
Counted(h) ==
  /\ h.num_allocations = Cardinality(InUse(h.header))
  /\ h.used_memory = BLOCK_HEADER_SIZE + Cardinality(Span(h.header, InUse(h.header)))
  /\ h.free_memory = (HEAP_SIZE - h.used_memory) % WORD

\* Counters that wrap add up as if they did not.
LEMMA WrapsOnce ==
  ASSUME NEW x \in Int, NEW d \in Int
  PROVE  ((x % WORD) + d) % WORD = (x + d) % WORD
<1> DEFINE q == x \div WORD  r == x % WORD
<1>1. WORD \in Nat \ {0}
  BY HeapAssumption
<1>2. r \in 0 .. WORD - 1 /\ q \in Int /\ x = WORD * q + r
  BY <1>1, Remainder
<1> HIDE DEF q, r
<1> DEFINE p == (r + d) \div WORD  s == (r + d) % WORD
<1>3. s \in 0 .. WORD - 1 /\ p \in Int /\ r + d = WORD * p + s
  <2>1. r + d \in Int
    BY <1>2
  <2>2. QED
    BY <1>1, <2>1, Remainder
<1> HIDE DEF p, s
<1>4. x + d = WORD * (q + p) + s
  BY <1>1, <1>2, <1>3
<1>5. (x + d) % WORD = s
  <2>1. x + d \in Int /\ q + p \in Int
    BY <1>2, <1>3
  <2> DEFINE y == x + d  z == q + p
  <2>2. y \in Int /\ z \in Int /\ y = WORD * z + s
    BY <1>4, <2>1
  <2> HIDE DEF y, z
  <2>3. y % WORD = s
    <3>1. \A k \in Int, m \in 0 .. WORD - 1 : y = WORD * k + m => y % WORD = m
      BY <1>1, <2>2, Remainder
    <3>2. QED
      BY <1>3, <2>2, <3>1
  <2>4. QED
    BY <2>3 DEF y
<1>6. QED
  BY <1>5 DEF r, s

\* How the counters change with one block more or less in use.
LEMMA CountersStep ==
  ASSUME NEW used \in 0 .. HEAP_SIZE, NEW new \in 0 .. HEAP_SIZE, NEW d \in Int,
         new = used + d
  PROVE  /\ (BLOCK_HEADER_SIZE + used + d) % WORD = BLOCK_HEADER_SIZE + new
         /\ (((HEAP_SIZE - (BLOCK_HEADER_SIZE + used)) % WORD) - d) % WORD
              = (HEAP_SIZE - (BLOCK_HEADER_SIZE + new)) % WORD
<1>1. \A k \in 0 .. WORD - 1 : k % WORD = k
  BY HeapAssumption
<1>2. BLOCK_HEADER_SIZE + new \in 0 .. WORD - 1
  BY HeapAssumption
<1>3. BLOCK_HEADER_SIZE + used + d = BLOCK_HEADER_SIZE + new
  BY HeapAssumption
<1> DEFINE x == HEAP_SIZE - (BLOCK_HEADER_SIZE + used)
<1>4. x \in Int /\ -d \in Int /\ x + (-d) = HEAP_SIZE - (BLOCK_HEADER_SIZE + new)
  BY HeapAssumption
<1>5. x % WORD \in Int
  BY <1>4, HeapAssumption
<1> HIDE DEF x
<1>6. ((x % WORD) + (-d)) % WORD = (x + (-d)) % WORD
  BY <1>4, WrapsOnce
<1>7. (x % WORD) - d = (x % WORD) + (-d)
  BY <1>5
<1>8. QED
  BY <1>1, <1>2, <1>3, <1>4, <1>6, <1>7 DEF x

\* Blocks in use are addresses, and there are fewer of them than the word counts.
LEMMA InUseCount ==
  ASSUME NEW header, HeaderOK(header)
  PROVE  IsFiniteSet(InUse(header)) /\ Cardinality(InUse(header)) \in 0 .. HEAP_SIZE
<1>1. InUse(header) \in SUBSET (0 .. HEAP_SIZE - 1)
  BY DEF HeaderOK, Addresses, InUse
<1>2. QED
  BY <1>1, CountBelow, HeapAssumption

\* Taking a free block keeps the counters.
LEMMA TakenCounted ==
  ASSUME NEW h, HeaderOK(h.header), Counted(h), NEW block \in DOMAIN h.header,
         NEW size \in Nat, h.header[block].is_free, h.header[block].size >= size
  PROVE  Counted(Taken(h, block, size))
<1> DEFINE new == Taken(h, block, size)
<1> DEFINE before == InUse(h.header)
<1> DEFINE header == IF h.header[block].size > size + BLOCK_HEADER_SIZE + MIN_BLOCK_SIZE
                     THEN split_block(h.header, block, size) ELSE h.header
<1>1. /\ HeaderOK(new.header) /\ InUse(new.header) = before \cup {block}
      /\ \A a \in before : new.header[a].size = h.header[a].size
      /\ block \notin before
  BY TakenOK
<1>2. new = [header |-> [header EXCEPT ![block].is_free = FALSE],
             used_memory |-> (h.used_memory + (header[block].size + BLOCK_HEADER_SIZE)) % WORD,
             free_memory |-> (h.free_memory - (header[block].size + BLOCK_HEADER_SIZE)) % WORD,
             num_allocations |-> (h.num_allocations + 1) % WORD]
  BY DEF Taken
<1>3. block \in DOMAIN header /\ header[block] \in block_header_t
  BY SplitOK, NextInList
<1> HIDE DEF header
<1> DEFINE d == header[block].size + BLOCK_HEADER_SIZE
<1>4. d \in Nat /\ After(new.header, block) - block = d
  <2>1. new.header[block].size = header[block].size
    BY <1>2, <1>3 DEF block_header_t
  <2>2. block \in Nat
    BY HeapAssumption DEF HeaderOK, Addresses
  <2>3. header[block].size \in Nat
    BY <1>3 DEF block_header_t
  <2>4. QED
    BY <2>1, <2>2, <2>3, HeapAssumption DEF After
<1>5. /\ new.used_memory = (h.used_memory + d) % WORD
      /\ new.free_memory = (h.free_memory - d) % WORD
      /\ new.num_allocations = (h.num_allocations + 1) % WORD
  BY <1>2
<1> HIDE DEF d, new
<1> DEFINE used == Cardinality(Span(h.header, before))
<1> DEFINE more == Cardinality(Span(new.header, InUse(new.header)))
<1>6. used \in 0 .. HEAP_SIZE /\ more \in 0 .. HEAP_SIZE /\ more = used + d
  <2>1. Span(new.header, before) = Span(h.header, before)
    BY <1>1, SpanSame
  <2>2. before \in SUBSET (DOMAIN new.header) /\ block \in DOMAIN new.header
    BY <1>1 DEF InUse
  <2> HIDE DEF before
  <2>3. QED
    BY <1>1, <1>4, <2>1, <2>2, SpanJoins
<1>7. h.used_memory = BLOCK_HEADER_SIZE + used
      /\ h.free_memory = (HEAP_SIZE - (BLOCK_HEADER_SIZE + used)) % WORD
  BY DEF Counted
<1>8. new.num_allocations = Cardinality(InUse(new.header))
  <2>1. IsFiniteSet(before) /\ Cardinality(before) \in Nat
    BY InUseCount
  <2>2. Cardinality(InUse(new.header)) = Cardinality(before) + 1
    BY <1>1, <2>1, FS_AddElement
  <2>3. Cardinality(InUse(new.header)) \in 0 .. HEAP_SIZE
    BY <1>1, InUseCount
  <2>4. h.num_allocations = Cardinality(before)
    BY DEF Counted
  <2>5. \A k \in 0 .. HEAP_SIZE : k % WORD = k
    BY HeapAssumption
  <2>6. QED
    BY <1>5, <2>2, <2>3, <2>4, <2>5
<1> HIDE DEF used, more
<1>9. new.used_memory = BLOCK_HEADER_SIZE + more
      /\ new.free_memory = (HEAP_SIZE - (BLOCK_HEADER_SIZE + more)) % WORD
  BY <1>4, <1>5, <1>6, <1>7, CountersStep
<1>10. QED
  BY <1>8, <1>9 DEF Counted, more, new

\* Freeing a block in use keeps the counters.
LEMMA ReleasedCounted ==
  ASSUME NEW h, HeaderOK(h.header), Counted(h), NEW block \in DOMAIN h.header,
         ~h.header[block].is_free
  PROVE  Counted(Released(h, block))
<1> DEFINE new == Released(h, block)
<1> DEFINE after == InUse(new.header)
<1>1. /\ HeaderOK(new.header) /\ after = InUse(h.header) \ {block}
      /\ \A a \in after : new.header[a].size = h.header[a].size
      /\ block \in InUse(h.header) /\ InUse(h.header) = after \cup {block}
      /\ after \in SUBSET (DOMAIN h.header) /\ block \notin after
  BY ReleasedOK DEF InUse
<1> DEFINE d == h.header[block].size + BLOCK_HEADER_SIZE
<1>2. d \in Nat /\ After(h.header, block) - block = d
  <2>1. h.header[block].size \in Nat /\ block \in Nat
    BY NextInList DEF Addresses, block_header_t
  <2>2. QED
    BY <2>1, HeapAssumption DEF After
<1>3. /\ new.used_memory = (h.used_memory - d) % WORD
      /\ new.free_memory = (h.free_memory + d) % WORD
      /\ new.num_allocations = (h.num_allocations - 1) % WORD
  BY DEF Released
<1> HIDE DEF d, new
<1> DEFINE used == Cardinality(Span(h.header, InUse(h.header)))
<1> DEFINE less == Cardinality(Span(new.header, after))
<1>4. used \in 0 .. HEAP_SIZE /\ less \in 0 .. HEAP_SIZE /\ used = less + d
  <2>1. Span(new.header, after) = Span(h.header, after)
    BY <1>1, SpanSame
  <2> HIDE DEF after
  <2>2. /\ Cardinality(Span(h.header, after)) \in 0 .. HEAP_SIZE
        /\ Cardinality(Span(h.header, after \cup {block})) \in 0 .. HEAP_SIZE
        /\ Cardinality(Span(h.header, after \cup {block})) =
             Cardinality(Span(h.header, after)) + (After(h.header, block) - block)
    BY <1>1, SpanJoins
  <2>3. QED
    BY <1>1, <1>2, <2>1, <2>2
<1>5. h.used_memory = BLOCK_HEADER_SIZE + used
      /\ h.free_memory = (HEAP_SIZE - (BLOCK_HEADER_SIZE + used)) % WORD
  BY DEF Counted
<1>6. new.num_allocations = Cardinality(after)
  <2>1. /\ IsFiniteSet(InUse(h.header)) /\ Cardinality(InUse(h.header)) \in 0 .. HEAP_SIZE
        /\ Cardinality(after) \in 0 .. HEAP_SIZE
    BY <1>1, InUseCount
  <2>2. Cardinality(after) = Cardinality(InUse(h.header)) - 1
    BY <1>1, <2>1, FS_RemoveElement
  <2>3. h.num_allocations = Cardinality(InUse(h.header))
    BY DEF Counted
  <2>4. \A k \in 0 .. HEAP_SIZE : k % WORD = k
    BY HeapAssumption
  <2>5. QED
    BY <1>3, <2>1, <2>2, <2>3, <2>4
<1> HIDE DEF used, less
<1>7. -d \in Int /\ less = used + (-d)
  BY <1>2, <1>4
<1>8. /\ (BLOCK_HEADER_SIZE + used + (-d)) % WORD = BLOCK_HEADER_SIZE + less
      /\ (((HEAP_SIZE - (BLOCK_HEADER_SIZE + used)) % WORD) - (-d)) % WORD
           = (HEAP_SIZE - (BLOCK_HEADER_SIZE + less)) % WORD
  <2> DEFINE e == -d
  <2>1. e \in Int /\ less = used + e
    BY <1>7
  <2> HIDE DEF e
  <2>2. /\ (BLOCK_HEADER_SIZE + used + e) % WORD = BLOCK_HEADER_SIZE + less
        /\ (((HEAP_SIZE - (BLOCK_HEADER_SIZE + used)) % WORD) - e) % WORD
             = (HEAP_SIZE - (BLOCK_HEADER_SIZE + less)) % WORD
    BY <1>4, <2>1, CountersStep
  <2>3. QED
    BY <2>2 DEF e
<1>9. /\ new.used_memory = (BLOCK_HEADER_SIZE + used + (-d)) % WORD
      /\ new.free_memory = (((HEAP_SIZE - (BLOCK_HEADER_SIZE + used)) % WORD) - (-d)) % WORD
  <2>1. (HEAP_SIZE - (BLOCK_HEADER_SIZE + used)) % WORD \in Int
    BY <1>4, HeapAssumption
  <2>2. h.free_memory - (-d) = h.free_memory + d
    BY <1>2, <1>5, <2>1
  <2>3. h.used_memory - d = BLOCK_HEADER_SIZE + used + (-d)
    BY <1>2, <1>4, <1>5, HeapAssumption
  <2>4. QED
    BY <1>3, <1>5, <2>2, <2>3
<1>10. QED
  BY <1>6, <1>8, <1>9 DEF Counted, less, new

\* Without blocks in use the heap is one free block.
LEMMA NoneInUse ==
  ASSUME NEW header, HeaderOK(header), NoFreePair(header), InUse(header) = {}
  PROVE  header = memory_init.header
<1>1. heap_start \in DOMAIN header
  BY DEF HeaderOK, Tiling
<1>2. \A a \in DOMAIN header : header[a].is_free
  BY DEF InUse
<1>3. header[heap_start].next = NULL
  BY <1>1, <1>2, NextInList DEF NoFreePair, Pointers
<1>4. After(header, heap_start) = HEAP_SIZE /\ header[heap_start] \in block_header_t
  BY <1>1, <1>3, NextInList
<1>5. DOMAIN header = {heap_start}
  <2>1. ASSUME NEW b \in DOMAIN header, b # heap_start PROVE FALSE
    <3>1. b \in 0 .. HEAP_SIZE - 1
      BY DEF HeaderOK, Addresses
    <3>2. heap_start < b
      BY <2>1, <3>1, HeapAssumption DEF heap_start
    <3>3. HEAP_SIZE <= b
      BY <1>1, <1>4, <3>2, NextInList
    <3>4. QED
      BY <3>1, <3>3, HeapAssumption
  <2>2. QED
    BY <1>1, <2>1
<1>6. header[heap_start].size = HEAP_SIZE - BLOCK_HEADER_SIZE
  BY <1>4, HeapAssumption DEF After, heap_start, block_header_t
<1>7. header[heap_start] = [size |-> HEAP_SIZE - BLOCK_HEADER_SIZE,
                            is_free |-> TRUE, next |-> NULL]
  <2>1. header[heap_start].is_free = TRUE
    BY <1>1, <1>2, <1>4 DEF block_header_t
  <2>2. QED
    BY <1>3, <1>4, <1>6, <2>1 DEF block_header_t
<1>8. header = [a \in DOMAIN header |-> header[a]]
  BY DEF HeaderOK
<1>9. QED
  BY <1>5, <1>7, <1>8 DEF memory_init

\* The heap has no more fields than these, and its counters are right.
StatsInv ==
  /\ heap = [header |-> heap.header, used_memory |-> heap.used_memory,
             free_memory |-> heap.free_memory, num_allocations |-> heap.num_allocations]
  /\ Counted(heap)

LEMMA InitStats == Init => StatsInv
<1> SUFFICES ASSUME Init PROVE StatsInv
  OBVIOUS
<1>1. heap = memory_init
  BY DEF Init
<1>2. InUse(heap.header) = {}
  BY <1>1 DEF memory_init, InUse
<1>3. Span(heap.header, {}) = {}
  BY DEF Span
<1>4. Cardinality({}) = 0
  BY FS_EmptySet
<1>5. HEAP_SIZE - BLOCK_HEADER_SIZE \in 0 .. WORD - 1
  BY HeapAssumption
<1>6. (HEAP_SIZE - BLOCK_HEADER_SIZE) % WORD = HEAP_SIZE - BLOCK_HEADER_SIZE
  BY <1>5, HeapAssumption
<1>7. Counted(heap)
  <2>1. heap.num_allocations = 0 /\ heap.used_memory = BLOCK_HEADER_SIZE
        /\ heap.free_memory = HEAP_SIZE - BLOCK_HEADER_SIZE
    BY <1>1 DEF memory_init
  <2>2. Cardinality(Span(heap.header, InUse(heap.header))) = 0
    BY <1>2, <1>3, <1>4
  <2>3. QED
    BY <1>2, <1>4, <1>6, <2>1, <2>2, HeapAssumption DEF Counted
<1>8. QED
  BY <1>1, <1>7 DEF StatsInv, memory_init

LEMMA NextStats == IInv /\ StatsInv /\ [Next]_heap => StatsInv'
<1> SUFFICES ASSUME IInv, StatsInv, [Next]_heap PROVE StatsInv'
  OBVIOUS
<1>1. HeaderOK(heap.header) /\ Counted(heap)
  BY IInvHeaderOK DEF StatsInv
<1>2. CASE heap' = heap
  BY <1>2 DEF StatsInv, Counted
<1>3. ASSUME NEW size \in Requests, kmalloc(size), heap' # heap
      PROVE  StatsInv'
  <2> DEFINE block == KmallocBlock(heap, size)
  <2>1. block # NULL /\ heap' = Taken(heap, block, Rounded(size))
    BY <1>3 DEF kmalloc, Kmalloc
  <2>2. Rounded(size) \in Nat
    BY HeapAssumption, RoundedType
  <2>3. block = find_free_block(heap.header, Rounded(size))
    BY <2>1 DEF KmallocBlock
  <2>4. /\ block \in DOMAIN heap.header /\ heap.header[block].is_free
        /\ heap.header[block].size >= Rounded(size)
    BY <1>1, <2>1, <2>2, <2>3, Found
  <2> HIDE DEF block
  <2>5. Counted(heap')
    BY <1>1, <2>1, <2>2, <2>4, TakenCounted
  <2>6. QED
    BY <2>1, <2>5 DEF StatsInv, Taken, Counted
<1>4. ASSUME NEW block \in DOMAIN heap.header \cup {NULL}, kfree(block), heap' # heap
      PROVE  StatsInv'
  <2>1. /\ block \in DOMAIN heap.header /\ ~heap.header[block].is_free
        /\ heap' = Released(heap, block)
    BY <1>4 DEF kfree, Kfree
  <2>2. Counted(heap')
    BY <1>1, <2>1, ReleasedCounted
  <2>3. QED
    BY <2>1, <2>2 DEF StatsInv, Released, Counted
<1>5. QED
  BY <1>2, <1>3, <1>4 DEF Next

(* However often blocks are split, merged, refused or freed twice, the three
   counters agree with the blocks in use, and once nothing is allocated the
   heap is as memory_init left it. *)
THEOREM HeapStatsAgree == Spec => []StatsAgree
<1>1. ASSUME IInv, StatsInv PROVE StatsAgree
  <2>1. Used(heap) = InUse(heap.header)
    BY DEF Used, InUse
  <2>2. UsedBytes(heap) = Span(heap.header, InUse(heap.header))
    BY <2>1 DEF UsedBytes, Span
  <2>3. Counted(heap) /\ HeaderOK(heap.header) /\ NoFreePair(heap.header)
    BY <1>1, IInvHeaderOK DEF StatsInv
  <2>4. ASSUME heap.num_allocations = 0 PROVE heap = memory_init
    <3>1. InUse(heap.header) = {}
      BY <2>3, <2>4, InUseCount, FS_EmptySet DEF Counted
    <3>2. heap.header = memory_init.header
      BY <2>3, <3>1, NoneInUse
    <3>3. Span(heap.header, {}) = {} /\ Cardinality({}) = 0
      BY FS_EmptySet DEF Span
    <3>4. heap.used_memory = BLOCK_HEADER_SIZE
      BY <2>3, <3>1, <3>3, HeapAssumption DEF Counted
    <3>5. HEAP_SIZE - BLOCK_HEADER_SIZE \in 0 .. WORD - 1
      BY HeapAssumption
    <3>6. heap.free_memory = HEAP_SIZE - BLOCK_HEADER_SIZE
      BY <2>3, <3>4, <3>5, HeapAssumption DEF Counted
    <3>7. QED
      BY <1>1, <2>4, <3>2, <3>4, <3>6 DEF StatsInv, memory_init
  <2>5. QED
    BY <2>1, <2>2, <2>3, <2>4 DEF StatsAgree, Counted
<1>2. QED
  BY <1>1, InitStats, NextStats, HeapInvariant, PTL DEF Spec

=============================================================================
