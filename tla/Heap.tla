-------------------------------- MODULE Heap --------------------------------
(***************************************************************************)
(* The kernel heap of ChipOS (kernel/memory/memory.c): first-fit           *)
(* allocation over a linked list of block headers kept inside the heap.    *)
(*                                                                         *)
(* A pointer is its distance from heap_memory.  header maps the address of *)
(* every block of the list to its block_header_t; a header that            *)
(* merge_free_blocks unlinks is data again and leaves the domain.          *)
(* Definitions marked Variant are slips the next definition avoids.        *)
(***************************************************************************)
EXTENDS Integers, FiniteSets, FiniteSetsExt

CONSTANTS
  HEAP_SIZE,          \* bytes of heap_memory
  BLOCK_HEADER_SIZE,  \* sizeof(block_header_t)
  MIN_BLOCK_SIZE,     \* the smallest block kmalloc hands out
  ALIGN,              \* sizes are rounded up to a multiple of this
  WORD,               \* size_t counts modulo this
  Requests            \* the sizes callers ask for

ASSUME HeapAssumption ==
  /\ BLOCK_HEADER_SIZE \in Nat \ {0}
  /\ HEAP_SIZE \in Nat /\ HEAP_SIZE > BLOCK_HEADER_SIZE
  /\ MIN_BLOCK_SIZE \in Nat
  /\ ALIGN \in Nat \ {0}
  /\ WORD \in Nat /\ WORD > HEAP_SIZE + BLOCK_HEADER_SIZE
  /\ Requests \subseteq 0 .. WORD - 1

VARIABLE heap

NULL == -1
heap_start == 0
Addresses == 0 .. HEAP_SIZE - 1

block_header_t == [size : Nat, is_free : BOOLEAN, next : Addresses \cup {NULL}]

After(header, a) == a + BLOCK_HEADER_SIZE + header[a].size

-----------------------------------------------------------------------------
(* kmalloc *)

\* Variant: rounded down.
RoundedDown(size) ==
  LET aligned == size - (size % ALIGN)
  IN IF aligned < MIN_BLOCK_SIZE THEN MIN_BLOCK_SIZE ELSE aligned

\* The sum wraps before the low bits are cut off.
Rounded(size) ==
  LET up == (size + ALIGN - 1) % WORD
      aligned == up - (up % ALIGN)
  IN IF aligned < MIN_BLOCK_SIZE THEN MIN_BLOCK_SIZE ELSE aligned

\* The k-th block of the list; a block takes a byte at least.
Walk(header) ==
  LET at[k \in 0 .. HEAP_SIZE] ==
        IF k = 0 THEN heap_start
        ELSE IF at[k - 1] = NULL THEN NULL ELSE header[at[k - 1]].next
  IN at

\* Variant: the first block that is long enough.
find_block(header, size) ==
  LET at == Walk(header)
      fits == {k \in 0 .. HEAP_SIZE : at[k] # NULL /\ header[at[k]].size >= size}
  IN IF fits = {} THEN NULL ELSE at[Min(fits)]

find_free_block(header, size) ==
  LET at == Walk(header)
      fits == {k \in 0 .. HEAP_SIZE :
                 at[k] # NULL /\ header[at[k]].is_free /\ header[at[k]].size >= size}
  IN IF fits = {} THEN NULL ELSE at[Min(fits)]

\* Variant: the rest forgets that it needs a header too.
split_block_long(header, block, size) ==
  LET new == block + BLOCK_HEADER_SIZE + size
  IN [a \in DOMAIN header \cup {new} |->
        IF a = new THEN [size |-> header[block].size - size, is_free |-> TRUE,
                         next |-> header[block].next]
        ELSE IF a = block THEN [header[a] EXCEPT !.size = size, !.next = new]
        ELSE header[a]]

split_block(header, block, size) ==
  LET new == block + BLOCK_HEADER_SIZE + size
  IN [a \in DOMAIN header \cup {new} |->
        IF a = new THEN [size |-> header[block].size - size - BLOCK_HEADER_SIZE,
                         is_free |-> TRUE, next |-> header[block].next]
        ELSE IF a = block THEN [header[a] EXCEPT !.size = size, !.next = new]
        ELSE header[a]]

\* What kmalloc returns, less the header.
KmallocBlock(h, size) ==
  IF size = 0 THEN NULL ELSE find_free_block(h.header, Rounded(size))

\* Variant: every block is split.
TakenSplit(h, block, size) ==
  LET header == split_block(h.header, block, size)
      bytes == size + BLOCK_HEADER_SIZE
  IN [header |-> [header EXCEPT ![block].is_free = FALSE],
      used_memory |-> (h.used_memory + bytes) % WORD,
      free_memory |-> (h.free_memory - bytes) % WORD,
      num_allocations |-> (h.num_allocations + 1) % WORD]

Taken(h, block, size) ==
  LET worth == h.header[block].size > size + BLOCK_HEADER_SIZE + MIN_BLOCK_SIZE
      header == IF worth THEN split_block(h.header, block, size) ELSE h.header
      bytes == header[block].size + BLOCK_HEADER_SIZE
  IN [header |-> [header EXCEPT ![block].is_free = FALSE],
      used_memory |-> (h.used_memory + bytes) % WORD,
      free_memory |-> (h.free_memory - bytes) % WORD,
      num_allocations |-> (h.num_allocations + 1) % WORD]

Kmalloc(h, size) ==
  IF KmallocBlock(h, size) = NULL THEN h
  ELSE Taken(h, KmallocBlock(h, size), Rounded(size))

-----------------------------------------------------------------------------
(* kfree *)

\* Variant: a block that took in its successor is not looked at again.
merge_onward(m) ==
  LET header == m.header
      next == header[m.current].next
  IN IF m.current = NULL \/ next = NULL THEN m
     ELSE IF header[m.current].is_free /\ header[next].is_free
             /\ After(header, m.current) = next
     THEN [header |-> [a \in DOMAIN header \ {next} |->
                         IF a = m.current
                         THEN [header[a] EXCEPT
                                 !.size = @ + BLOCK_HEADER_SIZE + header[next].size,
                                 !.next = header[next].next]
                         ELSE header[a]],
           current |-> header[next].next]
     ELSE [m EXCEPT !.current = next]

\* One turn of the loop: take in the next block and stay, or go on.
merge_turn(m) ==
  LET header == m.header
      next == header[m.current].next
  IN IF m.current = NULL \/ next = NULL THEN m
     ELSE IF header[m.current].is_free /\ header[next].is_free
             /\ After(header, m.current) = next
     THEN [m EXCEPT !.header =
             [a \in DOMAIN header \ {next} |->
                IF a = m.current
                THEN [header[a] EXCEPT
                        !.size = @ + BLOCK_HEADER_SIZE + header[next].size,
                        !.next = header[next].next]
                ELSE header[a]]]
     ELSE [m EXCEPT !.current = next]

\* Every turn takes a header out or passes one: HEAP_SIZE turns end the loop.
merge_free_blocks(header) ==
  LET m[k \in 0 .. HEAP_SIZE] ==
        IF k = 0 THEN [header |-> header, current |-> heap_start]
        ELSE merge_turn(m[k - 1])
  IN m[HEAP_SIZE].header

Released(h, block) ==
  LET bytes == h.header[block].size + BLOCK_HEADER_SIZE
  IN [header |-> merge_free_blocks([h.header EXCEPT ![block].is_free = TRUE]),
      used_memory |-> (h.used_memory - bytes) % WORD,
      free_memory |-> (h.free_memory + bytes) % WORD,
      num_allocations |-> (h.num_allocations - 1) % WORD]

\* Variant: a block may be freed twice.
KfreeAgain(h, block) == IF block = NULL THEN h ELSE Released(h, block)

\* A null pointer and a block that is free already are left alone.
Kfree(h, block) ==
  IF block = NULL THEN h
  ELSE IF h.header[block].is_free THEN h
  ELSE Released(h, block)

\* The one statistic that is counted anew on every request.
num_free_blocks(h) == Cardinality({a \in DOMAIN h.header : h.header[a].is_free})

-----------------------------------------------------------------------------
memory_init ==
  [header |-> [a \in {heap_start} |-> [size |-> HEAP_SIZE - BLOCK_HEADER_SIZE,
                                       is_free |-> TRUE, next |-> NULL]],
   used_memory |-> BLOCK_HEADER_SIZE,
   free_memory |-> HEAP_SIZE - BLOCK_HEADER_SIZE,
   num_allocations |-> 0]

Init == heap = memory_init

kmalloc(size) == heap' = Kmalloc(heap, size)

\* Callers free what kmalloc gave them, perhaps twice, or a null pointer.
kfree(block) == heap' = Kfree(heap, block)

Next ==
  \/ \E size \in Requests : kmalloc(size)
  \/ \E block \in DOMAIN heap.header \cup {NULL} : kfree(block)

Spec == Init /\ [][Next]_heap

-----------------------------------------------------------------------------
(* Properties. *)

(* Every header of the list has its C type. *)
TypeOK ==
  /\ heap.header \in [DOMAIN heap.header -> block_header_t]
  /\ DOMAIN heap.header \subseteq Addresses
  /\ heap.used_memory \in 0 .. WORD - 1
  /\ heap.free_memory \in 0 .. WORD - 1
  /\ heap.num_allocations \in 0 .. WORD - 1

Used(h) == {a \in DOMAIN h.header : ~h.header[a].is_free}

(* A block ends where the next of the list starts, the last one at the end
   of the heap, and no other block starts inside it. *)
TiledFrom(header, a) ==
  LET end == After(header, a)
  IN /\ IF header[a].next = NULL THEN end = HEAP_SIZE
        ELSE header[a].next = end /\ end \in DOMAIN header
     /\ \A b \in DOMAIN header : a < b => end <= b

Tiling(header) ==
  /\ heap_start \in DOMAIN header
  /\ \A a \in DOMAIN header : TiledFrom(header, a)

(* The blocks of the list tile the heap: none overlaps another and no byte is
   lost, whatever was split and merged before. *)
Tiled == Tiling(heap.header)

Gap(h, lo, n) ==
  \A a \in Used(h) : lo + n <= a \/ After(h.header, a) <= lo

(* kmalloc gives up only when no gap between the blocks in use has room for
   the block and its header: kfree leaves no gap cut into pieces. *)
FailsOnlyWhenFull ==
  \A size \in Requests \ {0} :
    LET bytes == Rounded(size) + BLOCK_HEADER_SIZE
    IN KmallocBlock(heap, size) = NULL
       => \A lo \in 0 .. HEAP_SIZE - bytes : ~Gap(heap, lo, bytes)

\* The bytes of the blocks in use and of their headers.
UsedBytes(h) == {b \in Addresses : \E a \in Used(h) : a <= b /\ b < After(h.header, a)}

(* The counters kmalloc and kfree keep agree with the list: used_memory counts
   the bytes of the blocks in use with their headers and one header more,
   free_memory is the rest of the heap modulo the word, and when nothing is
   allocated the heap is as memory_init left it. *)
StatsAgree ==
  /\ heap.num_allocations = Cardinality(Used(heap))
  /\ heap.used_memory = BLOCK_HEADER_SIZE + Cardinality(UsedBytes(heap))
  /\ heap.free_memory = (HEAP_SIZE - heap.used_memory) % WORD
  /\ heap.num_allocations = 0 => heap = memory_init

=============================================================================
