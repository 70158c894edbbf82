--------------------------- MODULE HeapAllocator ---------------------------
(* The heap of Heap.tla implements the allocator of AbstractHeap.tla: the
   regions are the data of the blocks in use. *)
EXTENDS Heap

\* The requests whose rounding exceeds size_t: kmalloc rounds them to nothing.
Wraps(size) == size + ALIGN - 1 >= WORD

Regions(h) ==
  [p \in {a + BLOCK_HEADER_SIZE : a \in Used(h)} |-> h.header[p - BLOCK_HEADER_SIZE].size]

Abstract == INSTANCE AbstractHeap WITH regions <- Regions(heap), Overhead <- BLOCK_HEADER_SIZE

\* What kmalloc and kfree are called with, and the pointer kmalloc returns.
pointer(block) == block + BLOCK_HEADER_SIZE

kmalloc_served(size) ==
  IF KmallocBlock(heap, size) = NULL THEN UNCHANGED Regions(heap)
  ELSE Abstract!Allocate(size, pointer(KmallocBlock(heap, size)))

kfree_served(block) ==
  IF block \in Used(heap) THEN Abstract!Free(pointer(block)) ELSE UNCHANGED Regions(heap)

(* The heap behaves as the allocator does, and each call does its own part of
   it.  The region kmalloc returns is at least as long as this call asked for
   and overlaps no region in use, neither its data nor its header; kfree gives
   back the region it was called with; neither moves, shrinks or drops another
   one.  Only a request whose own rounding wraps may get less than it asked. *)
ImplementsAllocator ==
  /\ Abstract!Spec
  /\ [][/\ \A size \in Requests : kmalloc(size) => kmalloc_served(size)
        /\ \A block \in DOMAIN heap.header \cup {NULL} :
             kfree(block) => kfree_served(block)]_heap

=============================================================================
