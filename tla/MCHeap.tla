------------------------------- MODULE MCHeap -------------------------------
(* A small heap for TLC. *)
EXTENDS HeapAllocator

\* No bytes; sizes that are rounded, that leave rests too small to split, and
\* that take the whole heap; a size whose rounding wraps.
SomeRequests == {0, 1, 3, 6, HEAP_SIZE - 2, WORD - 1}
=============================================================================
