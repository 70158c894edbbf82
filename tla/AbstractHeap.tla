---------------------------- MODULE AbstractHeap ----------------------------
(***************************************************************************)
(* What kmalloc and kfree promise their callers: regions that do not       *)
(* overlap, each at least as long as was asked, kept until they are freed. *)
(***************************************************************************)
EXTENDS Integers

CONSTANTS HEAP_SIZE, Overhead, Requests, Wraps(_)

VARIABLE regions   \* the length of the region at each pointer handed out

Clear(p, n) ==
  \A q \in DOMAIN regions : p + n <= q - Overhead \/ q + regions[q] <= p - Overhead

Init == regions = [p \in {} |-> 0]

\* A request for size bytes that gets the pointer p.
Allocate(size, p) ==
  /\ p \in Overhead .. HEAP_SIZE /\ p \notin DOMAIN regions
  /\ \E n \in 0 .. HEAP_SIZE - p :
       /\ n >= size \/ Wraps(size)
       /\ Clear(p, n)
       /\ regions' = [q \in DOMAIN regions \cup {p} |-> IF q = p THEN n ELSE regions[q]]

Free(p) ==
  /\ p \in DOMAIN regions
  /\ regions' = [q \in DOMAIN regions \ {p} |-> regions[q]]

Next ==
  \/ \E size \in Requests, p \in Overhead .. HEAP_SIZE : Allocate(size, p)
  \/ \E p \in DOMAIN regions : Free(p)

Spec == Init /\ [][Next]_regions

=============================================================================
