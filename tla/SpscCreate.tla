----------------------------- MODULE SpscCreate -----------------------------
(***************************************************************************)
(* The bytes of the SPSC ring (spsc_ring.c): what spsc_ring_create         *)
(* accepts and allocates, and which bytes push and pop then touch.         *)
(* SpscRing takes a ring of Capacity slots for granted; this module is     *)
(* about whether create has made one.  One thread uses the ring.           *)
(***************************************************************************)
EXTENDS Integers

CONSTANTS
  SizeMod,  \* values of size_t, 2^64 in the code
  MaxPush   \* elements pushed into one ring

VARIABLES
  ring,     \* the ring, NULL if there is none; buf is the size of its buffer
  touched   \* bytes of the buffer the last memcpy accessed

vars == <<ring, touched>>

Size == 0 .. SizeMod - 1
PowersOfTwo == {2 ^ k : k \in 0 .. SizeMod}
NULL == [buf |-> 0]

Init == ring = NULL /\ touched = {}

\* capacity == 0 || (capacity & (capacity - 1)) != 0 || elem_size == 0
Rejected(capacity, elem_size) == capacity \notin PowersOfTwo \/ elem_size = 0

\* create returns NULL for arguments it rejects and when an allocation fails,
\* having freed what it had; malloc(0) may well succeed.
Create(capacity, elem_size) ==
  /\ ring = NULL
  /\ \/ UNCHANGED vars
     \/ /\ ~Rejected(capacity, elem_size)
        /\ ring' = [buf |-> (capacity * elem_size) % SizeMod,
                    capacity |-> capacity, mask |-> capacity - 1,
                    element_size |-> elem_size, head |-> 0, tail |-> 0]
        /\ UNCHANGED touched

\* spsc__address_of_index, as an offset into buf, and the bytes of one element.
Offset(idx) == ((idx % (ring.mask + 1)) * ring.element_size) % SizeMod
Element(idx) == Offset(idx) .. (Offset(idx) + ring.element_size - 1)

Push ==
  /\ ring # NULL /\ ring.head < MaxPush
  /\ ring.head - ring.tail < ring.capacity
  /\ touched' = Element(ring.head)
  /\ ring' = [ring EXCEPT !.head = @ + 1]

Pop ==
  /\ ring # NULL /\ ring.tail # ring.head
  /\ touched' = Element(ring.tail)
  /\ ring' = [ring EXCEPT !.tail = @ + 1]

Destroy == ring # NULL /\ ring' = NULL /\ touched' = {}

Next ==
  \/ \E capacity, elem_size \in Size : Create(capacity, elem_size)
  \/ Push \/ Pop \/ Destroy

Spec == Init /\ [][Next]_vars

-----------------------------------------------------------------------------
\* spsc_ring.c:13 "reject !pow2 capacity, zero elem_size, capacity*elem_size
\* overflow": a ring that create returns has room for its elements, so no push
\* and no pop leaves the buffer.
InsideBuffer == touched \subseteq 0 .. ring.buf - 1
=============================================================================
