---------------------------- MODULE BoundedFifo ----------------------------
(***************************************************************************)
(* What the rings of this repository promise: a FIFO queue of at most      *)
(* Capacity items.  A call puts a batch at the back or takes a batch from  *)
(* the front in one atomic step; a call that cannot proceed changes        *)
(* nothing.  The n-th item a source puts is <<source, n>>, so "taken"      *)
(* shows order, loss and duplication.                                      *)
(***************************************************************************)
EXTENDS Naturals, Sequences

CONSTANTS
  Sources,    \* the producers
  Capacity    \* most items queued at once

VARIABLES
  queue,      \* items put and not yet taken, oldest first
  sent,       \* source -> number of items it has put
  taken       \* the batch the last successful take returned

vars == <<queue, sent, taken>>

Init ==
  /\ queue = <<>>
  /\ sent = [s \in Sources |-> 0]
  /\ taken = <<>>

\* Source s puts its next n items.
Put(s, n) ==
  /\ Len(queue) + n <= Capacity
  /\ queue' = queue \o [i \in 1 .. n |-> <<s, sent[s] + i - 1>>]
  /\ sent' = [sent EXCEPT ![s] = @ + n]
  /\ UNCHANGED taken

\* The oldest n items are taken and returned.
Take(n) ==
  /\ n <= Len(queue)
  /\ taken' = SubSeq(queue, 1, n)
  /\ queue' = SubSeq(queue, n + 1, Len(queue))
  /\ UNCHANGED sent

Next == \E n \in 1 .. Capacity : Take(n) \/ \E s \in Sources : Put(s, n)

Spec == Init /\ [][Next]_vars
=============================================================================
