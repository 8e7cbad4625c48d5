--------------------------- MODULE SpscTelemetry ---------------------------
(***************************************************************************)
(* spsc_ring_size, spsc_ring_empty and spsc_ring_full called while the     *)
(* ring of SpscRing is in use: by the producer, by the consumer and by a   *)
(* third thread that only watches.  size is two relaxed loads, head first, *)
(* and an unsigned subtraction.  A relaxed load may return any store that  *)
(* coherence still allows and joins no view.                               *)
(***************************************************************************)
EXTENDS SpscRing

VARIABLES
  pSize,    \* producer's last size(), while no push was published since
  cSize,    \* consumer's last size(), while no pop was published since
  heads,    \* all stores to head so far
  tails,    \* all stores to tail so far
  opc,      \* the watcher: "head" or "tail", the load it does next
  oHead,    \* the watcher's newest load of head
  oTail,    \* the watcher's newest load of tail
  oSize     \* what the watcher's last size() returned

watchVars == <<opc, oHead, oTail, oSize>>
tvars == <<vars, pSize, cSize, heads, tails, watchVars>>

None == -1

TInit ==
  /\ Init
  /\ pSize = None /\ cSize = None
  /\ heads = {0} /\ tails = {0}
  /\ opc = "head" /\ oHead = 0 /\ oTail = 0 /\ oSize = None

\* A step of the ring itself; a size is forgotten when its owner moves on.
RingStep ==
  /\ Next
  /\ pSize' = IF produced' = produced THEN pSize ELSE None
  /\ cSize' = IF consumed' = consumed THEN cSize ELSE None
  /\ heads' = heads \cup {produced'}
  /\ tails' = tails \cup {consumed'}
  /\ UNCHANGED watchVars

\* Mutant of Size: the operands are swapped.
Size_Swapped(h, t) == Minus(Val(t), Val(h))

\* (size_t)(h - t)
Size(h, t) == Minus(Val(h), Val(t))

\* size() on the producer's thread: head is its own, tail may be stale.
ProducerSize(m) ==
  /\ live /\ ppc = "idle"
  /\ pSize' = Size(produced, m.cnt)
  /\ tailMO' = {x \in tailMO : x.cnt >= m.cnt}
  /\ UNCHANGED <<buf, headMO, produced, consumed, live, prodVars, consVars,
                 cSize, heads, tails, watchVars>>

\* size() on the consumer's thread: tail is its own, head may be stale.
ConsumerSize(m) ==
  /\ live /\ cpc = "idle"
  /\ cSize' = Size(m.cnt, consumed)
  /\ headMO' = {x \in headMO : x.cnt >= m.cnt}
  /\ UNCHANGED <<buf, tailMO, produced, consumed, live, prodVars, consVars,
                 pSize, heads, tails, watchVars>>

\* size() on a third thread, first load.
WatchHead(h) ==
  /\ live /\ opc = "head" /\ h >= oHead
  /\ oHead' = h
  /\ opc' = "tail"
  /\ UNCHANGED <<vars, pSize, cSize, heads, tails, oTail, oSize>>

\* size() on a third thread, second load and result.
WatchTail(t) ==
  /\ live /\ opc = "tail" /\ t >= oTail
  /\ oTail' = t
  /\ oSize' = Size(oHead, t)
  /\ opc' = "head"
  /\ UNCHANGED <<vars, pSize, cSize, heads, tails, oHead>>

OwnerSize ==
  \/ \E m \in tailMO : ProducerSize(m)
  \/ \E m \in headMO : ConsumerSize(m)

Watch == (\E h \in heads : WatchHead(h)) \/ (\E t \in tails : WatchTail(t))

\* The ring is used by its two owners only.
OwnersSpec == TInit /\ [][RingStep \/ OwnerSize]_tvars

\* A third thread reads the size as well.
WatchedSpec == TInit /\ [][RingStep \/ Watch]_tvars

\* empty() and full() of a size.
Empty(s) == s = 0
Full(s) == s = Capacity

-----------------------------------------------------------------------------
\* On its own thread a size errs on the safe side: size() on the producer's
\* thread is never below the number of items queued and never above the
\* capacity, size() on the consumer's thread never above the items queued.
OwnerSizeIsSafe ==
  /\ pSize # None => pSize \in (produced - consumed) .. Capacity
  /\ cSize # None => cSize \in 0 .. (produced - consumed)

PushFails == ppc \in {"refresh", "refresh_n"} /\ ppc' = "idle"
PopFails == cpc \in {"refresh", "refresh_n"} /\ cpc' = "idle"

\* Once full() returned false on the producer's thread the next push cannot
\* fail, and once empty() returned false on the consumer's thread the next pop
\* cannot: coherence forbids the reload to return an older index.
SizeIsBinding ==
  [][/\ pSize # None /\ ~Full(pSize) => ~PushFails
     /\ cSize # None /\ ~Empty(cSize) => ~PopFails]_tvars

\* README.md:90 'size is from "some moment in the recent past"': at every moment
\* the size is between zero and the capacity, so a watching thread must never
\* be told anything else.
WatchedSizeWasReal == oSize # None => oSize \in 0 .. Capacity
=============================================================================
