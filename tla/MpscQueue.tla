----------------------------- MODULE MpscQueue -----------------------------
(***************************************************************************)
(* The bounded queue of 02-mpmc-ring-buffer-cpp (mpmc_queue.hpp, class     *)
(* MpscQueue): producers claim a position by a CAS on head, write the cell *)
(* and set its is_ready flag; the consumer takes cells in order and clears *)
(* the flag.  The threads are those of test_mpmc.cpp: each producer        *)
(* retries until PerProducer items went in, the consumer until all came    *)
(* out.  pop asks for one consumer at a time.                              *)
(*                                                                         *)
(* Memory model.  Every atomic access is a step.  head and tail only grow, *)
(* so a store is named by its count.  With StaleLoads a load may return    *)
(* any store that coherence allows; the bounds are what the thread has     *)
(* seen itself and what an acquire load of tail brings along: the consumer *)
(* had seen head at least that far.  Views are as in SpscRing: the items   *)
(* whose cell accesses happen before.                                      *)
(***************************************************************************)
EXTENDS Counters, Sequences, FiniteSets

CONSTANTS
  Producers,    \* the pushing threads
  Capacity,     \* cells
  PerProducer,  \* items each producer pushes (kMpscPerProd)
  Start,        \* pushes and pops that went through an earlier use
  StaleLoads    \* loads may be stale

\* Fewer items than counter values: a producer that is overtaken by 2^64
\* pushes between its load and its CAS is out of scope.  The constructor takes
\* any capacity; one that is not a power of two is right until head wraps.
ASSUME MpscAssumption ==
  /\ IsFiniteSet(Producers)
  /\ Capacity \in Nat \ {0} /\ Capacity < Modulus
  /\ PerProducer \in Nat /\ Cardinality(Producers) * PerProducer < Modulus
  /\ Start \in Nat /\ StaleLoads \in BOOLEAN
  /\ \/ RingDepth(Capacity)
     \/ Start + Cardinality(Producers) * PerProducer < Modulus

VARIABLES
  claimed,   \* positions claimed: head = Val(Start + claimed)
  consumed,  \* positions released: tail = Val(Start + consumed)
  data,      \* cell -> item, NoItem at first
  ready,     \* cell -> is_ready
  pub,       \* cell -> the position its is_ready store publishes
  ppc, ph,   \* producer: where it is, its local head
  pHead,     \* producer: oldest head it may still load
  pTail,     \* producer: oldest tail it may still load
  pView,     \* producer: positions whose reads happen before
  sent,      \* producer: items claimed so far
  cpc, ct,   \* consumer: where it is, its local tail
  cHead,     \* consumer: oldest head it may still load
  cView,     \* consumer: the position whose write it has acquired
  cVal,      \* consumer: the caller's value
  popped,    \* what the last successful pop returned
  claims,    \* item of each position, in the order of the claims
  everFull   \* the queue has held Capacity items

prodVars == <<ppc, ph, pHead, pTail, pView, sent>>
consVars == <<cpc, ct, cHead, cView, cVal>>
cellVars == <<data, ready, pub>>
vars == <<claimed, consumed, cellVars, prodVars, consVars, popped,
          claims, everFull>>

None == -1
NoItem == <<>>
Total == Cardinality(Producers) * PerProducer
Cells == 0 .. (Capacity - 1)

\* The counter after n pushes or pops, and element(idx) of it.
At(n) == Val(Start + n)
Cell(n) == SlotOf(At(n), Capacity)

\* What a load may return: a store of count lo to hi.
Loads(lo, hi) == IF StaleLoads THEN lo .. hi ELSE {hi}

-----------------------------------------------------------------------------
\* The constructed queue, after Start items went through it.
Init ==
  /\ claimed = 0 /\ consumed = 0
  /\ data = [s \in Cells |-> NoItem]
  /\ ready = [s \in Cells |-> FALSE]
  /\ pub = [s \in Cells |-> None]
  /\ ppc = [p \in Producers |-> "idle"]
  /\ ph = [p \in Producers |-> 0] /\ pHead = ph /\ pTail = ph /\ pView = ph
  /\ sent = ph
  /\ cpc = "idle" /\ ct = 0 /\ cHead = 0 /\ cView = None /\ cVal = NoItem
  /\ popped = <<>> /\ claims = <<>> /\ everFull = FALSE

-----------------------------------------------------------------------------
(* push                                                                    *)

\* full(head, tail): head - tail >= capacity_
Full(h, t) == Minus(At(h), At(t)) >= Capacity

\* head_.load(relaxed)
PushHead(p, h) ==
  /\ ppc[p] = "idle" /\ sent[p] < PerProducer
  /\ ph' = [ph EXCEPT ![p] = h]
  /\ pHead' = [pHead EXCEPT ![p] = h]
  /\ ppc' = [ppc EXCEPT ![p] = "tail"]
  /\ UNCHANGED <<claimed, consumed, cellVars, pTail, pView, sent, consVars,
                 popped, claims, everFull>>

\* tail_.load(acquire); return false if the queue looks full.
PushTail(p, t) ==
  /\ ppc[p] = "tail"
  /\ pTail' = [pTail EXCEPT ![p] = t]
  /\ pHead' = [pHead EXCEPT ![p] = MaxOf(@, t)]
  /\ pView' = [pView EXCEPT ![p] = MaxOf(@, t)]
  /\ ppc' = [ppc EXCEPT ![p] = IF Full(ph[p], t) THEN "idle" ELSE "cas"]
  /\ UNCHANGED <<claimed, consumed, cellVars, ph, sent, consVars,
                 popped, claims, everFull>>

\* Mutant of PushClaim: a plain store to head instead of the CAS.
PushClaim_Store(p) ==
  /\ ppc[p] = "cas"
  /\ claimed' = ph[p] + 1
  /\ claims' = Append(claims, <<p, sent[p]>>)
  /\ sent' = [sent EXCEPT ![p] = @ + 1]
  /\ pHead' = [pHead EXCEPT ![p] = ph[p] + 1]
  /\ ppc' = [ppc EXCEPT ![p] = "write"]
  /\ UNCHANGED <<consumed, cellVars, ph, pTail, pView, consVars, popped,
                 everFull>>

\* The CAS succeeds: position ph[p] is the producer's.
PushClaim(p) ==
  /\ ppc[p] = "cas" /\ At(ph[p]) = At(claimed)
  /\ claimed' = claimed + 1
  /\ claims' = Append(claims, <<p, sent[p]>>)
  /\ sent' = [sent EXCEPT ![p] = @ + 1]
  /\ pHead' = [pHead EXCEPT ![p] = claimed + 1]
  /\ everFull' = (everFull \/ claimed + 1 - consumed >= Capacity)
  /\ ppc' = [ppc EXCEPT ![p] = "write"]
  /\ UNCHANGED <<consumed, cellVars, ph, pTail, pView, consVars, popped>>

\* The CAS fails, because head moved on or spuriously, and loads head again.
PushRetry(p, h) ==
  /\ ppc[p] = "cas"
  /\ ph' = [ph EXCEPT ![p] = h]
  /\ pHead' = [pHead EXCEPT ![p] = h]
  /\ ppc' = [ppc EXCEPT ![p] = "tail"]
  /\ UNCHANGED <<claimed, consumed, cellVars, pTail, pView, sent, consVars,
                 popped, claims, everFull>>

\* cell.data_ = value
PushWrite(p) ==
  /\ ppc[p] = "write"
  /\ data' = [data EXCEPT ![Cell(ph[p])] = <<p, sent[p] - 1>>]
  /\ ppc' = [ppc EXCEPT ![p] = "ready"]
  /\ UNCHANGED <<claimed, consumed, ready, pub, ph, pHead, pTail, pView, sent,
                 consVars, popped, claims, everFull>>

\* Mutant of PushReady: the store is relaxed and publishes nothing.
PushReady_Relaxed(p) ==
  /\ ppc[p] = "ready"
  /\ ready' = [ready EXCEPT ![Cell(ph[p])] = TRUE]
  /\ ppc' = [ppc EXCEPT ![p] = "idle"]
  /\ UNCHANGED <<claimed, consumed, data, pub, ph, pHead, pTail, pView, sent,
                 consVars, popped, claims, everFull>>

\* cell.is_ready.store(true, release); return true.
PushReady(p) ==
  /\ ppc[p] = "ready"
  /\ ready' = [ready EXCEPT ![Cell(ph[p])] = TRUE]
  /\ pub' = [pub EXCEPT ![Cell(ph[p])] = ph[p]]
  /\ ppc' = [ppc EXCEPT ![p] = "idle"]
  /\ UNCHANGED <<claimed, consumed, data, ph, pHead, pTail, pView, sent,
                 consVars, popped, claims, everFull>>

Producer(p) ==
  \/ \E h \in Loads(pHead[p], claimed) : PushHead(p, h) \/ PushRetry(p, h)
  \/ \E t \in Loads(pTail[p], consumed) : PushTail(p, t)
  \/ PushClaim(p) \/ PushWrite(p) \/ PushReady(p)

-----------------------------------------------------------------------------
(* pop                                                                     *)

\* tail_.load(relaxed): the thread's own last store.
PopTail ==
  /\ cpc = "idle" /\ consumed < Total
  /\ ct' = consumed
  /\ cpc' = "head"
  /\ UNCHANGED <<claimed, consumed, cellVars, prodVars, cHead, cView, cVal,
                 popped, claims, everFull>>

\* head_.load(acquire); return false if the queue looks empty.
PopHead(h) ==
  /\ cpc = "head"
  /\ cHead' = h
  /\ cpc' = IF At(h) = At(ct) THEN "idle" ELSE "flag"
  /\ UNCHANGED <<claimed, consumed, cellVars, prodVars, ct, cView, cVal,
                 popped, claims, everFull>>

\* cell.is_ready.load(acquire); return false if it is not set.
PopFlag(flag) ==
  /\ cpc = "flag"
  /\ cView' = IF flag THEN pub[Cell(ct)] ELSE cView
  /\ cpc' = IF flag THEN "read" ELSE "idle"
  /\ UNCHANGED <<claimed, consumed, cellVars, prodVars, ct, cHead, cVal,
                 popped, claims, everFull>>

\* value = std::move(cell.data_)
PopRead ==
  /\ cpc = "read"
  /\ cVal' = data[Cell(ct)]
  /\ cpc' = "clear"
  /\ UNCHANGED <<claimed, consumed, cellVars, prodVars, ct, cHead, cView,
                 popped, claims, everFull>>

\* Mutant of PopClear: the flag stays set.
PopClear_Forgotten ==
  /\ cpc = "clear"
  /\ cpc' = "release"
  /\ UNCHANGED <<claimed, consumed, cellVars, prodVars, ct, cHead, cView, cVal,
                 popped, claims, everFull>>

\* Mutant of PopClear: the flag is cleared only after the store to tail.
PopClear_AfterRelease ==
  \/ /\ cpc = "clear"
     /\ consumed' = ct + 1
     /\ popped' = <<cVal>>
     /\ cpc' = "late"
     /\ UNCHANGED <<claimed, cellVars, prodVars, ct, cHead, cView, cVal, claims,
                    everFull>>
  \/ /\ cpc = "late"
     /\ ready' = [ready EXCEPT ![Cell(ct)] = FALSE]
     /\ cpc' = "idle"
     /\ UNCHANGED <<claimed, consumed, data, pub, prodVars, ct, cHead, cView, cVal,
                    popped, claims, everFull>>

\* cell.is_ready.store(false, relaxed)
PopClear ==
  /\ cpc = "clear"
  /\ ready' = [ready EXCEPT ![Cell(ct)] = FALSE]
  /\ cpc' = "release"
  /\ UNCHANGED <<claimed, consumed, data, pub, prodVars, ct, cHead, cView, cVal,
                 popped, claims, everFull>>

\* tail_.store(tail + 1, release); return true.
PopRelease ==
  /\ cpc = "release"
  /\ consumed' = ct + 1
  /\ popped' = <<cVal>>
  /\ cpc' = "idle"
  /\ UNCHANGED <<claimed, cellVars, prodVars, ct, cHead, cView, cVal, claims,
                 everFull>>

\* A set flag may be seen late, a cleared one is the consumer's own store.
Consumer ==
  \/ PopTail
  \/ \E h \in Loads(cHead, claimed) : PopHead(h)
  \/ \E flag \in {ready[Cell(ct)]} \cup (IF StaleLoads THEN {FALSE} ELSE {}) :
       PopFlag(flag)
  \/ PopRead \/ PopClear \/ PopRelease

-----------------------------------------------------------------------------
\* All threads are joined.
Done ==
  /\ consumed = Total
  /\ \A p \in Producers : sent[p] = PerProducer /\ ppc[p] = "idle"
  /\ UNCHANGED vars

Next ==
  \/ \E p \in Producers : Producer(p)
  \/ Consumer
  \/ Done

Spec == Init /\ [][Next]_vars

\* A thread keeps running, a CAS that is tried again and again on the current
\* head does not fail spuriously for ever, and a load that is repeated for ever
\* does not return a stale value for ever.
ProducersRun ==
  \A p \in Producers :
    /\ WF_vars(Producer(p))
    /\ SF_vars(PushClaim(p))
    /\ SF_vars(PushHead(p, claimed) \/ PushRetry(p, claimed))
    /\ SF_vars(PushTail(p, consumed))

\* The producers may stop for ever at any point, in the middle of a push too.
ConsumerFairSpec ==
  /\ Spec
  /\ WF_vars(Consumer)
  /\ SF_vars(PopHead(claimed))
  /\ SF_vars(ready[Cell(ct)] /\ PopFlag(TRUE))

-----------------------------------------------------------------------------
(* Properties.                                                             *)

Items == Producers \X (0 .. (PerProducer - 1))

\* Every variable keeps its type, and the counters stay within the items there
\* are: no position is claimed or released twice.
TypeOK ==
  /\ claimed \in 0 .. Total /\ consumed \in 0 .. claimed
  /\ data \in [Cells -> Items \cup {NoItem}]
  /\ ready \in [Cells -> BOOLEAN]
  /\ pub \in [Cells -> -1 .. (Total - 1)]
  /\ ppc \in [Producers -> {"idle", "tail", "cas", "write", "ready"}]
  /\ ph \in [Producers -> 0 .. claimed] /\ pHead \in [Producers -> 0 .. claimed]
  /\ pTail \in [Producers -> 0 .. consumed] /\ pView \in [Producers -> 0 .. consumed]
  /\ sent \in [Producers -> 0 .. PerProducer]
  /\ cpc \in {"idle", "head", "flag", "read", "clear", "release"}
  /\ ct \in 0 .. consumed /\ cHead \in 0 .. claimed
  /\ cView \in -1 .. (Total - 1) /\ cVal \in Items \cup {NoItem}
  /\ claims \in Seq(Items)

\* No data race on a cell's data_ (README.md "TSan / ASan clean"): a producer
\* writes a cell only when the read of the item it held a lap ago happens
\* before, no two producers write one cell at a time, and the consumer reads it
\* only when the write of the item it expects happens before.
NoRace ==
  /\ \A p \in Producers : ppc[p] = "write" => ph[p] + 1 - Capacity <= pView[p]
  /\ \A p, q \in Producers :
       p # q /\ ppc[p] \in {"write", "ready"} /\ ppc[q] \in {"write", "ready"} =>
         Cell(ph[p]) # Cell(ph[q])
  /\ cpc = "read" => cView = ct

\* push and pop are atomic operations on a bounded FIFO: a put happens at the
\* CAS that claims the position, a take at the store to tail.  So every item
\* comes out exactly once, in the order of the claims and hence in FIFO order
\* within a producer, and a call that returns false changes nothing.
Fifo ==
  INSTANCE BoundedFifo WITH
    Sources <- Producers,
    queue <- SubSeq(claims, consumed + 1, claimed),
    taken <- popped

ImplementsFifo == Fifo!Spec

\* As long as the producers run every item is delivered: a slow producer delays
\* the items behind it but blocks nobody for ever.
Delivered == ProducersRun => <>(consumed = Total)

\* A producer that dies in the middle of a push (README.md:38-41) holds the
\* consumer up at its own position and at no other: again and again the
\* consumer has taken everything, or is at a position that is claimed and whose
\* producer has not set is_ready.
OnlyUnfinishedBlocks ==
  []<>(\/ consumed = claimed
       \/ \E p \in Producers : ppc[p] \in {"write", "ready"} /\ ph[p] = consumed)

\* README.md:20 "queue full. Return false", README.md:43 "explicit return
\* values": push does not reject an item of a queue that has never been full.
FalseMeansFull ==
  [][\A p \in Producers : ppc[p] = "tail" /\ ppc'[p] = "idle" => everFull]_vars
=============================================================================
