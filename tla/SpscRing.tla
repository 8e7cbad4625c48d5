------------------------------ MODULE SpscRing ------------------------------
(***************************************************************************)
(* The lock-free single-producer single-consumer ring of                   *)
(* 01-spsc-ring-buffer-c (spsc_ring.c), driven by one producer thread and  *)
(* one consumer thread as test_spsc.c and bench_spsc.c drive it: both      *)
(* retry until MaxItems items went through.                                *)
(*                                                                         *)
(* Items.  The ring copies bytes and never looks at them, so an item is    *)
(* its position in the producer's stream: 0, 1, 2, ... (test_spsc.c        *)
(* pushes exactly these numbers).                                          *)
(*                                                                         *)
(* Memory model.  Every access to an atomic is a step of its own, and the  *)
(* steps of the two threads interleave.  head and tail have one writer     *)
(* each; what the other thread may load is kept as a set of messages, the  *)
(* part of the modification order it has not moved past: an acquire load   *)
(* may return ANY of them (a stale one too), and coherence drops the older *)
(* ones.  A message carries the view its release store published: how many *)
(* slot accesses of the writer happen before it.  An acquire load joins    *)
(* that view into the reader's.  Slots are plain memory: an access is free *)
(* of a data race only if the other thread's conflicting access is in the  *)
(* view (NoRace).                                                          *)
(***************************************************************************)
EXTENDS Counters, Sequences, FiniteSets

CONSTANTS
  Capacity,   \* number of slots, a power of two
  MaxItems,   \* items the producer sends (CONC_ITEMS, N_ITEMS)
  MaxBatch    \* largest n of push_n / pop_n

ASSUME SpscAssumption ==
  /\ RingDepth(Capacity)
  /\ MaxItems \in Nat
  /\ MaxBatch \in Nat

VARIABLES
  buf,          \* slot -> item; Garbage before its first write (malloc)
  headMO,       \* stores to head the consumer may still load
  tailMO,       \* stores to tail the producer may still load
  cached_tail,  \* producer's copy of tail
  cached_head,  \* consumer's copy of head
  produced,     \* items published by the producer: head = Val(produced)
  consumed,     \* items released by the consumer: tail = Val(consumed)
  ppc, pn,      \* producer: where it is, items this call transfers
  written,      \* producer: items copied into slots so far
  pSeen, pView, \* producer: newest tail loaded, consumer reads in its view
  cpc, cn,      \* consumer: where it is, items this call transfers
  reads,        \* consumer: items copied out of slots so far
  cSeen, cView, \* consumer: newest head loaded, producer writes in its view
  out,          \* the caller's buffer of the running pop / pop_n
  ret,          \* what the last successful pop / pop_n returned
  live          \* the ring is allocated

prodVars == <<ppc, pn, written, pSeen, pView, cached_tail>>
consVars == <<cpc, cn, reads, cSeen, cView, cached_head, out, ret>>
vars == <<buf, headMO, tailMO, produced, consumed, live, prodVars, consVars>>

Garbage == -1

Slots == 0 .. (Capacity - 1)

\* idx & mask
Slot(c) == SlotOf(c, Capacity)

\* The value of the atomics; each thread reads its own relaxed.
head == Val(produced)
tail == Val(consumed)

-----------------------------------------------------------------------------
\* spsc_ring_create with valid arguments: counters and caches are zero, the
\* buffer is uninitialized.  Both threads start after it (g_ready).
Init ==
  /\ buf = [s \in Slots |-> Garbage]
  /\ headMO = {[cnt |-> 0, view |-> 0]}
  /\ tailMO = {[cnt |-> 0, view |-> 0]}
  /\ cached_tail = 0 /\ cached_head = 0
  /\ produced = 0 /\ consumed = 0
  /\ ppc = "idle" /\ pn = 0 /\ written = 0 /\ pSeen = 0 /\ pView = 0
  /\ cpc = "idle" /\ cn = 0 /\ reads = 0 /\ cSeen = 0 /\ cView = 0
  /\ out = <<>> /\ ret = <<>>
  /\ live = TRUE

-----------------------------------------------------------------------------
(* Producer.                                                               *)

\* Mutant of LoadTail: the cached tail is never refreshed.
LoadTail_NoRefresh(m) == UNCHANGED <<cached_tail, pSeen, pView, tailMO>>

\* r->cached_tail = atomic_load_explicit(&r->tail, memory_order_acquire)
LoadTail(m) ==
  /\ cached_tail' = Val(m.cnt)
  /\ pSeen' = m.cnt
  /\ pView' = MaxOf(pView, m.view)
  /\ tailMO' = {x \in tailMO : x.cnt >= m.cnt}

\* atomic_store_explicit(&r->head, head + n, memory_order_release)
StoreHead(n) ==
  /\ produced' = produced + n
  /\ headMO' = headMO \cup {[cnt |-> produced + n, view |-> written]}

\* Mutant of LooksFull: off by one.
LooksFull_OffByOne(cached) == Minus(head, cached) > Capacity

\* head - r->cached_tail >= r->capacity
LooksFull(cached) == Minus(head, cached) >= Capacity

\* r->capacity - (size_t)(head - r->cached_tail)
Remaining(cached) == Minus(Capacity, Minus(head, cached))

\* push is called: check against the cached tail.
Push ==
  /\ ppc = "idle"
  /\ produced < MaxItems
  /\ pn' = 1
  /\ ppc' = IF LooksFull(cached_tail) THEN "refresh" ELSE "write"
  /\ UNCHANGED <<buf, headMO, tailMO, produced, consumed, live,
                 written, pSeen, pView, cached_tail, consVars>>

\* The cached tail looks full: reload it; return -1 if still full.
PushRefresh(m) ==
  /\ ppc = "refresh"
  /\ LoadTail(m)
  /\ ppc' = IF LooksFull(cached_tail') THEN "idle" ELSE "write"
  /\ UNCHANGED <<buf, headMO, produced, consumed, live, pn, written, consVars>>

\* memcpy(spsc__address_of_index(r, head), e, r->element_size)
PushWrite ==
  /\ ppc = "write"
  /\ buf' = [buf EXCEPT ![Slot(head)] = produced]
  /\ written' = written + 1
  /\ ppc' = "publish"
  /\ UNCHANGED <<headMO, tailMO, produced, consumed, live,
                 pn, pSeen, pView, cached_tail, consVars>>

PushPublish ==
  /\ ppc = "publish"
  /\ StoreHead(1)
  /\ ppc' = "idle"
  /\ UNCHANGED <<buf, tailMO, consumed, live,
                 pn, written, pSeen, pView, cached_tail, consVars>>

\* push_n is called with n items.  A call with n = 0 returns 0 and changes
\* nothing, a stuttering step.
PushN(n) ==
  /\ ppc = "idle"
  /\ produced + n <= MaxItems
  /\ pn' = n
  /\ ppc' = IF Remaining(cached_tail) < n THEN "refresh_n" ELSE "copy"
  /\ UNCHANGED <<buf, headMO, tailMO, produced, consumed, live,
                 written, pSeen, pView, cached_tail, consVars>>

\* Mutant of PushNRefresh: n is not clipped to the room found.
PushNRefresh_NoClip(m) ==
  /\ ppc = "refresh_n"
  /\ LoadTail(m)
  /\ ppc' = IF Remaining(cached_tail') = 0 THEN "idle" ELSE "copy"
  /\ UNCHANGED <<buf, headMO, produced, consumed, live, pn, written, consVars>>

\* Reload tail, clip n to the room there is, return 0 if there is none.
PushNRefresh(m) ==
  /\ ppc = "refresh_n"
  /\ LoadTail(m)
  /\ pn' = MinOf(Remaining(cached_tail'), pn)
  /\ ppc' = IF pn' = 0 THEN "idle" ELSE "copy"
  /\ UNCHANGED <<buf, headMO, produced, consumed, live, written, consVars>>

\* Mutant of CopyIn: one memcpy, that runs off the end of the buffer.
CopyIn_NoSplit(b, idx, n) ==
  [s \in Slots \cup (idx .. (idx + n - 1)) |->
     IF s >= idx /\ s < idx + n THEN produced + (s - idx) ELSE b[s]]

\* The one or two memcpys of push_n: [idx, idx + first), then [0, n - first).
CopyIn(b, idx, n) ==
  LET first == MinOf(Capacity - idx, n)
  IN  [s \in Slots |->
         IF s >= idx /\ s < idx + first THEN produced + (s - idx)
         ELSE IF s < n - first THEN produced + first + s
         ELSE b[s]]

PushNCopy ==
  /\ ppc = "copy"
  /\ buf' = CopyIn(buf, Slot(head), pn)
  /\ written' = written + pn
  /\ ppc' = "publish_n"
  /\ UNCHANGED <<headMO, tailMO, produced, consumed, live,
                 pn, pSeen, pView, cached_tail, consVars>>

PushNPublish ==
  /\ ppc = "publish_n"
  /\ StoreHead(pn)
  /\ ppc' = "idle"
  /\ UNCHANGED <<buf, tailMO, consumed, live,
                 pn, written, pSeen, pView, cached_tail, consVars>>

\* The retry loops of the producer: one item at a time, and in batches.  The
\* test uses the first, the benchmark one of the two, here they mix.
ProducerSingle ==
  \/ Push
  \/ \E m \in tailMO : PushRefresh(m)
  \/ PushWrite
  \/ PushPublish

ProducerBatch ==
  \/ \E n \in 1 .. MaxBatch : PushN(n)
  \/ \E m \in tailMO : PushNRefresh(m)
  \/ PushNCopy
  \/ PushNPublish

Producer == ProducerSingle \/ ProducerBatch

-----------------------------------------------------------------------------
(* Consumer.                                                               *)

\* Mutant of LoadHead: the cached head is never refreshed.
LoadHead_NoRefresh(m) == UNCHANGED <<cached_head, cSeen, cView, headMO>>

\* r->cached_head = atomic_load_explicit(&r->head, memory_order_acquire)
LoadHead(m) ==
  /\ cached_head' = Val(m.cnt)
  /\ cSeen' = m.cnt
  /\ cView' = MaxOf(cView, m.view)
  /\ headMO' = {x \in headMO : x.cnt >= m.cnt}

\* Mutant of StoreTail: the store is relaxed and publishes no view.
StoreTail_Relaxed(n) ==
  /\ consumed' = consumed + n
  /\ tailMO' = tailMO \cup {[cnt |-> consumed + n, view |-> 0]}
  /\ ret' = out

\* atomic_store_explicit(&r->tail, tail + n, memory_order_release): the call
\* returns the items it copied into the caller's buffer.
StoreTail(n) ==
  /\ consumed' = consumed + n
  /\ tailMO' = tailMO \cup {[cnt |-> consumed + n, view |-> reads]}
  /\ ret' = out

\* pop is called: check against the cached head.
Pop ==
  /\ cpc = "idle"
  /\ consumed < MaxItems
  /\ cn' = 1
  /\ cpc' = IF tail = cached_head THEN "refresh" ELSE "read"
  /\ UNCHANGED <<buf, headMO, tailMO, produced, consumed, live,
                 reads, cSeen, cView, cached_head, out, ret, prodVars>>

\* The cached head looks empty: reload it; return -1 if still empty.
PopRefresh(m) ==
  /\ cpc = "refresh"
  /\ LoadHead(m)
  /\ cpc' = IF tail = cached_head' THEN "idle" ELSE "read"
  /\ UNCHANGED <<buf, tailMO, produced, consumed, live,
                 cn, reads, out, ret, prodVars>>

\* memcpy(e, spsc__address_of_index(r, tail), r->element_size)
PopRead ==
  /\ cpc = "read"
  /\ out' = <<buf[Slot(tail)]>>
  /\ reads' = reads + 1
  /\ cpc' = "publish"
  /\ UNCHANGED <<buf, headMO, tailMO, produced, consumed, live,
                 cn, cSeen, cView, cached_head, ret, prodVars>>

PopPublish ==
  /\ cpc = "publish"
  /\ StoreTail(1)
  /\ cpc' = "idle"
  /\ UNCHANGED <<buf, headMO, produced, live,
                 cn, reads, cSeen, cView, cached_head, out, prodVars>>

\* pop_n is called for n items; avail = (size_t)(r->cached_head - tail).
PopN(n) ==
  /\ cpc = "idle"
  /\ consumed < MaxItems
  /\ cn' = n
  /\ cpc' = IF Minus(cached_head, tail) < n THEN "refresh_n" ELSE "copy"
  /\ UNCHANGED <<buf, headMO, tailMO, produced, consumed, live,
                 reads, cSeen, cView, cached_head, out, ret, prodVars>>

\* Reload head, clip n to what is available, return 0 if nothing is.
PopNRefresh(m) ==
  /\ cpc = "refresh_n"
  /\ LoadHead(m)
  /\ cn' = MinOf(Minus(cached_head', tail), cn)
  /\ cpc' = IF cn' = 0 THEN "idle" ELSE "copy"
  /\ UNCHANGED <<buf, tailMO, produced, consumed, live,
                 reads, out, ret, prodVars>>

\* Mutant of CopyOut: the second memcpy starts at slot 1.
CopyOut_OffByOne(b, idx, n) ==
  LET first == MinOf(Capacity - idx, n)
  IN  [k \in 1 .. n |-> IF k <= first THEN b[idx + k - 1] ELSE b[k - first]]

\* The one or two memcpys of pop_n, out of [idx, idx + first) and [0, n - first).
CopyOut(b, idx, n) ==
  LET first == MinOf(Capacity - idx, n)
  IN  [k \in 1 .. n |-> IF k <= first THEN b[idx + k - 1] ELSE b[k - first - 1]]

PopNCopy ==
  /\ cpc = "copy"
  /\ out' = CopyOut(buf, Slot(tail), cn)
  /\ reads' = reads + cn
  /\ cpc' = "publish_n"
  /\ UNCHANGED <<buf, headMO, tailMO, produced, consumed, live,
                 cn, cSeen, cView, cached_head, ret, prodVars>>

PopNPublish ==
  /\ cpc = "publish_n"
  /\ StoreTail(cn)
  /\ cpc' = "idle"
  /\ UNCHANGED <<buf, headMO, produced, live,
                 cn, reads, cSeen, cView, cached_head, out, prodVars>>

\* The retry loops of the consumer.
ConsumerSingle ==
  \/ Pop
  \/ \E m \in headMO : PopRefresh(m)
  \/ PopRead
  \/ PopPublish

ConsumerBatch ==
  \/ \E n \in 1 .. MaxBatch : PopN(n)
  \/ \E m \in headMO : PopNRefresh(m)
  \/ PopNCopy
  \/ PopNPublish

Consumer == ConsumerSingle \/ ConsumerBatch

-----------------------------------------------------------------------------
\* Both threads are joined and the ring is freed.
Destroy ==
  /\ live
  /\ ppc = "idle" /\ produced = MaxItems
  /\ cpc = "idle" /\ consumed = MaxItems
  /\ live' = FALSE
  /\ UNCHANGED <<buf, headMO, tailMO, produced, consumed, prodVars, consVars>>

Finished == ~live /\ UNCHANGED vars

Next == Producer \/ Consumer \/ Destroy \/ Finished

Spec == Init /\ [][Next]_vars

\* A thread keeps running, and a load that it repeats for ever does not return
\* a stale value for ever (C11 7.17.3: stores become visible to loads in a
\* reasonable amount of time).
ProducerRuns ==
  /\ WF_vars(Producer)
  /\ SF_vars(\E m \in tailMO : m.cnt = consumed /\ PushRefresh(m))
  /\ SF_vars(\E m \in tailMO : m.cnt = consumed /\ PushNRefresh(m))

ConsumerRuns ==
  /\ WF_vars(Consumer)
  /\ SF_vars(\E m \in headMO : m.cnt = produced /\ PopRefresh(m))
  /\ SF_vars(\E m \in headMO : m.cnt = produced /\ PopNRefresh(m))

\* The producer may stop for ever at any point, in the middle of a push too.
ConsumerFairSpec == Spec /\ ConsumerRuns /\ WF_vars(Destroy)

-----------------------------------------------------------------------------
(* Properties.                                                             *)

Item == 0 .. (MaxItems - 1)
Message == [cnt : 0 .. MaxItems, view : 0 .. MaxItems]

\* Every variable keeps its type: no memcpy of push or push_n leaves the
\* buffer, no counter runs past the items there are.
TypeOK ==
  /\ buf \in [Slots -> Item \cup {Garbage}]
  /\ headMO \subseteq Message /\ tailMO \subseteq Message
  /\ cached_tail \in Counter /\ cached_head \in Counter
  /\ produced \in 0 .. MaxItems /\ consumed \in 0 .. MaxItems
  /\ ppc \in {"idle", "refresh", "write", "publish",
              "refresh_n", "copy", "publish_n"}
  /\ cpc \in {"idle", "refresh", "read", "publish",
              "refresh_n", "copy", "publish_n"}
  /\ pn \in Nat /\ cn \in Nat
  /\ written \in 0 .. MaxItems /\ pSeen \in 0 .. MaxItems /\ pView \in 0 .. MaxItems
  /\ reads \in 0 .. MaxItems /\ cSeen \in 0 .. MaxItems /\ cView \in 0 .. MaxItems
  /\ out \in Seq(Item \cup {Garbage}) /\ ret \in Seq(Item \cup {Garbage})
  /\ live \in BOOLEAN

\* No data race on a slot (the TSan claim of README.md): when push or push_n
\* writes slots, the consumer's reads of the items those slots held happen
\* before; when pop or pop_n reads slots, the producer's writes happen before.
NoRace ==
  /\ ppc = "write" => produced + 1 - Capacity <= pView
  /\ ppc = "copy" => produced + pn - Capacity <= pView
  /\ cpc = "read" => consumed + 1 <= cView
  /\ cpc = "copy" => consumed + cn <= cView

\* "No silent overwrite" (README.md): each item that was published and not
\* released is intact in its slot, also after the counters have wrapped.
NoOverwrite ==
  \A i \in consumed .. (produced - 1) : buf[Slot(Val(i))] = i

\* pop and pop_n hand out the very next items of the producer's stream, in
\* order: none lost, repeated, or read before it was written.
InOrder ==
  cpc \in {"publish", "publish_n"} => out = [k \in 1 .. cn |-> consumed + k - 1]

\* push, push_n, pop and pop_n, with all their steps, are atomic operations on
\* a bounded FIFO: a put happens at the store to head, a take at the store to
\* tail, and a call that fails changes nothing.
Fifo ==
  INSTANCE BoundedFifo WITH
    Sources <- {"p"},
    queue <- [k \in 1 .. (produced - consumed) |->
                <<"p", buf[Slot(Val(consumed + k - 1))]>>],
    sent <- [s \in {"p"} |-> produced],
    taken <- [k \in 1 .. Len(ret) |-> <<"p", ret[k]>>]

ImplementsFifo == Fifo!Spec

\* As long as the producer runs, the retry loops of both threads end and the
\* ring is freed: neither side waits for ever on a cached index that is out of
\* date.
Delivered == ProducerRuns => <>(consumed = MaxItems /\ ~live)

\* Whatever was published is consumed even if the producer dies in the middle
\* of a push (README.md, interview question 7).
PublishedIsConsumed ==
  \A n \in 1 .. MaxItems : (produced >= n) ~> (consumed >= n)
=============================================================================
