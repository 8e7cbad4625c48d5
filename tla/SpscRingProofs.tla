--------------------------- MODULE SpscRingProofs ---------------------------
(***************************************************************************)
(* The SPSC ring is correct for every capacity, every counter width, any   *)
(* number of items and any batch size.                                     *)
(*                                                                         *)
(* The safety properties follow from the inductive invariant IInv.         *)
(* It is phrased in numbers that do not wrap (produced,                    *)
(* consumed, pSeen, cSeen); the code computes with counters that do.       *)
(* Distances relates the two: every check push and pop make on wrapped     *)
(* counters decides the same question about the unbounded numbers.         *)
(* LoadTailFacts and LoadHeadFacts say what an acquire load of a possibly  *)
(* stale index establishes, CopyInFacts and CopyOutFacts what the one or   *)
(* two memcpys of a batch do.  One lemma per action shows that it          *)
(* preserves IInv.                                                         *)
(***************************************************************************)
EXTENDS SpscRing, CountersProofs, SequenceTheorems

-----------------------------------------------------------------------------
(* The inductive invariant behind the safety properties.                   *)

\* What the threads know lags behind what is: each cached index is an old value
\* of the other side's counter, and the producer stays within one lap of it.
IndexInv ==
  /\ cached_tail = Val(pSeen) /\ cached_head = Val(cSeen)
  /\ pSeen <= consumed /\ consumed <= cSeen /\ cSeen <= produced
  /\ produced <= pSeen + Capacity

\* Every store still to be loaded is no older than the newest one loaded, and
\* publishes all slot accesses up to its count; so do the views.
ViewInv ==
  /\ \A m \in tailMO : pSeen <= m.cnt /\ m.cnt <= consumed /\ m.view = m.cnt
  /\ \A m \in headMO : cSeen <= m.cnt /\ m.cnt <= produced /\ m.view = m.cnt
  /\ pView = pSeen /\ cView = cSeen

\* Where the producer is within a call, and the room it has made sure of.
ProducerInv ==
  /\ ppc \in {"idle", "refresh", "write", "refresh_n", "copy"} => written = produced
  /\ ppc \in {"refresh", "write", "publish"} => pn = 1
  /\ ppc # "idle" => pn >= 1 /\ produced + pn <= MaxItems
  /\ ppc \in {"write", "publish", "copy", "publish_n"} =>
       produced + pn <= pSeen + Capacity
  /\ ppc \in {"publish", "publish_n"} => written = produced + pn

\* Where the consumer is within a call, and the items it has made sure of.
ConsumerInv ==
  /\ cpc \in {"idle", "refresh", "read", "refresh_n", "copy"} => reads = consumed
  /\ cpc \in {"refresh", "read", "publish"} => cn = 1
  /\ cpc # "idle" => cn >= 1
  /\ cpc \in {"read", "publish", "copy", "publish_n"} => consumed + cn <= cSeen
  /\ cpc \in {"publish", "publish_n"} => reads = consumed + cn

\* Every item copied in and not released is in its slot.
ContentInv ==
  \A i \in consumed .. (written - 1) : buf[i % Capacity] = i

IInv ==
  /\ TypeOK
  /\ IndexInv
  /\ ViewInv
  /\ ProducerInv
  /\ ConsumerInv
  /\ ContentInv
  /\ InOrder

\* The unbounded numbers are ordered, and within one lap of each other.
LEMMA Order ==
  ASSUME IInv
  PROVE  /\ produced \in Nat /\ consumed \in Nat /\ pSeen \in Nat /\ cSeen \in Nat
         /\ written \in Nat /\ reads \in Nat /\ pn \in Nat /\ cn \in Nat
         /\ pSeen <= consumed /\ consumed <= cSeen /\ cSeen <= produced
         /\ produced <= pSeen + Capacity
         /\ produced <= MaxItems /\ written <= MaxItems /\ produced <= written
         /\ cached_tail = Val(pSeen) /\ cached_head = Val(cSeen)
         /\ MaxItems \in Nat /\ MaxBatch \in Nat
         /\ Capacity \in Nat \ {0} /\ Capacity < Modulus
BY SpscAssumption DEF IInv, TypeOK, IndexInv, ProducerInv, RingDepth

\* The slot of the a-th item is the same whether or not the counter has wrapped.
LEMMA SlotFacts ==
  ASSUME NEW a \in Nat
  PROVE  /\ Slot(Val(a)) = a % Capacity
         /\ a % Capacity \in 0 .. (Capacity - 1)
         /\ a % Capacity \in Slots
<1>1. Capacity \in Nat \ {0}
  BY SpscAssumption DEF RingDepth
<1>2. SlotOf(Val(a), Capacity) = a % Capacity
  BY SpscAssumption, SlotVal
<1>3. a % Capacity \in 0 .. (Capacity - 1)
  BY <1>1
<1> QED BY <1>2, <1>3 DEF Slot, Slots

\* What push and pop compute from wrapped counters is the distance of the
\* unbounded ones.
LEMMA Distances ==
  ASSUME IInv
  PROVE  /\ \A t \in pSeen .. consumed :
              /\ Minus(head, Val(t)) = produced - t
              /\ Remaining(Val(t)) = Capacity - (produced - t)
         /\ \A h \in cSeen .. produced :
              /\ Minus(Val(h), tail) = h - consumed
              /\ (tail = Val(h)) <=> (h = consumed)
<1> USE CountersAssumption
<1>0. /\ produced \in Nat /\ consumed \in Nat /\ pSeen \in Nat /\ cSeen \in Nat
      /\ pSeen <= consumed /\ consumed <= cSeen /\ cSeen <= produced
      /\ produced <= pSeen + Capacity
      /\ Capacity \in Nat \ {0} /\ Capacity < Modulus
  BY Order
<1>1. ASSUME NEW t \in pSeen .. consumed
      PROVE  /\ Minus(head, Val(t)) = produced - t
             /\ Remaining(Val(t)) = Capacity - (produced - t)
  <2>1. t \in Nat /\ t <= produced /\ produced - t < Modulus
    BY <1>0
  <2>2. Minus(Val(produced), Val(t)) = produced - t
    BY <1>0, <2>1, MinusVal
  <2> DEFINE d == Capacity - (produced - t)
  <2>3. d \in 0 .. (Modulus - 1)
    BY <1>0, <2>1
  <2> HIDE DEF d
  <2>4. (Modulus * 0 + d) % Modulus = d
    BY <2>3, ModUnique
  <2>5. Modulus * 0 + d = d
    BY <2>3
  <2>6. Minus(Capacity, produced - t) = d
    BY <2>4, <2>5 DEF Minus, d
  <2> QED BY <2>2, <2>6 DEF head, Remaining, d
<1>2. ASSUME NEW h \in cSeen .. produced
      PROVE  /\ Minus(Val(h), tail) = h - consumed
             /\ (tail = Val(h)) <=> (h = consumed)
  <2>1. h \in Nat /\ consumed <= h /\ h - consumed < Modulus
    BY <1>0
  <2>2. Minus(Val(h), Val(consumed)) = h - consumed
    BY <1>0, <2>1, MinusVal
  <2>3. Minus(Val(consumed), Val(consumed)) = consumed - consumed
    BY <1>0, MinusVal
  <2> QED BY <2>1, <2>2, <2>3, <1>0 DEF tail
<1> QED BY <1>1, <1>2

\* Loading tail, stale or not, gives the producer a tail no older than the one
\* it had, and a view of all consumer reads up to it.
LEMMA LoadTailFacts ==
  ASSUME IInv, NEW m \in tailMO, LoadTail(m)
  PROVE  /\ m.cnt \in pSeen .. consumed /\ m.cnt \in 0 .. MaxItems
         /\ pSeen' = m.cnt /\ pView' = m.cnt
         /\ cached_tail' = Val(m.cnt) /\ cached_tail' \in Counter
         /\ tailMO' \subseteq tailMO
         /\ \A x \in tailMO' : m.cnt <= x.cnt
         /\ Minus(head, cached_tail') = produced - m.cnt
         /\ Remaining(cached_tail') = Capacity - (produced - m.cnt)
<1>1. m.cnt \in 0 .. MaxItems /\ m.view = m.cnt /\ pView = pSeen
  BY DEF IInv, TypeOK, Message, ViewInv
<1>2. m.cnt \in pSeen .. consumed
  BY <1>1, Order DEF IInv, ViewInv
<1>3. Val(m.cnt) \in Counter
  BY <1>1, Order, ValType
<1>4. pView' = m.cnt
  BY <1>1, <1>2, Order DEF LoadTail, MaxOf
<1>5. tailMO' \subseteq tailMO /\ \A x \in tailMO' : m.cnt <= x.cnt
  BY <1>1 DEF LoadTail, IInv, TypeOK, Message
<1> QED BY <1>1, <1>2, <1>3, <1>4, <1>5, Distances DEF LoadTail

\* Loading head, stale or not, gives the consumer a head no older than the one
\* it had, and a view of all producer writes up to it.
LEMMA LoadHeadFacts ==
  ASSUME IInv, NEW m \in headMO, LoadHead(m)
  PROVE  /\ m.cnt \in cSeen .. produced /\ m.cnt \in 0 .. MaxItems
         /\ cSeen' = m.cnt /\ cView' = m.cnt
         /\ cached_head' = Val(m.cnt) /\ cached_head' \in Counter
         /\ headMO' \subseteq headMO
         /\ \A x \in headMO' : m.cnt <= x.cnt
         /\ Minus(cached_head', tail) = m.cnt - consumed
         /\ (tail = cached_head') <=> (m.cnt = consumed)
<1>1. m.cnt \in 0 .. MaxItems /\ m.view = m.cnt /\ cView = cSeen
  BY DEF IInv, TypeOK, Message, ViewInv
<1>2. m.cnt \in cSeen .. produced
  BY <1>1, Order DEF IInv, ViewInv
<1>3. Val(m.cnt) \in Counter
  BY <1>1, Order, ValType
<1>4. cView' = m.cnt
  BY <1>1, <1>2, Order DEF LoadHead, MaxOf
<1>5. headMO' \subseteq headMO /\ \A x \in headMO' : m.cnt <= x.cnt
  BY <1>1 DEF LoadHead, IInv, TypeOK, Message
<1> QED BY <1>1, <1>2, <1>3, <1>4, <1>5, Distances DEF LoadHead

\* A step that leaves the consumer alone keeps what is said of the consumer.
LEMMA ConsumerFrame ==
  ASSUME IInv, UNCHANGED <<consVars, consumed>>
  PROVE  ConsumerInv' /\ InOrder'
BY DEF IInv, ConsumerInv, InOrder, consVars

\* A step that leaves the producer alone keeps what is said of the producer.
LEMMA ProducerFrame ==
  ASSUME IInv, UNCHANGED <<prodVars, produced>>
  PROVE  ProducerInv'
BY DEF IInv, ProducerInv, prodVars

\* The call only decides where to go, on the room it knows of.
LEMMA PushStep ==
  ASSUME IInv, Push
  PROVE  IInv'
<1>1. TypeOK'
  BY Order DEF IInv, TypeOK, Push, consVars
<1>2. IndexInv'
  BY DEF IInv, IndexInv, Push, consVars
<1>3. ViewInv'
  BY DEF IInv, ViewInv, Push, consVars
<1>4. ProducerInv'
  <2>1. /\ Minus(head, cached_tail) = produced - pSeen
        /\ Remaining(cached_tail) = Capacity - (produced - pSeen)
    BY Order, Distances
  <2> QED BY <2>1, Order DEF IInv, ProducerInv, Push, LooksFull
<1>5. ConsumerInv' /\ InOrder'
  BY ConsumerFrame DEF Push
<1>6. ContentInv'
  BY DEF IInv, ContentInv, Push
<1> QED BY <1>1, <1>2, <1>3, <1>4, <1>5, <1>6 DEF IInv

\* The reload makes known more room, or none.
LEMMA PushRefreshStep ==
  ASSUME IInv, NEW m \in tailMO, PushRefresh(m)
  PROVE  IInv'
<1>0. LoadTail(m)
  BY DEF PushRefresh
<1>1. TypeOK'
  <2>1. pn' \in Nat
    BY <1>0, LoadTailFacts, Order DEF PushRefresh, MinOf
  <2>2. tailMO' \subseteq Message
    BY <1>0, LoadTailFacts DEF IInv, TypeOK
  <2> QED BY <1>0, <2>1, <2>2, LoadTailFacts DEF IInv, TypeOK, PushRefresh, consVars
<1>2. IndexInv'
  BY <1>0, LoadTailFacts, Order DEF IInv, IndexInv, PushRefresh, consVars
<1>3. ViewInv'
  BY <1>0, LoadTailFacts DEF IInv, ViewInv, PushRefresh, consVars
<1>4. ProducerInv'
  BY <1>0, LoadTailFacts, Order DEF IInv, ProducerInv, PushRefresh, LooksFull
<1>5. ConsumerInv' /\ InOrder'
  BY ConsumerFrame DEF PushRefresh
<1>6. ContentInv'
  BY DEF IInv, ContentInv, PushRefresh
<1> QED BY <1>1, <1>2, <1>3, <1>4, <1>5, <1>6 DEF IInv

\* push writes a slot that holds no item the consumer still needs.
LEMMA PushWriteStep ==
  ASSUME IInv, PushWrite
  PROVE  IInv'
<1>0. /\ written = produced /\ pn = 1 /\ produced + 1 <= MaxItems
      /\ produced + 1 <= pSeen + Capacity
  BY DEF PushWrite, IInv, ProducerInv
<1> DEFINE s == produced % Capacity
<1>a. Slot(head) = s /\ s \in Slots
  <2>1. produced \in Nat
    BY Order
  <2> QED BY <2>1, SlotFacts DEF head
<1> HIDE DEF s
<1>1. TypeOK'
  <2>1. buf' \in [Slots -> Item \cup {Garbage}]
    BY <1>0, <1>a, Order DEF PushWrite, IInv, TypeOK, Item
  <2> QED BY <1>0, <2>1, Order DEF IInv, TypeOK, PushWrite, consVars
<1>2. IndexInv'
  BY DEF IInv, IndexInv, PushWrite, consVars
<1>3. ViewInv'
  BY DEF IInv, ViewInv, PushWrite, consVars
<1>4. ProducerInv'
  BY <1>0, Order DEF IInv, ProducerInv, PushWrite
<1>5. ConsumerInv' /\ InOrder'
  BY ConsumerFrame DEF PushWrite
<1>6. ContentInv'
  <2> SUFFICES ASSUME NEW i \in consumed .. produced
               PROVE  buf'[i % Capacity] = i
    BY <1>0, Order DEF ContentInv, PushWrite
  <2>0. buf \in [Slots -> Item \cup {Garbage}] /\ buf' = [buf EXCEPT ![s] = produced]
    BY <1>a DEF IInv, TypeOK, PushWrite
  <2>1. CASE i = produced
    BY <2>0, <2>1, <1>a DEF s
  <2>2. CASE i < produced
    <3>0. /\ i \in Nat /\ produced \in Nat /\ Capacity \in Nat \ {0}
          /\ produced < i + Capacity
      BY <1>0, Order
    <3>1. i % Capacity # s
      BY <3>0, <2>2, ModDistinct DEF s
    <3>2. buf[i % Capacity] = i
      BY <2>2, <1>0, Order DEF IInv, ContentInv
    <3>3. i % Capacity \in Slots
      BY <3>0, SlotFacts
    <3> QED BY <2>0, <3>1, <3>2, <3>3
  <2> QED BY <2>1, <2>2, Order
<1> QED BY <1>1, <1>2, <1>3, <1>4, <1>5, <1>6 DEF IInv

\* The store publishes items that are in their slots.
LEMMA PushPublishStep ==
  ASSUME IInv, PushPublish
  PROVE  IInv'
<1>0. StoreHead(1) /\ written = produced + 1 /\ produced + 1 <= MaxItems
      /\ produced + 1 <= pSeen + Capacity
  BY DEF PushPublish, IInv, ProducerInv
<1>1. TypeOK'
  <2>1. [cnt |-> produced + 1, view |-> written] \in Message
    BY <1>0, Order DEF Message
  <2> QED BY <1>0, <2>1, Order DEF IInv, TypeOK, StoreHead, PushPublish, consVars
<1>2. IndexInv'
  BY <1>0, Order DEF IInv, IndexInv, StoreHead, PushPublish, consVars
<1>3. ViewInv'
  BY <1>0, Order DEF IInv, ViewInv, TypeOK, Message, StoreHead, PushPublish, consVars
<1>4. ProducerInv'
  BY <1>0, Order DEF IInv, ProducerInv, StoreHead, PushPublish
<1>5. ConsumerInv' /\ InOrder'
  BY ConsumerFrame DEF PushPublish
<1>6. ContentInv'
  BY DEF IInv, ContentInv, PushPublish
<1> QED BY <1>1, <1>2, <1>3, <1>4, <1>5, <1>6 DEF IInv

\* The call only decides where to go, on the room it knows of.
LEMMA PushNStep ==
  ASSUME IInv, NEW n \in 1 .. MaxBatch, PushN(n)
  PROVE  IInv'
<1>1. TypeOK'
  BY Order DEF IInv, TypeOK, PushN, consVars
<1>2. IndexInv'
  BY DEF IInv, IndexInv, PushN, consVars
<1>3. ViewInv'
  BY DEF IInv, ViewInv, PushN, consVars
<1>4. ProducerInv'
  <2>1. /\ Minus(head, cached_tail) = produced - pSeen
        /\ Remaining(cached_tail) = Capacity - (produced - pSeen)
    BY Order, Distances
  <2> QED BY <2>1, Order DEF IInv, ProducerInv, PushN
<1>5. ConsumerInv' /\ InOrder'
  BY ConsumerFrame DEF PushN
<1>6. ContentInv'
  BY DEF IInv, ContentInv, PushN
<1> QED BY <1>1, <1>2, <1>3, <1>4, <1>5, <1>6 DEF IInv

\* The reload makes known more room, or none.
LEMMA PushNRefreshStep ==
  ASSUME IInv, NEW m \in tailMO, PushNRefresh(m)
  PROVE  IInv'
<1>0. LoadTail(m)
  BY DEF PushNRefresh
<1>1. TypeOK'
  <2>1. pn' \in Nat
    BY <1>0, LoadTailFacts, Order DEF PushNRefresh, MinOf
  <2>2. tailMO' \subseteq Message
    BY <1>0, LoadTailFacts DEF IInv, TypeOK
  <2> QED BY <1>0, <2>1, <2>2, LoadTailFacts DEF IInv, TypeOK, PushNRefresh, consVars
<1>2. IndexInv'
  BY <1>0, LoadTailFacts, Order DEF IInv, IndexInv, PushNRefresh, consVars
<1>3. ViewInv'
  BY <1>0, LoadTailFacts DEF IInv, ViewInv, PushNRefresh, consVars
<1>4. ProducerInv'
  BY <1>0, LoadTailFacts, Order DEF IInv, ProducerInv, PushNRefresh, MinOf
<1>5. ConsumerInv' /\ InOrder'
  BY ConsumerFrame DEF PushNRefresh
<1>6. ContentInv'
  BY DEF IInv, ContentInv, PushNRefresh
<1> QED BY <1>1, <1>2, <1>3, <1>4, <1>5, <1>6 DEF IInv

\* The memcpys of push_n put each new item into its slot and leave the items
\* of the last lap that are still needed alone.
LEMMA CopyInFacts ==
  ASSUME IInv, NEW n \in Nat, produced + n <= consumed + Capacity,
         produced + n <= MaxItems,
         \A i \in consumed .. (produced - 1) : buf[i % Capacity] = i
  PROVE  LET b == CopyIn(buf, Slot(head), n)
         IN  /\ b \in [Slots -> Item \cup {Garbage}]
             /\ \A i \in consumed .. (produced + n - 1) : b[i % Capacity] = i
<1> DEFINE r == produced % Capacity
           first == MinOf(Capacity - r, n)
           b == CopyIn(buf, Slot(head), n)
<1>0. n <= Capacity
  BY Order
<1>1. Slot(head) = r /\ r \in 0 .. (Capacity - 1)
  <2>1. produced \in Nat
    BY Order
  <2> QED BY <2>1, SlotFacts DEF head
<1>2. b = [s \in Slots |->
            IF s >= r /\ s < r + first THEN produced + (s - r)
            ELSE IF s < n - first THEN produced + first + s
            ELSE buf[s]]
  BY <1>1 DEF CopyIn
<1> HIDE DEF r, b
<1>3. first \in Nat /\ first <= n /\ r + first <= Capacity
      /\ (r + n <= Capacity => first = n)
      /\ (r + n > Capacity => first = Capacity - r)
  BY <1>1, Order DEF MinOf
<1> HIDE DEF first
<1>4. b \in [Slots -> Item \cup {Garbage}]
  <2>1. ASSUME NEW s \in Slots PROVE b[s] \in Item \cup {Garbage}
    <3>0. s \in Nat
      BY Order DEF Slots
    <3>1. s \in Nat /\ buf[s] \in Item \cup {Garbage}
      BY <3>0 DEF IInv, TypeOK
    <3>2. s >= r /\ s < r + first => produced + (s - r) \in Item
      BY <3>1, <1>1, <1>3, Order DEF Item
    <3>3. s < n - first => produced + first + s \in Item
      BY <3>1, <1>1, <1>3, Order DEF Item
    <3> QED BY <1>2, <3>1, <3>2, <3>3
  <2> QED BY <2>1, <1>2
<1>5. ASSUME NEW i \in consumed .. (produced + n - 1) PROVE b[i % Capacity] = i
  <2>a. i \in Nat /\ produced \in Nat /\ Capacity \in Nat \ {0}
    BY Order
  <2>0. i % Capacity \in Slots /\ i \in Nat /\ i % Capacity \in Nat
    BY <2>a, SlotFacts
  <2>1. CASE i >= produced
    <3> DEFINE d == i - produced
    <3>1. d \in 0 .. (Capacity - 1) /\ i = produced + d /\ d < n
      BY <2>1, <1>0, Order
    <3>2. i % Capacity = IF r + d < Capacity THEN r + d ELSE r + d - Capacity
      <4> HIDE DEF d
      <4> QED BY <3>1, <2>a, ModAdd DEF r
    <3> HIDE DEF d
    <3>3. CASE r + d < Capacity
      <4>1. i % Capacity = r + d /\ d < first
        BY <3>1, <3>2, <3>3, <1>1, <1>3, Order
      <4> QED BY <4>1, <2>0, <3>1, <1>1, <1>2, <1>3, Order
    <3>4. CASE r + d >= Capacity
      <4>1. /\ i % Capacity = r + d - Capacity /\ first = Capacity - r
            /\ r + d - Capacity < r /\ r + d - Capacity < n - first
        BY <3>1, <3>2, <3>4, <1>0, <1>1, <1>3, Order
      <4> QED BY <4>1, <2>0, <3>1, <1>1, <1>2, <1>3, Order
    <3> QED BY <3>1, <3>3, <3>4, <1>1, Order
  <2>2. CASE i < produced
    <3> DEFINE d == produced - i
               x == i % Capacity
    <3>1. d \in 0 .. (Capacity - 1) \/ d = Capacity
      BY <2>2, Order
    <3>2. d >= 1 /\ n + d <= Capacity /\ produced = i + d
      BY <2>2, Order
    <3>3. buf[x] = i
      BY <2>2, Order
    <3>4. CASE d = Capacity
      <4>1. n = 0
        BY <3>2, <3>4, Order
      <4> QED BY <4>1, <3>3, <2>0, <1>1, <1>2, <1>3, Order
    <3>5. CASE d # Capacity
      <4>1. r = IF x + d < Capacity THEN x + d ELSE x + d - Capacity
        <5>1. d \in 0 .. (Capacity - 1)
          BY <3>1, <3>5
        <5> HIDE DEF d
        <5> QED BY <5>1, <3>2, <2>a, ModAdd DEF r
      <4>2. x \in 0 .. (Capacity - 1)
        BY <2>0 DEF Slots
      <4> HIDE DEF d, x
      <4>3. ~(x >= r /\ x < r + first) /\ ~(x < n - first)
        BY <4>1, <4>2, <3>1, <3>2, <1>1, <1>3, Order
      <4> QED BY <4>2, <4>3, <3>3, <2>0, <1>2 DEF x
    <3> QED BY <3>4, <3>5
  <2> QED BY <2>1, <2>2, <2>0, Order
<1> QED BY <1>4, <1>5 DEF b

\* push_n copies its items into free slots.
LEMMA PushNCopyStep ==
  ASSUME IInv, PushNCopy
  PROVE  IInv'
<1>0. /\ written = produced /\ produced + pn <= MaxItems
      /\ produced + pn <= pSeen + Capacity
  BY DEF PushNCopy, IInv, ProducerInv
<1>a. /\ buf' \in [Slots -> Item \cup {Garbage}]
      /\ \A i \in consumed .. (produced + pn - 1) : buf'[i % Capacity] = i
  <2>1. pn \in Nat /\ produced + pn <= consumed + Capacity
    BY <1>0, Order
  <2>2. \A i \in consumed .. (produced - 1) : buf[i % Capacity] = i
    BY <1>0 DEF IInv, ContentInv
  <2> QED BY <1>0, <2>1, <2>2, CopyInFacts DEF PushNCopy
<1>1. TypeOK'
  BY <1>0, <1>a, Order DEF IInv, TypeOK, PushNCopy, consVars
<1>2. IndexInv'
  BY DEF IInv, IndexInv, PushNCopy, consVars
<1>3. ViewInv'
  BY DEF IInv, ViewInv, PushNCopy, consVars
<1>4. ProducerInv'
  BY <1>0, Order DEF IInv, ProducerInv, PushNCopy
<1>5. ConsumerInv' /\ InOrder'
  BY ConsumerFrame DEF PushNCopy
<1>6. ContentInv'
  <2>1. written' = produced + pn /\ consumed' = consumed
    BY <1>0 DEF PushNCopy
  <2>2. \A i \in consumed' .. (written' - 1) : i \in consumed .. (produced + pn - 1)
    BY <2>1, Order
  <2> QED BY <1>a, <2>2 DEF ContentInv
<1> QED BY <1>1, <1>2, <1>3, <1>4, <1>5, <1>6 DEF IInv

\* The store publishes items that are in their slots.
LEMMA PushNPublishStep ==
  ASSUME IInv, PushNPublish
  PROVE  IInv'
<1>0. StoreHead(pn) /\ written = produced + pn /\ produced + pn <= MaxItems
      /\ produced + pn <= pSeen + Capacity
  BY DEF PushNPublish, IInv, ProducerInv
<1>1. TypeOK'
  <2>1. [cnt |-> produced + pn, view |-> written] \in Message
    BY <1>0, Order DEF Message
  <2> QED BY <1>0, <2>1, Order DEF IInv, TypeOK, StoreHead, PushNPublish, consVars
<1>2. IndexInv'
  BY <1>0, Order DEF IInv, IndexInv, StoreHead, PushNPublish, consVars
<1>3. ViewInv'
  BY <1>0, Order DEF IInv, ViewInv, TypeOK, Message, StoreHead, PushNPublish, consVars
<1>4. ProducerInv'
  BY <1>0, Order DEF IInv, ProducerInv, StoreHead, PushNPublish
<1>5. ConsumerInv' /\ InOrder'
  BY ConsumerFrame DEF PushNPublish
<1>6. ContentInv'
  BY DEF IInv, ContentInv, PushNPublish
<1> QED BY <1>1, <1>2, <1>3, <1>4, <1>5, <1>6 DEF IInv

\* The call only decides where to go, on the items it knows of.
LEMMA PopStep ==
  ASSUME IInv, Pop
  PROVE  IInv'
<1>1. TypeOK'
  BY Order DEF IInv, TypeOK, Pop, prodVars
<1>2. IndexInv'
  BY DEF IInv, IndexInv, Pop, prodVars
<1>3. ViewInv'
  BY DEF IInv, ViewInv, Pop, prodVars
<1>4. ProducerInv'
  BY ProducerFrame DEF Pop
<1>5. ConsumerInv' /\ InOrder'
  <2>1. /\ Minus(cached_head, tail) = cSeen - consumed
        /\ (tail = cached_head) <=> (cSeen = consumed)
    BY Order, Distances
  <2> QED BY <2>1, Order DEF IInv, ConsumerInv, InOrder, Pop
<1>6. ContentInv'
  BY DEF IInv, ContentInv, Pop, prodVars
<1> QED BY <1>1, <1>2, <1>3, <1>4, <1>5, <1>6 DEF IInv

\* The reload makes known more items, or none.
LEMMA PopRefreshStep ==
  ASSUME IInv, NEW m \in headMO, PopRefresh(m)
  PROVE  IInv'
<1>0. LoadHead(m)
  BY DEF PopRefresh
<1>1. TypeOK'
  <2>1. cn' \in Nat
    BY <1>0, LoadHeadFacts, Order DEF PopRefresh, MinOf
  <2>2. headMO' \subseteq Message
    BY <1>0, LoadHeadFacts DEF IInv, TypeOK
  <2> QED BY <1>0, <2>1, <2>2, LoadHeadFacts DEF IInv, TypeOK, PopRefresh, prodVars
<1>2. IndexInv'
  BY <1>0, LoadHeadFacts, Order DEF IInv, IndexInv, PopRefresh, prodVars
<1>3. ViewInv'
  BY <1>0, LoadHeadFacts DEF IInv, ViewInv, PopRefresh, prodVars
<1>4. ProducerInv'
  BY ProducerFrame DEF PopRefresh
<1>5. ConsumerInv' /\ InOrder'
  BY <1>0, LoadHeadFacts, Order DEF IInv, ConsumerInv, InOrder, PopRefresh, MinOf
<1>6. ContentInv'
  BY DEF IInv, ContentInv, PopRefresh, prodVars
<1> QED BY <1>1, <1>2, <1>3, <1>4, <1>5, <1>6 DEF IInv

\* pop copies out the next item of the stream.
LEMMA PopReadStep ==
  ASSUME IInv, PopRead
  PROVE  IInv'
<1>0. reads = consumed /\ cn = 1 /\ consumed + 1 <= cSeen
  BY DEF PopRead, IInv, ConsumerInv
<1>a. buf[Slot(tail)] = consumed
  <2>1. Slot(tail) = consumed % Capacity
    BY Order, SlotFacts DEF tail
  <2>2. buf[consumed % Capacity] = consumed
    BY <1>0, Order DEF IInv, ContentInv
  <2> QED BY <2>1, <2>2
<1>b. out' = <<consumed>> /\ consumed \in Item
  BY <1>0, <1>a, Order DEF PopRead, Item
<1>1. TypeOK'
  BY <1>0, <1>b, Order DEF IInv, TypeOK, PopRead, prodVars
<1>2. IndexInv'
  BY DEF IInv, IndexInv, PopRead, prodVars
<1>3. ViewInv'
  BY DEF IInv, ViewInv, PopRead, prodVars
<1>4. ProducerInv'
  BY ProducerFrame DEF PopRead
<1>5. ConsumerInv'
  BY <1>0, Order DEF IInv, ConsumerInv, PopRead
<1>6. ContentInv'
  BY DEF IInv, ContentInv, PopRead, prodVars
<1>7. InOrder'
  <2>1. <<consumed>> = [k \in 1 .. 1 |-> consumed + k - 1]
    BY Order
  <2> QED BY <1>0, <1>b, <2>1 DEF InOrder, PopRead
<1> QED BY <1>1, <1>2, <1>3, <1>4, <1>5, <1>6, <1>7 DEF IInv

\* The store releases slots whose items have been copied out.
LEMMA PopPublishStep ==
  ASSUME IInv, PopPublish
  PROVE  IInv'
<1>0. StoreTail(1) /\ reads = consumed + 1 /\ consumed + 1 <= cSeen
  BY DEF PopPublish, IInv, ConsumerInv
<1>1. TypeOK'
  <2>1. [cnt |-> consumed + 1, view |-> reads] \in Message
    BY <1>0, Order DEF Message
  <2> QED BY <1>0, <2>1, Order DEF IInv, TypeOK, StoreTail, PopPublish, prodVars
<1>2. IndexInv'
  BY <1>0, Order DEF IInv, IndexInv, StoreTail, PopPublish, prodVars
<1>3. ViewInv'
  BY <1>0, Order DEF IInv, ViewInv, TypeOK, Message, StoreTail, PopPublish, prodVars
<1>4. ProducerInv'
  BY ProducerFrame DEF PopPublish
<1>5. ConsumerInv' /\ InOrder'
  BY <1>0, Order DEF IInv, ConsumerInv, InOrder, StoreTail, PopPublish
<1>6. ContentInv'
  <2>1. \A i \in consumed' .. (written - 1) : i \in consumed .. (written - 1)
    BY <1>0, Order DEF StoreTail
  <2> QED BY <2>1 DEF IInv, ContentInv, PopPublish, prodVars
<1> QED BY <1>1, <1>2, <1>3, <1>4, <1>5, <1>6 DEF IInv

\* The call only decides where to go, on the items it knows of.
LEMMA PopNStep ==
  ASSUME IInv, NEW n \in 1 .. MaxBatch, PopN(n)
  PROVE  IInv'
<1>1. TypeOK'
  BY Order DEF IInv, TypeOK, PopN, prodVars
<1>2. IndexInv'
  BY DEF IInv, IndexInv, PopN, prodVars
<1>3. ViewInv'
  BY DEF IInv, ViewInv, PopN, prodVars
<1>4. ProducerInv'
  BY ProducerFrame DEF PopN
<1>5. ConsumerInv' /\ InOrder'
  <2>1. /\ Minus(cached_head, tail) = cSeen - consumed
        /\ (tail = cached_head) <=> (cSeen = consumed)
    BY Order, Distances
  <2> QED BY <2>1, Order DEF IInv, ConsumerInv, InOrder, PopN
<1>6. ContentInv'
  BY DEF IInv, ContentInv, PopN, prodVars
<1> QED BY <1>1, <1>2, <1>3, <1>4, <1>5, <1>6 DEF IInv

\* The reload makes known more items, or none.
LEMMA PopNRefreshStep ==
  ASSUME IInv, NEW m \in headMO, PopNRefresh(m)
  PROVE  IInv'
<1>0. LoadHead(m)
  BY DEF PopNRefresh
<1>1. TypeOK'
  <2>1. cn' \in Nat
    BY <1>0, LoadHeadFacts, Order DEF PopNRefresh, MinOf
  <2>2. headMO' \subseteq Message
    BY <1>0, LoadHeadFacts DEF IInv, TypeOK
  <2> QED BY <1>0, <2>1, <2>2, LoadHeadFacts DEF IInv, TypeOK, PopNRefresh, prodVars
<1>2. IndexInv'
  BY <1>0, LoadHeadFacts, Order DEF IInv, IndexInv, PopNRefresh, prodVars
<1>3. ViewInv'
  BY <1>0, LoadHeadFacts DEF IInv, ViewInv, PopNRefresh, prodVars
<1>4. ProducerInv'
  BY ProducerFrame DEF PopNRefresh
<1>5. ConsumerInv' /\ InOrder'
  BY <1>0, LoadHeadFacts, Order DEF IInv, ConsumerInv, InOrder, PopNRefresh, MinOf
<1>6. ContentInv'
  BY DEF IInv, ContentInv, PopNRefresh, prodVars
<1> QED BY <1>1, <1>2, <1>3, <1>4, <1>5, <1>6 DEF IInv

\* The memcpys of pop_n hand out the next n items of the stream, in order.
LEMMA CopyOutFacts ==
  ASSUME IInv, NEW n \in Nat, consumed + n <= produced
  PROVE  CopyOut(buf, Slot(tail), n) = [k \in 1 .. n |-> consumed + k - 1]
<1> DEFINE r == consumed % Capacity
           first == MinOf(Capacity - r, n)
<1>0. n <= Capacity
  BY Order
<1>1. Slot(tail) = r /\ r \in 0 .. (Capacity - 1)
  <2>1. consumed \in Nat
    BY Order
  <2> QED BY <2>1, SlotFacts DEF tail
<1>2. CopyOut(buf, Slot(tail), n) =
        [k \in 1 .. n |-> IF k <= first THEN buf[r + k - 1] ELSE buf[k - first - 1]]
  BY <1>1 DEF CopyOut
<1> HIDE DEF r
<1>3. first \in Nat /\ first <= n
      /\ (r + n <= Capacity => first = n)
      /\ (r + n > Capacity => first = Capacity - r)
  BY <1>1, Order DEF MinOf
<1> HIDE DEF first
<1>4. ASSUME NEW k \in 1 .. n
      PROVE  (IF k <= first THEN buf[r + k - 1] ELSE buf[k - first - 1])
               = consumed + k - 1
  <2> DEFINE d == k - 1
  <2>1. d \in 0 .. (Capacity - 1) /\ consumed + d = consumed + k - 1 /\ d < n
    BY <1>0, Order
  <2>2. (consumed + d) % Capacity = IF r + d < Capacity THEN r + d ELSE r + d - Capacity
    BY <2>1, Order, ModAdd DEF r
  <2>3. buf[(consumed + d) % Capacity] = consumed + d
    BY <2>1, Order DEF IInv, ContentInv
  <2>4. CASE r + d < Capacity
    <3>1. k <= first /\ r + d = r + k - 1
      BY <2>1, <2>4, <1>1, <1>3, Order
    <3> QED BY <2>1, <2>2, <2>3, <2>4, <3>1
  <2>5. CASE r + d >= Capacity
    <3>1. ~(k <= first) /\ r + d - Capacity = k - first - 1
      BY <2>1, <2>5, <1>1, <1>3, Order
    <3>2. ~(r + d < Capacity)
      BY <2>1, <2>5, <1>1, Order
    <3> QED BY <2>1, <2>2, <2>3, <3>1, <3>2
  <2> QED BY <2>1, <2>4, <2>5, <1>1, Order
<1> QED BY <1>2, <1>4

\* pop_n copies out the next items of the stream.
LEMMA PopNCopyStep ==
  ASSUME IInv, PopNCopy
  PROVE  IInv'
<1>0. reads = consumed /\ consumed + cn <= cSeen
  BY DEF PopNCopy, IInv, ConsumerInv
<1>a. out' = [k \in 1 .. cn |-> consumed + k - 1]
  BY <1>0, Order, CopyOutFacts DEF PopNCopy
<1>b. out' \in Seq(Item \cup {Garbage})
  <2>1. \A k \in 1 .. cn : consumed + k - 1 \in Item \cup {Garbage}
    BY <1>0, Order DEF Item
  <2> QED BY <1>a, <2>1, Order
<1>1. TypeOK'
  BY <1>0, <1>b, Order DEF IInv, TypeOK, PopNCopy, prodVars
<1>2. IndexInv'
  BY DEF IInv, IndexInv, PopNCopy, prodVars
<1>3. ViewInv'
  BY DEF IInv, ViewInv, PopNCopy, prodVars
<1>4. ProducerInv'
  BY ProducerFrame DEF PopNCopy
<1>5. ConsumerInv'
  BY <1>0, Order DEF IInv, ConsumerInv, PopNCopy
<1>6. ContentInv'
  BY DEF IInv, ContentInv, PopNCopy, prodVars
<1>7. InOrder'
  BY <1>a DEF InOrder, PopNCopy
<1> QED BY <1>1, <1>2, <1>3, <1>4, <1>5, <1>6, <1>7 DEF IInv

\* The store releases slots whose items have been copied out.
LEMMA PopNPublishStep ==
  ASSUME IInv, PopNPublish
  PROVE  IInv'
<1>0. StoreTail(cn) /\ reads = consumed + cn /\ consumed + cn <= cSeen
  BY DEF PopNPublish, IInv, ConsumerInv
<1>1. TypeOK'
  <2>1. [cnt |-> consumed + cn, view |-> reads] \in Message
    BY <1>0, Order DEF Message
  <2> QED BY <1>0, <2>1, Order DEF IInv, TypeOK, StoreTail, PopNPublish, prodVars
<1>2. IndexInv'
  BY <1>0, Order DEF IInv, IndexInv, StoreTail, PopNPublish, prodVars
<1>3. ViewInv'
  BY <1>0, Order DEF IInv, ViewInv, TypeOK, Message, StoreTail, PopNPublish, prodVars
<1>4. ProducerInv'
  BY ProducerFrame DEF PopNPublish
<1>5. ConsumerInv' /\ InOrder'
  BY <1>0, Order DEF IInv, ConsumerInv, InOrder, StoreTail, PopNPublish
<1>6. ContentInv'
  <2>1. \A i \in consumed' .. (written - 1) : i \in consumed .. (written - 1)
    BY <1>0, Order DEF StoreTail
  <2> QED BY <2>1 DEF IInv, ContentInv, PopNPublish, prodVars
<1> QED BY <1>1, <1>2, <1>3, <1>4, <1>5, <1>6 DEF IInv

\* A fresh ring is empty and both threads are at rest.
LEMMA InitIInv == Init => IInv
<1> SUFFICES ASSUME Init PROVE IInv
  OBVIOUS
<1>0. 0 = Val(0) /\ 0 \in Counter /\ MaxItems \in Nat /\ Capacity \in Nat \ {0}
  <2>1. (Modulus * 0 + 0) % Modulus = 0
    BY CountersAssumption, ModUnique
  <2>2. Modulus * 0 + 0 = 0
    BY CountersAssumption
  <2> QED BY <2>1, <2>2, SpscAssumption, CountersAssumption DEF Val, Counter, RingDepth
<1>1. TypeOK
  <2>1. [cnt |-> 0, view |-> 0] \in Message
    BY <1>0 DEF Message
  <2>2. buf \in [Slots -> Item \cup {Garbage}]
    BY DEF Init
  <2> QED BY <1>0, <2>1, <2>2 DEF Init, TypeOK
<1>2. IndexInv /\ ViewInv /\ ProducerInv /\ ConsumerInv
  BY <1>0 DEF Init, IndexInv, ViewInv, ProducerInv, ConsumerInv
<1>3. ContentInv /\ InOrder
  BY DEF Init, ContentInv, InOrder
<1> QED BY <1>1, <1>2, <1>3 DEF IInv

\* Freeing the ring, or doing nothing, keeps the invariant.
LEMMA QuietStep ==
  ASSUME IInv, Destroy \/ UNCHANGED vars
  PROVE  IInv'
<1>1. live' \in BOOLEAN /\ UNCHANGED <<buf, headMO, tailMO, produced, consumed,
                                       prodVars, consVars>>
  BY DEF IInv, TypeOK, Destroy, vars
<1>2. TypeOK'
  BY <1>1 DEF IInv, TypeOK, prodVars, consVars
<1>3. IndexInv' /\ ViewInv'
  BY <1>1 DEF IInv, IndexInv, ViewInv, prodVars, consVars
<1>4. ProducerInv' /\ ConsumerInv' /\ InOrder'
  BY <1>1, ProducerFrame, ConsumerFrame
<1>5. ContentInv'
  BY <1>1 DEF IInv, ContentInv, prodVars
<1> QED BY <1>2, <1>3, <1>4, <1>5 DEF IInv

\* Every step of the system preserves the invariant.
LEMMA NextIInv == IInv /\ [Next]_vars => IInv'
<1> SUFFICES ASSUME IInv, [Next]_vars PROVE IInv'
  OBVIOUS
<1>1. CASE Producer
  BY <1>1, PushStep, PushRefreshStep, PushWriteStep, PushPublishStep, PushNStep,
     PushNRefreshStep, PushNCopyStep, PushNPublishStep DEF Producer, ProducerSingle, ProducerBatch
<1>2. CASE Consumer
  BY <1>2, PopStep, PopRefreshStep, PopReadStep, PopPublishStep, PopNStep,
     PopNRefreshStep, PopNCopyStep, PopNPublishStep DEF Consumer, ConsumerSingle, ConsumerBatch
<1>3. CASE Destroy \/ Finished \/ UNCHANGED vars
  BY <1>3, QuietStep DEF Finished
<1> QED BY <1>1, <1>2, <1>3 DEF Next

\* The inductive invariant holds in every reachable state.
THEOREM Invariance == Spec => []IInv
BY InitIInv, NextIInv, PTL DEF Spec

\* Type correctness of the ring: no memcpy leaves the buffer.
THEOREM TypeCorrect == Spec => []TypeOK
<1>1. IInv => TypeOK
  BY DEF IInv
<1> QED BY <1>1, Invariance, PTL

\* push, push_n, pop and pop_n are free of data races on the slots, whatever
\* stale values of head and tail their loads return.
THEOREM RaceFreedom == Spec => []NoRace
<1>1. IInv => NoRace
  <2> SUFFICES ASSUME IInv PROVE NoRace
    OBVIOUS
  <2>1. pView = pSeen /\ cView = cSeen
    BY DEF IInv, ViewInv
  <2> QED BY <2>1, Order DEF IInv, ProducerInv, ConsumerInv, NoRace
<1> QED BY <1>1, Invariance, PTL

\* No item that was pushed and not yet popped is overwritten, also after the
\* counters have wrapped.
THEOREM NoSilentOverwrite == Spec => []NoOverwrite
<1>1. IInv => NoOverwrite
  <2> SUFFICES ASSUME IInv, NEW i \in consumed .. (produced - 1)
               PROVE  buf[Slot(Val(i))] = i
    BY DEF NoOverwrite
  <2>1. i \in Nat /\ i \in consumed .. (written - 1)
    BY Order
  <2>2. Slot(Val(i)) = i % Capacity
    BY <2>1, SlotFacts
  <2> QED BY <2>1, <2>2 DEF IInv, ContentInv
<1> QED BY <1>1, Invariance, PTL

\* pop and pop_n return the items in the order they were pushed, each once.
THEOREM FifoOrder == Spec => []InOrder
<1>1. IInv => InOrder
  BY DEF IInv
<1> QED BY <1>1, Invariance, PTL

-----------------------------------------------------------------------------
(* The ring implements BoundedFifo.                                        *)

\* The stream of the producer from item c to item p - 1.
Stream(c, p) == [k \in 1 .. (p - c) |-> <<"p", c + k - 1>>]

\* A stretch of the stream is a sequence of p - c items.
LEMMA StreamType ==
  ASSUME NEW c \in Nat, NEW p \in Nat, c <= p
  PROVE  /\ Stream(c, p) \in Seq({"p"} \X Nat)
         /\ Len(Stream(c, p)) = p - c
         /\ \A k \in 1 .. (p - c) : Stream(c, p)[k] = <<"p", c + k - 1>>
<1>1. \A k \in 1 .. (p - c) : <<"p", c + k - 1>> \in {"p"} \X Nat
  OBVIOUS
<1>2. p - c \in Nat
  OBVIOUS
<1> QED BY <1>1, <1>2 DEF Stream

\* A put appends a stretch.
LEMMA StreamPut ==
  ASSUME NEW c \in Nat, NEW p \in Nat, NEW e \in Nat, c <= p, p <= e
  PROVE  Stream(c, e) = Stream(c, p) \o Stream(p, e)
<1>1. Stream(c, p) \in Seq({"p"} \X Nat) /\ Len(Stream(c, p)) = p - c
      /\ \A k \in 1 .. (p - c) : Stream(c, p)[k] = <<"p", c + k - 1>>
  BY StreamType
<1>2. Stream(p, e) \in Seq({"p"} \X Nat) /\ Len(Stream(p, e)) = e - p
      /\ \A k \in 1 .. (e - p) : Stream(p, e)[k] = <<"p", p + k - 1>>
  BY StreamType
<1>3. Stream(c, e) \in Seq({"p"} \X Nat) /\ Len(Stream(c, e)) = e - c
      /\ \A k \in 1 .. (e - c) : Stream(c, e)[k] = <<"p", c + k - 1>>
  <2>1. c <= e
    OBVIOUS
  <2> QED BY <2>1, StreamType
<1> DEFINE s == Stream(c, p) \o Stream(p, e)
<1>4. /\ s \in Seq({"p"} \X Nat) /\ Len(s) = Len(Stream(c, p)) + Len(Stream(p, e))
      /\ \A k \in 1 .. (Len(Stream(c, p)) + Len(Stream(p, e))) :
           s[k] = IF k <= Len(Stream(c, p)) THEN Stream(c, p)[k]
                  ELSE Stream(p, e)[k - Len(Stream(c, p))]
  BY <1>1, <1>2, ConcatProperties
<1> HIDE DEF s
<1>5. ASSUME NEW k \in 1 .. (e - c)
      PROVE  s[k] = Stream(c, e)[k]
  <2>1. s[k] = IF k <= p - c THEN Stream(c, p)[k] ELSE Stream(p, e)[k - (p - c)]
    BY <1>1, <1>2, <1>4
  <2>2. CASE k <= p - c
    <3>1. k \in 1 .. (p - c)
      BY <2>2
    <3> QED BY <1>1, <1>3, <2>1, <2>2, <3>1
  <2>3. CASE ~(k <= p - c)
    <3>1. k - (p - c) \in 1 .. (e - p) /\ p + (k - (p - c)) - 1 = c + k - 1
      BY <2>3
    <3> QED BY <1>2, <1>3, <2>1, <2>3, <3>1
  <2> QED BY <2>2, <2>3
<1>6. Len(s) = e - c
  BY <1>1, <1>2, <1>4
<1>7. Stream(c, e) = s
  BY <1>3, <1>4, <1>5, <1>6, SeqEqual
<1> QED BY <1>7 DEF s

\* What BoundedFifo's Take returns, and what it leaves.
Front(s, n) == SubSeq(s, 1, n)
Rest(s, n) == SubSeq(s, n + 1, Len(s))

\* A take cuts a stretch off in front.
LEMMA StreamTake ==
  ASSUME NEW c \in Nat, NEW e \in Nat, NEW p \in Nat, c <= e, e <= p
  PROVE  /\ Front(Stream(c, p), e - c) = Stream(c, e)
         /\ Rest(Stream(c, p), e - c) = Stream(e, p)
<1> DEFINE d == e - c
           l == p - c
<1>0. d \in Nat /\ l \in Nat /\ d <= l /\ e = c + d /\ p = c + l /\ c <= p
  OBVIOUS
<1>1. /\ Len(Stream(c, p)) = l
      /\ \A k \in 1 .. l :
           Stream(c, p)[k] = <<"p", c + k - 1>> /\ Stream(c, p)[k] \in {"p"} \X Nat
  <2>1. /\ Stream(c, p) \in Seq({"p"} \X Nat) /\ Len(Stream(c, p)) = l
        /\ \A k \in 1 .. l : Stream(c, p)[k] = <<"p", c + k - 1>>
    BY <1>0, StreamType
  <2> QED BY <1>0, <2>1
<1>2. Stream(c, e) \in Seq({"p"} \X Nat) /\ Len(Stream(c, e)) = d
      /\ \A k \in 1 .. d : Stream(c, e)[k] = <<"p", c + k - 1>>
  BY StreamType
<1>3. Stream(e, p) \in Seq({"p"} \X Nat) /\ Len(Stream(e, p)) = p - e
      /\ \A k \in 1 .. (p - e) : Stream(e, p)[k] = <<"p", e + k - 1>>
  BY StreamType
<1> HIDE DEF d, l
<1>4. SubSeq(Stream(c, p), 1, d) = Stream(c, e)
  <2> DEFINE s == SubSeq(Stream(c, p), 1, d)
  <2>1. \A k \in 1 .. d : Stream(c, p)[k] \in {"p"} \X Nat
    BY <1>0, <1>1
  <2>2. /\ s \in Seq({"p"} \X Nat)
        /\ Len(s) = IF 1 <= d THEN d - 1 + 1 ELSE 0
        /\ \A k \in 1 .. (d - 1 + 1) : s[k] = Stream(c, p)[1 + k - 1]
    BY <1>0, <2>1, SubSeqProperties
  <2> HIDE DEF s
  <2>3. Len(s) = d
    BY <1>0, <2>2
  <2>a. ASSUME NEW k \in 1 .. d PROVE s[k] = Stream(c, e)[k]
    <3>1. k \in 1 .. (d - 1 + 1) /\ 1 + k - 1 = k /\ k \in 1 .. l
      BY <1>0
    <3> QED BY <1>1, <1>2, <2>2, <3>1
  <2>4. s = Stream(c, e)
    BY <1>2, <2>2, <2>3, <2>a, SeqEqual
  <2> QED BY <2>4 DEF s
<1>5. SubSeq(Stream(c, p), d + 1, l) = Stream(e, p)
  <2> DEFINE s == SubSeq(Stream(c, p), d + 1, l)
  <2>1. d + 1 \in Int /\ \A k \in (d + 1) .. l : Stream(c, p)[k] \in {"p"} \X Nat
    BY <1>0, <1>1
  <2>2. /\ s \in Seq({"p"} \X Nat)
        /\ Len(s) = IF d + 1 <= l THEN l - (d + 1) + 1 ELSE 0
        /\ \A k \in 1 .. (l - (d + 1) + 1) : s[k] = Stream(c, p)[(d + 1) + k - 1]
    BY <1>0, <2>1, SubSeqProperties
  <2> HIDE DEF s
  <2>3. Len(s) = p - e
    BY <1>0, <2>2
  <2>4. ASSUME NEW k \in 1 .. (p - e) PROVE s[k] = Stream(e, p)[k]
    <3>1. /\ k \in 1 .. (l - (d + 1) + 1) /\ d + k \in 1 .. l
          /\ (d + 1) + k - 1 = d + k /\ c + (d + k) - 1 = e + k - 1
      BY <1>0
    <3>2. s[k] = Stream(c, p)[d + k]
      BY <2>2, <3>1
    <3> QED BY <1>1, <1>3, <3>1, <3>2
  <2>5. s = Stream(e, p)
    BY <1>3, <2>2, <2>3, <2>4, SeqEqual
  <2> QED BY <2>5 DEF s
<1> QED BY <1>1, <1>4, <1>5 DEF d, l, Front, Rest

\* What the slots hold between tail and head is a stretch of the stream.
LEMMA SlotsAreStream ==
  ASSUME NEW b, NEW c \in Nat, NEW p \in Nat,
         \A i \in c .. (p - 1) : b[i % Capacity] = i
  PROVE  [k \in 1 .. (p - c) |-> <<"p", b[Slot(Val(c + k - 1))]>>] = Stream(c, p)
<1>1. ASSUME NEW k \in 1 .. (p - c)
      PROVE  b[Slot(Val(c + k - 1))] = c + k - 1
  <2>1. c + k - 1 \in Nat /\ c + k - 1 \in c .. (p - 1)
    OBVIOUS
  <2>2. Slot(Val(c + k - 1)) = (c + k - 1) % Capacity
    BY <2>1, SlotFacts
  <2> QED BY <2>1, <2>2
<1> QED BY <1>1 DEF Stream

\* The refinement mapping, and what it amounts to where IInv holds.
queueBar == [k \in 1 .. (produced - consumed) |-> <<"p", buf[Slot(Val(consumed + k - 1))]>>]
sentBar == [s \in {"p"} |-> produced]
takenBar == [k \in 1 .. Len(ret) |-> <<"p", ret[k]>>]

LEMMA QueueBar ==
  ASSUME IInv
  PROVE  queueBar = Stream(consumed, produced)
<1>1. \A i \in consumed .. (produced - 1) : buf[i % Capacity] = i
  BY Order DEF IInv, ContentInv
<1>2. produced \in Nat /\ consumed \in Nat
  BY Order
<1> QED BY <1>1, <1>2, SlotsAreStream DEF queueBar

LEMMA QueueBarNext ==
  ASSUME IInv'
  PROVE  (queueBar = Stream(consumed, produced))'
BY QueueBar, PTL

\* The producer is within one lap of the consumer, before and after a step.
LEMMA WithinLap ==
  ASSUME IInv
  PROVE  produced <= consumed + Capacity
BY Order

LEMMA WithinLapNext ==
  ASSUME IInv'
  PROVE  (produced <= consumed + Capacity)'
BY WithinLap, PTL

\* A step that publishes nothing is no step of the FIFO.
LEMMA SilentStep ==
  ASSUME IInv, IInv', UNCHANGED <<produced, consumed, ret>>
  PROVE  UNCHANGED <<queueBar, sentBar, takenBar>>
BY QueueBar, QueueBarNext DEF sentBar, takenBar

\* The store to head is the put.
LEMMA PutStep ==
  ASSUME IInv, IInv', NEW n \in Nat \ {0}, StoreHead(n), UNCHANGED <<consumed, ret>>
  PROVE  n \in 1 .. Capacity /\ Fifo!Put("p", n)
<1>1. /\ produced \in Nat /\ consumed \in Nat /\ consumed <= produced
      /\ Capacity \in Nat
  BY Order
<1>2. produced' = produced + n
  BY DEF StoreHead
<1>3. produced' <= consumed' + Capacity
  BY WithinLapNext
<1>4. Len(queueBar) = produced - consumed
  BY <1>1, QueueBar, StreamType
<1>5. queueBar' = queueBar \o [i \in 1 .. n |-> <<"p", produced + i - 1>>]
  <2>1. queueBar = Stream(consumed, produced) /\ queueBar' = Stream(consumed, produced')
    BY QueueBar, QueueBarNext
  <2>2. Stream(consumed, produced') = Stream(consumed, produced) \o Stream(produced, produced')
    <3>1. produced + n \in Nat /\ produced <= produced + n
      BY <1>1
    <3> QED BY <1>1, <1>2, <3>1, StreamPut
  <2>3. Stream(produced, produced') = [i \in 1 .. n |-> <<"p", produced + i - 1>>]
    <3>1. produced' - produced = n
      BY <1>1, <1>2
    <3> QED BY <3>1 DEF Stream
  <2> QED BY <2>1, <2>2, <2>3
<1>6. sentBar' = [sentBar EXCEPT !["p"] = @ + n] /\ sentBar["p"] = produced
  BY <1>2 DEF sentBar
<1>7. n \in 1 .. Capacity /\ Len(queueBar) + n <= Capacity
  BY <1>1, <1>2, <1>3, <1>4
<1>8. UNCHANGED takenBar
  BY DEF takenBar
<1> QED BY <1>5, <1>6, <1>7, <1>8 DEF Fifo!Put, queueBar, sentBar, takenBar

\* The store to tail is the take, and the call returns what was taken.
LEMMA TakeStep ==
  ASSUME IInv, IInv', NEW n \in Nat \ {0}, StoreTail(n), n = cn,
         cpc \in {"publish", "publish_n"}, UNCHANGED produced
  PROVE  n \in 1 .. Capacity /\ Fifo!Take(n)
<1>1. /\ produced \in Nat /\ consumed \in Nat /\ consumed <= produced
      /\ Capacity \in Nat /\ produced <= consumed + Capacity
  BY Order
<1>2. consumed' = consumed + n /\ ret' = out
  BY DEF StoreTail
<1>3. consumed + n <= produced
  BY Order DEF IInv, ConsumerInv
<1>4. Len(queueBar) = produced - consumed
  BY <1>1, QueueBar, StreamType
<1>a. /\ queueBar = Stream(consumed, produced)
      /\ queueBar' = Stream(consumed', produced)
      /\ consumed' \in Nat /\ consumed <= consumed' /\ consumed' <= produced
      /\ consumed' - consumed = n
  BY <1>1, <1>2, <1>3, QueueBar, QueueBarNext
<1>b. /\ Front(queueBar, n) = Stream(consumed, consumed')
      /\ Rest(queueBar, n) = Stream(consumed', produced)
  <2>1. PICK e \in Nat : e = consumed'
    BY <1>a
  <2>2. consumed <= e /\ e <= produced
    BY <1>a, <2>1
  <2>a. e - consumed = n
    BY <1>a, <2>1
  <2>3. /\ Front(Stream(consumed, produced), e - consumed) = Stream(consumed, e)
        /\ Rest(Stream(consumed, produced), e - consumed) = Stream(e, produced)
    BY <1>1, <2>2, StreamTake
  <2> QED BY <1>a, <2>1, <2>a, <2>3
<1>5. queueBar' = SubSeq(queueBar, n + 1, Len(queueBar))
  BY <1>a, <1>b DEF Rest
<1>6. ret' = [k \in 1 .. n |-> consumed + k - 1]
  BY <1>2 DEF IInv, InOrder
<1>7. takenBar' = Stream(consumed, consumed')
  <2>1. Len(ret') = n
    BY <1>6
  <2> QED BY <1>6, <1>a, <2>1 DEF takenBar, Stream
<1>8. takenBar' = SubSeq(queueBar, 1, n)
  BY <1>7, <1>b DEF Front
<1>9. n \in 1 .. Capacity /\ n <= Len(queueBar)
  BY <1>1, <1>3, <1>4
<1>10. UNCHANGED sentBar
  BY DEF sentBar
<1> QED BY <1>5, <1>8, <1>9, <1>10 DEF Fifo!Take, queueBar, sentBar, takenBar

\* push, push_n, pop and pop_n are atomic operations on a bounded FIFO: every
\* behaviour of the ring is one of BoundedFifo.
THEOREM Refinement == Spec => ImplementsFifo
<1>1. Init => Fifo!Init
  <2> SUFFICES ASSUME Init PROVE Fifo!Init
    OBVIOUS
  <2>1. queueBar = <<>> /\ sentBar = [s \in {"p"} |-> 0] /\ takenBar = <<>>
    BY DEF Init, queueBar, sentBar, takenBar
  <2> QED BY <2>1 DEF Fifo!Init, queueBar, sentBar, takenBar
<1>2. IInv /\ IInv' /\ [Next]_vars => [Fifo!Next]_(Fifo!vars)
  <2> SUFFICES ASSUME IInv, IInv', [Next]_vars
               PROVE  Fifo!Next \/ UNCHANGED <<queueBar, sentBar, takenBar>>
    BY DEF Fifo!vars, queueBar, sentBar, takenBar
  <2>1. CASE PushPublish
    <3>1. Fifo!Put("p", 1) /\ 1 \in 1 .. Capacity
      BY <2>1, PutStep DEF PushPublish, consVars
    <3> QED BY <3>1 DEF Fifo!Next
  <2>2. CASE PushNPublish
    <3>1. pn \in Nat \ {0}
      BY <2>2, Order DEF PushNPublish, IInv, ProducerInv
    <3>2. Fifo!Put("p", pn) /\ pn \in 1 .. Capacity
      BY <2>2, <3>1, PutStep DEF PushNPublish, consVars
    <3> QED BY <3>2 DEF Fifo!Next
  <2>3. CASE PopPublish
    <3>1. cn = 1
      BY <2>3 DEF PopPublish, IInv, ConsumerInv
    <3>2. Fifo!Take(1) /\ 1 \in 1 .. Capacity
      BY <2>3, <3>1, TakeStep DEF PopPublish
    <3> QED BY <3>2 DEF Fifo!Next
  <2>4. CASE PopNPublish
    <3>1. PICK n \in Nat \ {0} : n = cn
      BY <2>4, Order DEF PopNPublish, IInv, ConsumerInv
    <3>a. StoreTail(n) /\ cpc \in {"publish", "publish_n"} /\ UNCHANGED produced
      BY <2>4, <3>1 DEF PopNPublish
    <3>2. Fifo!Take(n) /\ n \in 1 .. Capacity
      BY <3>1, <3>a, TakeStep
    <3> QED BY <3>2 DEF Fifo!Next
  <2>5. CASE ~PushPublish /\ ~PushNPublish /\ ~PopPublish /\ ~PopNPublish
    <3>1. UNCHANGED <<produced, consumed, ret>>
      BY <2>5 DEF Next, Producer, ProducerSingle, ProducerBatch, Push, PushRefresh,
         PushWrite, PushN, PushNRefresh, PushNCopy, Consumer, ConsumerSingle,
         ConsumerBatch, Pop, PopRefresh, PopRead, PopN, PopNRefresh, PopNCopy,
         Destroy, Finished, consVars, vars
    <3> QED BY <3>1, SilentStep
  <2> QED BY <2>1, <2>2, <2>3, <2>4, <2>5
<1> QED BY <1>1, <1>2, Invariance, PTL DEF Spec, ImplementsFifo, Fifo!Spec
=============================================================================
