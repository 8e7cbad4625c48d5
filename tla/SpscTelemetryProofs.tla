------------------------ MODULE SpscTelemetryProofs ------------------------
(***************************************************************************)
(* spsc_ring_size on an owner's thread errs on the safe side, and what it  *)
(* says binds the owner's next call, for every capacity, counter width,    *)
(* number of items and batch size, whatever stale index its relaxed load   *)
(* returns.                                                                *)
(*                                                                         *)
(* OwnerSizeIsSafe alone would not do for the second part: SizeInv adds    *)
(* that the stores the owner may still load agree with the size, which is  *)
(* coherence: the load in size() has moved past the older ones.            *)
(***************************************************************************)
EXTENDS SpscTelemetry, SpscRingProofs

-----------------------------------------------------------------------------
(* The inductive invariant behind OwnerSizeIsSafe and SizeIsBinding.       *)

\* No tail the producer may still load makes the ring look fuller than the size
\* it was told, and no head the consumer may still load makes it look emptier.
SizeInv ==
  /\ pSize # None =>
       /\ pSize \in 0 .. Capacity /\ produced - consumed <= pSize
       /\ \A m \in tailMO : produced - m.cnt <= pSize
  /\ cSize # None =>
       /\ cSize \in 0 .. Capacity /\ cSize <= produced - consumed
       /\ \A m \in headMO : cSize <= m.cnt - consumed

TInv == IInv /\ SizeInv

\* What size computes from wrapped counters on the producer's thread is the
\* distance to the tail it loaded, and likewise on the consumer's.
LEMMA SizeFacts ==
  ASSUME IInv
  PROVE  /\ \A m \in tailMO :
              /\ m.cnt \in pSeen .. consumed
              /\ Size(produced, m.cnt) = produced - m.cnt
         /\ \A m \in headMO :
              /\ m.cnt \in cSeen .. produced
              /\ Size(m.cnt, consumed) = m.cnt - consumed
<1>1. ASSUME NEW m \in tailMO
      PROVE  m.cnt \in pSeen .. consumed /\ Size(produced, m.cnt) = produced - m.cnt
  <2>1. m.cnt \in 0 .. MaxItems /\ pSeen <= m.cnt /\ m.cnt <= consumed
    BY DEF IInv, TypeOK, Message, ViewInv
  <2>2. m.cnt \in pSeen .. consumed
    BY <2>1, Order
  <2> QED BY <2>2, Distances DEF Size, head
<1>2. ASSUME NEW m \in headMO
      PROVE  m.cnt \in cSeen .. produced /\ Size(m.cnt, consumed) = m.cnt - consumed
  <2>1. m.cnt \in 0 .. MaxItems /\ cSeen <= m.cnt /\ m.cnt <= produced
    BY DEF IInv, TypeOK, Message, ViewInv
  <2>2. m.cnt \in cSeen .. produced
    BY <2>1, Order
  <2> QED BY <2>2, Distances DEF Size, tail
<1> QED BY <1>1, <1>2

\* A load that only drops old stores keeps what the ring relies on.
LEMMA DropStores ==
  ASSUME IInv, tailMO' \subseteq tailMO, headMO' \subseteq headMO,
         UNCHANGED <<buf, produced, consumed, live, prodVars, consVars>>
  PROVE  IInv'
<1>1. TypeOK'
  BY DEF IInv, TypeOK, prodVars, consVars
<1>2. IndexInv' /\ ViewInv'
  BY DEF IInv, IndexInv, ViewInv, prodVars, consVars
<1>3. ProducerInv' /\ ConsumerInv' /\ InOrder'
  BY ProducerFrame, ConsumerFrame
<1>4. ContentInv'
  BY DEF IInv, ContentInv, prodVars
<1> QED BY <1>1, <1>2, <1>3, <1>4 DEF IInv

\* size() on the producer's thread.
LEMMA ProducerSizeStep ==
  ASSUME TInv, NEW m \in tailMO, ProducerSize(m)
  PROVE  TInv'
<1>1. IInv /\ SizeInv
  BY DEF TInv
<1>2. m.cnt \in pSeen .. consumed /\ pSize' = produced - m.cnt
  BY <1>1, SizeFacts DEF ProducerSize
<1>3. tailMO' \subseteq tailMO /\ \A x \in tailMO' : x.cnt \in Nat /\ m.cnt <= x.cnt
  BY <1>1 DEF ProducerSize, IInv, TypeOK, Message
<1>4. IInv'
  BY <1>1, <1>3, DropStores DEF ProducerSize
<1>5. SizeInv'
  <2>1. /\ pSize' \in 0 .. Capacity /\ produced - consumed <= pSize'
        /\ \A x \in tailMO' : produced - x.cnt <= pSize'
    BY <1>1, <1>2, <1>3, Order
  <2> QED BY <1>1, <2>1 DEF SizeInv, ProducerSize
<1> QED BY <1>4, <1>5 DEF TInv

\* size() on the consumer's thread.
LEMMA ConsumerSizeStep ==
  ASSUME TInv, NEW m \in headMO, ConsumerSize(m)
  PROVE  TInv'
<1>1. IInv /\ SizeInv
  BY DEF TInv
<1>2. m.cnt \in cSeen .. produced /\ cSize' = m.cnt - consumed
  BY <1>1, SizeFacts DEF ConsumerSize
<1>3. headMO' \subseteq headMO /\ \A x \in headMO' : x.cnt \in Nat /\ m.cnt <= x.cnt
  BY <1>1 DEF ConsumerSize, IInv, TypeOK, Message
<1>4. IInv'
  BY <1>1, <1>3, DropStores DEF ConsumerSize
<1>5. SizeInv'
  <2>1. /\ cSize' \in 0 .. Capacity /\ cSize' <= produced - consumed
        /\ \A x \in headMO' : cSize' <= x.cnt - consumed
    BY <1>1, <1>2, <1>3, Order
  <2> QED BY <1>1, <2>1 DEF SizeInv, ConsumerSize
<1> QED BY <1>4, <1>5 DEF TInv

\* What a step of the ring does to the indices and to the stores that can still
\* be loaded.
LEMMA RingMoves ==
  ASSUME IInv, Next
  PROVE  /\ produced' = produced \/ (produced' \in Nat /\ produced <= produced')
         /\ consumed' = consumed \/ (consumed' \in Nat /\ consumed <= consumed')
         /\ \A m \in tailMO' : m \in tailMO \/ m.cnt = consumed'
         /\ \A m \in headMO' : m \in headMO \/ m.cnt = produced'
         /\ produced' = produced \/ UNCHANGED <<consumed, tailMO>>
         /\ consumed' = consumed \/ UNCHANGED <<produced, headMO>>
<1> USE Order
<1>1. CASE PushPublish \/ PushNPublish
  BY <1>1 DEF PushPublish, PushNPublish, StoreHead
<1>2. CASE PopPublish \/ PopNPublish
  BY <1>2 DEF PopPublish, PopNPublish, StoreTail
<1>3. CASE (\E m \in tailMO : PushRefresh(m) \/ PushNRefresh(m))
           \/ (\E m \in headMO : PopRefresh(m) \/ PopNRefresh(m))
  BY <1>3 DEF PushRefresh, PushNRefresh, PopRefresh, PopNRefresh, LoadTail, LoadHead
<1>4. CASE \/ Push \/ PushWrite \/ PushNCopy \/ \E n \in 1 .. MaxBatch : PushN(n)
           \/ Pop \/ PopRead \/ PopNCopy \/ \E n \in 1 .. MaxBatch : PopN(n)
           \/ Destroy \/ Finished
  BY <1>4 DEF Push, PushWrite, PushNCopy, PushN, Pop, PopRead, PopNCopy, PopN,
     Destroy, Finished, vars
<1> QED BY <1>1, <1>2, <1>3, <1>4 DEF Next, Producer, ProducerSingle, ProducerBatch,
        Consumer, ConsumerSingle, ConsumerBatch

\* A size stays right while the other side moves on.
LEMMA RingStepKeeps ==
  ASSUME TInv, RingStep
  PROVE  TInv'
<1>1. IInv /\ SizeInv /\ Next
  BY DEF TInv, RingStep
<1>2. IInv'
  BY <1>1, NextIInv
<1>3. ASSUME pSize' # None
      PROVE  /\ pSize' \in 0 .. Capacity /\ produced' - consumed' <= pSize'
             /\ \A m \in tailMO' : produced' - m.cnt <= pSize'
  <2>1. produced' = produced /\ pSize' = pSize /\ pSize # None
    BY <1>3 DEF RingStep
  <2>2. /\ pSize \in 0 .. Capacity /\ produced - consumed <= pSize
        /\ \A m \in tailMO : produced - m.cnt <= pSize
    BY <1>1, <2>1 DEF SizeInv
  <2>3. PICK c \in Nat : c = consumed' /\ consumed <= c
    BY <1>1, RingMoves, Order
  <2>4. produced - c <= pSize
    BY <1>1, <2>2, <2>3, Order
  <2>5. ASSUME NEW m \in tailMO' PROVE produced - m.cnt <= pSize
    <3>1. m \in tailMO \/ m.cnt = c
      BY <1>1, <2>3, RingMoves
    <3> QED BY <2>2, <2>4, <3>1
  <2> QED BY <2>1, <2>2, <2>3, <2>4, <2>5
<1>4. ASSUME cSize' # None
      PROVE  /\ cSize' \in 0 .. Capacity /\ cSize' <= produced' - consumed'
             /\ \A m \in headMO' : cSize' <= m.cnt - consumed'
  <2>1. consumed' = consumed /\ cSize' = cSize /\ cSize # None
    BY <1>4 DEF RingStep
  <2>2. /\ cSize \in 0 .. Capacity /\ cSize <= produced - consumed
        /\ \A m \in headMO : cSize <= m.cnt - consumed
    BY <1>1, <2>1 DEF SizeInv
  <2>3. PICK p \in Nat : p = produced' /\ produced <= p
    BY <1>1, RingMoves, Order
  <2>4. cSize <= p - consumed
    BY <1>1, <2>2, <2>3, Order
  <2>5. ASSUME NEW m \in headMO' PROVE cSize <= m.cnt - consumed
    <3>1. m \in headMO \/ m.cnt = p
      BY <1>1, <2>3, RingMoves
    <3> QED BY <2>2, <2>4, <3>1
  <2> QED BY <2>1, <2>2, <2>3, <2>4, <2>5
<1> QED BY <1>2, <1>3, <1>4 DEF TInv, SizeInv

\* The invariant of a ring whose owners ask for its size.
THEOREM SizeInvariance == OwnersSpec => []TInv
<1>1. TInit => TInv
  BY InitIInv DEF TInit, TInv, SizeInv
<1>2. TInv /\ [RingStep \/ OwnerSize]_tvars => TInv'
  <2> SUFFICES ASSUME TInv, [RingStep \/ OwnerSize]_tvars PROVE TInv'
    OBVIOUS
  <2>1. CASE RingStep
    BY <2>1, RingStepKeeps
  <2>2. CASE OwnerSize
    BY <2>2, ProducerSizeStep, ConsumerSizeStep DEF OwnerSize
  <2>3. CASE UNCHANGED tvars
    <3>1. IInv'
      BY <2>3, QuietStep DEF tvars, TInv
    <3>2. SizeInv'
      BY <2>3 DEF tvars, vars, TInv, SizeInv
    <3> QED BY <3>1, <3>2 DEF TInv
  <2> QED BY <2>1, <2>2, <2>3
<1> QED BY <1>1, <1>2, PTL DEF OwnersSpec

\* On its own thread a size errs on the safe side.
THEOREM OwnerSizeSafety == OwnersSpec => []OwnerSizeIsSafe
<1>1. TInv => OwnerSizeIsSafe
  <2> SUFFICES ASSUME TInv PROVE OwnerSizeIsSafe
    OBVIOUS
  <2> QED BY Order DEF TInv, SizeInv, OwnerSizeIsSafe
<1> QED BY <1>1, SizeInvariance, PTL

\* A push after full() = FALSE on the producer's thread does not fail: the tail
\* its reload may return leaves room.
LEMMA PushBinds ==
  ASSUME TInv, RingStep, pSize # None, ~Full(pSize)
  PROVE  ~PushFails
<1> SUFFICES ASSUME PushFails PROVE FALSE
  OBVIOUS
<1>1. IInv /\ Next /\ pSize \in 0 .. Capacity /\ pSize # Capacity
      /\ \A m \in tailMO : produced - m.cnt <= pSize
  BY DEF TInv, SizeInv, RingStep, Full
<1>2. \E m \in tailMO : PushRefresh(m) \/ PushNRefresh(m)
  BY <1>1 DEF PushFails, Next, Producer, ProducerSingle, ProducerBatch, Push,
     PushRefresh, PushWrite, PushPublish, PushN, PushNRefresh, PushNCopy,
     PushNPublish, Consumer, ConsumerSingle, ConsumerBatch, Pop, PopRefresh,
     PopRead, PopPublish, PopN, PopNRefresh, PopNCopy, PopNPublish, Destroy,
     Finished, prodVars, vars
<1>3. PICK m \in tailMO : PushRefresh(m) \/ PushNRefresh(m)
  BY <1>2
<1>4. LoadTail(m) /\ m.cnt \in pSeen .. consumed
      /\ Minus(head, cached_tail') = produced - m.cnt
      /\ Remaining(cached_tail') = Capacity - (produced - m.cnt)
  <2>1. LoadTail(m)
    BY <1>3 DEF PushRefresh, PushNRefresh
  <2> QED BY <1>1, <2>1, LoadTailFacts
<1>5. produced - m.cnt < Capacity
  BY <1>1, <1>4, Order
<1>6. CASE PushRefresh(m)
  BY <1>1, <1>4, <1>5, <1>6, Order DEF PushRefresh, PushFails, LooksFull
<1>7. CASE PushNRefresh(m)
  <2>1. pn >= 1
    BY <1>1, <1>7 DEF PushNRefresh, IInv, ProducerInv
  <2> QED BY <1>1, <1>4, <1>5, <1>7, <2>1, Order DEF PushNRefresh, PushFails, MinOf
<1> QED BY <1>3, <1>6, <1>7

\* A pop after empty() = FALSE on the consumer's thread does not fail.
LEMMA PopBinds ==
  ASSUME TInv, RingStep, cSize # None, ~Empty(cSize)
  PROVE  ~PopFails
<1> SUFFICES ASSUME PopFails PROVE FALSE
  OBVIOUS
<1>1. IInv /\ Next /\ cSize \in 0 .. Capacity /\ cSize # 0
      /\ \A m \in headMO : cSize <= m.cnt - consumed
  BY DEF TInv, SizeInv, RingStep, Empty
<1>2. \E m \in headMO : PopRefresh(m) \/ PopNRefresh(m)
  BY <1>1 DEF PopFails, Next, Producer, ProducerSingle, ProducerBatch, Push,
     PushRefresh, PushWrite, PushPublish, PushN, PushNRefresh, PushNCopy,
     PushNPublish, Consumer, ConsumerSingle, ConsumerBatch, Pop, PopRefresh,
     PopRead, PopPublish, PopN, PopNRefresh, PopNCopy, PopNPublish, Destroy,
     Finished, consVars, vars
<1>3. PICK m \in headMO : PopRefresh(m) \/ PopNRefresh(m)
  BY <1>2
<1>4. LoadHead(m) /\ m.cnt \in cSeen .. produced
      /\ Minus(cached_head', tail) = m.cnt - consumed
      /\ ((tail = cached_head') <=> (m.cnt = consumed))
  <2>1. LoadHead(m)
    BY <1>3 DEF PopRefresh, PopNRefresh
  <2> QED BY <1>1, <2>1, LoadHeadFacts
<1>5. m.cnt - consumed > 0
  BY <1>1, <1>4, Order
<1>6. CASE PopRefresh(m)
  BY <1>1, <1>4, <1>5, <1>6, Order DEF PopRefresh, PopFails
<1>7. CASE PopNRefresh(m)
  <2>1. cn >= 1
    BY <1>1, <1>7 DEF PopNRefresh, IInv, ConsumerInv
  <2> QED BY <1>1, <1>4, <1>5, <1>7, <2>1, Order DEF PopNRefresh, PopFails, MinOf
<1> QED BY <1>3, <1>6, <1>7

\* "Not full" and "not empty" bind the owner's next call.
THEOREM SizeBinds == OwnersSpec => SizeIsBinding
<1> DEFINE A == /\ pSize # None /\ ~Full(pSize) => ~PushFails
                /\ cSize # None /\ ~Empty(cSize) => ~PopFails
<1>1. TInv /\ [RingStep \/ OwnerSize]_tvars => [A]_tvars
  <2> SUFFICES ASSUME TInv, RingStep \/ OwnerSize PROVE A
    OBVIOUS
  <2>1. CASE RingStep
    BY <2>1, PushBinds, PopBinds
  <2>2. CASE OwnerSize
    <3>1. ppc' = ppc /\ cpc' = cpc
      BY <2>2 DEF OwnerSize, ProducerSize, ConsumerSize, prodVars, consVars
    <3> QED BY <3>1 DEF PushFails, PopFails
  <2> QED BY <2>1, <2>2
<1> QED BY <1>1, SizeInvariance, PTL DEF OwnersSpec, SizeIsBinding
=============================================================================
