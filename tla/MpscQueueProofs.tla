--------------------------- MODULE MpscQueueProofs ---------------------------
(***************************************************************************)
(* The MPSC queue is correct for any set of producers, any capacity, any   *)
(* number of items and any staleness of its loads.                         *)
(*                                                                         *)
(* The safety properties follow from the inductive invariant IInv.         *)
(* CellFacts and CellDistinct relate positions to cells, also across the   *)
(* wrap of head and tail; ClaimsFit counts: a position is claimed once per *)
(* item, so there are no more claims than items and no two of them have    *)
(* the same counter value.                                                 *)
(***************************************************************************)
EXTENDS MpscQueue, CountersProofs, FiniteSetTheorems, SequenceTheorems

-----------------------------------------------------------------------------
(* The inductive invariant behind the safety properties.                   *)

\* Every claim is of an item of its own, and all of a producer's are behind it;
\* the claims stay within a lap of the consumer.
ClaimInv ==
  /\ Len(claims) = claimed /\ claimed - consumed <= Capacity
  /\ \A i \in 1 .. claimed : claims[i][2] < sent[claims[i][1]]
  /\ \A i, j \in 1 .. claimed : claims[i] = claims[j] => i = j

\* Between its claim and its store to is_ready.
Pending(p) == ppc[p] \in {"write", "ready"}

\* A head that passed the test for a full queue is within a lap of the tail, or
\* too old for the CAS to succeed.  A pending producer has its position to
\* itself.
ProducerInv ==
  \A p \in Producers :
    /\ pTail[p] <= pView[p]
    /\ ppc[p] \in {"tail", "cas"} => sent[p] < PerProducer
    /\ ppc[p] = "cas" => ph[p] < pTail[p] \/ ph[p] - pTail[p] < Capacity
    /\ Pending(p) =>
         /\ ph[p] \in consumed .. (claimed - 1) /\ ph[p] + 1 - Capacity <= pView[p]
         /\ claims[ph[p] + 1] = <<p, sent[p] - 1>>
         /\ ~ready[Cell(ph[p])]
    /\ ppc[p] = "ready" => data[Cell(ph[p])] = claims[ph[p] + 1]

\* The consumer is at the oldest position; once it has seen is_ready there the
\* producer of that position is through.
ConsumerInv ==
  /\ consumed <= cHead
  /\ cpc # "idle" => ct = consumed
  /\ cpc \in {"flag", "read", "clear", "release"} => ct < cHead
  /\ cpc \in {"read", "clear"} => ready[Cell(ct)] /\ cView = ct
  /\ cpc \in {"clear", "release"} => cVal = claims[ct + 1]
  /\ cpc = "release" => ~ready[Cell(ct)]
  /\ cpc \in {"read", "clear", "release"} =>
       \A p \in Producers : Pending(p) => ph[p] # ct

\* A flag that is set announces an item that is there.
CellInv ==
  \A s \in Cells : ready[s] =>
    \E i \in consumed .. (claimed - 1) :
      s = Cell(i) /\ pub[s] = i /\ data[s] = claims[i + 1]

IInv ==
  /\ TypeOK
  /\ ClaimInv
  /\ ProducerInv
  /\ ConsumerInv
  /\ CellInv

-----------------------------------------------------------------------------
(* Positions, counters and cells.                                          *)

LEMMA Sizes ==
  /\ Total \in Nat /\ Total < Modulus /\ Start \in Nat /\ PerProducer \in Nat
  /\ Capacity \in Nat \ {0} /\ Capacity < Modulus /\ Modulus \in Nat \ {0}
  /\ (RingDepth(Capacity) \/ Start + Total < Modulus)
<1>1. Cardinality(Producers) \in Nat
  BY MpscAssumption, FS_CardinalityType
<1>2. Cardinality(Producers) * PerProducer \in Nat
  BY <1>1, MpscAssumption
<1> QED BY <1>2, MpscAssumption, CountersAssumption DEF Total

\* A cell is selected by the position, whether or not the counter has wrapped.
LEMMA CellFacts ==
  ASSUME NEW a \in 0 .. Total
  PROVE  Cell(a) = (Start + a) % Capacity /\ Cell(a) \in Cells
<1>0. Start + a \in Nat /\ Capacity \in Nat \ {0} /\ Modulus \in Nat \ {0}
  BY Sizes
<1>1. SlotOf(Val(Start + a), Capacity) = (Start + a) % Capacity
  <2>1. CASE RingDepth(Capacity)
    BY <1>0, <2>1, SlotVal
  <2>2. CASE Start + Total < Modulus
    <3>1. Start + a \in 0 .. (Modulus - 1)
      BY <2>2, Sizes
    <3>2. (Modulus * 0 + (Start + a)) % Modulus = Start + a
      BY <1>0, <3>1, ModUnique
    <3>3. Modulus * 0 + (Start + a) = Start + a
      BY <1>0
    <3> QED BY <3>2, <3>3 DEF Val, SlotOf
  <2> QED BY <2>1, <2>2, Sizes
<1>2. (Start + a) % Capacity \in 0 .. (Capacity - 1)
  BY <1>0
<1> QED BY <1>1, <1>2 DEF Cell, At, Cells

\* Positions less than a lap apart have different cells.
LEMMA CellDistinct ==
  ASSUME NEW a \in 0 .. Total, NEW b \in 0 .. Total,
         a # b, a - b < Capacity, b - a < Capacity
  PROVE  Cell(a) # Cell(b)
<1>0. /\ Start + a \in Nat /\ Start + b \in Nat /\ Capacity \in Nat \ {0}
      /\ (a < b => Start + a < Start + b /\ Start + b < (Start + a) + Capacity)
      /\ (b < a => Start + b < Start + a /\ Start + a < (Start + b) + Capacity)
      /\ (a < b \/ b < a)
  BY Sizes
<1>1. (Start + a) % Capacity # (Start + b) % Capacity
  BY <1>0, ModDistinct
<1> QED BY <1>1, CellFacts

\* No two positions have the same counter value.
LEMMA AtEqual ==
  ASSUME NEW a \in 0 .. Total, NEW b \in 0 .. Total
  PROVE  At(a) = At(b) <=> a = b
<1>1. ASSUME NEW x \in 0 .. Total, NEW y \in 0 .. Total, x < y PROVE At(x) # At(y)
  <2>1. Start + x \in Nat /\ Start + y \in Nat /\ Start + x < Start + y
        /\ (Start + y) - (Start + x) < Modulus
    BY <1>1, Sizes
  <2> QED BY <2>1, ValDistinct DEF At
<1>2. a = b \/ a < b \/ b < a
  BY Sizes
<1> QED BY <1>1, <1>2

\* A head that does not look full is within a lap of the tail, or behind it.
LEMMA NotFull ==
  ASSUME NEW h \in 0 .. Total, NEW t \in 0 .. Total, ~Full(h, t)
  PROVE  h < t \/ h - t < Capacity
<1> SUFFICES ASSUME ~(h < t) PROVE h - t < Capacity
  OBVIOUS
<1>1. /\ Start + h \in Nat /\ Start + t \in Nat /\ Start + t <= Start + h
      /\ (Start + h) - (Start + t) < Modulus /\ (Start + h) - (Start + t) = h - t
  BY Sizes
<1>2. Minus(At(h), At(t)) = h - t
  BY <1>1, MinusVal DEF At
<1> QED BY <1>2, Sizes DEF Full

\* There are no more claims than items.
LEMMA ClaimsFit ==
  ASSUME NEW s \in Seq(Items), \A i, j \in 1 .. Len(s) : s[i] = s[j] => i = j
  PROVE  Len(s) <= Total
<1>1. IsFiniteSet(Items) /\ Cardinality(Items) = Total
  <2>1. IsFiniteSet(0 .. (PerProducer - 1)) /\ Cardinality(0 .. (PerProducer - 1)) = PerProducer
    BY Sizes, FS_Interval
  <2> QED BY <2>1, MpscAssumption, FS_Product DEF Items, Total
<1>2. s \in Injection(1 .. Len(s), Items)
  BY DEF Injection, IsInjective
<1>3. Cardinality(1 .. Len(s)) <= Cardinality(Items)
  BY <1>1, <1>2, FS_Injection
<1>4. Len(s) \in Nat
  OBVIOUS
<1>5. Cardinality(1 .. Len(s)) = Len(s)
  <2>1. ASSUME NEW n \in Nat PROVE Cardinality(1 .. n) = n
    <3>1. Cardinality(1 .. n) = IF 1 > n THEN 0 ELSE n - 1 + 1
      BY FS_Interval
    <3> QED BY <3>1
  <2> QED BY <1>4, <2>1
<1> QED BY <1>1, <1>3, <1>5

\* The numbers of a state.
LEMMA Numbers ==
  ASSUME IInv
  PROVE  /\ claimed \in Nat /\ consumed \in Nat /\ ct \in Nat /\ cHead \in Nat
         /\ claimed \in 0 .. Total /\ consumed \in 0 .. Total
         /\ consumed <= claimed /\ claimed <= Total /\ claimed - consumed <= Capacity
         /\ consumed <= cHead /\ cHead <= claimed
         /\ \A p \in Producers :
              /\ ph[p] \in Nat /\ pHead[p] \in Nat /\ pTail[p] \in Nat /\ pView[p] \in Nat
              /\ ph[p] \in 0 .. Total /\ pTail[p] \in 0 .. Total
              /\ ph[p] <= claimed /\ pHead[p] <= claimed
              /\ pTail[p] <= consumed /\ pView[p] <= consumed
              /\ sent[p] \in Nat
BY Sizes DEF IInv, TypeOK, ClaimInv, ConsumerInv

-----------------------------------------------------------------------------
(* push                                                                    *)

\* A step of a producer that has no position and gets none: it changes its own
\* locals and nothing else.
LEMMA LoadStep ==
  ASSUME IInv, NEW p \in Producers, ~Pending(p), ppc'[p] \in {"idle", "tail", "cas"},
         UNCHANGED <<claimed, consumed, cellVars, sent, consVars, claims>>,
         /\ ph' \in [Producers -> 0 .. claimed] /\ pHead' \in [Producers -> 0 .. claimed]
         /\ pTail' \in [Producers -> 0 .. consumed] /\ pView' \in [Producers -> 0 .. consumed]
         /\ ppc' \in [Producers -> {"idle", "tail", "cas", "write", "ready"}],
         \A r \in Producers \ {p} :
           /\ ppc'[r] = ppc[r] /\ ph'[r] = ph[r]
           /\ pTail'[r] = pTail[r] /\ pView'[r] = pView[r],
         pTail'[p] <= pView'[p],
         ppc'[p] # "idle" => sent[p] < PerProducer,
         ppc'[p] = "cas" => ph'[p] < pTail'[p] \/ ph'[p] - pTail'[p] < Capacity
  PROVE  IInv'
<1>0. ~(Pending(p)') /\ \A r \in Producers \ {p} : Pending(r)' = Pending(r)
  BY DEF Pending
<1>1. TypeOK'
  BY DEF IInv, TypeOK, cellVars, consVars
<1>2. ClaimInv'
  BY DEF IInv, ClaimInv
<1>3. ProducerInv'
  <2> SUFFICES ASSUME NEW r \in Producers
               PROVE  /\ pTail'[r] <= pView'[r]
                      /\ ppc'[r] \in {"tail", "cas"} => sent'[r] < PerProducer
                      /\ ppc'[r] = "cas" =>
                           ph'[r] < pTail'[r] \/ ph'[r] - pTail'[r] < Capacity
                      /\ Pending(r)' =>
                           /\ ph'[r] \in consumed' .. (claimed' - 1)
                           /\ ph'[r] + 1 - Capacity <= pView'[r]
                           /\ claims'[ph'[r] + 1] = <<r, sent'[r] - 1>>
                           /\ ~ready'[Cell(ph[r])']
                      /\ ppc'[r] = "ready" => data'[Cell(ph[r])'] = claims'[ph'[r] + 1]
    BY DEF ProducerInv
  <2>1. CASE r = p
    BY <1>0, <2>1
  <2>2. CASE r # p
    BY <1>0, <2>2 DEF IInv, ProducerInv, cellVars, Cell, At
  <2> QED BY <2>1, <2>2
<1>4. ConsumerInv'
  BY <1>0 DEF IInv, ConsumerInv, consVars, cellVars, Cell, At
<1>5. CellInv'
  BY DEF IInv, CellInv, cellVars, Cell, At
<1> QED BY <1>1, <1>2, <1>3, <1>4, <1>5 DEF IInv

\* What a load may return.
LEMMA LoadsRange ==
  ASSUME NEW lo \in Nat, NEW hi \in Nat, lo <= hi, NEW x \in Loads(lo, hi)
  PROVE  x \in lo .. hi
BY DEF Loads

\* head is loaded, for the first time or by a CAS that failed.
LEMMA PushHeadKeeps ==
  ASSUME IInv, NEW p \in Producers, NEW h \in Loads(pHead[p], claimed),
         PushHead(p, h) \/ PushRetry(p, h)
  PROVE  IInv'
<1>1. h \in 0 .. claimed
  BY Numbers, LoadsRange
<1>2. /\ ~Pending(p) /\ sent[p] < PerProducer
      /\ ph' = [ph EXCEPT ![p] = h] /\ pHead' = [pHead EXCEPT ![p] = h]
      /\ ppc' = [ppc EXCEPT ![p] = "tail"]
      /\ UNCHANGED <<claimed, consumed, cellVars, pTail, pView, sent, consVars, claims>>
  BY DEF PushHead, PushRetry, Pending, IInv, ProducerInv
<1>3. /\ ph \in [Producers -> 0 .. claimed] /\ pHead \in [Producers -> 0 .. claimed]
      /\ pTail \in [Producers -> 0 .. consumed] /\ pView \in [Producers -> 0 .. consumed]
      /\ ppc \in [Producers -> {"idle", "tail", "cas", "write", "ready"}]
      /\ pTail[p] <= pView[p]
  BY DEF IInv, TypeOK, ProducerInv
<1>4. /\ ph' \in [Producers -> 0 .. claimed] /\ pHead' \in [Producers -> 0 .. claimed]
      /\ pTail' \in [Producers -> 0 .. consumed] /\ pView' \in [Producers -> 0 .. consumed]
      /\ ppc' \in [Producers -> {"idle", "tail", "cas", "write", "ready"}]
      /\ \A r \in Producers \ {p} :
           /\ ppc'[r] = ppc[r] /\ ph'[r] = ph[r]
           /\ pTail'[r] = pTail[r] /\ pView'[r] = pView[r]
      /\ ppc'[p] = "tail" /\ pTail'[p] <= pView'[p]
  BY <1>1, <1>2, <1>3
<1> QED BY <1>2, <1>4, LoadStep

\* tail is loaded and the queue looks full or not.
LEMMA PushTailKeeps ==
  ASSUME IInv, NEW p \in Producers, NEW t \in Loads(pTail[p], consumed), PushTail(p, t)
  PROVE  IInv'
<1>1. t \in 0 .. consumed /\ t \in Nat
  BY Numbers, LoadsRange
<1>2. /\ ~Pending(p) /\ sent[p] < PerProducer
      /\ pTail' = [pTail EXCEPT ![p] = t]
      /\ pHead' = [pHead EXCEPT ![p] = MaxOf(pHead[p], t)]
      /\ pView' = [pView EXCEPT ![p] = MaxOf(pView[p], t)]
      /\ ppc' = [ppc EXCEPT ![p] = IF Full(ph[p], t) THEN "idle" ELSE "cas"]
      /\ UNCHANGED <<claimed, consumed, cellVars, ph, sent, consVars, claims>>
  BY DEF PushTail, Pending, IInv, ProducerInv
<1>3. /\ ph \in [Producers -> 0 .. claimed] /\ pHead \in [Producers -> 0 .. claimed]
      /\ pTail \in [Producers -> 0 .. consumed] /\ pView \in [Producers -> 0 .. consumed]
      /\ ppc \in [Producers -> {"idle", "tail", "cas", "write", "ready"}]
  BY DEF IInv, TypeOK
<1>4. /\ MaxOf(pView[p], t) \in 0 .. consumed /\ t <= MaxOf(pView[p], t)
      /\ MaxOf(pHead[p], t) \in 0 .. claimed
  BY <1>1, Numbers DEF MaxOf
<1>5. ~Full(ph[p], t) => ph[p] < t \/ ph[p] - t < Capacity
  <2>1. /\ ph[p] \in 0 .. Total /\ Total \in Nat
        /\ consumed \in Nat /\ consumed <= claimed /\ claimed <= Total /\ claimed \in Nat
    BY Numbers, Sizes
  <2>2. t \in 0 .. Total
    BY <1>1, <2>1
  <2> QED BY <2>1, <2>2, NotFull
<1>6. /\ ph' \in [Producers -> 0 .. claimed] /\ pHead' \in [Producers -> 0 .. claimed]
      /\ pTail' \in [Producers -> 0 .. consumed] /\ pView' \in [Producers -> 0 .. consumed]
      /\ ppc' \in [Producers -> {"idle", "tail", "cas", "write", "ready"}]
      /\ \A r \in Producers \ {p} :
           /\ ppc'[r] = ppc[r] /\ ph'[r] = ph[r]
           /\ pTail'[r] = pTail[r] /\ pView'[r] = pView[r]
      /\ pTail'[p] = t /\ ph'[p] = ph[p] /\ pView'[p] = MaxOf(pView[p], t)
      /\ ppc'[p] \in {"idle", "cas"} /\ (ppc'[p] = "cas" => ~Full(ph[p], t))
  BY <1>1, <1>2, <1>3, <1>4
<1>7. pTail'[p] <= pView'[p]
  BY <1>4, <1>6
<1>8. ppc'[p] = "cas" => ph'[p] < pTail'[p] \/ ph'[p] - pTail'[p] < Capacity
  BY <1>5, <1>6
<1> QED BY <1>2, <1>6, <1>7, <1>8, LoadStep

\* The positions between tail and head have cells of their own.
LEMMA WindowDistinct ==
  ASSUME IInv, NEW i \in consumed .. (claimed - 1), NEW j \in consumed .. (claimed - 1),
         Cell(i) = Cell(j)
  PROVE  i = j
<1>1. /\ claimed \in Nat /\ consumed \in Nat /\ Total \in Nat /\ Capacity \in Nat
      /\ claimed <= Total /\ claimed - consumed <= Capacity
  BY Numbers, Sizes
<1>2. i \in 0 .. Total /\ j \in 0 .. Total /\ i - j < Capacity /\ j - i < Capacity
  BY <1>1
<1> QED BY <1>2, CellDistinct

\* Two pending producers have different positions, hence different cells.
LEMMA PendingDistinct ==
  ASSUME IInv, NEW p \in Producers, NEW q \in Producers, p # q, Pending(p), Pending(q)
  PROVE  ph[p] # ph[q] /\ Cell(ph[p]) # Cell(ph[q])
<1>1. /\ claims[ph[p] + 1] = <<p, sent[p] - 1>> /\ claims[ph[q] + 1] = <<q, sent[q] - 1>>
      /\ ph[p] \in consumed .. (claimed - 1) /\ ph[q] \in consumed .. (claimed - 1)
  BY DEF IInv, ProducerInv
<1>2. ph[p] # ph[q]
  <2> SUFFICES ASSUME ph[p] = ph[q] PROVE FALSE
    OBVIOUS
  <2>1. <<p, sent[p] - 1>> = <<q, sent[q] - 1>>
    BY <1>1
  <2> QED BY <2>1
<1> QED BY <1>1, <1>2, WindowDistinct

\* The CAS succeeds: the position is new, in reach and its cell is free.
LEMMA PushClaimKeeps ==
  ASSUME IInv, NEW p \in Producers, PushClaim(p)
  PROVE  IInv' /\ ph[p] = claimed /\ claimed + 1 - consumed <= Capacity
<1> DEFINE item == <<p, sent[p]>>
<1>1. ph[p] = claimed
  BY Numbers, AtEqual DEF PushClaim
<1>2. /\ claimed \in Nat /\ consumed \in Nat /\ Total \in Nat /\ Capacity \in Nat
      /\ PerProducer \in Nat /\ consumed <= claimed /\ claimed <= Total
      /\ pTail[p] \in Nat /\ pView[p] \in Nat /\ pTail[p] <= pView[p] /\ pTail[p] <= consumed
      /\ pView[p] <= consumed /\ sent[p] \in Nat /\ sent[p] < PerProducer
      /\ (ph[p] < pTail[p] \/ ph[p] - pTail[p] < Capacity)
  BY Numbers, Sizes DEF IInv, ProducerInv, PushClaim
<1>3. claimed + 1 - Capacity <= pView[p] /\ claimed + 1 - consumed <= Capacity
  BY <1>1, <1>2
<1>4. item \in Items /\ claims \in Seq(Items) /\ Len(claims) = claimed
  BY <1>2 DEF Items, IInv, TypeOK, ClaimInv
<1>5. /\ claims' \in Seq(Items) /\ Len(claims') = claimed + 1
      /\ claims'[claimed + 1] = item
      /\ \A i \in 1 .. claimed : claims'[i] = claims[i]
  BY <1>2, <1>4, AppendProperties DEF PushClaim
<1>6. \A i \in 1 .. claimed : claims[i] # item
  <2> SUFFICES ASSUME NEW i \in 1 .. claimed, claims[i] = item PROVE FALSE
    OBVIOUS
  <2>1. claims[i][2] < sent[claims[i][1]]
    BY DEF IInv, ClaimInv
  <2> QED BY <1>2, <2>1
<1>7. \A i, j \in 1 .. (claimed + 1) : claims'[i] = claims'[j] => i = j
  <2> SUFFICES ASSUME NEW i \in 1 .. (claimed + 1), NEW j \in 1 .. (claimed + 1),
                      claims'[i] = claims'[j]
               PROVE  i = j
    OBVIOUS
  <2>1. (i = claimed + 1 \/ i \in 1 .. claimed) /\ (j = claimed + 1 \/ j \in 1 .. claimed)
    BY <1>2
  <2>2. \A a, b \in 1 .. claimed : claims[a] = claims[b] => a = b
    BY DEF IInv, ClaimInv
  <2> QED BY <1>5, <1>6, <2>1, <2>2
<1>8. claimed + 1 <= Total
  BY <1>5, <1>7, ClaimsFit
<1>9. ~ready[Cell(claimed)]
  <2>1. claimed \in 0 .. Total /\ Cell(claimed) \in Cells
    BY <1>2, CellFacts
  <2> SUFFICES ASSUME ready[Cell(claimed)] PROVE FALSE
    OBVIOUS
  <2>2. PICK i \in consumed .. (claimed - 1) : Cell(claimed) = Cell(i)
    BY <2>1 DEF IInv, CellInv
  <2>3. i \in 0 .. Total /\ i # claimed /\ i - claimed < Capacity /\ claimed - i < Capacity
    BY <1>2, <1>3
  <2> QED BY <2>1, <2>2, <2>3, CellDistinct
<1>10. /\ ppc' = [ppc EXCEPT ![p] = "write"] /\ sent' = [sent EXCEPT ![p] = sent[p] + 1]
       /\ pHead' = [pHead EXCEPT ![p] = claimed + 1] /\ claimed' = claimed + 1
       /\ consumed' = consumed /\ ph' = ph /\ pTail' = pTail /\ pView' = pView
       /\ data' = data /\ ready' = ready /\ pub' = pub
       /\ cpc' = cpc /\ ct' = ct /\ cHead' = cHead /\ cView' = cView /\ cVal' = cVal
  BY DEF PushClaim, cellVars, consVars
<1>11. TypeOK'
  <2>1. /\ ppc' \in [Producers -> {"idle", "tail", "cas", "write", "ready"}]
        /\ pHead' \in [Producers -> 0 .. (claimed + 1)]
        /\ ph' \in [Producers -> 0 .. (claimed + 1)]
        /\ sent' \in [Producers -> 0 .. PerProducer]
        /\ pTail' \in [Producers -> 0 .. consumed] /\ pView' \in [Producers -> 0 .. consumed]
        /\ cHead' \in 0 .. (claimed + 1)
    <3>1. /\ ppc \in [Producers -> {"idle", "tail", "cas", "write", "ready"}]
          /\ pHead \in [Producers -> 0 .. claimed] /\ ph \in [Producers -> 0 .. claimed]
          /\ sent \in [Producers -> 0 .. PerProducer]
          /\ pTail \in [Producers -> 0 .. consumed] /\ pView \in [Producers -> 0 .. consumed]
          /\ cHead \in 0 .. claimed
      BY DEF IInv, TypeOK
    <3>2. 0 .. claimed \subseteq 0 .. (claimed + 1) /\ claimed + 1 \in 0 .. (claimed + 1)
      BY <1>2
    <3>3. sent[p] + 1 \in 0 .. PerProducer
      BY <1>2, <3>1 DEF IInv, ProducerInv
    <3>4. /\ ppc' \in [Producers -> {"idle", "tail", "cas", "write", "ready"}]
          /\ sent' \in [Producers -> 0 .. PerProducer]
      BY <1>10, <3>1, <3>3
    <3>5. pHead' \in [Producers -> 0 .. (claimed + 1)]
      BY <1>10, <3>1, <3>2
    <3>6. ph' \in [Producers -> 0 .. (claimed + 1)] /\ cHead' \in 0 .. (claimed + 1)
      BY <1>10, <3>1, <3>2
    <3> QED BY <1>10, <3>1, <3>4, <3>5, <3>6
  <2>2. claimed + 1 \in 0 .. Total /\ consumed \in 0 .. (claimed + 1)
    BY <1>2, <1>8
  <2> QED BY <1>5, <1>10, <2>1, <2>2 DEF IInv, TypeOK
<1>12. sent \in [Producers -> 0 .. PerProducer] /\ ppc \in [Producers -> {"idle", "tail", "cas", "write", "ready"}]
  BY DEF IInv, TypeOK
<1>13. \A i \in 1 .. (claimed + 1) : claims'[i][2] < sent'[claims'[i][1]]
  <2> SUFFICES ASSUME NEW i \in 1 .. (claimed + 1) PROVE claims'[i][2] < sent'[claims'[i][1]]
    OBVIOUS
  <2>1. CASE i = claimed + 1
    BY <1>2, <1>5, <1>10, <1>12, <2>1
  <2>2. CASE i \in 1 .. claimed
    <3>1. claims[i][2] < sent[claims[i][1]]
      BY <2>2 DEF IInv, ClaimInv
    <3>2. claims[i] \in Items
      BY <1>2, <1>4, <2>2
    <3>3. claims[i][1] \in Producers /\ claims[i][2] \in Nat
      BY <1>2, <3>2 DEF Items
    <3>4. PICK r \in Producers : r = claims[i][1]
      BY <3>3
    <3>5. PICK n \in Nat : n = claims[i][2]
      BY <3>3
    <3>6. n < sent[r] /\ sent[r] \in Nat
      BY <1>2, <1>12, <3>1, <3>4, <3>5
    <3>7. n < sent'[r]
      BY <1>2, <1>10, <1>12, <3>6
    <3> QED BY <1>5, <2>2, <3>4, <3>5, <3>7
  <2> QED BY <1>2, <2>1, <2>2
<1>14. ClaimInv'
  BY <1>2, <1>3, <1>5, <1>7, <1>10, <1>13 DEF ClaimInv
<1>15. Pending(p)' /\ ~Pending(p) /\ \A r \in Producers \ {p} : Pending(r)' = Pending(r)
  BY <1>10, <1>12 DEF Pending, PushClaim
<1>16. ProducerInv'
  <2> SUFFICES ASSUME NEW r \in Producers
               PROVE  /\ pTail[r] <= pView[r]
                      /\ ppc'[r] \in {"tail", "cas"} => sent'[r] < PerProducer
                      /\ ppc'[r] = "cas" => ph[r] < pTail[r] \/ ph[r] - pTail[r] < Capacity
                      /\ Pending(r)' =>
                           /\ ph[r] \in consumed .. ((claimed + 1) - 1)
                           /\ ph[r] + 1 - Capacity <= pView[r]
                           /\ claims'[ph[r] + 1] = <<r, sent'[r] - 1>>
                           /\ ~ready[Cell(ph[r])]
                      /\ ppc'[r] = "ready" => data[Cell(ph[r])] = claims'[ph[r] + 1]
    BY <1>10 DEF ProducerInv, Cell, At
  <2>1. CASE r = p
    <3>1. ppc'[p] = "write" /\ sent'[p] = sent[p] + 1
      BY <1>10, <1>12
    <3>2. claims'[ph[p] + 1] = <<p, sent'[p] - 1>>
      <4>1. (sent[p] + 1) - 1 = sent[p]
        BY <1>2
      <4> QED BY <1>1, <1>5, <3>1, <4>1
    <3>3. ph[p] \in consumed .. ((claimed + 1) - 1) /\ ph[p] + 1 - Capacity <= pView[p]
      BY <1>1, <1>2, <1>3
    <3> QED BY <1>1, <1>2, <1>9, <2>1, <3>1, <3>2, <3>3
  <2>2. CASE r # p
    <3>1. ppc'[r] = ppc[r] /\ sent'[r] = sent[r] /\ Pending(r)' = Pending(r)
      BY <1>10, <1>12, <1>15, <2>2
    <3>2. ASSUME Pending(r)
          PROVE  ph[r] \in consumed .. ((claimed + 1) - 1) /\ ph[r] + 1 \in 1 .. claimed
      <4>1. ph[r] \in consumed .. (claimed - 1)
        BY <3>2 DEF IInv, ProducerInv
      <4> QED BY <1>2, <4>1
    <3>3. Pending(r) => claims'[ph[r] + 1] = claims[ph[r] + 1]
      BY <1>5, <3>2
    <3>4. ppc[r] = "ready" => Pending(r)
      BY DEF Pending
    <3> QED BY <3>1, <3>2, <3>3, <3>4 DEF IInv, ProducerInv
  <2> QED BY <2>1, <2>2
<1>17. ConsumerInv'
  <2>1. cHead \in Nat /\ cHead <= claimed /\ ct \in Nat
    BY Numbers
  <2>2. cpc \in {"clear", "release"} => claims'[ct + 1] = claims[ct + 1]
    <3>1. cpc \in {"clear", "release"} => ct < cHead
      BY DEF IInv, ConsumerInv
    <3>2. ct < cHead => ct + 1 \in 1 .. claimed
      BY <1>2, <2>1
    <3> QED BY <1>5, <3>1, <3>2
  <2>3. cpc \in {"read", "clear", "release"} => ph[p] # ct
    <3>1. cpc \in {"read", "clear", "release"} => ct < cHead
      BY DEF IInv, ConsumerInv
    <3> QED BY <1>1, <1>2, <2>1, <3>1
  <2>4. cpc \in {"read", "clear", "release"} =>
          \A r \in Producers : Pending(r)' => ph[r] # ct
    BY <1>15, <2>3 DEF IInv, ConsumerInv
  <2> QED BY <1>10, <2>2, <2>4 DEF IInv, ConsumerInv, Cell, At
<1>18. CellInv'
  <2> SUFFICES ASSUME NEW s \in Cells, ready[s]
               PROVE  \E i \in consumed .. ((claimed + 1) - 1) :
                        s = Cell(i) /\ pub[s] = i /\ data[s] = claims'[i + 1]
    BY <1>10 DEF CellInv, Cell, At
  <2>1. PICK i \in consumed .. (claimed - 1) :
          s = Cell(i) /\ pub[s] = i /\ data[s] = claims[i + 1]
    BY DEF IInv, CellInv
  <2>2. i \in consumed .. ((claimed + 1) - 1) /\ i + 1 \in 1 .. claimed
    BY <1>2
  <2> QED BY <1>5, <2>1, <2>2
<1> QED BY <1>1, <1>3, <1>11, <1>14, <1>16, <1>17, <1>18 DEF IInv

\* The item is written: the cell is no ready one and no other producer's.
LEMMA PushWriteKeeps ==
  ASSUME IInv, NEW p \in Producers, PushWrite(p)
  PROVE  IInv'
<1> DEFINE c == Cell(ph[p])
           item == <<p, sent[p] - 1>>
<1>1. /\ data' = [data EXCEPT ![c] = item] /\ ppc' = [ppc EXCEPT ![p] = "ready"]
      /\ claimed' = claimed /\ consumed' = consumed /\ ready' = ready /\ pub' = pub
      /\ ph' = ph /\ pHead' = pHead /\ pTail' = pTail /\ pView' = pView /\ sent' = sent
      /\ cpc' = cpc /\ ct' = ct /\ cHead' = cHead /\ cView' = cView /\ cVal' = cVal
      /\ claims' = claims
  BY DEF PushWrite, consVars
<1>2. ppc[p] = "write" /\ Pending(p)
  BY DEF PushWrite, Pending
<1>3. /\ data \in [Cells -> Items \cup {NoItem}]
      /\ ppc \in [Producers -> {"idle", "tail", "cas", "write", "ready"}]
      /\ claims \in Seq(Items) /\ Len(claims) = claimed
  BY DEF IInv, TypeOK, ClaimInv
<1>4. /\ ph[p] \in consumed .. (claimed - 1) /\ ph[p] \in 0 .. Total
      /\ claims[ph[p] + 1] = item /\ ~ready[c]
  BY <1>2, Numbers DEF IInv, ProducerInv
<1>5. c \in Cells
  BY <1>4, CellFacts
<1>6. item \in Items
  <2>1. claimed \in Nat /\ consumed \in Nat
    BY Numbers
  <2>2. ph[p] + 1 \in 1 .. claimed
    BY <1>4, <2>1
  <2> QED BY <1>3, <1>4, <2>2
<1>7. \A r \in Producers : Pending(r)' = Pending(r)
  BY <1>1, <1>2, <1>3 DEF Pending
<1>8. TypeOK'
  <2>1. data' \in [Cells -> Items \cup {NoItem}]
    BY <1>1, <1>3, <1>6
  <2>2. ppc' \in [Producers -> {"idle", "tail", "cas", "write", "ready"}]
    BY <1>1, <1>3
  <2> QED BY <1>1, <2>1, <2>2 DEF IInv, TypeOK
<1>9. ClaimInv'
  BY <1>1 DEF IInv, ClaimInv
<1>10. ProducerInv'
  <2> SUFFICES ASSUME NEW r \in Producers
               PROVE  /\ pTail[r] <= pView[r]
                      /\ ppc'[r] \in {"tail", "cas"} => sent[r] < PerProducer
                      /\ ppc'[r] = "cas" => ph[r] < pTail[r] \/ ph[r] - pTail[r] < Capacity
                      /\ Pending(r) =>
                           /\ ph[r] \in consumed .. (claimed - 1)
                           /\ ph[r] + 1 - Capacity <= pView[r]
                           /\ claims[ph[r] + 1] = <<r, sent[r] - 1>>
                           /\ ~ready[Cell(ph[r])]
                      /\ ppc'[r] = "ready" => data'[Cell(ph[r])] = claims[ph[r] + 1]
    BY <1>1, <1>7 DEF ProducerInv, Cell, At
  <2>1. CASE r = p
    <3>1. ppc'[p] = "ready" /\ data'[c] = item
      BY <1>1, <1>3, <1>5
    <3> QED BY <1>4, <2>1, <3>1 DEF IInv, ProducerInv
  <2>2. CASE r # p
    <3>1. ppc'[r] = ppc[r]
      BY <1>1, <1>3, <2>2
    <3>2. ASSUME ppc[r] = "ready" PROVE data'[Cell(ph[r])] = data[Cell(ph[r])]
      <4>1. Pending(r)
        BY <3>2 DEF Pending
      <4>2. Cell(ph[r]) # c
        BY <1>2, <2>2, <4>1, PendingDistinct
      <4>3. Cell(ph[r]) \in Cells
        BY Numbers, CellFacts
      <4> QED BY <1>1, <1>3, <4>2, <4>3
    <3> QED BY <3>1, <3>2 DEF IInv, ProducerInv
  <2> QED BY <2>1, <2>2
<1>11. ConsumerInv'
  BY <1>1, <1>7 DEF IInv, ConsumerInv, Cell, At
<1>12. CellInv'
  <2> SUFFICES ASSUME NEW s \in Cells, ready[s]
               PROVE  \E i \in consumed .. (claimed - 1) :
                        s = Cell(i) /\ pub[s] = i /\ data'[s] = claims[i + 1]
    BY <1>1 DEF CellInv, Cell, At
  <2>1. data'[s] = data[s]
    BY <1>1, <1>3, <1>4
  <2> QED BY <2>1 DEF IInv, CellInv
<1> QED BY <1>8, <1>9, <1>10, <1>11, <1>12 DEF IInv

\* The flag is set: it announces the producer's own item.
LEMMA PushReadyKeeps ==
  ASSUME IInv, NEW p \in Producers, PushReady(p)
  PROVE  IInv'
<1> DEFINE c == Cell(ph[p])
<1>1. /\ ready' = [ready EXCEPT ![c] = TRUE] /\ pub' = [pub EXCEPT ![c] = ph[p]]
      /\ ppc' = [ppc EXCEPT ![p] = "idle"]
      /\ claimed' = claimed /\ consumed' = consumed /\ data' = data
      /\ ph' = ph /\ pHead' = pHead /\ pTail' = pTail /\ pView' = pView /\ sent' = sent
      /\ cpc' = cpc /\ ct' = ct /\ cHead' = cHead /\ cView' = cView /\ cVal' = cVal
      /\ claims' = claims
  BY DEF PushReady, consVars
<1>2. ppc[p] = "ready" /\ Pending(p)
  BY DEF PushReady, Pending
<1>3. /\ ready \in [Cells -> BOOLEAN] /\ pub \in [Cells -> -1 .. (Total - 1)]
      /\ ppc \in [Producers -> {"idle", "tail", "cas", "write", "ready"}]
  BY DEF IInv, TypeOK
<1>4. /\ ph[p] \in consumed .. (claimed - 1) /\ ph[p] \in 0 .. Total
      /\ data[c] = claims[ph[p] + 1]
  BY <1>2, Numbers DEF IInv, ProducerInv
<1>5. c \in Cells
  BY <1>4, CellFacts
<1>6. /\ claimed \in Nat /\ consumed \in Nat /\ Total \in Nat /\ claimed <= Total
      /\ ct \in Nat /\ cHead \in Nat /\ cHead <= claimed
  BY Numbers, Sizes
<1>7. ~(Pending(p)') /\ \A r \in Producers \ {p} : Pending(r)' = Pending(r)
  BY <1>1, <1>3 DEF Pending
<1>8. TypeOK'
  <2>1. ph[p] \in -1 .. (Total - 1)
    BY <1>4, <1>6
  <2>2. ready' \in [Cells -> BOOLEAN] /\ pub' \in [Cells -> -1 .. (Total - 1)]
        /\ ppc' \in [Producers -> {"idle", "tail", "cas", "write", "ready"}]
    BY <1>1, <1>3, <2>1
  <2> QED BY <1>1, <2>2 DEF IInv, TypeOK
<1>9. ClaimInv'
  BY <1>1 DEF IInv, ClaimInv
<1>10. ProducerInv'
  <2> SUFFICES ASSUME NEW r \in Producers
               PROVE  /\ pTail[r] <= pView[r]
                      /\ ppc'[r] \in {"tail", "cas"} => sent[r] < PerProducer
                      /\ ppc'[r] = "cas" => ph[r] < pTail[r] \/ ph[r] - pTail[r] < Capacity
                      /\ Pending(r)' =>
                           /\ ph[r] \in consumed .. (claimed - 1)
                           /\ ph[r] + 1 - Capacity <= pView[r]
                           /\ claims[ph[r] + 1] = <<r, sent[r] - 1>>
                           /\ ~ready'[Cell(ph[r])]
                      /\ ppc'[r] = "ready" => data[Cell(ph[r])] = claims[ph[r] + 1]
    BY <1>1 DEF ProducerInv, Cell, At
  <2>1. CASE r = p
    <3>1. ppc'[p] = "idle"
      BY <1>1, <1>3
    <3> QED BY <1>7, <2>1, <3>1 DEF IInv, ProducerInv
  <2>2. CASE r # p
    <3>1. ppc'[r] = ppc[r] /\ Pending(r)' = Pending(r)
      BY <1>1, <1>3, <1>7, <2>2
    <3>2. ASSUME Pending(r) PROVE ready'[Cell(ph[r])] = ready[Cell(ph[r])]
      <4>1. Cell(ph[r]) # c
        BY <1>2, <2>2, <3>2, PendingDistinct
      <4>2. Cell(ph[r]) \in Cells
        BY Numbers, CellFacts
      <4> QED BY <1>1, <1>3, <4>1, <4>2
    <3> QED BY <3>1, <3>2 DEF IInv, ProducerInv
  <2> QED BY <2>1, <2>2
<1>11. ConsumerInv'
  <2>1. ASSUME cpc \in {"read", "clear", "release"} PROVE ready'[Cell(ct)] = ready[Cell(ct)]
    <3>1. ph[p] # ct /\ ct = consumed /\ ct < cHead
      BY <1>2, <2>1 DEF IInv, ConsumerInv
    <3>2. ct \in consumed .. (claimed - 1) /\ ct \in 0 .. Total
      BY <1>6, <3>1
    <3>3. Cell(ct) # c
      BY <1>4, <3>1, <3>2, WindowDistinct
    <3>4. Cell(ct) \in Cells
      BY <3>2, CellFacts
    <3> QED BY <1>1, <1>3, <3>3, <3>4
  <2>2. \A r \in Producers : Pending(r)' => Pending(r)
    BY <1>7
  <2> QED BY <1>1, <2>1, <2>2 DEF IInv, ConsumerInv, Cell, At
<1>12. CellInv'
  <2> SUFFICES ASSUME NEW s \in Cells, ready'[s]
               PROVE  \E i \in consumed .. (claimed - 1) :
                        s = Cell(i) /\ pub'[s] = i /\ data[s] = claims[i + 1]
    BY <1>1 DEF CellInv, Cell, At
  <2>1. CASE s = c
    <3>1. pub'[c] = ph[p]
      BY <1>1, <1>3, <1>5
    <3> QED BY <1>4, <2>1, <3>1
  <2>2. CASE s # c
    <3>1. ready[s] /\ pub'[s] = pub[s]
      BY <1>1, <1>3, <2>2
    <3> QED BY <3>1 DEF IInv, CellInv
  <2> QED BY <2>1, <2>2
<1> QED BY <1>8, <1>9, <1>10, <1>11, <1>12 DEF IInv

-----------------------------------------------------------------------------
(* pop                                                                     *)

\* A step of the consumer that changes its own locals and nothing else.
LEMMA LocalPopStep ==
  ASSUME IInv, UNCHANGED <<claimed, consumed, cellVars, prodVars, claims>>,
         /\ cpc' \in {"idle", "head", "flag", "read", "clear", "release"}
         /\ ct' \in 0 .. consumed /\ cHead' \in 0 .. claimed
         /\ cView' \in -1 .. (Total - 1) /\ cVal' \in Items \cup {NoItem},
         ConsumerInv'
  PROVE  IInv'
<1>1. /\ claimed' = claimed /\ consumed' = consumed /\ claims' = claims
      /\ data' = data /\ ready' = ready /\ pub' = pub
      /\ ppc' = ppc /\ ph' = ph /\ pHead' = pHead /\ pTail' = pTail /\ pView' = pView
      /\ sent' = sent
  BY DEF cellVars, prodVars
<1>2. TypeOK'
  BY <1>1 DEF IInv, TypeOK
<1>3. ClaimInv'
  BY <1>1 DEF IInv, ClaimInv
<1>4. ProducerInv'
  BY <1>1 DEF IInv, ProducerInv, Pending, Cell, At
<1>5. CellInv'
  BY <1>1 DEF IInv, CellInv, Cell, At
<1> QED BY <1>2, <1>3, <1>4, <1>5 DEF IInv

\* tail is loaded.
LEMMA PopTailKeeps == IInv /\ PopTail => IInv'
<1> SUFFICES ASSUME IInv, PopTail PROVE IInv'
  OBVIOUS
<1>1. /\ ct' = consumed /\ cpc' = "head" /\ cHead' = cHead /\ cView' = cView /\ cVal' = cVal
      /\ UNCHANGED <<claimed, consumed, cellVars, prodVars, claims>>
  BY DEF PopTail
<1>2. consumed \in 0 .. consumed
  BY Numbers
<1>3. ConsumerInv'
  BY <1>1 DEF IInv, ConsumerInv
<1> QED BY <1>1, <1>2, <1>3, LocalPopStep DEF IInv, TypeOK

\* head is loaded: when it differs from tail it is ahead.
LEMMA PopHeadKeeps ==
  ASSUME IInv, NEW h \in Loads(cHead, claimed), PopHead(h)
  PROVE  IInv'
<1>1. /\ claimed \in Nat /\ consumed \in Nat /\ Total \in Nat /\ cHead \in Nat
      /\ claimed <= Total /\ consumed <= cHead /\ cHead <= claimed
  BY Numbers, Sizes
<1>2. h \in cHead .. claimed
  BY <1>1, LoadsRange
<1>3. /\ cHead' = h /\ ct' = ct /\ cView' = cView /\ cVal' = cVal
      /\ cpc' = IF At(h) = At(ct) THEN "idle" ELSE "flag"
      /\ UNCHANGED <<claimed, consumed, cellVars, prodVars, claims>>
  BY DEF PopHead
<1>4. ct = consumed
  BY DEF PopHead, IInv, ConsumerInv
<1>5. h \in 0 .. Total /\ ct \in 0 .. Total /\ h \in 0 .. claimed /\ consumed <= h /\ h \in Nat
  BY <1>1, <1>2, <1>4
<1>6. At(h) # At(ct) => ct < h
  BY <1>1, <1>4, <1>5, AtEqual
<1>7. ConsumerInv'
  BY <1>3, <1>4, <1>5, <1>6 DEF ConsumerInv
<1>8. cpc' \in {"idle", "head", "flag", "read", "clear", "release"}
  BY <1>3
<1> QED BY <1>3, <1>5, <1>7, <1>8, LocalPopStep DEF IInv, TypeOK

\* is_ready is loaded: a set flag is that of the consumer's own position, and
\* its producer is through.
LEMMA PopFlagKeeps ==
  ASSUME IInv, NEW flag \in BOOLEAN, flag => ready[Cell(ct)], PopFlag(flag)
  PROVE  IInv'
<1>1. /\ claimed \in Nat /\ consumed \in Nat /\ Total \in Nat /\ cHead \in Nat
      /\ claimed <= Total /\ consumed <= cHead /\ cHead <= claimed
  BY Numbers, Sizes
<1>2. /\ cHead' = cHead /\ ct' = ct /\ cVal' = cVal
      /\ cView' = (IF flag THEN pub[Cell(ct)] ELSE cView)
      /\ cpc' = (IF flag THEN "read" ELSE "idle")
      /\ UNCHANGED <<claimed, consumed, cellVars, prodVars, claims>>
  BY DEF PopFlag
<1>3. ct = consumed /\ ct < cHead
  BY DEF PopFlag, IInv, ConsumerInv
<1>4. ct \in consumed .. (claimed - 1) /\ ct \in 0 .. Total /\ ct \in -1 .. (Total - 1)
  BY <1>1, <1>3
<1>5. CASE ~flag
  <2>1. cpc' = "idle" /\ cView' = cView
    BY <1>2, <1>5
  <2>2. ConsumerInv'
    BY <1>2, <2>1 DEF IInv, ConsumerInv
  <2> QED BY <1>2, <2>1, <2>2, LocalPopStep DEF IInv, TypeOK
<1>6. CASE flag
  <2>1. Cell(ct) \in Cells /\ ready[Cell(ct)]
    BY <1>4, <1>6, CellFacts
  <2>2. PICK i \in consumed .. (claimed - 1) : Cell(ct) = Cell(i) /\ pub[Cell(ct)] = i
    BY <2>1 DEF IInv, CellInv
  <2>3. i = ct
    BY <1>4, <2>2, WindowDistinct
  <2>4. cpc' = "read" /\ cView' = ct
    BY <1>2, <1>6, <2>2, <2>3
  <2>5. \A p \in Producers : Pending(p) => ph[p] # ct
    BY <2>1 DEF IInv, ProducerInv
  <2>6. /\ consumed' = consumed /\ ready' = ready /\ ph' = ph /\ ppc' = ppc
    BY <1>2 DEF cellVars, prodVars
  <2>7. ConsumerInv'
    BY <1>1, <1>2, <1>3, <2>1, <2>4, <2>5, <2>6 DEF ConsumerInv, Pending, Cell, At
  <2> QED BY <1>2, <1>4, <2>4, <2>7, LocalPopStep DEF IInv, TypeOK
<1> QED BY <1>5, <1>6

\* The cell is read: it holds the item of the consumer's position.
LEMMA PopReadKeeps == IInv /\ PopRead => IInv'
<1> SUFFICES ASSUME IInv, PopRead PROVE IInv'
  OBVIOUS
<1>1. /\ claimed \in Nat /\ consumed \in Nat /\ Total \in Nat /\ cHead \in Nat
      /\ claimed <= Total /\ consumed <= cHead /\ cHead <= claimed
  BY Numbers, Sizes
<1>2. /\ cpc = "read" /\ cpc' = "clear" /\ cVal' = data[Cell(ct)]
      /\ cHead' = cHead /\ ct' = ct /\ cView' = cView
      /\ UNCHANGED <<claimed, consumed, cellVars, prodVars, claims>>
  BY DEF PopRead
<1>3. ct = consumed /\ ct < cHead /\ ready[Cell(ct)]
  BY <1>2 DEF IInv, ConsumerInv
<1>4. ct \in consumed .. (claimed - 1) /\ ct \in 0 .. Total
  BY <1>1, <1>3
<1>5. Cell(ct) \in Cells
  BY <1>4, CellFacts
<1>6. PICK i \in consumed .. (claimed - 1) :
        Cell(ct) = Cell(i) /\ data[Cell(ct)] = claims[i + 1]
  BY <1>3, <1>5 DEF IInv, CellInv
<1>7. i = ct
  BY <1>4, <1>6, WindowDistinct
<1>8. cVal' = claims[ct + 1]
  BY <1>2, <1>6, <1>7
<1>9. cVal' \in Items \cup {NoItem}
  BY <1>2, <1>5 DEF IInv, TypeOK
<1>10. /\ consumed' = consumed /\ claims' = claims /\ ready' = ready /\ ph' = ph /\ ppc' = ppc
  BY <1>2 DEF cellVars, prodVars
<1>11. ConsumerInv'
  BY <1>2, <1>8, <1>10 DEF IInv, ConsumerInv, Pending, Cell, At
<1> QED BY <1>2, <1>9, <1>11, LocalPopStep DEF IInv, TypeOK

\* The flag is cleared: only the consumer's own position loses its flag.
LEMMA PopClearKeeps == IInv /\ PopClear => IInv'
<1> SUFFICES ASSUME IInv, PopClear PROVE IInv'
  OBVIOUS
<1>1. /\ cpc = "clear" /\ cpc' = "release" /\ ready' = [ready EXCEPT ![Cell(ct)] = FALSE]
      /\ claimed' = claimed /\ consumed' = consumed /\ claims' = claims
      /\ data' = data /\ pub' = pub
      /\ ppc' = ppc /\ ph' = ph /\ pHead' = pHead /\ pTail' = pTail /\ pView' = pView
      /\ sent' = sent /\ ct' = ct /\ cHead' = cHead /\ cView' = cView /\ cVal' = cVal
  BY DEF PopClear, prodVars
<1>2. ready \in [Cells -> BOOLEAN]
  BY DEF IInv, TypeOK
<1>3. ready' \in [Cells -> BOOLEAN] /\ \A s \in Cells : ready'[s] => ready[s]
  BY <1>1, <1>2
<1>4. /\ claimed \in Nat /\ consumed \in Nat /\ Total \in Nat /\ claimed <= Total
      /\ consumed <= claimed
  BY Numbers, Sizes
<1>5. ct = consumed
  BY <1>1 DEF IInv, ConsumerInv
<1>6. ct \in 0 .. Total
  BY <1>4, <1>5
<1>7. ~ready'[Cell(ct)]
  BY <1>1, <1>2, <1>6, CellFacts
<1>8. TypeOK'
  BY <1>1, <1>3 DEF IInv, TypeOK
<1>9. ClaimInv'
  BY <1>1 DEF IInv, ClaimInv
<1>10. ProducerInv'
  <2>1. \A p \in Producers : Cell(ph[p]) \in Cells
    BY Numbers, CellFacts
  <2>2. \A p \in Producers : ready'[Cell(ph[p])] => ready[Cell(ph[p])]
    BY <1>3, <2>1
  <2> QED BY <1>1, <2>2 DEF IInv, ProducerInv, Pending, Cell, At
<1>11. ConsumerInv'
  BY <1>1, <1>7 DEF IInv, ConsumerInv, Pending, Cell, At
<1>12. CellInv'
  BY <1>1, <1>3 DEF IInv, CellInv, Cell, At
<1> QED BY <1>8, <1>9, <1>10, <1>11, <1>12 DEF IInv

\* tail moves on: nothing is left at the position it leaves.
LEMMA PopReleaseKeeps == IInv /\ PopRelease => IInv'
<1> SUFFICES ASSUME IInv, PopRelease PROVE IInv'
  OBVIOUS
<1>1. /\ cpc = "release" /\ cpc' = "idle" /\ consumed' = ct + 1
      /\ claimed' = claimed /\ claims' = claims
      /\ data' = data /\ ready' = ready /\ pub' = pub
      /\ ppc' = ppc /\ ph' = ph /\ pHead' = pHead /\ pTail' = pTail /\ pView' = pView
      /\ sent' = sent /\ ct' = ct /\ cHead' = cHead /\ cView' = cView /\ cVal' = cVal
  BY DEF PopRelease, prodVars, cellVars
<1>2. /\ ct = consumed /\ ct < cHead /\ ~ready[Cell(ct)]
      /\ \A p \in Producers : Pending(p) => ph[p] # ct
  BY <1>1 DEF IInv, ConsumerInv
<1>3. /\ claimed \in Nat /\ consumed \in Nat /\ Total \in Nat /\ claimed <= Total
      /\ Capacity \in Nat /\ cHead \in Nat /\ cHead <= claimed
      /\ claimed - consumed <= Capacity
  BY Numbers, Sizes
<1>4. consumed' = consumed + 1
  BY <1>1, <1>2
<1>5. /\ consumed + 1 \in 0 .. claimed /\ ct \in 0 .. (consumed + 1)
      /\ claimed - (consumed + 1) <= Capacity /\ consumed + 1 <= cHead
  BY <1>2, <1>3
<1>6. TypeOK'
  <2>1. pTail \in [Producers -> 0 .. (consumed + 1)] /\ pView \in [Producers -> 0 .. (consumed + 1)]
    BY <1>3 DEF IInv, TypeOK
  <2> QED BY <1>1, <1>4, <1>5, <2>1 DEF IInv, TypeOK
<1>7. ClaimInv'
  BY <1>1, <1>4, <1>5 DEF IInv, ClaimInv
<1>8. ProducerInv'
  <2>1. ASSUME NEW p \in Producers, Pending(p)
        PROVE  ph[p] \in (consumed + 1) .. (claimed - 1)
    <3>1. ph[p] \in consumed .. (claimed - 1) /\ ph[p] # consumed
      BY <1>2, <2>1 DEF IInv, ProducerInv
    <3> QED BY <1>3, <3>1
  <2> QED BY <1>1, <1>4, <2>1 DEF IInv, ProducerInv, Pending, Cell, At
<1>9. ConsumerInv'
  BY <1>1, <1>4, <1>5 DEF ConsumerInv
<1>10. CellInv'
  <2> SUFFICES ASSUME NEW s \in Cells, ready[s]
               PROVE  \E i \in (consumed + 1) .. (claimed - 1) :
                        s = Cell(i) /\ pub[s] = i /\ data[s] = claims[i + 1]
    BY <1>1, <1>4 DEF CellInv, Cell, At
  <2>1. PICK i \in consumed .. (claimed - 1) :
          s = Cell(i) /\ pub[s] = i /\ data[s] = claims[i + 1]
    BY DEF IInv, CellInv
  <2>2. i # consumed
    BY <1>2, <2>1
  <2>3. i \in (consumed + 1) .. (claimed - 1)
    BY <1>3, <2>2
  <2> QED BY <2>1, <2>3
<1> QED BY <1>6, <1>7, <1>8, <1>9, <1>10 DEF IInv

-----------------------------------------------------------------------------
(* The invariant and what follows from it.                                 *)

\* The constructed queue.
LEMMA InitInv == Init => IInv
<1> SUFFICES ASSUME Init PROVE IInv
  OBVIOUS
<1> USE Sizes
<1>1. /\ claimed = 0 /\ consumed = 0 /\ claims = <<>> /\ cpc = "idle"
      /\ ct = 0 /\ cHead = 0 /\ cView = -1 /\ cVal = NoItem
      /\ data = [s \in Cells |-> NoItem] /\ ready = [s \in Cells |-> FALSE]
      /\ pub = [s \in Cells |-> -1] /\ ppc = [p \in Producers |-> "idle"]
      /\ ph = [p \in Producers |-> 0] /\ pHead = [p \in Producers |-> 0]
      /\ pTail = [p \in Producers |-> 0] /\ pView = [p \in Producers |-> 0]
      /\ sent = [p \in Producers |-> 0]
  BY DEF Init, None
<1>2. TypeOK
  BY <1>1 DEF TypeOK
<1>3. ClaimInv
  BY <1>1 DEF ClaimInv
<1>4. ProducerInv
  BY <1>1 DEF ProducerInv, Pending
<1>5. ConsumerInv
  BY <1>1 DEF ConsumerInv
<1>6. CellInv
  BY <1>1 DEF CellInv
<1> QED BY <1>2, <1>3, <1>4, <1>5, <1>6 DEF IInv

LEMMA NextInv == IInv /\ [Next]_vars => IInv'
<1> SUFFICES ASSUME IInv, [Next]_vars PROVE IInv'
  OBVIOUS
<1>1. ASSUME NEW p \in Producers, Producer(p) PROVE IInv'
  BY <1>1, PushHeadKeeps, PushTailKeeps, PushClaimKeeps, PushWriteKeeps, PushReadyKeeps
     DEF Producer
<1>2. CASE Consumer
  <2>1. ASSUME NEW flag \in {ready[Cell(ct)]} \cup (IF StaleLoads THEN {FALSE} ELSE {}),
               PopFlag(flag)
        PROVE  IInv'
    <3>1. ct \in 0 .. Total
      <4>1. ct \in 0 .. consumed /\ consumed \in Nat /\ Total \in Nat /\ consumed <= Total
        BY Numbers, Sizes DEF IInv, TypeOK
      <4> QED BY <4>1
    <3>2. Cell(ct) \in Cells
      BY <3>1, CellFacts
    <3>3. flag \in BOOLEAN /\ (flag => ready[Cell(ct)])
      BY <2>1, <3>2 DEF IInv, TypeOK
    <3> QED BY <2>1, <3>3, PopFlagKeeps
  <2> QED BY <1>2, <2>1, PopTailKeeps, PopHeadKeeps, PopReadKeeps, PopClearKeeps,
             PopReleaseKeeps DEF Consumer
<1>3. CASE UNCHANGED vars
  <2>1. /\ claimed' = claimed /\ consumed' = consumed /\ claims' = claims
        /\ data' = data /\ ready' = ready /\ pub' = pub
        /\ ppc' = ppc /\ ph' = ph /\ pHead' = pHead /\ pTail' = pTail /\ pView' = pView
        /\ sent' = sent /\ cpc' = cpc /\ ct' = ct /\ cHead' = cHead /\ cView' = cView
        /\ cVal' = cVal
    BY <1>3 DEF vars, cellVars, prodVars, consVars
  <2>2. TypeOK' /\ ClaimInv'
    BY <2>1 DEF IInv, TypeOK, ClaimInv
  <2>3. ProducerInv' /\ ConsumerInv' /\ CellInv'
    BY <2>1 DEF IInv, ProducerInv, ConsumerInv, CellInv, Pending, Cell, At
  <2> QED BY <2>2, <2>3 DEF IInv
<1> QED BY <1>1, <1>2, <1>3 DEF Next, Done

\* The inductive invariant of the queue.
THEOREM Invariance == Spec => []IInv
BY InitInv, NextInv, PTL DEF Spec

\* Whatever the threads do, no position is claimed or released twice and every
\* variable of push and pop keeps its type.
THEOREM TypeSafety == Spec => []TypeOK
<1>1. IInv => TypeOK
  BY DEF IInv
<1> QED BY <1>1, Invariance, PTL

\* push and pop never race on a cell's data_, for any number of producers.
THEOREM RaceFreedom == Spec => []NoRace
<1>1. IInv => NoRace
  <2> SUFFICES ASSUME IInv PROVE NoRace
    OBVIOUS
  <2>1. \A p \in Producers : ppc[p] = "write" => ph[p] + 1 - Capacity <= pView[p]
    BY DEF IInv, ProducerInv, Pending
  <2>2. \A p, q \in Producers :
          p # q /\ ppc[p] \in {"write", "ready"} /\ ppc[q] \in {"write", "ready"} =>
            Cell(ph[p]) # Cell(ph[q])
    BY PendingDistinct DEF Pending
  <2>3. cpc = "read" => cView = ct
    BY DEF IInv, ConsumerInv
  <2> QED BY <2>1, <2>2, <2>3 DEF NoRace
<1> QED BY <1>1, Invariance, PTL

-----------------------------------------------------------------------------
(* The queue implements a bounded FIFO.                                    *)

\* What is left of a sequence after its first a elements, when an element is
\* added at the back and when one is taken from the front.
LEMMA WindowAppend ==
  ASSUME NEW S, NEW s \in Seq(S), NEW e \in S, NEW a \in 0 .. Len(s)
  PROVE  /\ Len(SubSeq(s, a + 1, Len(s))) = Len(s) - a
         /\ SubSeq(Append(s, e), a + 1, Len(s) + 1)
              = SubSeq(s, a + 1, Len(s)) \o [i \in 1 .. 1 |-> e]
<1> DEFINE n == Len(s)
           t == Append(s, e)
           u == [i \in 1 .. 1 |-> e]
           q == SubSeq(s, a + 1, n)
           l == SubSeq(t, a + 1, n + 1)
           r == q \o u
<1>1. n \in Nat /\ a \in Nat /\ a <= n
  OBVIOUS
<1>2. t \in Seq(S) /\ Len(t) = n + 1 /\ t[n + 1] = e /\ \A i \in 1 .. n : t[i] = s[i]
  BY AppendProperties
<1>3. u \in Seq(S) /\ Len(u) = 1 /\ u[1] = e
  OBVIOUS
<1>a. (\A i \in (a + 1) .. n : s[i] \in S) /\ (\A i \in (a + 1) .. (n + 1) : t[i] \in S)
  BY <1>1, <1>2
<1> HIDE DEF n, t, u
<1>4. q \in Seq(S) /\ Len(q) = n - a /\ \A i \in 1 .. (n - a) : q[i] = s[a + i]
  <2>1. /\ q \in Seq(S) /\ Len(q) = (IF a + 1 <= n THEN n - (a + 1) + 1 ELSE 0)
        /\ \A i \in 1 .. (n - (a + 1) + 1) : q[i] = s[(a + 1) + i - 1]
    BY <1>1, <1>a, SubSeqProperties
  <2> HIDE DEF q
  <2> QED BY <1>1, <2>1
<1>5. l \in Seq(S) /\ Len(l) = n + 1 - a /\ \A i \in 1 .. (n + 1 - a) : l[i] = t[a + i]
  <2>1. /\ l \in Seq(S) /\ Len(l) = (IF a + 1 <= n + 1 THEN (n + 1) - (a + 1) + 1 ELSE 0)
        /\ \A i \in 1 .. ((n + 1) - (a + 1) + 1) : l[i] = t[(a + 1) + i - 1]
    BY <1>1, <1>a, SubSeqProperties
  <2> HIDE DEF l
  <2> QED BY <1>1, <2>1
<1> HIDE DEF q, l
<1>6. /\ r \in Seq(S) /\ Len(r) = (n - a) + 1
      /\ \A i \in 1 .. ((n - a) + 1) : r[i] = IF i <= n - a THEN q[i] ELSE u[i - (n - a)]
  <2>1. /\ r \in Seq(S) /\ Len(r) = Len(q) + Len(u)
        /\ \A i \in 1 .. (Len(q) + Len(u)) :
             r[i] = IF i <= Len(q) THEN q[i] ELSE u[i - Len(q)]
    BY <1>3, <1>4, ConcatProperties
  <2> HIDE DEF r
  <2> QED BY <1>3, <1>4, <2>1
<1> HIDE DEF r
<1>7. \A i \in 1 .. Len(l) : l[i] = r[i]
  <2> SUFFICES ASSUME NEW i \in 1 .. Len(l) PROVE l[i] = r[i]
    OBVIOUS
  <2>1. i \in 1 .. (n + 1 - a) /\ i \in 1 .. ((n - a) + 1)
    BY <1>1, <1>5
  <2>2. CASE i <= n - a
    <3>1. i \in 1 .. (n - a) /\ a + i \in 1 .. n
      BY <1>1, <2>1, <2>2
    <3> QED BY <1>2, <1>4, <1>5, <1>6, <2>1, <2>2, <3>1
  <2>3. CASE ~(i <= n - a)
    <3>1. a + i = n + 1 /\ i - (n - a) = 1
      BY <1>1, <2>1, <2>3
    <3> QED BY <1>2, <1>3, <1>5, <1>6, <2>1, <2>3, <3>1
  <2> QED BY <2>2, <2>3
<1>8. Len(l) = Len(r)
  BY <1>1, <1>5, <1>6
<1>9. l = r
  BY <1>5, <1>6, <1>7, <1>8, SeqEqual
<1> QED BY <1>4, <1>9 DEF n, t, u, q, l, r

LEMMA WindowTake ==
  ASSUME NEW S, NEW s \in Seq(S), NEW a \in 0 .. (Len(s) - 1)
  PROVE  LET q == SubSeq(s, a + 1, Len(s))
         IN  /\ Len(q) = Len(s) - a /\ SubSeq(q, 1, 1) = <<s[a + 1]>>
             /\ SubSeq(q, 1 + 1, Len(q)) = SubSeq(s, a + 1 + 1, Len(s))
<1> DEFINE n == Len(s)
           q == SubSeq(s, a + 1, n)
           l == SubSeq(q, 2, n - a)
           r == SubSeq(s, a + 2, n)
           h == SubSeq(q, 1, 1)
<1>1. n \in Nat /\ a \in Nat /\ a + 1 <= n /\ \A i \in 1 .. n : s[i] \in S
  OBVIOUS
<1> HIDE DEF n
<1>4. q \in Seq(S) /\ Len(q) = n - a /\ \A i \in 1 .. (n - a) : q[i] = s[a + i]
  <2>0. \A i \in (a + 1) .. n : s[i] \in S
    BY <1>1
  <2>1. /\ q \in Seq(S) /\ Len(q) = (IF a + 1 <= n THEN n - (a + 1) + 1 ELSE 0)
        /\ \A i \in 1 .. (n - (a + 1) + 1) : q[i] = s[(a + 1) + i - 1]
    BY <1>1, <2>0, SubSeqProperties
  <2> HIDE DEF q
  <2> QED BY <1>1, <2>1
<1> HIDE DEF q
<1>5. \A i \in 1 .. (n - a) : q[i] \in S
  BY <1>1, <1>4
<1>6. h = <<s[a + 1]>>
  <2>1. /\ h \in Seq(S) /\ Len(h) = (IF 1 <= 1 THEN 1 - 1 + 1 ELSE 0)
        /\ \A i \in 1 .. (1 - 1 + 1) : h[i] = q[1 + i - 1]
    <3>1. \A i \in 1 .. 1 : q[i] \in S
      BY <1>1, <1>5
    <3> QED BY <3>1, SubSeqProperties
  <2> HIDE DEF h
  <2>2. Len(h) = 1 /\ h[1] = q[1]
    BY <2>1
  <2>3. q[1] = s[a + 1] /\ s[a + 1] \in S
    BY <1>1, <1>4
  <2>4. <<s[a + 1]>> \in Seq(S) /\ Len(<<s[a + 1]>>) = 1
    BY <2>3
  <2> QED BY <2>1, <2>2, <2>3, <2>4, SeqEqual
<1>7. l = r
  <2>1. /\ l \in Seq(S) /\ Len(l) = (IF 2 <= n - a THEN (n - a) - 2 + 1 ELSE 0)
        /\ \A i \in 1 .. ((n - a) - 2 + 1) : l[i] = q[2 + i - 1]
    <3>1. (\A i \in 2 .. (n - a) : q[i] \in S) /\ n - a \in Int
      BY <1>1, <1>5
    <3> QED BY <3>1, SubSeqProperties
  <2>2. /\ r \in Seq(S) /\ Len(r) = (IF a + 2 <= n THEN n - (a + 2) + 1 ELSE 0)
        /\ \A i \in 1 .. (n - (a + 2) + 1) : r[i] = s[(a + 2) + i - 1]
    <3>1. (\A i \in (a + 2) .. n : s[i] \in S) /\ a + 2 \in Int
      BY <1>1
    <3> QED BY <1>1, <3>1, SubSeqProperties
  <2> HIDE DEF l, r
  <2>3. Len(l) = n - a - 1 /\ Len(r) = n - a - 1
    BY <1>1, <2>1, <2>2
  <2>4. ASSUME NEW i \in 1 .. Len(l) PROVE l[i] = r[i]
    <3>1. /\ i \in 1 .. ((n - a) - 2 + 1) /\ i \in 1 .. (n - (a + 2) + 1)
          /\ 2 + i - 1 \in 1 .. (n - a) /\ a + (2 + i - 1) = (a + 2) + i - 1
      BY <1>1, <2>3
    <3> QED BY <1>4, <2>1, <2>2, <3>1
  <2> QED BY <2>1, <2>2, <2>3, <2>4, SeqEqual
<1>8. 1 + 1 = 2 /\ a + 1 + 1 = a + 2
  BY <1>1
<1> QED BY <1>4, <1>6, <1>7, <1>8 DEF n, q, l, r, h

\* A claim puts the producer's next item at the back of the queue.
LEMMA PutStep ==
  ASSUME IInv, NEW p \in Producers, PushClaim(p)
  PROVE  Fifo!Put(p, 1) /\ 1 \in 1 .. Capacity
<1> DEFINE q == SubSeq(claims, consumed + 1, claimed)
<1>1. /\ claimed \in Nat /\ consumed \in Nat /\ consumed <= claimed
      /\ Capacity \in Nat \ {0} /\ sent[p] \in Nat /\ PerProducer \in Nat
  BY Numbers, Sizes
<1>2. claimed + 1 - consumed <= Capacity
  BY PushClaimKeeps
<1>3. claims \in Seq(Items) /\ Len(claims) = claimed /\ <<p, sent[p]>> \in Items
  BY <1>1 DEF IInv, TypeOK, ClaimInv, ProducerInv, PushClaim, Items
<1>4. /\ claims' = Append(claims, <<p, sent[p]>>) /\ claimed' = claimed + 1
      /\ consumed' = consumed /\ popped' = popped
      /\ sent' = [sent EXCEPT ![p] = sent[p] + 1]
  BY DEF PushClaim
<1>5. /\ Len(q) = claimed - consumed
      /\ SubSeq(Append(claims, <<p, sent[p]>>), consumed + 1, claimed + 1)
           = q \o [i \in 1 .. 1 |-> <<p, sent[p]>>]
  <2>1. consumed \in 0 .. Len(claims)
    BY <1>1, <1>3
  <2> QED BY <1>3, <2>1, WindowAppend
<1>6. [i \in 1 .. 1 |-> <<p, sent[p]>>] = [i \in 1 .. 1 |-> <<p, sent[p] + i - 1>>]
  <2>1. \A i \in 1 .. 1 : sent[p] + i - 1 = sent[p]
    BY <1>1
  <2> QED BY <2>1
<1>7. q' = q \o [i \in 1 .. 1 |-> <<p, sent[p] + i - 1>>]
  BY <1>4, <1>5, <1>6
<1>8. Len(q) + 1 <= Capacity /\ 1 \in 1 .. Capacity
  BY <1>1, <1>2, <1>5
<1> QED BY <1>4, <1>7, <1>8 DEF Fifo!Put

\* A store to tail takes the oldest item, the one the consumer has read.
LEMMA TakeStep ==
  ASSUME IInv, PopRelease
  PROVE  Fifo!Take(1) /\ 1 \in 1 .. Capacity
<1> DEFINE q == SubSeq(claims, consumed + 1, claimed)
<1>1. /\ claimed \in Nat /\ consumed \in Nat /\ cHead \in Nat
      /\ cHead <= claimed /\ Capacity \in Nat \ {0}
  BY Numbers, Sizes
<1>2. ct = consumed /\ ct < cHead /\ cVal = claims[ct + 1]
  BY DEF PopRelease, IInv, ConsumerInv
<1>3. claims \in Seq(Items) /\ Len(claims) = claimed
  BY DEF IInv, TypeOK, ClaimInv
<1>4. /\ consumed' = consumed + 1 /\ popped' = <<claims[consumed + 1]>>
      /\ claims' = claims /\ claimed' = claimed /\ sent' = sent
  BY <1>2 DEF PopRelease, prodVars
<1>5. /\ Len(q) = claimed - consumed /\ SubSeq(q, 1, 1) = <<claims[consumed + 1]>>
      /\ SubSeq(q, 1 + 1, Len(q)) = SubSeq(claims, consumed + 1 + 1, claimed)
  <2>1. consumed \in 0 .. (Len(claims) - 1)
    BY <1>1, <1>2, <1>3
  <2> QED BY <1>3, <2>1, WindowTake
<1>6. q' = SubSeq(q, 1 + 1, Len(q)) /\ popped' = SubSeq(q, 1, 1)
  BY <1>4, <1>5
<1>7. 1 <= Len(q) /\ 1 \in 1 .. Capacity
  BY <1>1, <1>2, <1>5
<1> QED BY <1>4, <1>6, <1>7 DEF Fifo!Take

\* push and pop are atomic puts and takes of a bounded FIFO, whatever the
\* threads do in between and however stale their loads are: nothing is lost,
\* duplicated or reordered, and a call that returns false has no effect.
THEOREM Refinement == Spec => ImplementsFifo
<1>1. Init => Fifo!Init
  <2> SUFFICES ASSUME Init PROVE Fifo!Init
    OBVIOUS
  <2>1. /\ claims = <<>> /\ consumed = 0 /\ claimed = 0 /\ popped = <<>>
        /\ sent = [p \in Producers |-> 0]
    BY DEF Init
  <2>2. SubSeq(claims, consumed + 1, claimed) = <<>>
    BY <2>1, SubSeqEmpty
  <2> QED BY <2>1, <2>2 DEF Fifo!Init
<1>2. IInv /\ [Next]_vars => [Fifo!Next]_(Fifo!vars)
  <2> SUFFICES ASSUME IInv, [Next]_vars
               PROVE  Fifo!Next \/ UNCHANGED Fifo!vars
    OBVIOUS
  <2>1. ASSUME NEW p \in Producers, PushClaim(p) PROVE Fifo!Next
    BY <2>1, PutStep DEF Fifo!Next
  <2>2. ASSUME PopRelease PROVE Fifo!Next
    BY <2>2, TakeStep DEF Fifo!Next
  <2>3. CASE ~PopRelease /\ \A p \in Producers : ~PushClaim(p)
    <3>1. /\ claims' = claims /\ consumed' = consumed /\ claimed' = claimed
          /\ popped' = popped /\ sent' = sent
      <4>1. ASSUME NEW p \in Producers, Producer(p)
            PROVE  /\ claims' = claims /\ consumed' = consumed /\ claimed' = claimed
                   /\ popped' = popped /\ sent' = sent
        BY <2>3, <4>1 DEF Producer, PushHead, PushRetry, PushTail, PushWrite, PushReady
      <4>2. CASE Consumer
        BY <2>3, <4>2 DEF Consumer, PopTail, PopHead, PopFlag, PopRead, PopClear, prodVars
      <4>3. CASE UNCHANGED vars
        BY <4>3 DEF vars, prodVars
      <4> QED BY <4>1, <4>2, <4>3 DEF Next, Done
    <3> QED BY <3>1 DEF Fifo!vars
  <2> QED BY <2>1, <2>2, <2>3
<1> QED BY <1>1, <1>2, Invariance, PTL DEF Spec, ImplementsFifo, Fifo!Spec
=============================================================================
