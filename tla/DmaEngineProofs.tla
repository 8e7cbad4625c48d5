-------------------------- MODULE DmaEngineProofs --------------------------
(***************************************************************************)
(* The driver's engine is correct for every ring depth, counter width and  *)
(* number of operations, in MSI and in INTx mode: engine_wait loses no     *)
(* wake-up, no SQE is overwritten, and no completion if the caller has no  *)
(* more SQEs outstanding than the CQ has slots.                            *)
(*                                                                         *)
(* NoLostWakeup is inductive as it stands.  It follows one wake-up along   *)
(* its way: the device's callback has posted a completion (processing and  *)
(* did_work), the interrupt is raised (irq_status and line), the handler   *)
(* is entered ("status"), has acknowledged ("ack"), is about to wake       *)
(* ("wake").  Each action of the device or of the handler moves it one     *)
(* stage on and none drops it; the thread goes to sleep only when its      *)
(* second test, made after it queued itself, finds the CQ empty.           *)
(*                                                                         *)
(* The rings need IInv, which ties the counters of both sides to numbers   *)
(* that do not wrap (IndexInv) and keeps the engine within a lap of the    *)
(* device (CallInv), so that two SQEs that are both in use never share a   *)
(* slot.                                                                   *)
(***************************************************************************)
EXTENDS DmaEngine, CountersProofs

-----------------------------------------------------------------------------
(* The inductive invariant behind the safety properties.                   *)

Sqes == [cookie : Nat, op : {"none", "TX", "RX"}, buf : Buffers]
Cqes == [cookie : Nat, status : Int]

\* Every counter is the wrapped image of a number that does not wrap: the
\* engine's of what was submitted and drained, the device's of what it did,
\* the doorbell of some number in between.
IndexInv ==
  /\ eng_sq_tail = Val(Start + nsub) /\ eng_cq_head = Val(Start + ndrained)
  /\ sq_head = Val(Start + ndone) /\ cq_tail = Val(Start + ndone)
  /\ \E rung \in ndone .. nsub : sq_tail = Val(Start + rung)

\* The engine stays within a lap of the device, with a slot to spare between
\* the test of engine_submit and its write; engine_drain settled on no more
\* CQEs than there are.
CallInv ==
  /\ nsub - ndone <= SqDepth
  /\ tpc = "submit" => nsub - ndone < SqDepth /\ cur = Sqe(nsub + 1)
  /\ tpc = "copy" => Len(out) <= todo /\ ndrained + todo <= ndone

\* The rings and the caller's array hold SQEs and CQEs, the device may access
\* the rings and the driver the registers.
RingInv ==
  /\ sq \in [SqSlots -> Sqes] /\ cq \in [CqSlots -> Cqes] /\ out \in Seq(Cqes)
  /\ nsub \in Nat /\ master = TRUE /\ aimed = TRUE /\ bar = TRUE

IInv ==
  /\ TypeOK
  /\ IndexInv
  /\ CallInv
  /\ RingInv
  /\ SqesIntact

\* The caller has no more SQEs outstanding than it set out to.
OutstandingInv ==
  /\ nsub - ndrained <= MaxOutstanding
  /\ tpc = "submit" => nsub - ndrained < MaxOutstanding

CqInv == IInv /\ OutstandingInv /\ CompletionsIntact

\* A step after which the thread does not sleep keeps the invariant.
LEMMA AwakeStep ==
  ASSUME tpc' # "sleep"
  PROVE  NoLostWakeup'
BY DEF NoLostWakeup

\* What the driver reads of the registers, through a mapped BAR and a NULL one.
LEMMA CqSame ==
  ASSUME UNCHANGED <<bar, cq_tail, eng_cq_head>>
  PROVE  CqNotEmpty' <=> CqNotEmpty
<1>1. Reg'.CQ_TAIL = Reg.CQ_TAIL
  BY DEF Reg
<1> QED BY <1>1 DEF CqNotEmpty

LEMMA StatusRead ==
  ASSUME irq_status = 1
  PROVE  Reg.IRQ_STATUS # 0
<1>1. Modulus - 1 # 0
  BY DmaAssumption, CountersAssumption DEF RingDepth
<1> QED BY <1>1 DEF Reg

\* The calls of the engine, up to the test that puts the thread to sleep.
LEMMA ThreadStep ==
  ASSUME NoLostWakeup, Calls \/ Running \/ WaitExpires \/ WaitInterrupted
  PROVE  NoLostWakeup'
<1>1. CASE Calls
  <2>1. tpc' # "sleep"
    BY <1>1 DEF Calls, SubmitCheck, Doorbell, Wait, Drain, threadVars
  <2> QED BY <2>1, AwakeStep
<1>2. CASE SubmitWrite \/ WaitPrepare \/ WaitWoken \/ DrainCopy \/ DrainEnd
  <2>1. tpc' # "sleep"
    BY <1>2 DEF SubmitWrite, WaitPrepare, WaitWoken, DrainCopy, DrainEnd
  <2> QED BY <2>1, AwakeStep
<1>3. CASE WaitCheck
  <2>1. tpc' # "sleep" \/ ~CqNotEmpty'
    BY <1>3, CqSame DEF WaitCheck, devVars, memVars
  <2> QED BY <2>1 DEF NoLostWakeup
<1>4. CASE WaitExpires \/ WaitRefused \/ WaitInterrupted
  <2>1. tpc' # "sleep"
    BY <1>4 DEF WaitExpires, WaitRefused, WaitInterrupted, GiveUp
  <2> QED BY <2>1, AwakeStep
<1> QED BY <1>1, <1>2, <1>3, <1>4 DEF Running

\* The device: a completion is posted, then the interrupt raised.
LEMMA DeviceStepKeeps ==
  ASSUME NoLostWakeup, DeviceStep
  PROVE  NoLostWakeup'
<1>0. UNCHANGED <<tpc, eng_cq_head, woken, hpc>>
  BY DEF DeviceStep, threadVars
<1>1. CASE TimerFires
  BY <1>0, <1>1, CqSame DEF TimerFires, NoLostWakeup, memVars
<1>2. CASE ProcessSqe
  BY <1>0, <1>2 DEF ProcessSqe, NoLostWakeup
<1>3. CASE ProcessEnd
  <2>1. CASE did_work
    BY <1>0, <1>3, <2>1 DEF ProcessEnd, RaiseIrq, NoLostWakeup
  <2>2. CASE ~did_work
    <3>1. UNCHANGED <<bar, cq_tail, irq_status>> /\ (line => line')
      BY <1>3, <2>2 DEF ProcessEnd, memVars
    <3> QED BY <1>0, <2>2, <3>1, CqSame DEF NoLostWakeup
  <2> QED BY <2>1, <2>2
<1> QED BY <1>1, <1>2, <1>3 DEF DeviceStep, Device

\* The interrupt handler: entered, status read, acknowledged, waiters woken.
LEMMA IrqKeeps ==
  ASSUME NoLostWakeup, Irq
  PROVE  NoLostWakeup'
<1>0. UNCHANGED <<tpc, eng_cq_head, bar>>
  BY DEF Irq, IrqEnter, IrqHandler, threadVars, memVars
<1>1. CASE IrqEnter
  BY <1>0, <1>1, CqSame DEF IrqEnter, NoLostWakeup
<1>2. CASE IrqHandler
  <2>1. CASE hpc = "status"
    <3>1. UNCHANGED <<devVars, woken>> /\ (irq_status = 1 => hpc' = "ack")
      BY <1>2, <2>1, StatusRead DEF IrqHandler
    <3> QED BY <1>0, <2>1, <3>1, CqSame DEF NoLostWakeup, devVars
  <2>2. CASE hpc = "ack"
    BY <1>0, <1>2, <2>2 DEF IrqHandler, NoLostWakeup
  <2>3. CASE hpc = "wake"
    BY <1>0, <1>2, <2>3 DEF IrqHandler, WakeUp, NoLostWakeup
  <2> QED BY <1>2, <2>1, <2>2, <2>3 DEF IrqHandler
<1> QED BY <1>1, <1>2 DEF Irq

\* A thread that sleeps in engine_wait while the CQ holds a completion is about
\* to be woken, whatever the device and the handler do in between.
THEOREM WakeupSafety == Spec => []NoLostWakeup
<1>1. Init => NoLostWakeup
  BY DEF Init, EngineInit, NoLostWakeup
<1>2. NoLostWakeup /\ [Next]_vars => NoLostWakeup'
  <2> SUFFICES ASSUME NoLostWakeup, [Next]_vars PROVE NoLostWakeup'
    OBVIOUS
  <2>1. CASE UNCHANGED vars
    BY <2>1, CqSame DEF vars, memVars, devVars, threadVars, NoLostWakeup
  <2>2. CASE Next
    BY <2>2, ThreadStep, DeviceStepKeeps, IrqKeeps DEF Next
  <2> QED BY <2>1, <2>2
<1> QED BY <1>1, <1>2, PTL DEF Spec

-----------------------------------------------------------------------------
(* The rings.                                                              *)

\* The numbers behind the counters.
LEMMA Numbers ==
  ASSUME IInv
  PROVE  /\ nsub \in Nat /\ ndone \in Nat /\ ndrained \in Nat /\ Start \in Nat
         /\ ndrained <= ndone /\ ndone <= nsub /\ nsub - ndone <= SqDepth
         /\ Start + nsub \in Nat /\ Start + ndone \in Nat /\ Start + ndrained \in Nat
         /\ SqDepth \in Nat \ {0} /\ CqDepth \in Nat \ {0}
         /\ SqDepth < Modulus /\ CqDepth < Modulus /\ Modulus \in Nat
BY DmaAssumption, CountersAssumption DEF IInv, TypeOK, CallInv, RingInv, RingDepth

LEMMA SqeFacts ==
  ASSUME NEW n \in Nat
  PROVE  Sqe(n) \in Sqes /\ Sqe(n).cookie = n
BY DEF Sqe, Sqes, Buffers

\* A step that moves no index and writes no SQE.
LEMMA QuietStep ==
  ASSUME IInv,
         UNCHANGED <<sq, sq_head, sq_tail, cq_tail, eng_sq_tail, eng_cq_head,
                     nsub, ndone, ndrained>>
  PROVE  IndexInv' /\ SqesIntact'
BY DEF IInv, IndexInv, SqesIntact

\* engine_submit's test is right: there is a free slot.
LEMMA SubmitCheckKeeps ==
  ASSUME IInv, SubmitCheck(Sqe(nsub + 1))
  PROVE  IInv'
<1>0. IndexInv' /\ SqesIntact'
  BY QuietStep DEF SubmitCheck, devVars, memVars
<1>1. Minus(eng_sq_tail, Reg.SQ_HEAD) = nsub - ndone
  <2>1. /\ eng_sq_tail = Val(Start + nsub) /\ Reg.SQ_HEAD = Val(Start + ndone)
    BY DEF IInv, IndexInv, RingInv, Reg
  <2>2. /\ Start + nsub \in Nat /\ Start + ndone \in Nat
        /\ Start + ndone <= Start + nsub /\ (Start + nsub) - (Start + ndone) < Modulus
        /\ (Start + nsub) - (Start + ndone) = nsub - ndone
    BY Numbers
  <2> QED BY <2>1, <2>2, MinusVal
<1>2. CallInv'
  <2>1. UNCHANGED <<nsub, ndone, ndrained, todo, out>> /\ tpc' # "copy"
    BY DEF SubmitCheck
  <2>2. tpc' = "submit" => nsub - ndone < SqDepth /\ cur' = Sqe(nsub + 1)
    BY <1>1, Numbers DEF SubmitCheck
  <2> QED BY <2>1, <2>2 DEF CallInv, IInv
<1>3. TypeOK'
  BY DEF SubmitCheck, IInv, TypeOK, devVars, memVars
<1>4. RingInv'
  BY DEF SubmitCheck, IInv, RingInv, devVars, memVars
<1> QED BY <1>0, <1>2, <1>3, <1>4 DEF IInv

\* The SQE goes into a slot that no unconsumed SQE occupies.
LEMMA SubmitWriteKeeps ==
  ASSUME IInv, SubmitWrite
  PROVE  IInv'
<1> DEFINE s == SlotOf(eng_sq_tail, SqDepth)
<1>0. /\ tpc = "submit" /\ nsub - ndone < SqDepth /\ cur = Sqe(nsub + 1)
      /\ nsub' = nsub + 1 /\ eng_sq_tail = Val(Start + nsub)
      /\ sq' = [sq EXCEPT ![s] = cur] /\ sq \in [SqSlots -> Sqes]
      /\ UNCHANGED <<ndone, ndrained, sq_head, sq_tail, cq_tail, eng_cq_head>>
  BY DEF SubmitWrite, IInv, CallInv, IndexInv, RingInv, devVars
<1>1. s \in SqSlots
  BY <1>0, Numbers, DmaAssumption, SlotType DEF SqSlots
<1>2. IndexInv'
  <2>1. eng_sq_tail' = Val(Start + (nsub + 1))
    <3>1. Val(Val(Start + nsub) + 1) = Val((Start + nsub) + 1)
      BY Numbers, ValAdd
    <3>2. (Start + nsub) + 1 = Start + (nsub + 1)
      BY Numbers
    <3> QED BY <1>0, <3>1, <3>2 DEF SubmitWrite
  <2>2. \E rung \in ndone .. (nsub + 1) : sq_tail = Val(Start + rung)
    BY Numbers DEF IInv, IndexInv
  <2> QED BY <1>0, <2>1, <2>2 DEF IInv, IndexInv
<1>3. SqesIntact'
  <2> SUFFICES ASSUME NEW i \in (ndone + 1) .. (nsub + 1)
               PROVE  sq'[SlotOf(Val(Start + i - 1), SqDepth)] = Sqe(i)
    BY <1>0 DEF SqesIntact
  <2>1. CASE i = nsub + 1
    <3>1. Start + i - 1 = Start + nsub
      BY <2>1, Numbers
    <3> QED BY <1>0, <1>1, <2>1, <3>1
  <2>2. CASE i # nsub + 1
    <3>1. /\ Start + i - 1 \in Nat /\ Start + nsub \in Nat
          /\ Start + i - 1 # Start + nsub
          /\ (Start + i - 1) - (Start + nsub) < SqDepth
          /\ (Start + nsub) - (Start + i - 1) < SqDepth
      BY <1>0, <2>2, Numbers
    <3>2. SlotOf(Val(Start + i - 1), SqDepth) # s
      BY <1>0, <3>1, SlotDistinct, DmaAssumption
    <3>3. SlotOf(Val(Start + i - 1), SqDepth) \in SqSlots
      BY <3>1, SlotType, DmaAssumption DEF SqSlots
    <3>4. i \in (ndone + 1) .. nsub
      BY <2>2, Numbers
    <3>5. sq[SlotOf(Val(Start + i - 1), SqDepth)] = Sqe(i)
      BY <3>4 DEF IInv, SqesIntact
    <3> QED BY <1>0, <3>2, <3>3, <3>5
  <2> QED BY <2>1, <2>2
<1>4. CallInv'
  BY <1>0, Numbers DEF SubmitWrite, CallInv
<1>5. RingInv'
  <2>1. cur \in Sqes /\ nsub + 1 \in Nat
    BY <1>0, Numbers, SqeFacts
  <2>2. sq' \in [SqSlots -> Sqes]
    BY <1>0, <2>1
  <2> QED BY <1>0, <2>1, <2>2 DEF SubmitWrite, IInv, RingInv
<1>6. TypeOK'
  <2>1. eng_sq_tail' \in Counter
    <3>1. eng_sq_tail + 1 \in Int
      BY DEF IInv, TypeOK, Counter
    <3> QED BY <3>1, ValType DEF SubmitWrite
  <2>2. ndone \in 0 .. (nsub + 1)
    BY Numbers
  <2>3. DOMAIN sq' = SqSlots
    BY <1>0
  <2> QED BY <1>0, <2>1, <2>2, <2>3 DEF SubmitWrite, IInv, TypeOK, devVars
<1> QED BY <1>2, <1>3, <1>4, <1>5, <1>6 DEF IInv

\* The doorbell announces all that was submitted.
LEMMA DoorbellKeeps ==
  ASSUME IInv, Doorbell
  PROVE  IInv'
<1>0. /\ sq_tail' = eng_sq_tail /\ tpc = "idle"
      /\ UNCHANGED <<memVars, threadVars, woken, hpc, ndone, sq_head, cq_tail,
                     irq_status, line, processing, did_work, dev_buf>>
      /\ timer' = TRUE
  BY DEF Doorbell, RegDoorbell, IInv, RingInv
<1>1. IndexInv'
  <2>1. nsub \in ndone .. nsub
    BY Numbers
  <2> QED BY <1>0, <2>1 DEF IInv, IndexInv, threadVars
<1>2. SqesIntact' /\ CallInv' /\ RingInv'
  BY <1>0 DEF IInv, SqesIntact, CallInv, RingInv, threadVars, memVars
<1>3. TypeOK'
  BY <1>0 DEF IInv, TypeOK, threadVars, memVars
<1> QED BY <1>1, <1>2, <1>3 DEF IInv

\* engine_wait reads registers only.
LEMMA WaitKeeps ==
  ASSUME IInv,
         \/ \E t \in Timeouts : Wait(t)
         \/ WaitPrepare \/ WaitCheck \/ WaitWoken \/ GiveUp
  PROVE  IInv'
<1>0. /\ UNCHANGED <<memVars, devVars, eng_sq_tail, eng_cq_head, cur, todo, out,
                     hpc, nsub, ndone, ndrained>>
      /\ tpc' \in {"idle", "prepare", "check", "sleep"}
      /\ res' \in {res, "ok", "ETIMEDOUT"}
      /\ woken' \in {woken, FALSE}
  BY DEF Wait, WaitPrepare, WaitCheck, WaitWoken, GiveUp, Result, IInv, TypeOK
<1>1. IndexInv' /\ SqesIntact'
  BY <1>0, QuietStep DEF devVars, memVars
<1>2. CallInv' /\ RingInv'
  BY <1>0 DEF IInv, CallInv, RingInv, memVars
<1>3. TypeOK'
  BY <1>0 DEF IInv, TypeOK, devVars, memVars
<1> QED BY <1>1, <1>2, <1>3 DEF IInv

\* engine_drain settles on no more CQEs than were posted, whatever the counters
\* wrapped to.
LEMMA DrainKeeps ==
  ASSUME IInv, NEW max \in 1 .. MaxDrain, Drain(max)
  PROVE  IInv'
<1>0. /\ UNCHANGED <<memVars, devVars, eng_sq_tail, eng_cq_head, cur, waitArg,
                     woken, hpc, nsub, ndone, ndrained>>
      /\ out' = <<>> /\ tpc' \in {"idle", "copy"} /\ res' = "ok"
  BY DEF Drain
<1>1. IndexInv' /\ SqesIntact'
  BY <1>0, QuietStep DEF devVars, memVars
<1> DEFINE n == Minus(Reg.CQ_TAIL, eng_cq_head)
<1>2. n \in 0 .. (ndone - ndrained)
  <2>1. Reg.CQ_TAIL = Val(Start + ndone) /\ eng_cq_head = Val(Start + ndrained)
    BY DEF IInv, IndexInv, RingInv, Reg
  <2>2. /\ Start + ndone \in Nat /\ Start + ndrained \in Nat
        /\ Start + ndrained <= Start + ndone
        /\ (Start + ndone) - (Start + ndrained) = ndone - ndrained
    BY Numbers
  <2> QED BY <2>1, <2>2, MinusBound
<1>3. todo' = MinOf(n, max)
  BY DEF Drain
<1> HIDE DEF n
<1>4. PICK k \in Nat : k = todo' /\ k <= ndone - ndrained /\ k \in 0 .. MaxDrain
  <2>1. MinOf(n, max) \in Nat /\ MinOf(n, max) <= ndone - ndrained /\ MinOf(n, max) <= max
    BY <1>2, Numbers DEF MinOf
  <2>2. MinOf(n, max) \in 0 .. MaxDrain
    BY <2>1, EngineAssumption
  <2> QED BY <1>3, <2>1, <2>2
<1>5. CallInv'
  <2>1. Len(out') = 0 /\ 0 <= k /\ ndrained + k <= ndone
    BY <1>0, <1>4, Numbers
  <2> QED BY <1>0, <1>4, <2>1 DEF IInv, CallInv
<1>6. RingInv'
  BY <1>0 DEF IInv, RingInv, memVars
<1>7. TypeOK'
  BY <1>0, <1>4 DEF IInv, TypeOK, devVars, memVars
<1> QED BY <1>1, <1>5, <1>6, <1>7 DEF IInv

LEMMA DrainCopyKeeps ==
  ASSUME IInv, DrainCopy
  PROVE  IInv'
<1> DEFINE e == cq[SlotOf(Val(eng_cq_head + Len(out)), CqDepth)]
<1>0. /\ tpc = "copy" /\ Len(out) < todo /\ out' = Append(out, e)
      /\ UNCHANGED <<memVars, devVars, eng_sq_tail, eng_cq_head, tpc, cur, todo,
                     waitArg, res, woken, hpc, nsub, ndone, ndrained>>
      /\ out \in Seq(Cqes) /\ cq \in [CqSlots -> Cqes] /\ todo \in Nat
      /\ eng_cq_head \in Nat
  BY DEF DrainCopy, IInv, RingInv, TypeOK, Counter
<1>1. IndexInv' /\ SqesIntact'
  BY <1>0, QuietStep DEF devVars, memVars
<1>2. e \in Cqes
  <2>1. eng_cq_head + Len(out) \in Nat
    BY <1>0
  <2>2. SlotOf(Val(eng_cq_head + Len(out)), CqDepth) \in CqSlots
    BY <2>1, SlotType, DmaAssumption DEF CqSlots
  <2> QED BY <1>0, <2>2
<1> HIDE DEF e
<1>3. out' \in Seq(Cqes) /\ Len(out') = Len(out) + 1 /\ Len(out) + 1 <= todo
  BY <1>0, <1>2
<1>4. CallInv'
  BY <1>0, <1>3 DEF IInv, CallInv
<1>5. RingInv'
  BY <1>0, <1>3 DEF IInv, RingInv, memVars
<1>6. TypeOK'
  BY <1>0 DEF IInv, TypeOK, devVars, memVars
<1> QED BY <1>1, <1>4, <1>5, <1>6 DEF IInv

LEMMA DrainEndKeeps ==
  ASSUME IInv, DrainEnd
  PROVE  IInv'
<1>0. /\ tpc = "copy" /\ tpc' = "idle"
      /\ eng_cq_head' = Val(eng_cq_head + todo) /\ ndrained' = ndrained + todo
      /\ UNCHANGED <<memVars, devVars, eng_sq_tail, cur, todo, out, waitArg, res,
                     woken, hpc, nsub, ndone>>
      /\ ndrained + todo <= ndone /\ todo \in Nat
  BY DEF DrainEnd, IInv, CallInv, TypeOK
<1>1. eng_cq_head' = Val(Start + (ndrained + todo))
  <2>1. Val(Val(Start + ndrained) + todo) = Val((Start + ndrained) + todo)
    BY <1>0, Numbers, ValAdd
  <2>2. (Start + ndrained) + todo = Start + (ndrained + todo)
    BY <1>0, Numbers
  <2> QED BY <1>0, <2>1, <2>2 DEF IInv, IndexInv
<1>2. IndexInv'
  BY <1>0, <1>1 DEF IInv, IndexInv, devVars
<1>3. SqesIntact' /\ CallInv' /\ RingInv'
  BY <1>0 DEF IInv, SqesIntact, CallInv, RingInv, memVars
<1>4. TypeOK'
  <2>1. ndrained + todo \in 0 .. ndone
    BY <1>0, Numbers
  <2>2. eng_cq_head' \in Counter
    <3>1. Start + (ndrained + todo) \in Int
      BY <1>0, Numbers
    <3> QED BY <1>1, <3>1, ValType
  <2> QED BY <1>0, <2>1, <2>2 DEF IInv, TypeOK, devVars, memVars
<1> QED BY <1>2, <1>3, <1>4 DEF IInv

\* The interrupt handler touches no ring.
LEMMA IrqKeepsRings ==
  ASSUME IInv, Irq
  PROVE  IInv'
<1>0. /\ UNCHANGED <<memVars, threadVars, ndone, sq_head, sq_tail, cq_tail, timer,
                     processing, did_work, dev_buf>>
      /\ irq_status' \in {irq_status, 0} /\ line' \in BOOLEAN
      /\ hpc' \in {"idle", "status", "ack", "wake"} /\ woken' \in BOOLEAN
  BY DEF Irq, IrqEnter, IrqHandler, RegIrqAck, LowerIrq, WakeUp, devVars, IInv, TypeOK
<1>1. IndexInv' /\ SqesIntact'
  BY <1>0, QuietStep DEF threadVars, memVars
<1>2. CallInv' /\ RingInv'
  BY <1>0 DEF IInv, CallInv, RingInv, memVars, threadVars
<1>3. TypeOK'
  BY <1>0 DEF IInv, TypeOK, threadVars, memVars
<1> QED BY <1>1, <1>2, <1>3 DEF IInv

\* The callback starts or ends.
LEMMA CallbackKeeps ==
  ASSUME IInv, TimerFires \/ ProcessEnd, DeviceStep
  PROVE  IInv'
<1>0. /\ UNCHANGED <<memVars, threadVars, woken, hpc, sq_head, sq_tail, cq_tail, dev_buf>>
      /\ timer' \in BOOLEAN /\ processing' \in BOOLEAN /\ did_work' \in BOOLEAN
      /\ line' \in BOOLEAN /\ irq_status' \in {irq_status, 1}
  BY DEF TimerFires, ProcessEnd, RaiseIrq, DeviceStep, IInv, TypeOK
<1>1. ndone' = ndone
  BY <1>0 DEF DeviceStep
<1>2. IndexInv' /\ SqesIntact'
  BY <1>0, <1>1, QuietStep DEF threadVars, memVars
<1>3. CallInv' /\ RingInv'
  BY <1>0, <1>1 DEF IInv, CallInv, RingInv, memVars, threadVars
<1>4. TypeOK'
  BY <1>0, <1>1 DEF IInv, TypeOK, threadVars, memVars
<1> QED BY <1>2, <1>3, <1>4 DEF IInv

\* The device consumes the next SQE that was submitted, and answers it.
LEMMA ProcessSqeFacts ==
  ASSUME IInv, ProcessSqe, DeviceStep
  PROVE  /\ ndone < nsub /\ ndone' = ndone + 1
         /\ sq_head' = Val(Start + (ndone + 1)) /\ cq_tail' = Val(Start + (ndone + 1))
         /\ \E rung \in (ndone + 1) .. nsub : sq_tail = Val(Start + rung)
         /\ \E status \in {0, -1, -22} :
              /\ cq' = [cq EXCEPT ![SlotOf(Val(Start + ndone), CqDepth)] =
                          [cookie |-> ndone + 1, status |-> status]]
              /\ dev_buf' \in Data /\ mem' \in [Buffers -> Data]
<1>0. /\ processing /\ sq_head # sq_tail
      /\ sq_head = Val(Start + ndone) /\ cq_tail = Val(Start + ndone)
      /\ sq_head' = Val(sq_head + 1) /\ cq_tail' = Val(cq_tail + 1)
      /\ master = TRUE /\ aimed = TRUE
  BY DEF ProcessSqe, IInv, IndexInv, RingInv
<1>1. PICK rung \in ndone .. nsub : sq_tail = Val(Start + rung)
  BY DEF IInv, IndexInv
<1>2. rung # ndone
  BY <1>0, <1>1
<1>3. ndone + 1 <= rung /\ ndone < nsub /\ rung \in (ndone + 1) .. nsub
  BY <1>1, <1>2, Numbers
<1>4. Val(Val(Start + ndone) + 1) = Val(Start + (ndone + 1))
  <2>1. Val(Val(Start + ndone) + 1) = Val((Start + ndone) + 1)
    BY Numbers, ValAdd
  <2>2. (Start + ndone) + 1 = Start + (ndone + 1)
    BY Numbers
  <2> QED BY <2>1, <2>2
<1>5. sq_head' # sq_head
  <2>1. /\ Start + ndone \in Nat /\ Start + (ndone + 1) \in Nat
        /\ Start + ndone < Start + (ndone + 1)
        /\ (Start + (ndone + 1)) - (Start + ndone) = 1
    BY Numbers
  <2>2. 1 < Modulus
    BY Numbers
  <2> QED BY <1>0, <1>4, <2>1, <2>2, ValDistinct
<1>6. ndone' = ndone + 1
  BY <1>5 DEF DeviceStep
<1>7. sq[SlotOf(sq_head, SqDepth)] = Sqe(ndone + 1)
  <2>1. ndone + 1 \in (ndone + 1) .. nsub /\ Start + (ndone + 1) - 1 = Start + ndone
    BY <1>3, Numbers
  <2>2. sq[SlotOf(Val(Start + (ndone + 1) - 1), SqDepth)] = Sqe(ndone + 1)
    BY <2>1 DEF IInv, SqesIntact
  <2> QED BY <1>0, <2>1, <2>2
<1>8. Sqe(ndone + 1) \in Sqes /\ Sqe(ndone + 1).cookie = ndone + 1
  BY Numbers, SqeFacts
<1> DEFINE e == Sqe(ndone + 1)
<1>9. PICK status \in Statuses(e.op) :
        /\ dev_buf' \in DevBufAfter(e, status)
        /\ mem' \in MemAfter(e, status)
        /\ PostCqe([cookie |-> e.cookie, status |-> status])
  BY <1>0, <1>7 DEF ProcessSqe, FetchedSqes
<1> HIDE DEF e
<1>10. status \in {0, -1, -22}
  BY DEF Statuses
<1>11. e \in Sqes /\ e.cookie = ndone + 1
  BY <1>8 DEF e
<1>12. dev_buf \in Data /\ mem \in [Buffers -> Data]
  BY DEF IInv, TypeOK
<1>13. dev_buf' \in Data
  BY <1>9, <1>11, <1>12 DEF DevBufAfter, Sqes
<1>14. mem' \in [Buffers -> Data]
  BY <1>9, <1>11, <1>12 DEF MemAfter, Sqes
<1>15. cq' = [cq EXCEPT ![SlotOf(Val(Start + ndone), CqDepth)] =
                [cookie |-> ndone + 1, status |-> status]]
  BY <1>0, <1>9, <1>11 DEF PostCqe
<1> QED BY <1>0, <1>1, <1>3, <1>4, <1>6, <1>10, <1>13, <1>14, <1>15

LEMMA ProcessSqeKeeps ==
  ASSUME IInv, ProcessSqe, DeviceStep
  PROVE  IInv'
<1>0. /\ UNCHANGED <<sq, master, aimed, bar, irqMode, sq_tail, irq_status, line, timer,
                     processing, threadVars, woken, hpc>>
      /\ did_work' = TRUE
  BY DEF ProcessSqe, DeviceStep
<1>1. /\ ndone < nsub /\ ndone' = ndone + 1
      /\ sq_head' = Val(Start + (ndone + 1)) /\ cq_tail' = Val(Start + (ndone + 1))
      /\ \E rung \in (ndone + 1) .. nsub : sq_tail = Val(Start + rung)
  BY ProcessSqeFacts
<1>2. PICK status \in {0, -1, -22} :
        /\ cq' = [cq EXCEPT ![SlotOf(Val(Start + ndone), CqDepth)] =
                    [cookie |-> ndone + 1, status |-> status]]
        /\ dev_buf' \in Data /\ mem' \in [Buffers -> Data]
  BY ProcessSqeFacts
<1>3. IndexInv'
  BY <1>0, <1>1 DEF IInv, IndexInv, threadVars
<1>4. SqesIntact'
  <2>1. (ndone + 1) + 1 .. nsub \subseteq (ndone + 1) .. nsub
    BY Numbers
  <2> QED BY <1>0, <1>1, <2>1 DEF IInv, SqesIntact, threadVars
<1>5. CallInv'
  <2>1. UNCHANGED <<nsub, ndrained, tpc, cur, out, todo>> /\ todo \in Nat
    BY <1>0 DEF threadVars, IInv, TypeOK
  <2>2. nsub - (ndone + 1) <= SqDepth /\ (tpc = "submit" => nsub - (ndone + 1) < SqDepth)
    BY <1>1, Numbers
  <2>3. tpc = "copy" => ndrained + todo <= ndone + 1
    BY <2>1, Numbers DEF IInv, CallInv
  <2> QED BY <1>1, <2>1, <2>2, <2>3 DEF IInv, CallInv
<1>6. RingInv'
  <2>1. [cookie |-> ndone + 1, status |-> status] \in Cqes
    BY Numbers DEF Cqes
  <2>2. cq' \in [CqSlots -> Cqes]
    BY <1>2, <2>1 DEF IInv, RingInv
  <2> QED BY <1>0, <2>2 DEF IInv, RingInv, threadVars
<1>7. TypeOK'
  <2>1. sq_head' \in Counter /\ cq_tail' \in Counter
    <3>1. Start + (ndone + 1) \in Int
      BY Numbers
    <3> QED BY <1>1, <3>1, ValType
  <2>2. DOMAIN cq' = CqSlots
    BY <1>2 DEF IInv, RingInv
  <2>3. ndone + 1 \in 0 .. nsub /\ ndrained \in 0 .. (ndone + 1)
    BY <1>1, Numbers
  <2> QED BY <1>0, <1>1, <1>2, <2>1, <2>2, <2>3 DEF IInv, TypeOK, threadVars
<1> QED BY <1>3, <1>4, <1>5, <1>6, <1>7 DEF IInv

\* The rings' invariant holds in every state, whatever the depths are.
THEOREM Invariance == Spec => []IInv
<1>1. Init => IInv
  <2> SUFFICES ASSUME Init PROVE IInv
    OBVIOUS
  <2> USE DEF Init, DeviceInit, EngineInit
  <2>0. Start \in Nat /\ Start + 0 = Start /\ SqDepth \in Nat /\ 0 <= SqDepth
    BY DmaAssumption DEF RingDepth
  <2>1. TypeOK
    <3>1. mem \in [Buffers -> Data]
      BY DEF Buffers, Data
    <3>2. Val(Start) \in Counter
      BY <2>0, ValType
    <3>3. 0 \in 0 .. MaxDrain /\ 0 \in 0 .. 0
      BY EngineAssumption
    <3>4. DOMAIN sq = SqSlots /\ DOMAIN cq = CqSlots /\ dev_buf \in Data
      BY DEF Data
    <3> QED BY <3>1, <3>2, <3>3, <3>4 DEF TypeOK
  <2>2. IndexInv
    BY <2>0 DEF IndexInv
  <2>3. CallInv
    BY <2>0 DEF CallInv
  <2>4. RingInv
    BY DEF RingInv, Sqes, Cqes, ZeroSqe, ZeroCqe, Buffers
  <2>5. SqesIntact
    BY DEF SqesIntact
  <2> QED BY <2>1, <2>2, <2>3, <2>4, <2>5 DEF IInv
<1>2. IInv /\ [Next]_vars => IInv'
  <2> SUFFICES ASSUME IInv, [Next]_vars PROVE IInv'
    OBVIOUS
  <2>1. CASE UNCHANGED vars
    <3>1. IndexInv' /\ SqesIntact'
      BY <2>1, QuietStep DEF vars, memVars, devVars, threadVars
    <3>2. CallInv' /\ RingInv' /\ TypeOK'
      BY <2>1 DEF vars, memVars, devVars, threadVars, IInv, CallInv, RingInv, TypeOK
    <3> QED BY <3>1, <3>2 DEF IInv
  <2>2. CASE Calls
    BY <2>2, SubmitCheckKeeps, DoorbellKeeps, WaitKeeps, DrainKeeps DEF Calls
  <2>3. CASE Running
    BY <2>3, SubmitWriteKeeps, WaitKeeps, DrainCopyKeeps, DrainEndKeeps
    DEF Running, WaitRefused
  <2>4. CASE WaitExpires \/ WaitInterrupted
    BY <2>4, WaitKeeps DEF WaitExpires, WaitInterrupted
  <2>5. CASE DeviceStep
    BY <2>5, CallbackKeeps, ProcessSqeKeeps DEF DeviceStep, Device
  <2> QED BY <2>1, <2>2, <2>3, <2>4, <2>5, IrqKeepsRings DEF Next
<1> QED BY <1>1, <1>2, PTL DEF Spec

\* Every variable keeps its type: no counter leaves its 32 bits, engine_drain
\* stays within the caller's array, the device completes no more than was
\* submitted.
THEOREM TypeSafety == Spec => []TypeOK
<1>1. IInv => TypeOK
  BY DEF IInv
<1> QED BY <1>1, Invariance, PTL

\* No SQE is overwritten before the device consumed it, for any depth of the SQ
\* and any start of the counters: the backpressure test of engine_submit is
\* right although REG_SQ_HEAD moves on after it was read.
THEOREM SubmissionSafety == Spec => []SqesIntact
<1>1. IInv => SqesIntact
  BY DEF IInv
<1> QED BY <1>1, Invariance, PTL

-----------------------------------------------------------------------------
(* The completions.  The device does not see how far the driver has        *)
(* drained the CQ (its space test compares its own two indices), so they   *)
(* are safe only with a caller that has no more SQEs outstanding than the  *)
(* CQ has slots.                                                           *)

\* A step that posts nothing, drains nothing and copies nothing.
LEMMA QuietCompletions ==
  ASSUME CompletionsIntact, UNCHANGED <<cq, ndone, ndrained>>,
         tpc' = "copy" => tpc = "copy" /\ out' = out
  PROVE  CompletionsIntact'
BY DEF CompletionsIntact

LEMMA QuietOutstanding ==
  ASSUME OutstandingInv, UNCHANGED <<nsub, ndrained>>, tpc' = "submit" => tpc = "submit"
  PROVE  OutstandingInv'
BY DEF OutstandingInv

\* engine_submit and the doorbell.
LEMMA SubmitCompletions ==
  ASSUME CqInv,
         \/ nsub - ndrained < MaxOutstanding /\ SubmitCheck(Sqe(nsub + 1))
         \/ SubmitWrite \/ Doorbell
  PROVE  OutstandingInv' /\ CompletionsIntact'
<1> USE DEF CqInv
<1>1. CompletionsIntact'
  <2>1. UNCHANGED <<cq, ndone, ndrained>> /\ (tpc' = "copy" => tpc = "copy" /\ out' = out)
    BY DEF SubmitCheck, SubmitWrite, Doorbell, memVars, threadVars
  <2> QED BY <2>1, QuietCompletions
<1>2. OutstandingInv'
  <2>1. CASE nsub - ndrained < MaxOutstanding /\ SubmitCheck(Sqe(nsub + 1))
    BY <2>1 DEF SubmitCheck, OutstandingInv
  <2>2. CASE SubmitWrite
    <3>1. nsub' = nsub + 1 /\ UNCHANGED ndrained /\ tpc' = "idle" /\ tpc = "submit"
      BY <2>2 DEF SubmitWrite
    <3>2. (nsub + 1) - ndrained <= MaxOutstanding
      BY <3>1, Numbers, EngineAssumption DEF OutstandingInv
    <3> QED BY <3>1, <3>2 DEF OutstandingInv
  <2>3. CASE Doorbell
    BY <2>3, QuietOutstanding DEF Doorbell, threadVars
  <2> QED BY <2>1, <2>2, <2>3
<1> QED BY <1>1, <1>2

\* engine_drain copies the completions in order.
LEMMA DrainCompletions ==
  ASSUME CqInv, (\E max \in 1 .. MaxDrain : Drain(max)) \/ DrainCopy \/ DrainEnd
  PROVE  OutstandingInv' /\ CompletionsIntact'
<1> USE DEF CqInv
<1>1. CASE \E max \in 1 .. MaxDrain : Drain(max)
  <2>1. UNCHANGED <<cq, nsub, ndone, ndrained>> /\ out' = <<>> /\ tpc' # "submit"
    BY <1>1 DEF Drain, memVars
  <2>2. OutstandingInv'
    BY <2>1, QuietOutstanding
  <2>3. CompletionsIntact'
    BY <2>1 DEF CompletionsIntact
  <2> QED BY <2>2, <2>3
<1>2. CASE DrainCopy
  <2> DEFINE m == Len(out)
             i == ndrained + m + 1
             e == cq[SlotOf(Val(eng_cq_head + m), CqDepth)]
  <2>0. /\ tpc = "copy" /\ tpc' = "copy" /\ m < todo /\ out' = Append(out, e)
        /\ UNCHANGED <<cq, nsub, ndone, ndrained>> /\ out \in Seq(Cqes)
        /\ ndrained + todo <= ndone /\ todo \in Nat /\ m \in Nat
        /\ eng_cq_head = Val(Start + ndrained)
    BY <1>2 DEF DrainCopy, memVars, IInv, RingInv, CallInv, TypeOK, IndexInv
  <2>1. OutstandingInv'
    BY <2>0, QuietOutstanding
  <2> HIDE DEF m
  <2>2. i \in (ndrained + 1) .. ndone /\ (Start + ndrained) + m = Start + i - 1
    <3>1. /\ m \in Nat /\ todo \in Nat /\ ndrained \in Nat /\ ndone \in Nat /\ Start \in Nat
          /\ m < todo /\ ndrained + todo <= ndone
      BY <2>0, Numbers
    <3> QED BY <3>1
  <2>3. Val(eng_cq_head + m) = Val(Start + i - 1)
    <3>1. Val(Val(Start + ndrained) + m) = Val((Start + ndrained) + m)
      BY <2>0, Numbers, ValAdd
    <3> QED BY <2>0, <2>2, <3>1
  <2>4. e.cookie = ndrained + (m + 1)
    <3>1. cq[SlotOf(Val(Start + i - 1), CqDepth)].cookie = i
      BY <2>2 DEF CompletionsIntact
    <3>2. i = ndrained + (m + 1)
      BY <2>0, Numbers
    <3> QED BY <2>3, <3>1, <3>2
  <2> HIDE DEF e, i
  <2>5. ASSUME NEW k \in 1 .. Len(out') PROVE out'[k].cookie = ndrained + k
    <3>1. Len(out') = m + 1 /\ k \in 1 .. (m + 1)
      BY <2>0 DEF m
    <3>2. CASE k = m + 1
      <4>1. out'[k] = e
        BY <2>0, <3>1, <3>2 DEF m
      <4> QED BY <2>4, <3>2, <4>1
    <3>3. CASE k # m + 1
      <4>1. k \in 1 .. Len(out)
        BY <2>0, <3>1, <3>3 DEF m
      <4>2. out'[k] = out[k]
        BY <2>0, <4>1 DEF m
      <4> QED BY <2>0, <4>1, <4>2 DEF CompletionsIntact
    <3> QED BY <3>2, <3>3
  <2>6. CompletionsIntact'
    BY <2>0, <2>5 DEF CompletionsIntact
  <2> QED BY <2>1, <2>6
<1>3. CASE DrainEnd
  <2>0. /\ tpc' = "idle" /\ UNCHANGED <<cq, nsub, ndone>> /\ todo \in Nat
        /\ ndrained' = ndrained + todo
    BY <1>3 DEF DrainEnd, memVars, IInv, TypeOK
  <2>1. nsub - (ndrained + todo) <= MaxOutstanding
    BY <2>0, Numbers, EngineAssumption DEF OutstandingInv
  <2>2. OutstandingInv'
    BY <2>0, <2>1 DEF OutstandingInv
  <2>3. (ndrained + todo) + 1 .. ndone \subseteq (ndrained + 1) .. ndone
    BY <2>0, Numbers
  <2>4. CompletionsIntact'
    BY <2>0, <2>3 DEF CompletionsIntact
  <2> QED BY <2>2, <2>4
<1> QED BY <1>1, <1>2, <1>3

\* The device posts into a slot whose completion has been drained.
LEMMA DeviceCompletions ==
  ASSUME MaxOutstanding <= CqDepth, CqInv, DeviceStep
  PROVE  OutstandingInv' /\ CompletionsIntact'
<1> USE DEF CqInv
<1>0. UNCHANGED <<nsub, ndrained, tpc, out>>
  BY DEF DeviceStep, threadVars
<1>1. OutstandingInv'
  BY <1>0, QuietOutstanding
<1>2. CASE TimerFires \/ ProcessEnd
  <2>1. UNCHANGED <<cq, ndone>>
    BY <1>2 DEF TimerFires, ProcessEnd, memVars, DeviceStep
  <2> QED BY <1>0, <1>1, <2>1, QuietCompletions
<1>3. CASE ProcessSqe
  <2> DEFINE s == SlotOf(Val(Start + ndone), CqDepth)
  <2>1. ndone < nsub /\ ndone' = ndone + 1
    BY <1>3, ProcessSqeFacts
  <2>2. PICK status \in {0, -1, -22} :
          cq' = [cq EXCEPT ![s] = [cookie |-> ndone + 1, status |-> status]]
    BY <1>3, ProcessSqeFacts
  <2>3. s \in CqSlots /\ DOMAIN cq = CqSlots
    BY Numbers, SlotType, DmaAssumption DEF CqSlots, IInv, TypeOK
  <2>4. ASSUME NEW i \in (ndrained + 1) .. (ndone + 1)
        PROVE  cq'[SlotOf(Val(Start + i - 1), CqDepth)].cookie = i
    <3>1. CASE i = ndone + 1
      <4>1. Start + i - 1 = Start + ndone
        BY <3>1, Numbers
      <4> QED BY <2>2, <2>3, <3>1, <4>1
    <3>2. CASE i # ndone + 1
      <4>1. i \in (ndrained + 1) .. ndone /\ Start + i - 1 \in Nat
        BY <3>2, Numbers
      <4>2. ndone - ndrained < CqDepth
        BY <2>1, Numbers, EngineAssumption DEF OutstandingInv
      <4>3. /\ Start + i - 1 # Start + ndone
            /\ (Start + i - 1) - (Start + ndone) < CqDepth
            /\ (Start + ndone) - (Start + i - 1) < CqDepth
        BY <4>1, <4>2, Numbers
      <4>4. SlotOf(Val(Start + i - 1), CqDepth) # s
        BY <4>1, <4>3, Numbers, SlotDistinct, DmaAssumption
      <4>5. cq[SlotOf(Val(Start + i - 1), CqDepth)].cookie = i
        BY <4>1 DEF CompletionsIntact
      <4>6. SlotOf(Val(Start + i - 1), CqDepth) \in CqSlots
        BY <4>1, SlotType, DmaAssumption DEF CqSlots
      <4> QED BY <2>2, <2>3, <4>4, <4>5, <4>6
    <3> QED BY <3>1, <3>2
  <2>5. CompletionsIntact'
    BY <1>0, <2>1, <2>4 DEF CompletionsIntact
  <2> QED BY <1>1, <2>5
<1> QED BY <1>2, <1>3 DEF DeviceStep, Device

\* As long as the caller has no more SQEs outstanding than the CQ has slots, no
\* completion is overwritten before engine_drain copied it, and engine_drain
\* hands them out in the order of submission, each cookie once.
THEOREM CompletionSafety ==
  ASSUME MaxOutstanding <= CqDepth
  PROVE  Spec => []CompletionsIntact
<1> DEFINE J == OutstandingInv /\ CompletionsIntact
<1>1. Init => J
  BY DmaAssumption, EngineAssumption
  DEF Init, EngineInit, OutstandingInv, CompletionsIntact
<1>2. IInv /\ J /\ [Next]_vars => J'
  <2> SUFFICES ASSUME IInv, J, [Next]_vars PROVE J'
    OBVIOUS
  <2>0. CqInv
    BY DEF CqInv
  <2>1. CASE UNCHANGED vars
    BY <2>1, QuietCompletions, QuietOutstanding DEF vars, memVars, threadVars
  <2>2. CASE Calls
    <3>1. CASE \E t \in Timeouts : Wait(t)
      <4>1. /\ UNCHANGED <<cq, ndone, nsub, ndrained, out>>
            /\ tpc' # "copy" /\ tpc' # "submit"
        BY <3>1 DEF Wait, memVars
      <4> QED BY <4>1, QuietCompletions, QuietOutstanding
    <3> QED BY <2>0, <2>2, <3>1, SubmitCompletions, DrainCompletions DEF Calls
  <2>3. CASE \/ WaitPrepare \/ WaitCheck \/ WaitWoken
             \/ WaitExpires \/ WaitRefused \/ WaitInterrupted
    <3>1. /\ UNCHANGED <<cq, ndone, nsub, ndrained, out>>
          /\ tpc' # "copy" /\ tpc' # "submit"
      BY <2>3 DEF WaitPrepare, WaitCheck, WaitWoken, WaitExpires, WaitRefused,
                  WaitInterrupted, GiveUp, memVars
    <3> QED BY <3>1, QuietCompletions, QuietOutstanding
  <2>4. CASE Irq
    <3>1. UNCHANGED <<cq, ndone, nsub, ndrained, tpc, out>>
      BY <2>4 DEF Irq, IrqEnter, IrqHandler, memVars, threadVars
    <3> QED BY <3>1, QuietCompletions, QuietOutstanding
  <2>5. CASE DeviceStep
    BY <2>0, <2>5, DeviceCompletions
  <2>6. CASE SubmitWrite \/ DrainCopy \/ DrainEnd
    BY <2>0, <2>6, SubmitCompletions, DrainCompletions
  <2> QED BY <2>1, <2>2, <2>3, <2>4, <2>5, <2>6 DEF Next, Running
<1>3. J => CompletionsIntact
  OBVIOUS
<1> HIDE DEF J
<1> QED BY <1>1, <1>2, <1>3, Invariance, PTL DEF Spec
=============================================================================
