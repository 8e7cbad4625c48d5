--------------------------- MODULE NicProbeProofs ---------------------------
(***************************************************************************)
(* The driver's life is right for any depths of the rings, any width of    *)
(* their indices, any number of loads and whichever call of a load fails.  *)
(*                                                                         *)
(* The safety properties follow from the inductive invariant PInv. OwnInv  *)
(* is about what the driver holds at each stage and is kept by the stages  *)
(* alone.  FirstInv follows the two operations of the smoke test through   *)
(* the engine and the device, step by step; DataInv follows the data.      *)
(* NullInv is about a first load whose BAR could not be mapped: the device *)
(* stays at rest and the buffers as they are.  SecondInv carries over to   *)
(* the next load that the device is at rest.                               *)
(***************************************************************************)
EXTENDS NicProbe, CountersProofs

-----------------------------------------------------------------------------
(* The inductive invariant behind the safety properties.                   *)

Sqes == [cookie : Nat, op : {"none", "TX", "RX"}, buf : Buffers]
Cqes == [cookie : Nat, status : Int]

TxStages == {"tx_submit", "tx_doorbell", "tx_wait", "tx_waited", "tx_drained"}
RxStages == {"rx_submit", "rx_doorbell", "rx_wait", "rx_waited", "rx_drained"}
Leaving == {"err_unmap", "destroy", "free_rings", "clear_master", "unbound"}
Creating == {"regs", "request_irq", "irq_requested"}

PTypeInv ==
  /\ sq \in [SqSlots -> Sqes] /\ cq \in [CqSlots -> Cqes] /\ cur \in Sqes
  /\ mem \in [Buffers -> Data] /\ dev_buf \in Data
  /\ {sq_head, sq_tail, cq_tail, eng_sq_tail, eng_cq_head} \subseteq Counter
  /\ stage \in TxStages \cup RxStages \cup Leaving \cup Creating \cup
                {"verify", "bound", "oops", "panic"}
  /\ loads \in Nat /\ todo \in Nat /\ irqMode \in {"msi", "intx"}

\* What the driver holds at each stage of any load.
OwnInv ==
  /\ stage \in TxStages => mapped = Buffers
  /\ stage \in RxStages => mapped = {"dst"}
  /\ stage \notin TxStages \cup RxStages \cup {"err_unmap", "oops", "panic"} =>
       mapped = {}
  /\ stage \in TxStages \cup RxStages =>
       master /\ ringsLive /\ (aimed <=> fault \notin {"sq", "cq", "iomap"})
  /\ stage = "request_irq" \/ stage = "irq_requested" =>
       master /\ ringsLive /\ (aimed <=> fault \notin {"sq", "cq", "iomap"})
  /\ stage = "regs" => master /\ ringsLive
  /\ stage \in {"clear_master", "unbound"} => ~ringsLive
  /\ stage = "unbound" => ~master /\ ~bar
  /\ stage \notin {"unbound", "oops", "panic"} => (bar <=> fault # "iomap")
  /\ stage \in {"free_rings", "clear_master", "unbound", "regs", "request_irq"} => ~irqOn
  /\ ~irqOn => hpc = "idle"

\* The device has nothing to do and will not start before the next doorbell.
Quiet == ~timer /\ ~processing

\* n operations are behind the engine and the device.
Settled(n) ==
  /\ eng_sq_tail = Val(n) /\ eng_cq_head = Val(n)
  /\ sq_head = Val(n) /\ sq_tail = Val(n) /\ cq_tail = Val(n)
  /\ tpc = "idle" /\ Quiet

SqeAt(n) == sq[SlotOf(Val(n), SqDepth)]
CqeAt(n) == cq[SlotOf(Val(n), CqDepth)]

\* After n operations engine_submit is at work on sqe or through with it.
Submitting(n, sqe) ==
  /\ eng_cq_head = Val(n)
  /\ sq_head = Val(n) /\ sq_tail = Val(n) /\ cq_tail = Val(n) /\ Quiet
  /\ \/ tpc = "submit" /\ eng_sq_tail = Val(n) /\ cur = sqe
     \/ tpc = "idle" /\ eng_sq_tail = Val(n + 1) /\ SqeAt(n) = sqe

\* The doorbell was rung for sqe; the device has consumed it or not.
Rung(n, sqe) ==
  /\ eng_sq_tail = Val(n + 1) /\ sq_tail = Val(n + 1) /\ eng_cq_head = Val(n)
  /\ sq_head = cq_tail /\ sq_head \in {Val(n), Val(n + 1)}
  /\ SqeAt(n) = sqe
  /\ timer => ~processing /\ sq_head = Val(n)

\* engine_wait is at work or through: when it returned 0 the device is done.
Waited(n) ==
  /\ tpc \in {"idle", "prepare", "check", "sleep"}
  /\ tpc = "idle" /\ res = "ok" => sq_head = Val(n + 1) /\ Quiet

\* engine_drain is at work on the one completion or through with it.
Drained(n) ==
  /\ eng_sq_tail = Val(n + 1) /\ sq_head = Val(n + 1) /\ sq_tail = Val(n + 1)
  /\ cq_tail = Val(n + 1) /\ Quiet /\ todo = 1
  /\ \/ tpc = "copy" /\ eng_cq_head = Val(n) /\ out \in {<<>>, <<CqeAt(n)>>}
     \/ tpc = "idle" /\ eng_cq_head = Val(n + 1) /\ out = <<CqeAt(n)>>

\* The first load, if BAR 0 could be mapped and as long as no wait has timed out.
Regular == loads <= 1 /\ "timeout" \notin trouble /\ fault # "iomap"

\* Where the engine and the device are at each stage.
FirstInv ==
  Regular =>
    /\ loads = 0 => stage = "unbound"
    /\ loads = 0 \/ stage \in Creating => Settled(0) /\ ~line /\ hpc = "idle"
    /\ stage = "tx_submit" => Settled(0)
    /\ stage = "tx_doorbell" =>
         Submitting(0, TxSqe) /\ (tpc = "idle" => fault # "sq")
    /\ stage = "tx_wait" => Rung(0, TxSqe) /\ tpc = "idle"
    /\ stage = "tx_waited" => Rung(0, TxSqe) /\ Waited(0)
    /\ stage = "tx_drained" => Drained(0) /\ (tpc = "idle" => fault # "cq")
    /\ stage \in {"tx_wait", "tx_waited", "tx_drained"} => fault # "sq"
    /\ stage \in RxStages => fault \notin {"sq", "cq"}
    /\ stage = "rx_submit" => Settled(1)
    /\ stage = "rx_doorbell" => Submitting(1, RxSqe)
    /\ stage = "rx_wait" => Rung(1, RxSqe) /\ tpc = "idle"
    /\ stage = "rx_waited" => Rung(1, RxSqe) /\ Waited(1)
    /\ stage = "rx_drained" => Drained(1)
    /\ stage \in Leaving \cup {"verify", "bound", "oops", "panic"} => Quiet

\* The data on its way: a good completion of the TX has brought it into the
\* device, one of the RX back into memory.
DataInv ==
  Regular =>
    /\ stage \in TxStages \cup RxStages /\ fault # "cq" => mem["src"] = Hello
    /\ /\ stage \in {"tx_wait", "tx_waited", "tx_drained"} /\ fault # "cq"
       /\ sq_head = Val(1) /\ CqeAt(0).status = 0
       => dev_buf = Hello
    /\ stage \in RxStages => dev_buf = Hello
    /\ /\ stage \in {"rx_wait", "rx_waited", "rx_drained"}
       /\ sq_head = Val(2) /\ CqeAt(1).status = 0
       => mem["dst"] = Hello
    /\ stage = "verify" => mem["src"] = mem["dst"]

\* A first load without BAR 0 gets nothing out of the device.
NullInv ==
  loads <= 1 /\ fault = "iomap" =>
    /\ Quiet /\ ~line /\ hpc = "idle"
    /\ stage \in TxStages \cup RxStages \cup {"verify"} =>
         mem = [src |-> Hello, dst |-> Zero]

\* Before the first load nothing happened; a first load that timed out is on its
\* way out.
TimeoutInv ==
  /\ loads = 0 => stage = "unbound" /\ fault = "none" /\ trouble = {}
  /\ loads <= 1 /\ "timeout" \in trouble => stage \in Leaving \cup {"oops", "panic"}

\* A second load finds the device at rest unless a wait timed out, and with MSI
\* no interrupt pending.
SecondInv ==
  loads = 2 /\ "timeout" \notin trouble =>
    /\ stage \in Creating => Quiet
    /\ stage = "irq_requested" /\ irqMode = "msi" => ~line /\ hpc = "idle"

PInv ==
  /\ PTypeInv /\ OwnInv /\ FirstInv /\ DataInv /\ NullInv /\ TimeoutInv /\ SecondInv
  /\ RoundTrips /\ EarlyWakeup

-----------------------------------------------------------------------------
(* Steps.                                                                  *)

\* A step of the engine, the handler or the device, none of which knows of the
\* stages of the probe.
Below ==
  \/ ~Crashed /\ ~UsesNull /\ Running /\ UNCHANGED probeVars
  \/ Expires
  \/ irqOn /\ ~Crashed /\ Irq /\ UNCHANGED probeVars
  \/ Hardware

\* No step but the probe's own changes what the driver holds.
LEMMA BelowOwns ==
  ASSUME Below
  PROVE  /\ UNCHANGED probeVars /\ master' = master /\ aimed' = aimed /\ bar' = bar
         /\ irqMode' = irqMode /\ (irqOn \/ hpc' = hpc)
<1>1. CASE Running
  BY <1>1 DEF Below, Expires, Hardware, Running, SubmitWrite, WaitPrepare, WaitCheck, WaitWoken,
     WaitRefused, GiveUp, DrainCopy, DrainEnd, memVars
<1>2. CASE WaitExpires
  BY <1>2 DEF Below, Expires, Hardware, WaitExpires, GiveUp, memVars
<1>3. CASE irqOn /\ Irq
  BY <1>3 DEF Below, Expires, Hardware, Irq, IrqEnter, IrqHandler, memVars
<1>4. CASE DeviceStep
  BY <1>4 DEF DeviceStep, Device, TimerFires, ProcessSqe, ProcessEnd, memVars, Below, Expires, Hardware
<1> QED BY <1>1, <1>2, <1>3, <1>4 DEF Below, Expires, Hardware

\* The steps of the specification: those below and those of the probe.
LEMMA Steps ==
  ASSUME [PNext]_pvars
  PROVE  \/ Below \/ UNCHANGED pvars
         \/ Probe \/ WriteReg \/ RequestIrq \/ ProbeMap \/ SmokeCalls
         \/ TimedOut \/ BadCqe \/ TxDone \/ RxDone \/ Verify
         \/ ErrUnmap \/ FreeIrq \/ FreeRings \/ ClearMaster \/ Oops \/ Remove
         \/ /\ irqOn /\ Irq /\ hpc = "wake" /\ stage = "irq_requested"
            /\ Goto("panic")
BY DEF PNext, Driver, Interrupt, Idle, Below

-----------------------------------------------------------------------------
(* What the driver holds.                                                  *)

LEMMA OwnKeeps == PTypeInv /\ OwnInv /\ [PNext]_pvars => OwnInv'
<1> SUFFICES ASSUME PTypeInv, OwnInv, [PNext]_pvars PROVE OwnInv'
  OBVIOUS
<1> USE DEF TxStages, RxStages, Leaving, Creating, Buffers
<1>1. CASE Below
  BY <1>1, BelowOwns DEF OwnInv, probeVars
<1>2. CASE UNCHANGED pvars
  BY <1>2 DEF OwnInv, pvars, vars, memVars, probeVars
<1>3. CASE Probe
  BY <1>3 DEF Probe, OwnInv
<1>4. CASE WriteReg
  BY <1>4 DEF WriteReg, OwnInv
<1>5. CASE RequestIrq
  BY <1>5 DEF RequestIrq, OwnInv
<1>6. CASE ProbeMap
  BY <1>6 DEF ProbeMap, OwnInv
<1>7. CASE SmokeCalls
  BY <1>7 DEF SmokeCalls, OwnInv, Goto, SubmitCheck, Doorbell, Wait, Drain, memVars
<1>8. CASE TimedOut \/ BadCqe
  BY <1>8 DEF TimedOut, BadCqe, Fail, OwnInv, vars, memVars
<1>9. CASE TxDone
  BY <1>9 DEF TxDone, OwnInv, vars, memVars
<1>10. CASE RxDone
  BY <1>10 DEF RxDone, OwnInv, vars, memVars
<1>11. CASE Verify
  BY <1>11 DEF Verify, OwnInv, vars, memVars
<1>12. CASE ErrUnmap
  BY <1>12 DEF ErrUnmap, OwnInv, vars, memVars
<1>13. CASE FreeIrq
  BY <1>13 DEF FreeIrq, OwnInv
<1>14. CASE FreeRings
  BY <1>14 DEF FreeRings, OwnInv
<1>15. CASE ClearMaster
  BY <1>15 DEF ClearMaster, OwnInv
<1>16. CASE Oops \/ Remove
  BY <1>16 DEF Oops, Remove, Goto, OwnInv, vars, memVars
<1>17. CASE irqOn /\ Irq /\ hpc = "wake" /\ stage = "irq_requested" /\ Goto("panic")
  BY <1>17 DEF Goto, OwnInv
<1> QED BY <1>1, <1>2, <1>3, <1>4, <1>5, <1>6, <1>7, <1>8, <1>9, <1>10, <1>11, <1>12,
           <1>13, <1>14, <1>15, <1>16, <1>17, Steps

-----------------------------------------------------------------------------
(* Types.                                                                  *)

LEMMA Depths ==
  /\ SqDepth \in Nat \ {0} /\ CqDepth \in Nat \ {0} /\ Modulus \in Nat \ {0}
  /\ SqDepth < Modulus /\ CqDepth < Modulus /\ Start = 0
BY DmaAssumption, CountersAssumption, ProbeAssumption DEF RingDepth

\* What the device fetches is an SQE, and what it does with it keeps the types.
LEMMA ProcessTypes ==
  ASSUME PTypeInv, ProcessSqe
  PROVE  cq' \in [CqSlots -> Cqes] /\ mem' \in [Buffers -> Data] /\ dev_buf' \in Data
<1>1. PICK sqe \in FetchedSqes : \E status \in Statuses(sqe.op) :
        /\ dev_buf' \in DevBufAfter(sqe, status)
        /\ mem' \in MemAfter(sqe, status)
        /\ PostCqe([cookie |-> sqe.cookie, status |-> status])
  BY DEF ProcessSqe
<1>2. PICK status \in Statuses(sqe.op) :
        /\ dev_buf' \in DevBufAfter(sqe, status)
        /\ mem' \in MemAfter(sqe, status)
        /\ PostCqe([cookie |-> sqe.cookie, status |-> status])
  BY <1>1
<1>3. sqe \in Sqes
  <2>1. SlotOf(sq_head, SqDepth) \in SqSlots
    BY Depths DEF SlotOf, SqSlots, Counter, PTypeInv
  <2> QED BY <2>1 DEF FetchedSqes, PTypeInv, Sqes
<1>4. status \in Int
  BY DEF Statuses
<1>5. [cookie |-> sqe.cookie, status |-> status] \in Cqes
  BY <1>3, <1>4 DEF Sqes, Cqes
<1>6. cq' \in [CqSlots -> Cqes]
  BY <1>2, <1>5 DEF PostCqe, PTypeInv
<1>7. mem' \in [Buffers -> Data] /\ dev_buf' \in Data
  BY <1>2, <1>3 DEF MemAfter, DevBufAfter, PTypeInv, Sqes, Buffers
<1> QED BY <1>6, <1>7

\* A counter that is advanced stays one.
LEMMA Advance ==
  ASSUME NEW c \in Counter, NEW d \in Nat
  PROVE  Val(c + d) \in Counter
BY Depths, ValType DEF Counter

LEMMA TypeKeeps == PTypeInv /\ [PNext]_pvars => PTypeInv'
<1> SUFFICES ASSUME PTypeInv, [PNext]_pvars PROVE PTypeInv'
  OBVIOUS
<1> USE DEF TxStages, RxStages, Leaving, Creating
<1>0. 1 \in Nat /\ 0 \in Counter /\ ZeroSqe \in Sqes /\ ZeroCqe \in Cqes
      /\ TxSqe \in Sqes /\ RxSqe \in Sqes
  BY Depths DEF Counter, ZeroSqe, ZeroCqe, Sqes, Cqes, TxSqe, RxSqe, Buffers
<1>1. CASE Running /\ UNCHANGED probeVars
  <2>1. CASE SubmitWrite
    BY <1>0, <1>1, <2>1, Advance DEF SubmitWrite, PTypeInv, probeVars, devVars
  <2>2. CASE WaitPrepare \/ WaitCheck \/ WaitWoken \/ WaitRefused
    BY <1>1, <2>2 DEF WaitPrepare, WaitCheck, WaitWoken, WaitRefused, GiveUp, PTypeInv,
       probeVars, devVars, memVars
  <2>3. CASE DrainCopy
    BY <1>1, <2>3 DEF DrainCopy, PTypeInv, probeVars, devVars, memVars
  <2>4. CASE DrainEnd
    BY <1>1, <2>4, Advance DEF DrainEnd, PTypeInv, probeVars, devVars, memVars
  <2> QED BY <1>1, <2>1, <2>2, <2>3, <2>4 DEF Running
<1>2. CASE Expires
  BY <1>2 DEF Expires, WaitExpires, GiveUp, PTypeInv, probeVars, devVars, memVars
<1>3. CASE Irq /\ (UNCHANGED probeVars \/ Goto("panic"))
  BY <1>3 DEF Irq, IrqEnter, IrqHandler, RegIrqAck, Goto, PTypeInv, probeVars, devVars, memVars,
     threadVars
<1>4. CASE Hardware
  <2>1. CASE TimerFires \/ ProcessEnd
    BY <1>4, <2>1 DEF Hardware, DeviceStep, TimerFires, ProcessEnd, PTypeInv, probeVars,
       memVars, threadVars
  <2>2. CASE ProcessSqe
    BY <1>0, <1>4, <2>2, ProcessTypes, Advance DEF Hardware, DeviceStep, ProcessSqe, PTypeInv,
       probeVars, memVars, threadVars
  <2> QED BY <1>4, <2>1, <2>2 DEF Hardware, DeviceStep, Device
<1>5. CASE Probe
  BY <1>0, <1>5 DEF Probe, PTypeInv, devVars
<1>6. CASE WriteReg \/ RequestIrq \/ FreeIrq \/ FreeRings \/ ClearMaster
  BY <1>6 DEF WriteReg, RequestIrq, FreeIrq, FreeRings, ClearMaster, PTypeInv, devVars, threadVars
<1>7. CASE ProbeMap
  BY <1>7 DEF ProbeMap, PTypeInv, devVars, threadVars, Buffers, Data
<1>8. CASE SmokeCalls
  <2>1. ASSUME NEW sqe \in Sqes, NEW st, SubmitCheck(sqe), Goto(st),
               st \in {"tx_doorbell", "rx_doorbell"}
        PROVE  PTypeInv'
    BY <2>1 DEF SubmitCheck, Goto, PTypeInv, memVars, devVars
  <2>2. ASSUME NEW st, Doorbell, Goto(st), st \in {"tx_wait", "rx_wait"} PROVE PTypeInv'
    BY <2>2 DEF Doorbell, RegDoorbell, Goto, PTypeInv, memVars, threadVars
  <2>3. ASSUME NEW st, Wait("finite"), Goto(st), st \in {"tx_waited", "rx_waited"}
        PROVE  PTypeInv'
    BY <2>3 DEF Wait, Goto, PTypeInv, memVars, devVars
  <2>4. ASSUME NEW st, Drain(1), Goto(st), st \in {"tx_drained", "rx_drained"}
        PROVE  PTypeInv'
    <3>1. MinOf(Minus(Reg.CQ_TAIL, eng_cq_head), 1) \in Nat
      <4>1. Reg.CQ_TAIL \in Counter
        BY Depths DEF Reg, PTypeInv, Counter
      <4>2. Minus(Reg.CQ_TAIL, eng_cq_head) \in Nat
        BY <4>1, Depths DEF Minus, PTypeInv, Counter
      <4> QED BY <4>2 DEF MinOf
    <3>2. todo' \in Nat
      BY <2>4, <3>1 DEF Drain
    <3> QED BY <2>4, <3>2 DEF Drain, Goto, PTypeInv, memVars, devVars
  <2> QED BY <1>0, <1>8, <2>1, <2>2, <2>3, <2>4 DEF SmokeCalls
<1>9. CASE TimedOut \/ BadCqe
  BY <1>9 DEF TimedOut, BadCqe, Fail, PTypeInv, vars, memVars, devVars, threadVars
<1>10. CASE TxDone \/ RxDone \/ Verify \/ ErrUnmap
  BY <1>10 DEF TxDone, RxDone, Verify, ErrUnmap, PTypeInv, vars, memVars, devVars, threadVars
<1>11. CASE Oops \/ Remove
  BY <1>11 DEF Oops, Remove, Goto, PTypeInv, vars, memVars, devVars, threadVars
<1>12. CASE UNCHANGED pvars
  BY <1>12 DEF PTypeInv, pvars, vars, memVars, devVars, threadVars, probeVars
<1> QED BY <1>1, <1>2, <1>3, <1>4, <1>5, <1>6, <1>7, <1>8, <1>9, <1>10, <1>11, <1>12, Steps
           DEF Below

-----------------------------------------------------------------------------
(* An operation of the smoke test on its way through engine and device.    *)

\* The first values of the indices; those of two operations in a row differ.
LEMMA Tally ==
  ASSUME NEW n \in {0, 1}
  PROVE  /\ Val(n) # Val(n + 1) /\ Val(Val(n) + 1) = Val(n + 1) /\ Val(Val(n) + 0) = Val(n)
         /\ Minus(Val(n), Val(n)) = 0 /\ Minus(Val(n + 1), Val(n)) = 1
         /\ Minus(Val(n + 1), Val(n + 1)) = 0
         /\ SlotOf(Val(n), SqDepth) \in SqSlots /\ SlotOf(Val(n), CqDepth) \in CqSlots
<1>0. n \in Nat /\ n + 1 \in Nat /\ n < n + 1 /\ (n + 1) - n = 1 /\ n - n = 0
      /\ (n + 1) - (n + 1) = 0 /\ 1 < Modulus /\ 0 < Modulus /\ n <= n /\ n <= n + 1
      /\ n + 1 <= n + 1 /\ n + 0 = n /\ 0 \in Nat /\ 1 \in Nat
  BY Depths
<1>1. Val(n) # Val(n + 1)
  BY <1>0, ValDistinct
<1>2. Val(Val(n) + 1) = Val(n + 1) /\ Val(Val(n) + 0) = Val(n)
  BY <1>0, ValAdd
<1>3. /\ Minus(Val(n), Val(n)) = 0 /\ Minus(Val(n + 1), Val(n)) = 1
      /\ Minus(Val(n + 1), Val(n + 1)) = 0
  BY <1>0, MinusVal
<1>4. SlotOf(Val(n), SqDepth) \in SqSlots /\ SlotOf(Val(n), CqDepth) \in CqSlots
  BY <1>0, SlotType, DmaAssumption DEF SqSlots, CqSlots
<1> QED BY <1>1, <1>2, <1>3, <1>4

\* What the handler leaves alone.
LEMMA IrqFrame ==
  ASSUME Irq
  PROVE  UNCHANGED <<sq, cq, mem, master, aimed, sq_head, sq_tail, cq_tail, timer, processing,
                     dev_buf, eng_sq_tail, eng_cq_head, tpc, cur, todo, out, res>>
BY DEF Irq, IrqEnter, IrqHandler, RegIrqAck, devVars, memVars, threadVars

\* What the engine's own steps leave alone.
LEMMA RunFrame ==
  ASSUME Running \/ WaitExpires
  PROVE  UNCHANGED <<cq, mem, sq_head, sq_tail, cq_tail, timer, processing, dev_buf, line, hpc>>
BY DEF Running, SubmitWrite, WaitPrepare, WaitCheck, WaitWoken, WaitRefused, DrainCopy,
       DrainEnd, WaitExpires, GiveUp, devVars, memVars

\* A thread that is between calls makes no step of the engine.
LEMMA IdleThread == tpc = "idle" => ~Running /\ ~WaitExpires
BY DEF Running, SubmitWrite, WaitPrepare, WaitCheck, WaitWoken, WaitRefused, DrainCopy,
       DrainEnd, WaitExpires, GiveUp

\* A device at rest makes no step.
LEMMA QuietDevice == Quiet => ~DeviceStep
BY DEF Quiet, DeviceStep, Device, TimerFires, ProcessSqe, ProcessEnd

LEMMA QuietBelow == Quiet /\ Below => Quiet'
BY QuietDevice, IrqFrame, RunFrame DEF Quiet, Below, Expires, Hardware

LEMMA SettledBelow ==
  ASSUME NEW n, Settled(n), Below
  PROVE  Settled(n)'
<1>1. Irq
  BY IdleThread, QuietDevice DEF Settled, Below, Expires, Hardware
<1> QED BY <1>1, IrqFrame DEF Settled, Quiet

LEMMA SubmittingBelow ==
  ASSUME NEW n \in {0, 1}, NEW sqe, PTypeInv, Submitting(n, sqe), Below
  PROVE  Submitting(n, sqe)'
<1>1. CASE Irq
  BY <1>1, IrqFrame DEF Submitting, Quiet, SqeAt
<1>2. CASE ~Irq
  <2>1. SubmitWrite /\ tpc = "submit"
    BY <1>2, IdleThread, QuietDevice DEF Submitting, Below, Expires, Hardware, Running, SubmitWrite,
       WaitPrepare, WaitCheck, WaitWoken, WaitRefused, DrainCopy, DrainEnd, WaitExpires, GiveUp
  <2>2. eng_sq_tail = Val(n) /\ cur = sqe
    BY <2>1 DEF Submitting
  <2>3. eng_sq_tail' = Val(n + 1) /\ sq'[SlotOf(Val(n), SqDepth)] = sqe /\ tpc' = "idle"
    BY <2>1, <2>2, Tally DEF SubmitWrite, PTypeInv
  <2> QED BY <2>1, <2>3 DEF Submitting, SubmitWrite, Quiet, SqeAt, devVars
<1> QED BY <1>1, <1>2

LEMMA RungBelow ==
  ASSUME NEW n \in {0, 1}, NEW sqe, Rung(n, sqe), tpc \notin {"submit", "copy"}, Below
  PROVE  Rung(n, sqe)' /\ (tpc = "idle" => tpc' = "idle")
<1>1. CASE Irq
  BY <1>1, IrqFrame DEF Rung, SqeAt
<1>2. CASE Running \/ WaitExpires
  BY <1>2, IdleThread DEF Rung, SqeAt, Running, SubmitWrite, WaitPrepare, WaitCheck, WaitWoken,
     WaitRefused, DrainCopy, DrainEnd, WaitExpires, GiveUp, devVars, memVars
<1>3. CASE DeviceStep
  <2>1. tpc' = tpc /\ eng_sq_tail' = eng_sq_tail /\ eng_cq_head' = eng_cq_head /\ sq' = sq
        /\ sq_tail' = sq_tail
    BY <1>3 DEF DeviceStep, threadVars, Device, TimerFires, ProcessSqe, ProcessEnd, memVars
  <2>2. CASE ProcessSqe
    <3>1. sq_head = Val(n) /\ cq_tail = Val(n) /\ ~timer
      BY <2>2 DEF ProcessSqe, Rung
    <3>2. sq_head' = Val(n + 1) /\ cq_tail' = Val(n + 1) /\ timer' = timer
      BY <2>2, <3>1, Tally DEF ProcessSqe
    <3> QED BY <2>1, <3>1, <3>2 DEF Rung, SqeAt
  <2>3. CASE TimerFires \/ ProcessEnd
    BY <2>1, <2>3 DEF TimerFires, ProcessEnd, Rung, SqeAt
  <2> QED BY <1>3, <2>2, <2>3 DEF DeviceStep, Device
<1> QED BY <1>1, <1>2, <1>3 DEF Below, Expires, Hardware

LEMMA WaitedBelow ==
  ASSUME NEW n \in {0, 1}, NEW sqe, bar, Rung(n, sqe), Waited(n), Below
  PROVE  Waited(n)'
<1>1. CASE Irq
  BY <1>1, IrqFrame DEF Waited, Quiet
<1>2. CASE Running \/ WaitExpires
  <2>1. /\ sq_head' = sq_head /\ cq_tail' = cq_tail /\ timer' = timer
        /\ processing' = processing
    BY <1>2, RunFrame
  <2>2. ASSUME ~processing, CqNotEmpty PROVE sq_head = Val(n + 1) /\ Quiet
    <3>1. sq_head = Val(n + 1)
      BY <2>2 DEF CqNotEmpty, Reg, Rung
    <3> QED BY <2>2, <3>1, Tally DEF Quiet, Rung
  <2>3. tpc' \in {"idle", "prepare", "check", "sleep"}
    BY <1>2 DEF Waited, Running, SubmitWrite, WaitPrepare, WaitCheck, WaitWoken, WaitRefused,
       DrainCopy, DrainEnd, WaitExpires, GiveUp
  <2>4. tpc' = "idle" /\ res' = "ok" => ~processing /\ CqNotEmpty
    BY <1>2 DEF Waited, Running, SubmitWrite, WaitPrepare, WaitCheck, WaitWoken, WaitRefused,
       DrainCopy, DrainEnd, WaitExpires, GiveUp, MmioFree
  <2> QED BY <2>1, <2>2, <2>3, <2>4 DEF Waited, Quiet
<1>3. CASE DeviceStep
  <2>1. tpc' = tpc /\ res' = res
    BY <1>3 DEF DeviceStep, threadVars
  <2>2. ~(tpc = "idle" /\ res = "ok")
    BY <1>3, QuietDevice DEF Waited
  <2> QED BY <2>1, <2>2 DEF Waited
<1> QED BY <1>1, <1>2, <1>3 DEF Below, Expires, Hardware

LEMMA DrainedBelow ==
  ASSUME NEW n \in {0, 1}, Drained(n), Below
  PROVE  Drained(n)'
<1>1. CASE Irq
  BY <1>1, IrqFrame DEF Drained, Quiet, CqeAt
<1>2. CASE ~Irq
  <2>1. tpc = "copy" /\ (DrainCopy \/ DrainEnd)
    BY <1>2, IdleThread, QuietDevice DEF Drained, Below, Expires, Hardware, Running, SubmitWrite,
       WaitPrepare, WaitCheck, WaitWoken, WaitRefused, WaitExpires, GiveUp
  <2>2. eng_cq_head = Val(n) /\ out \in {<<>>, <<CqeAt(n)>>} /\ todo = 1
    BY <2>1 DEF Drained
  <2>3. /\ sq_head' = sq_head /\ sq_tail' = sq_tail /\ cq_tail' = cq_tail
        /\ timer' = timer /\ processing' = processing /\ cq' = cq
        /\ eng_sq_tail' = eng_sq_tail /\ todo' = todo
    BY <2>1 DEF DrainCopy, DrainEnd, devVars, memVars
  <2>4. CASE DrainCopy
    <3>1. out = <<>> /\ Len(out) = 0
      BY <2>2, <2>4 DEF DrainCopy
    <3>2. out' = Append(<<>>, cq[SlotOf(Val(Val(n) + 0), CqDepth)])
      BY <2>2, <2>4, <3>1 DEF DrainCopy
    <3>3. out' = <<CqeAt(n)>>
      BY <3>2, Tally DEF CqeAt
    <3> QED BY <2>2, <2>3, <2>4, <3>3 DEF Drained, DrainCopy, Quiet, CqeAt
  <2>5. CASE DrainEnd
    <3>1. out = <<CqeAt(n)>>
      <4>1. Len(out) = 1
        BY <2>2, <2>5 DEF DrainEnd
      <4> QED BY <2>2, <4>1
    <3>2. eng_cq_head' = Val(n + 1) /\ tpc' = "idle" /\ out' = out
      BY <2>2, <2>5, Tally DEF DrainEnd
    <3> QED BY <2>3, <3>1, <3>2 DEF Drained, Quiet, CqeAt
  <2> QED BY <2>1, <2>4, <2>5
<1> QED BY <1>1, <1>2

\* The calls take an operation from one phase to the next.
LEMMA SubmitCall ==
  ASSUME NEW n \in {0, 1}, NEW sqe, bar, Settled(n), SubmitCheck(sqe)
  PROVE  Submitting(n, sqe)' /\ tpc' = "submit"
<1>1. ~(Minus(eng_sq_tail, Reg.SQ_HEAD) >= SqDepth)
  <2>1. Minus(eng_sq_tail, Reg.SQ_HEAD) = 0
    BY Tally DEF Settled, Reg
  <2> QED BY <2>1, Depths
<1>2. tpc' = "submit" /\ cur' = sqe /\ UNCHANGED <<memVars, devVars, eng_sq_tail, eng_cq_head>>
  BY <1>1 DEF SubmitCheck
<1> QED BY <1>2 DEF Settled, Submitting, Quiet, devVars

LEMMA DoorbellCall ==
  ASSUME NEW n \in {0, 1}, NEW sqe, bar, Submitting(n, sqe), Doorbell
  PROVE  Rung(n, sqe)' /\ tpc' = "idle" /\ tpc = "idle"
<1>1. tpc = "idle" /\ eng_sq_tail = Val(n + 1) /\ SqeAt(n) = sqe
  BY DEF Doorbell, Submitting
<1>2. /\ sq_tail' = eng_sq_tail /\ timer' = TRUE /\ processing' = processing /\ ~processing
      /\ sq_head' = sq_head /\ cq_tail' = cq_tail /\ sq' = sq /\ tpc' = tpc
      /\ eng_sq_tail' = eng_sq_tail /\ eng_cq_head' = eng_cq_head
  BY DEF Doorbell, RegDoorbell, MmioFree, memVars, threadVars
<1> QED BY <1>1, <1>2 DEF Submitting, Rung, SqeAt

LEMMA WaitCall ==
  ASSUME NEW n \in {0, 1}, NEW sqe, bar, Rung(n, sqe), Wait("finite")
  PROVE  Rung(n, sqe)' /\ Waited(n)'
<1>1. /\ sq_head' = sq_head /\ sq_tail' = sq_tail /\ cq_tail' = cq_tail /\ timer' = timer
      /\ processing' = processing /\ ~processing /\ sq' = sq
      /\ eng_sq_tail' = eng_sq_tail /\ eng_cq_head' = eng_cq_head
      /\ tpc' \in {"idle", "prepare"} /\ (tpc' = "idle" => CqNotEmpty)
  BY DEF Wait, MmioFree, memVars, devVars
<1>2. CqNotEmpty => sq_head = Val(n + 1) /\ ~timer
  BY Tally DEF CqNotEmpty, Reg, Rung
<1> QED BY <1>1, <1>2 DEF Rung, Waited, Quiet, SqeAt

LEMMA DrainCall ==
  ASSUME NEW n \in {0, 1}, NEW sqe, bar, Rung(n, sqe), Waited(n), res = "ok", Drain(1)
  PROVE  Drained(n)' /\ tpc' = "copy"
<1>1. sq_head = Val(n + 1) /\ Quiet
  BY DEF Drain, Waited
<1>2. MinOf(Minus(Reg.CQ_TAIL, eng_cq_head), 1) = 1
  <2>1. Minus(Reg.CQ_TAIL, eng_cq_head) = 1
    BY <1>1, Tally DEF Rung, Reg
  <2> QED BY <2>1 DEF MinOf
<1>3. /\ todo' = 1 /\ out' = <<>> /\ tpc' = "copy"
      /\ sq_head' = sq_head /\ sq_tail' = sq_tail /\ cq_tail' = cq_tail /\ timer' = timer
      /\ processing' = processing
      /\ eng_sq_tail' = eng_sq_tail /\ eng_cq_head' = eng_cq_head
  BY <1>2 DEF Drain, devVars
<1> QED BY <1>1, <1>3 DEF Rung, Drained, Quiet

LEMMA DoneStep ==
  ASSUME NEW n \in {0, 1}, Drained(n), tpc = "idle", UNCHANGED vars
  PROVE  Settled(n + 1)'
BY DEF Drained, Settled, Quiet, vars, devVars, threadVars

-----------------------------------------------------------------------------
(* The first load.                                                         *)

\* A load is never taken back, and neither is a timeout.
LEMMA Monotone ==
  ASSUME PTypeInv, TimeoutInv, [PNext]_pvars
  PROVE  /\ loads' <= 1 => loads <= 1
         /\ "timeout" \notin trouble' => "timeout" \notin trouble
         /\ Regular' => Regular
<1>1. (loads' = loads /\ fault' = fault) \/ Probe
  BY Steps, BelowOwns DEF WriteReg, RequestIrq, ProbeMap, SmokeCalls, TimedOut, BadCqe, Fail,
     TxDone, RxDone, Verify, ErrUnmap, FreeIrq, FreeRings, ClearMaster, Oops, Remove, Goto,
     probeVars, pvars
<1>2. trouble' = trouble \/ TimedOut \/ BadCqe
  BY Steps, BelowOwns DEF Probe, WriteReg, RequestIrq, ProbeMap, SmokeCalls,
     TxDone, RxDone, Verify, ErrUnmap, FreeIrq, FreeRings, ClearMaster, Oops, Remove, Goto,
     probeVars, pvars
<1>3. ASSUME loads' <= 1
      PROVE  loads <= 1 /\ (fault' # "iomap" => fault # "iomap")
  <2>1. CASE loads' = loads /\ fault' = fault
    BY <1>3, <2>1
  <2>2. CASE Probe
    <3>1. PICK l \in Nat : l = loads
      BY DEF PTypeInv
    <3>2. loads' = l + 1
      BY <2>2, <3>1 DEF Probe
    <3>3. loads = 0
      BY <1>3, <3>1, <3>2
    <3> QED BY <3>3 DEF TimeoutInv
  <2> QED BY <1>1, <2>1, <2>2
<1>4. "timeout" \notin trouble' => "timeout" \notin trouble
  BY <1>2 DEF TimedOut, BadCqe, Fail
<1> QED BY <1>3, <1>4 DEF Regular

\* The engine, the handler and the device in the first load.
LEMMA FirstBelow ==
  ASSUME PTypeInv, OwnInv, FirstInv, Below
  PROVE  FirstInv'
<1> SUFFICES ASSUME Regular
             PROVE  FirstInv'
  BY BelowOwns DEF FirstInv, Regular, probeVars
<1>1. stage' = stage /\ loads' = loads /\ fault' = fault /\ trouble' = trouble
  BY BelowOwns DEF probeVars
<1>2. ASSUME loads = 0 \/ stage \in Creating PROVE Settled(0)' /\ ~line' /\ hpc' = "idle"
  <2>1. Settled(0) /\ ~line /\ hpc = "idle"
    BY <1>2 DEF FirstInv
  <2>2. Irq
    BY <2>1, IdleThread, QuietDevice DEF Settled, Below, Expires, Hardware
  <2> QED BY <2>1, <2>2 DEF Irq, IrqEnter, IrqHandler
<1>3. stage = "tx_submit" => Settled(0)'
  BY SettledBelow DEF FirstInv
<1>4. stage = "rx_submit" => Settled(1)'
  BY SettledBelow DEF FirstInv
<1>5. stage = "tx_doorbell" => Submitting(0, TxSqe)'
  BY SubmittingBelow DEF FirstInv
<1>6. stage = "rx_doorbell" => Submitting(1, RxSqe)'
  BY SubmittingBelow DEF FirstInv
<1>7. stage = "tx_wait" => Rung(0, TxSqe)' /\ tpc' = "idle"
  BY RungBelow DEF FirstInv
<1>8. stage = "rx_wait" => Rung(1, RxSqe)' /\ tpc' = "idle"
  BY RungBelow DEF FirstInv
<1>9. stage = "tx_waited" => Rung(0, TxSqe)' /\ Waited(0)'
  <2>1. Waited(0) => tpc \notin {"submit", "copy"}
    BY DEF Waited
  <2>2. stage = "tx_waited" => bar
    BY DEF OwnInv, Regular
  <2> QED BY <2>1, <2>2, RungBelow, WaitedBelow DEF FirstInv
<1>10. stage = "rx_waited" => Rung(1, RxSqe)' /\ Waited(1)'
  <2>1. Waited(1) => tpc \notin {"submit", "copy"}
    BY DEF Waited
  <2>2. stage = "rx_waited" => bar
    BY DEF OwnInv, Regular
  <2> QED BY <2>1, <2>2, RungBelow, WaitedBelow DEF FirstInv
<1>11. stage = "tx_drained" => Drained(0)'
  BY DrainedBelow DEF FirstInv
<1>12. stage = "rx_drained" => Drained(1)'
  BY DrainedBelow DEF FirstInv
<1>13. stage = "tx_doorbell" /\ tpc' = "idle" => fault # "sq"
  <2>1. stage = "tx_doorbell" => Submitting(0, TxSqe) /\ (tpc = "idle" => fault # "sq")
    BY DEF FirstInv
  <2>2. CASE Running
    BY <2>1, <2>2, IdleThread, QuietDevice DEF Submitting, Below, Expires, Hardware, UsesNull, WaitExpires, GiveUp,
       Irq, IrqEnter, IrqHandler, threadVars
  <2>3. CASE ~Running
    BY <2>1, <2>3, IrqFrame, QuietDevice DEF Submitting, Below, Expires, Hardware, WaitExpires, GiveUp
  <2> QED BY <2>2, <2>3
<1>14. stage = "tx_drained" /\ tpc' = "idle" => fault # "cq"
  <2>1. stage = "tx_drained" => Drained(0) /\ (tpc = "idle" => fault # "cq")
    BY DEF FirstInv
  <2>2. CASE Running
    BY <2>1, <2>2, IdleThread, QuietDevice DEF Drained, Below, Expires, Hardware, UsesNull, WaitExpires, GiveUp,
       Irq, IrqEnter, IrqHandler, threadVars
  <2>3. CASE ~Running
    BY <2>1, <2>3, IrqFrame, QuietDevice DEF Drained, Below, Expires, Hardware, WaitExpires, GiveUp
  <2> QED BY <2>2, <2>3
<1>15. stage \in Leaving \cup {"verify", "bound", "oops", "panic"} => Quiet'
  BY QuietBelow DEF FirstInv
<1> QED BY <1>1, <1>2, <1>3, <1>4, <1>5, <1>6, <1>7, <1>8, <1>9, <1>10, <1>11, <1>12, <1>13,
           <1>14, <1>15 DEF FirstInv

\* Each stage of the first load is reached with the engine and the device where
\* they should be.
LEMMA FirstKeeps ==
  PTypeInv /\ OwnInv /\ TimeoutInv /\ FirstInv /\ [PNext]_pvars => FirstInv'
<1> SUFFICES ASSUME PTypeInv, OwnInv, TimeoutInv, FirstInv, [PNext]_pvars, Regular'
             PROVE  FirstInv'
  BY DEF FirstInv
<1>0. Regular
  BY Monotone
<1> USE DEF TxStages, RxStages, Leaving, Creating
<1>1. CASE Below
  BY <1>1, FirstBelow
<1>2. CASE UNCHANGED pvars
  BY <1>0, <1>2 DEF FirstInv, Regular, Settled, Submitting, Rung, Waited, Drained, Quiet, SqeAt,
     CqeAt, pvars, vars, memVars, devVars, threadVars, probeVars
<1>3. CASE Probe
  <2>1. PICK l \in Nat : l = loads
    BY DEF PTypeInv
  <2>2. loads' = l + 1
    BY <1>3, <2>1 DEF Probe
  <2> loads' <= 1
    BY DEF Regular
  <2>3. loads = 0 /\ loads' = 1
    BY <2>1, <2>2
  <2>4. Settled(0) /\ ~line /\ hpc = "idle"
    BY <1>0, <2>3 DEF FirstInv
  <2>5. Val(0) = 0
    BY Depths DEF Val
  <2>6. Settled(0)' /\ ~line' /\ hpc' = "idle" /\ stage' = "regs"
    BY <1>3, <2>4, <2>5 DEF Probe, Settled, Quiet, devVars
  <2> QED BY <2>3, <2>6 DEF FirstInv
<1>4. CASE WriteReg
  <2>1. Settled(0) /\ ~line /\ hpc = "idle" /\ loads # 0
    BY <1>0, <1>4 DEF FirstInv, WriteReg
  <2>2. Settled(0)' /\ ~line' /\ hpc' = "idle" /\ stage' \in {"regs", "request_irq"} /\ loads' = loads
    BY <1>4, <2>1 DEF WriteReg, Settled, Quiet, devVars, threadVars
  <2> QED BY <2>1, <2>2 DEF FirstInv
<1>5. CASE RequestIrq
  <2>1. Settled(0) /\ ~line /\ hpc = "idle" /\ loads # 0
    BY <1>0, <1>5 DEF FirstInv, RequestIrq
  <2>2. Settled(0)' /\ ~line' /\ hpc' = "idle" /\ stage' = "irq_requested" /\ loads' = loads
    BY <1>5, <2>1 DEF RequestIrq, Settled, Quiet, threadVars
  <2> QED BY <2>1, <2>2 DEF FirstInv
<1>6. CASE ProbeMap
  <2>1. Settled(0) /\ loads # 0
    BY <1>0, <1>6 DEF FirstInv, ProbeMap
  <2>2. Settled(0)' /\ stage' = "tx_submit" /\ loads' = loads
    BY <1>6, <2>1 DEF ProbeMap, Settled, Quiet, devVars, threadVars
  <2> QED BY <2>1, <2>2 DEF FirstInv
<1>7. CASE SmokeCalls
  <2>0. loads' = loads /\ fault' = fault /\ loads # 0 /\ bar
    BY <1>0, <1>7 DEF SmokeCalls, Goto, FirstInv, OwnInv, Regular
  <2>1. CASE stage = "tx_submit" /\ SubmitCheck(TxSqe) /\ Goto("tx_doorbell")
    <3>1. Submitting(0, TxSqe)' /\ tpc' = "submit" /\ stage' = "tx_doorbell"
      BY <1>0, <2>1, <2>0, SubmitCall DEF FirstInv, Goto
    <3> QED BY <2>0, <3>1 DEF FirstInv
  <2>2. CASE stage = "tx_doorbell" /\ Doorbell /\ Goto("tx_wait")
    <3>1. Rung(0, TxSqe)' /\ tpc' = "idle" /\ tpc = "idle" /\ stage' = "tx_wait"
      BY <1>0, <2>2, <2>0, DoorbellCall DEF FirstInv, Goto
    <3>2. fault # "sq"
      BY <1>0, <2>2, <3>1 DEF FirstInv
    <3> QED BY <2>0, <3>1, <3>2 DEF FirstInv
  <2>3. CASE stage = "tx_wait" /\ Wait("finite") /\ Goto("tx_waited")
    <3>1. Rung(0, TxSqe)' /\ Waited(0)' /\ stage' = "tx_waited" /\ fault # "sq"
      BY <1>0, <2>3, <2>0, WaitCall DEF FirstInv, Goto
    <3> QED BY <2>0, <3>1 DEF FirstInv
  <2>4. CASE stage = "tx_waited" /\ res = "ok" /\ Drain(1) /\ Goto("tx_drained")
    <3>1. Drained(0)' /\ tpc' = "copy" /\ stage' = "tx_drained" /\ fault # "sq"
      BY <1>0, <2>4, <2>0, DrainCall DEF FirstInv, Goto
    <3> QED BY <2>0, <3>1 DEF FirstInv
  <2>5. CASE stage = "rx_submit" /\ SubmitCheck(RxSqe) /\ Goto("rx_doorbell")
    <3>1. Submitting(1, RxSqe)' /\ stage' = "rx_doorbell" /\ fault \notin {"sq", "cq"}
      BY <1>0, <2>5, <2>0, SubmitCall DEF FirstInv, Goto
    <3> QED BY <2>0, <3>1 DEF FirstInv
  <2>6. CASE stage = "rx_doorbell" /\ Doorbell /\ Goto("rx_wait")
    <3>1. Rung(1, RxSqe)' /\ tpc' = "idle" /\ stage' = "rx_wait" /\ fault \notin {"sq", "cq"}
      BY <1>0, <2>6, <2>0, DoorbellCall DEF FirstInv, Goto
    <3> QED BY <2>0, <3>1 DEF FirstInv
  <2>7. CASE stage = "rx_wait" /\ Wait("finite") /\ Goto("rx_waited")
    <3>1. Rung(1, RxSqe)' /\ Waited(1)' /\ stage' = "rx_waited" /\ fault \notin {"sq", "cq"}
      BY <1>0, <2>7, <2>0, WaitCall DEF FirstInv, Goto
    <3> QED BY <2>0, <3>1 DEF FirstInv
  <2>8. CASE stage = "rx_waited" /\ res = "ok" /\ Drain(1) /\ Goto("rx_drained")
    <3>1. Drained(1)' /\ stage' = "rx_drained" /\ fault \notin {"sq", "cq"}
      BY <1>0, <2>8, <2>0, DrainCall DEF FirstInv, Goto
    <3> QED BY <2>0, <3>1 DEF FirstInv
  <2> QED BY <1>7, <2>1, <2>2, <2>3, <2>4, <2>5, <2>6, <2>7, <2>8 DEF SmokeCalls
<1>8. CASE TimedOut
  BY <1>8 DEF TimedOut, Fail, Regular
<1>9. CASE BadCqe
  <2>1. Quiet /\ loads # 0
    BY <1>0, <1>9 DEF BadCqe, FirstInv, Drained
  <2>2. Quiet' /\ stage' = "err_unmap" /\ loads' = loads
    BY <1>9, <2>1 DEF BadCqe, Fail, vars, devVars, Quiet
  <2> QED BY <2>1, <2>2 DEF FirstInv
<1>10. CASE TxDone
  <2>1. Drained(0) /\ fault \notin {"sq", "cq"} /\ loads # 0
    BY <1>0, <1>10 DEF TxDone, FirstInv
  <2>2. Settled(0 + 1)'
    BY <1>10, <2>1, DoneStep DEF TxDone
  <2>3. stage' = "rx_submit" /\ loads' = loads /\ fault' = fault
    BY <1>10 DEF TxDone
  <2> QED BY <2>1, <2>2, <2>3 DEF FirstInv
<1>11. CASE RxDone
  <2>1. Quiet /\ loads # 0
    BY <1>0, <1>11 DEF RxDone, FirstInv, Drained
  <2>2. Quiet' /\ stage' = "verify" /\ loads' = loads
    BY <1>11, <2>1 DEF RxDone, vars, devVars, Quiet
  <2> QED BY <2>1, <2>2 DEF FirstInv
<1>12. CASE Verify \/ ErrUnmap \/ Remove
  <2>1. Quiet /\ loads # 0
    BY <1>0, <1>12 DEF Verify, ErrUnmap, Remove, FirstInv
  <2>2. Quiet' /\ stage' \in {"bound", "destroy"} /\ loads' = loads
    BY <1>12, <2>1 DEF Verify, ErrUnmap, Remove, Goto, vars, devVars, Quiet
  <2> QED BY <2>1, <2>2 DEF FirstInv
<1>13. CASE FreeIrq \/ FreeRings \/ ClearMaster
  <2>1. Quiet /\ loads # 0
    BY <1>0, <1>13 DEF FreeIrq, FreeRings, ClearMaster, FirstInv
  <2>2. Quiet' /\ stage' \in {"free_rings", "clear_master", "unbound"} /\ loads' = loads
    BY <1>13, <2>1 DEF FreeIrq, FreeRings, ClearMaster, devVars, Quiet
  <2> QED BY <2>1, <2>2 DEF FirstInv
<1>14. CASE Oops
  <2>1. Quiet /\ loads # 0
    <3>1. \/ stage \in {"regs", "irq_requested"}
          \/ fault = "sq" /\ tpc = "submit"
          \/ fault = "cq" /\ tpc = "copy"
      BY <1>14 DEF Oops, UsesNull
    <3>2. ~Crashed
      BY <1>14 DEF Oops
    <3> QED BY <1>0, <3>1, <3>2 DEF FirstInv, PTypeInv, Settled, Submitting, Waited, Drained, Crashed
  <2>2. Quiet' /\ stage' = "oops" /\ loads' = loads
    BY <1>14, <2>1 DEF Oops, Goto, vars, devVars, Quiet
  <2> QED BY <2>1, <2>2 DEF FirstInv
<1>15. CASE irqOn /\ Irq /\ hpc = "wake" /\ stage = "irq_requested" /\ Goto("panic")
  BY <1>0, <1>15 DEF FirstInv
<1> QED BY <1>1, <1>2, <1>3, <1>4, <1>5, <1>6, <1>7, <1>8, <1>9, <1>10, <1>11, <1>12,
           <1>13, <1>14, <1>15, Steps

-----------------------------------------------------------------------------
(* The data.                                                               *)

\* In the first load the device works only on an SQE the doorbell was rung for.
LEMMA DeviceAtWork ==
  ASSUME PTypeInv, FirstInv, Regular, ~Quiet
  PROVE  stage \in {"tx_wait", "tx_waited", "rx_wait", "rx_waited"}
BY DEF PTypeInv, FirstInv, TxStages, RxStages, Leaving, Creating, Settled, Submitting, Drained

\* What the device does with the SQE of the TX and of the RX.
LEMMA TxData ==
  ASSUME PTypeInv, ProcessSqe, master, aimed, Rung(0, TxSqe), mem["src"] = Hello
  PROVE  mem' = mem /\ (CqeAt(0)'.status = 0 => dev_buf' = Hello)
<1>1. sq_head = Val(0) /\ cq_tail = Val(0)
  BY DEF ProcessSqe, Rung
<1>2. FetchedSqes = {TxSqe}
  BY <1>1 DEF FetchedSqes, Rung, SqeAt
<1>3. PICK status \in Statuses(TxSqe.op) :
        /\ dev_buf' \in DevBufAfter(TxSqe, status)
        /\ mem' \in MemAfter(TxSqe, status)
        /\ PostCqe([cookie |-> TxSqe.cookie, status |-> status])
  BY <1>2 DEF ProcessSqe
<1>4. cq' = [cq EXCEPT ![SlotOf(Val(0), CqDepth)] = [cookie |-> TxSqe.cookie, status |-> status]]
  BY <1>1, <1>3 DEF PostCqe
<1>5. SlotOf(Val(0), CqDepth) \in CqSlots
  BY Tally
<1>6. CqeAt(0)'.status = status
  BY <1>4, <1>5 DEF CqeAt, PTypeInv
<1>7. TxSqe.op = "TX" /\ TxSqe.buf = "src"
  BY DEF TxSqe
<1> QED BY <1>3, <1>6, <1>7 DEF DevBufAfter, MemAfter

LEMMA RxData ==
  ASSUME PTypeInv, ProcessSqe, master, aimed, Rung(1, RxSqe), mem["src"] = Hello, dev_buf = Hello
  PROVE  /\ mem'["src"] = Hello /\ dev_buf' = Hello
         /\ CqeAt(1)'.status = 0 => mem'["dst"] = Hello
<1>1. sq_head = Val(1) /\ cq_tail = Val(1)
  BY DEF ProcessSqe, Rung
<1>2. FetchedSqes = {RxSqe}
  BY <1>1 DEF FetchedSqes, Rung, SqeAt
<1>3. PICK status \in Statuses(RxSqe.op) :
        /\ dev_buf' \in DevBufAfter(RxSqe, status)
        /\ mem' \in MemAfter(RxSqe, status)
        /\ PostCqe([cookie |-> RxSqe.cookie, status |-> status])
  BY <1>2 DEF ProcessSqe
<1>4. cq' = [cq EXCEPT ![SlotOf(Val(1), CqDepth)] = [cookie |-> RxSqe.cookie, status |-> status]]
  BY <1>1, <1>3 DEF PostCqe
<1>5. SlotOf(Val(1), CqDepth) \in CqSlots
  BY Tally
<1>6. CqeAt(1)'.status = status
  BY <1>4, <1>5 DEF CqeAt, PTypeInv
<1>7. RxSqe.op = "RX" /\ RxSqe.buf = "dst" /\ mem \in [{"src", "dst"} -> Data]
  BY DEF RxSqe, PTypeInv, Buffers
<1>8. dev_buf' = Hello
  BY <1>3, <1>7 DEF DevBufAfter
<1>9. mem' \in MemAfter(RxSqe, status)
  BY <1>3
<1>10. mem'["src"] = Hello /\ (status = 0 => mem'["dst"] = Hello)
  BY <1>7, <1>9 DEF MemAfter
<1> QED BY <1>6, <1>8, <1>10

LEMMA DataKeeps ==
  PTypeInv /\ OwnInv /\ TimeoutInv /\ FirstInv /\ DataInv /\ [PNext]_pvars => DataInv'
<1> SUFFICES ASSUME PTypeInv, OwnInv, TimeoutInv, FirstInv, DataInv, [PNext]_pvars, Regular'
             PROVE  DataInv'
  BY DEF DataInv
<1>0. Regular
  BY Monotone
<1>a. Val(0) # Val(1) /\ Val(1) # Val(2)
  <2>1. Val(0) # Val(0 + 1) /\ Val(1) # Val(1 + 1)
    BY Tally
  <2> QED BY <2>1
<1> USE DEF TxStages, RxStages
<1>1. CASE Below
  <2>0. stage' = stage /\ fault' = fault /\ loads' = loads /\ trouble' = trouble
    BY <1>1, BelowOwns DEF probeVars
  <2>1. CASE ProcessSqe
    <3>1. stage \in {"tx_wait", "tx_waited", "rx_wait", "rx_waited"}
      BY <1>0, <2>1, DeviceAtWork DEF ProcessSqe, Quiet
    <3>2. master /\ (aimed <=> fault \notin {"sq", "cq"})
      BY <1>0, <3>1 DEF OwnInv, Regular
    <3>3. CASE stage \in {"tx_wait", "tx_waited"}
      <4>1. Rung(0, TxSqe) /\ fault # "sq"
        BY <1>0, <3>3 DEF FirstInv
      <4>2. CASE fault = "cq"
        BY <2>0, <3>3, <4>2 DEF DataInv
      <4>3. CASE fault # "cq"
        <5>1. mem["src"] = Hello
          BY <1>0, <3>3, <4>3 DEF DataInv
        <5>2. mem' = mem /\ (CqeAt(0)'.status = 0 => dev_buf' = Hello)
          BY <2>1, <3>2, <4>1, <4>3, <5>1, TxData
        <5> QED BY <2>0, <3>3, <5>1, <5>2 DEF DataInv
      <4> QED BY <4>2, <4>3
    <3>4. CASE stage \in {"rx_wait", "rx_waited"}
      <4>1. Rung(1, RxSqe) /\ fault \notin {"sq", "cq"}
        BY <1>0, <3>4 DEF FirstInv
      <4>2. mem["src"] = Hello /\ dev_buf = Hello
        BY <1>0, <3>4, <4>1 DEF DataInv
      <4>3. /\ mem'["src"] = Hello /\ dev_buf' = Hello
            /\ CqeAt(1)'.status = 0 => mem'["dst"] = Hello
        BY <2>1, <3>2, <4>1, <4>2, RxData
      <4> QED BY <2>0, <3>4, <4>3 DEF DataInv
    <3> QED BY <3>1, <3>3, <3>4
  <2>2. CASE ~ProcessSqe
    <3>1. mem' = mem /\ dev_buf' = dev_buf /\ cq' = cq /\ sq_head' = sq_head
      BY <1>1, <2>2, IrqFrame, RunFrame DEF Below, Expires, Hardware, DeviceStep, Device,
         TimerFires, ProcessEnd, memVars
    <3> QED BY <1>0, <2>0, <3>1 DEF DataInv, CqeAt
  <2> QED BY <2>1, <2>2
<1>2. CASE UNCHANGED pvars
  BY <1>0, <1>2 DEF DataInv, Regular, CqeAt, pvars, vars, memVars, devVars, probeVars
<1>3. CASE ProbeMap
  <2>1. mem'["src"] = Hello /\ stage' = "tx_submit"
    BY <1>3 DEF ProbeMap
  <2> QED BY <2>1 DEF DataInv
<1>4. CASE SmokeCalls
  <2>1. mem' = mem /\ dev_buf' = dev_buf /\ cq' = cq /\ sq_head' = sq_head /\ fault' = fault
        /\ loads' = loads
    BY <1>4 DEF SmokeCalls, SubmitCheck, Doorbell, RegDoorbell, Wait, Drain, Goto, memVars, devVars
  <2>2. CqeAt(0)' = CqeAt(0) /\ CqeAt(1)' = CqeAt(1)
    BY <2>1 DEF CqeAt
  <2>3. CASE stage = "tx_doorbell" \/ stage = "rx_doorbell"
    <3>1. stage = "tx_doorbell" => sq_head = Val(0)
      BY <1>0, <2>3 DEF FirstInv, Submitting
    <3>2. stage = "rx_doorbell" => sq_head = Val(1)
      BY <1>0, <2>3 DEF FirstInv, Submitting
    <3>3. \/ stage = "tx_doorbell" /\ stage' = "tx_wait"
          \/ stage = "rx_doorbell" /\ stage' = "rx_wait"
      BY <1>4, <2>3 DEF SmokeCalls, Goto
    <3> QED BY <1>0, <1>a, <2>1, <2>2, <3>1, <3>2, <3>3 DEF DataInv
  <2>4. CASE ~(stage = "tx_doorbell" \/ stage = "rx_doorbell")
    <3>1. \/ stage = "tx_submit" /\ stage' = "tx_doorbell"
          \/ stage \in {"tx_wait", "tx_waited"} /\ stage' \in {"tx_waited", "tx_drained"}
          \/ stage = "rx_submit" /\ stage' = "rx_doorbell"
          \/ stage \in {"rx_wait", "rx_waited"} /\ stage' \in {"rx_waited", "rx_drained"}
      BY <1>4, <2>4 DEF SmokeCalls, Goto
    <3> QED BY <1>0, <2>1, <2>2, <3>1 DEF DataInv
  <2> QED BY <2>3, <2>4
<1>5. CASE TxDone
  <2>1. Drained(0) /\ fault # "cq" /\ tpc = "idle" /\ stage = "tx_drained" /\ GoodCqe
    BY <1>0, <1>5 DEF TxDone, FirstInv
  <2>2. out = <<CqeAt(0)>> /\ sq_head = Val(1)
    BY <2>1 DEF Drained
  <2>3. CqeAt(0).status = 0
    BY <2>1, <2>2 DEF GoodCqe
  <2>4. mem["src"] = Hello /\ dev_buf = Hello
    BY <1>0, <2>1, <2>2, <2>3 DEF DataInv
  <2>5. mem' = mem /\ dev_buf' = dev_buf /\ stage' = "rx_submit"
    BY <1>5 DEF TxDone, vars, memVars, devVars
  <2> QED BY <2>4, <2>5 DEF DataInv
<1>6. CASE RxDone
  <2>1. /\ Drained(1) /\ tpc = "idle" /\ stage = "rx_drained" /\ GoodCqe
        /\ fault # "cq"
    BY <1>0, <1>6 DEF RxDone, FirstInv
  <2>2. out = <<CqeAt(1)>> /\ sq_head = Val(2)
    BY <2>1 DEF Drained
  <2>3. CqeAt(1).status = 0
    BY <2>1, <2>2 DEF GoodCqe
  <2>4. mem["src"] = Hello /\ mem["dst"] = Hello
    BY <1>0, <2>1, <2>2, <2>3 DEF DataInv
  <2>5. mem' = mem /\ stage' = "verify"
    BY <1>6 DEF RxDone, vars, memVars
  <2> QED BY <2>4, <2>5 DEF DataInv
<1>7. CASE stage' \notin TxStages \cup RxStages \cup {"verify"}
  BY <1>7 DEF DataInv
<1>8. CASE Probe \/ WriteReg \/ RequestIrq \/ TimedOut \/ BadCqe \/ Verify \/ ErrUnmap \/ FreeIrq
           \/ FreeRings \/ ClearMaster \/ Oops \/ Remove \/ Goto("panic")
  <2>1. stage' \notin TxStages \cup RxStages \cup {"verify"}
    BY <1>8 DEF Probe, WriteReg, RequestIrq, TimedOut, BadCqe, Fail, Verify, ErrUnmap, FreeIrq,
       FreeRings, ClearMaster, Oops, Remove, Goto
  <2> QED BY <1>7, <2>1
<1> QED BY <1>1, <1>2, <1>3, <1>4, <1>5, <1>6, <1>8, Steps

-----------------------------------------------------------------------------
(* A first load without BAR 0.                                             *)

LEMMA NullKeeps ==
  PTypeInv /\ OwnInv /\ TimeoutInv /\ FirstInv /\ NullInv /\ [PNext]_pvars => NullInv'
<1> SUFFICES ASSUME PTypeInv, OwnInv, TimeoutInv, FirstInv, NullInv, [PNext]_pvars,
                    loads' <= 1, fault' = "iomap"
             PROVE  NullInv'
  BY DEF NullInv
<1> DEFINE Rest == Quiet /\ ~line /\ hpc = "idle"
           Filled == mem = [src |-> Hello, dst |-> Zero]
           Testing == TxStages \cup RxStages \cup {"verify"}
<1>0. loads <= 1
  BY Monotone
<1>1. CASE Probe
  <2>1. PICK l \in Nat : l = loads
    BY DEF PTypeInv
  <2>2. loads' = l + 1
    BY <1>1, <2>1 DEF Probe
  <2>3. loads = 0
    BY <2>1, <2>2
  <2>4. Settled(0) /\ ~line /\ hpc = "idle"
    BY <2>3 DEF FirstInv, TimeoutInv, Regular
  <2>5. Rest' /\ stage' = "regs"
    BY <1>1, <2>4 DEF Probe, Settled, Quiet, devVars
  <2> QED BY <2>5 DEF NullInv, TxStages, RxStages
<1>2. CASE ~Probe
  <2>0. fault = "iomap" /\ Rest /\ (stage \in Testing => Filled)
    <3>1. fault' = fault
      BY <1>2, Steps, BelowOwns DEF WriteReg, RequestIrq, ProbeMap, SmokeCalls, TimedOut, BadCqe,
         Fail, TxDone, RxDone, Verify, ErrUnmap, FreeIrq, FreeRings, ClearMaster, Oops, Remove,
         Goto, probeVars, pvars
    <3> QED BY <1>0, <3>1 DEF NullInv
  <2>1. CASE Below
    <3>1. ~Irq /\ ~DeviceStep
      BY <2>0, QuietDevice DEF Irq, IrqEnter, IrqHandler
    <3>2. Rest' /\ mem' = mem /\ stage' = stage
      BY <2>0, <2>1, <3>1, RunFrame, BelowOwns DEF Below, Expires, Hardware, Quiet, probeVars
    <3> QED BY <2>0, <3>2 DEF NullInv
  <2>2. CASE SmokeCalls
    <3>1. ~bar /\ stage \in Testing
      BY <2>0, <2>2 DEF OwnInv, SmokeCalls, TxStages, RxStages
    <3>2. UNCHANGED <<processing, line, hpc, mem>>
      BY <2>2 DEF SmokeCalls, SubmitCheck, Doorbell, RegDoorbell, Wait, Drain, memVars, devVars
    <3>3. timer' = timer \/ timer' = (bar \/ timer)
      BY <2>2 DEF SmokeCalls, SubmitCheck, Doorbell, RegDoorbell, Wait, Drain, devVars
    <3>4. ~timer'
      BY Zenon, <2>0, <3>1, <3>3 DEF Quiet
    <3>5. Rest' /\ mem' = mem
      BY <2>0, <3>2, <3>4 DEF Quiet
    <3> QED BY <2>0, <3>1, <3>5 DEF NullInv
  <2>3. CASE ProbeMap
    <3>1. Rest' /\ Filled'
      BY <2>0, <2>3 DEF ProbeMap, Quiet, devVars
    <3> QED BY <3>1 DEF NullInv
  <2>4. CASE TxDone \/ RxDone
    <3>1. Rest' /\ mem' = mem /\ stage \in Testing
      BY <2>0, <2>4 DEF TxDone, RxDone, Quiet, vars, memVars, devVars, TxStages, RxStages
    <3> QED BY <2>0, <3>1 DEF NullInv
  <2>5. CASE WriteReg \/ RequestIrq \/ TimedOut \/ BadCqe \/ Verify \/ ErrUnmap \/ FreeIrq
             \/ FreeRings \/ ClearMaster \/ Oops \/ Remove
    <3>1. stage' \notin Testing /\ UNCHANGED <<timer, processing, hpc>>
      BY <2>5 DEF WriteReg, RequestIrq, TimedOut, BadCqe, Fail, Verify, ErrUnmap, FreeIrq,
         FreeRings, ClearMaster, Oops, Remove, Goto, vars, devVars, TxStages, RxStages
    <3>2. CASE RequestIrq \/ FreeIrq
      <4>1. \/ line' = (irqMode' = "intx" /\ line)
            \/ line' = (irqMode = "intx" /\ line)
        BY <3>2 DEF RequestIrq, FreeIrq
      <4>2. ~line'
        BY Zenon, <2>0, <4>1
      <4> QED BY <2>0, <3>1, <4>2 DEF NullInv, Quiet
    <3>3. CASE ~(RequestIrq \/ FreeIrq)
      <4>1. line' = line
        BY <2>5, <3>3 DEF WriteReg, TimedOut, BadCqe, Fail, Verify, ErrUnmap, FreeRings,
           ClearMaster, Oops, Remove, vars, devVars
      <4> QED BY <2>0, <3>1, <4>1 DEF NullInv, Quiet
    <3> QED BY <3>2, <3>3
  <2>6. CASE UNCHANGED pvars
    <3>1. Rest' /\ mem' = mem /\ stage' = stage
      BY <2>0, <2>6 DEF Quiet, pvars, vars, memVars, devVars, probeVars
    <3> QED BY <2>0, <3>1 DEF NullInv
  <2> QED BY <1>2, <2>0, <2>1, <2>2, <2>3, <2>4, <2>5, <2>6, Steps
<1> QED BY <1>1, <1>2

-----------------------------------------------------------------------------
(* Timeouts and the second load.                                           *)

LEMMA TimeoutKeeps ==
  PTypeInv /\ TimeoutInv /\ [PNext]_pvars => TimeoutInv'
<1> SUFFICES ASSUME PTypeInv, TimeoutInv, [PNext]_pvars PROVE TimeoutInv'
  OBVIOUS
<1>0. loads' <= 1 => loads <= 1
  BY Monotone
<1> USE DEF Leaving
<1>1. CASE Below
  BY <1>1, BelowOwns DEF TimeoutInv, probeVars
<1>2. CASE UNCHANGED pvars
  BY <1>2 DEF TimeoutInv, pvars, probeVars
<1>3. CASE Probe
  <2>1. PICK l \in Nat : l = loads
    BY DEF PTypeInv
  <2>2. loads' = l + 1 /\ trouble' = trouble
    BY <1>3, <2>1 DEF Probe
  <2>3. l + 1 # 0 /\ (l + 1 <= 1 => l = 0)
    BY <2>1
  <2> QED BY <2>1, <2>2, <2>3 DEF TimeoutInv
<1>4. CASE TimedOut \/ BadCqe
  <2>1. stage \notin {"unbound"} /\ loads' = loads /\ stage' = "err_unmap"
    BY <1>4 DEF TimedOut, BadCqe, Fail
  <2>2. loads # 0
    BY <2>1 DEF TimeoutInv
  <2> QED BY <2>1, <2>2 DEF TimeoutInv
<1>5. CASE WriteReg \/ RequestIrq \/ ProbeMap \/ SmokeCalls \/ TxDone \/ RxDone \/ Verify \/ Remove
  <2>1. stage \notin Leaving \cup {"oops", "panic"} /\ loads' = loads /\ trouble' = trouble
    BY <1>5 DEF WriteReg, RequestIrq, ProbeMap, SmokeCalls, TxDone, RxDone, Verify, Remove, Goto
  <2> QED BY <2>1 DEF TimeoutInv
<1>6. CASE \/ ErrUnmap \/ FreeIrq \/ FreeRings \/ ClearMaster \/ Oops
           \/ stage = "irq_requested" /\ Goto("panic")
  <2>1. stage' \in Leaving \cup {"oops", "panic"} /\ loads' = loads /\ trouble' = trouble
    BY <1>6 DEF ErrUnmap, FreeIrq, FreeRings, ClearMaster, Oops, Goto
  <2>2. stage \in Leaving \ {"unbound"} \/ UsesNull \/ stage = "irq_requested"
    BY <1>6 DEF ErrUnmap, FreeIrq, FreeRings, ClearMaster, Oops
  <2>3. loads # 0
    BY <2>2 DEF TimeoutInv, UsesNull
  <2> QED BY <2>1, <2>3 DEF TimeoutInv
<1> QED BY <1>1, <1>2, <1>3, <1>4, <1>5, <1>6, Steps

LEMMA SecondKeeps ==
  /\ PTypeInv /\ OwnInv /\ TimeoutInv /\ FirstInv /\ NullInv /\ SecondInv /\ [PNext]_pvars
  => SecondInv'
<1> SUFFICES ASSUME PTypeInv, OwnInv, TimeoutInv, FirstInv, NullInv, SecondInv, [PNext]_pvars,
                    loads' = 2, "timeout" \notin trouble'
             PROVE  SecondInv'
  BY DEF SecondInv
<1>0. "timeout" \notin trouble
  BY Monotone
<1> USE DEF Creating
<1>1. CASE Below
  <2>1. stage' = stage /\ loads = 2 /\ irqMode' = irqMode
    BY <1>1, BelowOwns DEF probeVars
  <2>2. stage \in Creating => Quiet'
    BY <1>0, <1>1, <2>1, QuietBelow DEF SecondInv
  <2>3. ASSUME stage = "irq_requested", irqMode = "msi" PROVE ~line' /\ hpc' = "idle"
    <3>1. Quiet /\ ~line /\ hpc = "idle"
      BY <1>0, <2>1, <2>3 DEF SecondInv
    <3>2. ~Irq /\ ~DeviceStep
      BY <3>1, QuietDevice DEF Irq, IrqEnter, IrqHandler
    <3> QED BY <1>1, <3>1, <3>2, RunFrame DEF Below, Expires, Hardware
  <2> QED BY <2>1, <2>2, <2>3 DEF SecondInv
<1>2. CASE UNCHANGED pvars
  BY <1>0, <1>2 DEF SecondInv, Quiet, pvars, vars, memVars, devVars, probeVars
<1>3. CASE Probe
  <2>1. PICK l \in Nat : l = loads
    BY DEF PTypeInv
  <2>2. loads' = l + 1 /\ stage = "unbound" /\ stage' = "regs" /\ timer' = timer
        /\ processing' = processing
    BY <1>3, <2>1 DEF Probe, devVars
  <2>3. loads = 1
    BY <2>1, <2>2
  <2>4. Quiet
    BY <1>0, <2>2, <2>3 DEF FirstInv, NullInv, Regular, Leaving
  <2> QED BY <2>2, <2>4 DEF SecondInv, Quiet
<1>4. CASE WriteReg
  BY <1>0, <1>4 DEF WriteReg, SecondInv, Quiet, devVars
<1>5. CASE RequestIrq
  <2>1. Quiet /\ hpc = "idle"
    BY <1>0, <1>5 DEF RequestIrq, SecondInv, OwnInv
  <2>2. Quiet' /\ hpc' = "idle" /\ (irqMode' = "msi" => ~line')
    BY <1>5, <2>1 DEF RequestIrq, Quiet
  <2> QED BY <2>2 DEF SecondInv
<1>6. CASE ProbeMap \/ SmokeCalls \/ TimedOut \/ BadCqe \/ TxDone \/ RxDone \/ Verify \/ ErrUnmap
           \/ FreeIrq \/ FreeRings \/ ClearMaster \/ Oops \/ Remove \/ Goto("panic")
  <2>1. stage' \notin Creating
    BY <1>6 DEF ProbeMap, SmokeCalls, TimedOut, BadCqe, Fail, TxDone, RxDone, Verify, ErrUnmap,
       FreeIrq, FreeRings, ClearMaster, Oops, Remove, Goto
  <2> QED BY <2>1 DEF SecondInv
<1> QED BY <1>1, <1>2, <1>3, <1>4, <1>5, <1>6, Steps

-----------------------------------------------------------------------------
(* The properties.                                                         *)

LEMMA RoundTripsKeeps ==
  /\ PTypeInv /\ DataInv /\ NullInv /\ TimeoutInv /\ RoundTrips /\ [PNext]_pvars
  => RoundTrips'
<1> SUFFICES ASSUME PTypeInv, DataInv, NullInv, TimeoutInv, RoundTrips, [PNext]_pvars
             PROVE  RoundTrips'
  OBVIOUS
<1>1. CASE Below
  BY <1>1, BelowOwns DEF RoundTrips, probeVars
<1>2. CASE UNCHANGED pvars
  BY <1>2 DEF RoundTrips, pvars, probeVars
<1>3. CASE Verify
  <2>1. stage = "verify" /\ loads' = loads /\ fault' = fault
    BY <1>3 DEF Verify
  <2>2. ASSUME loads = 1, fault # "iomap" PROVE mem["src"] = mem["dst"]
    <3>1. "timeout" \notin trouble
      BY <2>1, <2>2 DEF TimeoutInv, Leaving
    <3> QED BY <2>1, <2>2, <3>1 DEF DataInv, Regular
  <2>3. ASSUME loads = 1, fault = "iomap" PROVE mem["src"] # mem["dst"]
    BY <2>1, <2>3 DEF NullInv, Hello, Zero
  <2>4. loads = 1 => (verdict' = "passed" <=> fault # "iomap")
    BY <1>3, <2>2, <2>3 DEF Verify
  <2> QED BY <2>1, <2>4 DEF RoundTrips
<1>4. CASE Probe \/ TimedOut \/ BadCqe
  BY <1>4 DEF Probe, TimedOut, BadCqe, Fail, RoundTrips
<1>5. CASE WriteReg \/ RequestIrq \/ ProbeMap \/ SmokeCalls \/ TxDone \/ RxDone \/ ErrUnmap
           \/ FreeIrq \/ FreeRings \/ ClearMaster \/ Oops \/ Remove \/ Goto("panic")
  BY <1>5 DEF WriteReg, RequestIrq, ProbeMap, SmokeCalls, TxDone, RxDone, ErrUnmap,
     FreeIrq, FreeRings, ClearMaster, Oops, Remove, Goto, RoundTrips
<1> QED BY <1>1, <1>2, <1>3, <1>4, <1>5, Steps

LEMMA EarlyWakeupKeeps == PInv /\ [PNext]_pvars => EarlyWakeup'
<1> SUFFICES ASSUME PInv, [PNext]_pvars, stage' = "panic"
             PROVE  loads' > 1 /\ (irqMode' = "intx" \/ "timeout" \in trouble' \/ loads' > 2)
  BY DEF EarlyWakeup
<1>1. CASE Below
  BY <1>1, BelowOwns DEF PInv, EarlyWakeup, probeVars
<1>2. CASE UNCHANGED pvars
  BY <1>2 DEF PInv, EarlyWakeup, pvars, vars, memVars, probeVars
<1>3. CASE irqOn /\ Irq /\ hpc = "wake" /\ stage = "irq_requested" /\ Goto("panic")
  <2>1. loads' = loads /\ trouble' = trouble /\ irqMode' = irqMode /\ loads \in Nat
        /\ irqMode \in {"msi", "intx"}
    BY <1>3 DEF Goto, Irq, IrqEnter, IrqHandler, memVars, PInv, PTypeInv
  <2>2. ~(loads <= 1)
    <3>1. loads <= 1 => "timeout" \notin trouble
      BY <1>3 DEF PInv, TimeoutInv, Leaving
    <3> QED BY <1>3, <3>1 DEF PInv, FirstInv, NullInv, Regular, Creating
  <2>3. loads = 2 => irqMode = "intx" \/ "timeout" \in trouble
    BY <1>3, <2>1 DEF PInv, SecondInv
  <2>4. loads > 1 /\ (loads = 2 \/ loads > 2)
    BY <2>1, <2>2
  <2> QED BY <2>1, <2>3, <2>4
<1>4. CASE Probe \/ WriteReg \/ RequestIrq \/ ProbeMap \/ SmokeCalls \/ TimedOut \/ BadCqe
           \/ TxDone \/ RxDone \/ Verify \/ ErrUnmap \/ FreeIrq \/ FreeRings \/ ClearMaster
           \/ Oops \/ Remove
  BY <1>4 DEF Probe, WriteReg, RequestIrq, ProbeMap, SmokeCalls, TimedOut, BadCqe, Fail, TxDone,
     RxDone, Verify, ErrUnmap, FreeIrq, FreeRings, ClearMaster, Oops, Remove, Goto
<1> QED BY <1>1, <1>2, <1>3, <1>4, Steps

\* The inductive invariant of the driver's life.
THEOREM Invariance == PSpec => []PInv
<1>1. PInit => PInv
  <2> SUFFICES ASSUME PInit PROVE PInv
    OBVIOUS
  <2>0. 0 \in Counter /\ ZeroSqe \in Sqes /\ ZeroCqe \in Cqes /\ Val(Start) = 0 /\ Val(0) = 0
    BY Depths DEF Counter, ZeroSqe, ZeroCqe, Sqes, Cqes, Buffers, Val
  <2>1. PTypeInv
    BY <2>0 DEF PInit, DeviceInit, EngineInit, PTypeInv, Leaving, Buffers, Data
  <2>2. OwnInv
    BY DEF PInit, EngineInit, OwnInv, TxStages, RxStages
  <2>3. /\ Settled(0) /\ ~line /\ hpc = "idle" /\ loads = 0 /\ stage = "unbound"
        /\ fault = "none" /\ trouble = {}
    BY <2>0 DEF PInit, DeviceInit, EngineInit, Settled, Quiet
  <2>4. FirstInv
    BY <2>3 DEF FirstInv, Settled, RxStages, Creating
  <2>5. DataInv /\ NullInv /\ TimeoutInv /\ SecondInv
    BY <2>3 DEF DataInv, NullInv, TimeoutInv, SecondInv, TxStages, RxStages
  <2>6. RoundTrips /\ EarlyWakeup
    BY <2>3 DEF RoundTrips, EarlyWakeup
  <2> QED BY <2>1, <2>2, <2>4, <2>5, <2>6 DEF PInv
<1>2. PInv /\ [PNext]_pvars => PInv'
  BY TypeKeeps, OwnKeeps, FirstKeeps, DataKeeps, NullKeeps, TimeoutKeeps, SecondKeeps,
     RoundTripsKeeps, EarlyWakeupKeeps DEF PInv
<1> QED BY <1>1, <1>2, PTL DEF PSpec

\* On a fresh device the comparison at the end of the smoke test says whether
\* the driver got at the device: it passes with BAR 0 mapped and fails without,
\* whatever else fails and however the handler, the device and the timeouts
\* interleave with it.
THEOREM SmokeTestSafety == PSpec => []RoundTrips
<1>1. PInv => RoundTrips
  BY DEF PInv
<1> QED BY <1>1, Invariance, PTL

\* In the first load the device accesses only memory that the driver owns.
THEOREM DmaSafety == PSpec => []DmaOnlyToMapped
<1>1. PInv => DmaOnlyToMapped
  <2> SUFFICES ASSUME PInv, processing, sq_head # sq_tail, master, loads = 1,
                      fault \notin {"sq", "cq"}, "timeout" \notin trouble
               PROVE  aimed /\ ringsLive /\ sq[SlotOf(sq_head, SqDepth)].buf \in mapped
    BY DEF DmaOnlyToMapped
  <2>0. Regular
    BY DEF PInv, NullInv, Quiet, Regular
  <2>1. stage \in {"tx_wait", "tx_waited", "rx_wait", "rx_waited"}
    BY <2>0, DeviceAtWork DEF PInv, Quiet
  <2>2. aimed /\ ringsLive
    BY <2>0, <2>1 DEF PInv, OwnInv, Regular, TxStages, RxStages
  <2>3. CASE stage \in {"tx_wait", "tx_waited"}
    <3>1. Rung(0, TxSqe) /\ mapped = Buffers
      BY <2>0, <2>3 DEF PInv, FirstInv, OwnInv, TxStages
    <3>2. sq[SlotOf(sq_head, SqDepth)] = TxSqe
      BY <3>1 DEF Rung, SqeAt
    <3> QED BY <2>2, <3>1, <3>2 DEF TxSqe, Buffers
  <2>4. CASE stage \in {"rx_wait", "rx_waited"}
    <3>1. Rung(1, RxSqe) /\ mapped = {"dst"}
      BY <2>0, <2>4 DEF PInv, FirstInv, OwnInv, RxStages
    <3>2. sq[SlotOf(sq_head, SqDepth)] = RxSqe
      BY <3>1 DEF Rung, SqeAt
    <3> QED BY <2>2, <3>1, <3>2 DEF RxSqe
  <2> QED BY <2>1, <2>3, <2>4
<1> QED BY <1>1, Invariance, PTL

\* Whatever way a probe ends, in any load, it leaves no buffer mapped, and a driver
\* that is not bound has no rings, no handler, no bus mastering and no BAR.
THEOREM CleanupSafety == PSpec => []CleansUp
<1>1. PInv => CleansUp
  BY DEF PInv, OwnInv, CleansUp, TxStages, RxStages
<1> QED BY <1>1, Invariance, PTL

\* The gap between request_irq and init_waitqueue_head is harmless in the first
\* load, and in the second one unless the pin or the device was left active.
THEOREM WakeupGap == PSpec => []EarlyWakeup
<1>1. PInv => EarlyWakeup
  BY DEF PInv
<1> QED BY <1>1, Invariance, PTL
=============================================================================
