----------------------------- MODULE DmaEngine -----------------------------
(***************************************************************************)
(* The driver's engine (nic.c: engine_submit, engine_doorbell,             *)
(* engine_wait, engine_drain and the interrupt handler) on top of the      *)
(* device of DmaDevice.  One kernel thread calls the engine, as nic.c has  *)
(* no lock; the interrupt handler runs on another CPU or on top of it.     *)
(*                                                                         *)
(* Register reads and writes (ioread32, iowrite32) wait until the device's *)
(* callback is over; accesses to the rings do not.                         *)
(***************************************************************************)
EXTENDS DmaDevice

CONSTANTS
  MaxOps,          \* SQEs the thread submits
  MaxOutstanding,  \* most SQEs it has submitted and not drained
  MaxDrain,        \* largest max of engine_drain
  Timeouts,        \* arguments of engine_wait: "finite", "negative"
  Signals          \* whether a signal may interrupt engine_wait

ASSUME EngineAssumption ==
  /\ MaxOps \in Nat /\ MaxOutstanding \in Nat /\ MaxDrain \in Nat
  /\ Timeouts \subseteq {"finite", "negative"}
  /\ Signals \in BOOLEAN

VARIABLES
  eng_sq_tail,  \* eng->sq_tail
  eng_cq_head,  \* eng->cq_head
  tpc,          \* where the thread is; "idle" between calls
  cur,          \* the sqe argument of engine_submit
  todo,         \* engine_drain: CQEs this call copies
  out,          \* engine_drain: the caller's array
  waitArg,      \* engine_wait: its timeout while it runs, or "none"
  woken,        \* the wait queue entry was woken since prepare_to_wait
  res,          \* what the last call returned
  hpc,          \* where the interrupt handler is
  nsub,         \* how many SQEs engine_submit accepted
  ndone,        \* how many of them the device completed
  ndrained      \* how many completions engine_drain returned

threadVars == <<eng_sq_tail, eng_cq_head, tpc, cur, todo, out, waitArg, res,
                nsub, ndrained>>
vars == <<memVars, devVars, threadVars, woken, hpc, ndone>>

EngineInit ==
  /\ eng_sq_tail = Val(Start) /\ eng_cq_head = Val(Start)
  /\ tpc = "idle" /\ cur = ZeroSqe /\ todo = 0 /\ out = <<>>
  /\ waitArg = "none" /\ woken = FALSE /\ res = "none"
  /\ hpc = "idle"
  /\ nsub = 0 /\ ndone = 0 /\ ndrained = 0

\* A created engine: bus mastering is on, BAR 0 is mapped and the ring registers
\* are written.
Init == DeviceInit /\ master = TRUE /\ aimed = TRUE /\ bar = TRUE /\ EngineInit

-----------------------------------------------------------------------------
(* engine_submit                                                           *)

\* Mutant of SubmitCheck: the backpressure test is off by one.
SubmitCheck_OffByOne(sqe) ==
  /\ tpc = "idle" /\ MmioFree
  /\ IF Minus(eng_sq_tail, Reg.SQ_HEAD) > SqDepth
       THEN res' = "EAGAIN" /\ UNCHANGED <<tpc, cur>>
       ELSE tpc' = "submit" /\ cur' = sqe /\ UNCHANGED res
  /\ UNCHANGED <<memVars, devVars, eng_sq_tail, eng_cq_head, todo, out, waitArg,
                 woken, hpc, nsub, ndone, ndrained>>

\* Read REG_SQ_HEAD and return -EAGAIN if the ring is full.
SubmitCheck(sqe) ==
  /\ tpc = "idle" /\ MmioFree
  /\ IF Minus(eng_sq_tail, Reg.SQ_HEAD) >= SqDepth
       THEN res' = "EAGAIN" /\ UNCHANGED <<tpc, cur>>
       ELSE tpc' = "submit" /\ cur' = sqe /\ UNCHANGED res
  /\ UNCHANGED <<memVars, devVars, eng_sq_tail, eng_cq_head, todo, out, waitArg,
                 woken, hpc, nsub, ndone, ndrained>>

\* Write the SQE into its slot and advance sq_tail.
SubmitWrite ==
  /\ tpc = "submit"
  /\ sq' = [sq EXCEPT ![SlotOf(eng_sq_tail, SqDepth)] = cur]
  /\ eng_sq_tail' = Val(eng_sq_tail + 1)
  /\ nsub' = nsub + 1
  /\ tpc' = "idle" /\ res' = "ok"
  /\ UNCHANGED <<cq, mem, master, aimed, bar, irqMode, devVars, eng_cq_head, cur, todo,
                 out, waitArg, woken, hpc, ndone, ndrained>>

\* engine_doorbell
Doorbell ==
  /\ tpc = "idle"
  /\ RegDoorbell(eng_sq_tail)
  /\ UNCHANGED <<memVars, threadVars, woken, hpc, ndone>>

-----------------------------------------------------------------------------
(* engine_wait: wait_event_interruptible_timeout of the kernel, with its   *)
(* condition.                                                              *)

\* Mutant of CqNotEmpty: the condition is the wrong way round.
CqNotEmpty_Inverted == Reg.CQ_TAIL = eng_cq_head

\* ioread32(eng->mmio + REG_CQ_TAIL) != eng->cq_head
CqNotEmpty == Reg.CQ_TAIL # eng_cq_head

\* What engine_wait returns when the condition holds: the macro yields the time
\* that is left, and engine_wait takes a negative one for a timeout.
Result(t) == IF t = "negative" THEN "ETIMEDOUT" ELSE "ok"

\* The condition is tested before the thread queues itself.
Wait(t) ==
  /\ tpc = "idle" /\ MmioFree
  /\ IF CqNotEmpty THEN res' = Result(t) /\ UNCHANGED <<tpc, waitArg>>
                   ELSE tpc' = "prepare" /\ waitArg' = t /\ UNCHANGED res
  /\ UNCHANGED <<memVars, devVars, eng_sq_tail, eng_cq_head, cur, todo, out,
                 woken, hpc, nsub, ndone, ndrained>>

\* prepare_to_wait_event: from here on a wake-up is not lost.
WaitPrepare ==
  /\ tpc = "prepare"
  /\ woken' = FALSE
  /\ tpc' = "check"
  /\ UNCHANGED <<memVars, devVars, eng_sq_tail, eng_cq_head, cur, todo, out,
                 waitArg, res, hpc, nsub, ndone, ndrained>>

\* The condition again, then schedule_timeout.
WaitCheck ==
  /\ tpc = "check" /\ MmioFree
  /\ IF CqNotEmpty THEN tpc' = "idle" /\ res' = Result(waitArg) /\ waitArg' = "none"
                   ELSE tpc' = "sleep" /\ UNCHANGED <<res, waitArg>>
  /\ UNCHANGED <<memVars, devVars, eng_sq_tail, eng_cq_head, cur, todo, out,
                 woken, hpc, nsub, ndone, ndrained>>

\* A thread with a negative timeout does not sleep (WaitRefused).
WaitWoken ==
  /\ tpc = "sleep" /\ woken /\ waitArg = "finite"
  /\ tpc' = "prepare"
  /\ UNCHANGED <<memVars, devVars, eng_sq_tail, eng_cq_head, cur, todo, out,
                 waitArg, woken, res, hpc, nsub, ndone, ndrained>>

\* No time is left, or a signal came: the condition is tested once more, and
\* whatever the reason the result is -ETIMEDOUT if it does not hold.
GiveUp ==
  /\ tpc = "sleep" /\ MmioFree
  /\ tpc' = "idle" /\ waitArg' = "none"
  /\ res' = IF CqNotEmpty THEN "ok" ELSE "ETIMEDOUT"
  /\ UNCHANGED <<memVars, devVars, eng_sq_tail, eng_cq_head, cur, todo, out,
                 woken, hpc, nsub, ndone, ndrained>>

WaitExpires == waitArg = "finite" /\ GiveUp

\* schedule_timeout refuses a negative timeout and returns zero at once.
WaitRefused == waitArg = "negative" /\ GiveUp

WaitInterrupted == Signals /\ GiveUp

-----------------------------------------------------------------------------
(* engine_drain                                                            *)

\* Mutant of Drain: the size of the caller's array is ignored.
Drain_NoMax(max) ==
  /\ tpc = "idle" /\ MmioFree
  /\ todo' = Minus(Reg.CQ_TAIL, eng_cq_head)
  /\ out' = <<>>
  /\ tpc' = IF todo' = 0 THEN "idle" ELSE "copy"
  /\ res' = "ok"
  /\ UNCHANGED <<memVars, devVars, eng_sq_tail, eng_cq_head, cur, waitArg,
                 woken, hpc, nsub, ndone, ndrained>>

\* Read REG_CQ_TAIL and settle how many CQEs to copy.
Drain(max) ==
  /\ tpc = "idle" /\ MmioFree
  /\ todo' = MinOf(Minus(Reg.CQ_TAIL, eng_cq_head), max)
  /\ out' = <<>>
  /\ tpc' = IF todo' = 0 THEN "idle" ELSE "copy"
  /\ res' = "ok"
  /\ UNCHANGED <<memVars, devVars, eng_sq_tail, eng_cq_head, cur, waitArg,
                 woken, hpc, nsub, ndone, ndrained>>

DrainCopy ==
  /\ tpc = "copy" /\ Len(out) < todo
  /\ out' = Append(out, cq[SlotOf(Val(eng_cq_head + Len(out)), CqDepth)])
  /\ UNCHANGED <<memVars, devVars, eng_sq_tail, eng_cq_head, tpc, cur, todo,
                 waitArg, res, woken, hpc, nsub, ndone, ndrained>>

DrainEnd ==
  /\ tpc = "copy" /\ Len(out) = todo
  /\ eng_cq_head' = Val(eng_cq_head + todo)
  /\ ndrained' = ndrained + todo
  /\ tpc' = "idle"
  /\ UNCHANGED <<memVars, devVars, eng_sq_tail, cur, todo, out, waitArg, res,
                 woken, hpc, nsub, ndone>>

-----------------------------------------------------------------------------
(* dma_engine_irq                                                          *)

\* The CPU takes the interrupt: an MSI is consumed, INTx stays asserted.
IrqEnter ==
  /\ line /\ hpc = "idle"
  /\ hpc' = "status"
  /\ line' = (irqMode = "intx")
  /\ UNCHANGED <<memVars, sq_head, sq_tail, cq_tail, irq_status, timer, processing,
                 did_work, dev_buf, threadVars, woken, ndone>>

\* wake_up_interruptible(&eng->host_wq)
WakeUp == woken' = (woken \/ tpc \in {"check", "sleep"})

\* Mutant of IrqHandler: waiters are woken before the interrupt is acknowledged.
IrqHandler_WakeFirst ==
  /\ \/ /\ hpc = "status" /\ MmioFree
        /\ hpc' = IF Reg.IRQ_STATUS = 0 THEN "idle" ELSE "wake"
        /\ UNCHANGED <<devVars, woken>>
     \/ /\ hpc = "wake" /\ WakeUp /\ hpc' = "ack" /\ UNCHANGED devVars
     \/ /\ hpc = "ack" /\ RegIrqAck /\ hpc' = "idle" /\ UNCHANGED woken
  /\ UNCHANGED <<memVars, threadVars, ndone>>

\* The handler's steps: read REG_IRQ_STATUS, acknowledge, wake.
IrqHandler ==
  /\ \/ /\ hpc = "status" /\ MmioFree
        /\ hpc' = IF Reg.IRQ_STATUS = 0 THEN "idle" ELSE "ack"
        /\ UNCHANGED <<devVars, woken>>
     \/ /\ hpc = "ack" /\ RegIrqAck /\ hpc' = "wake" /\ UNCHANGED woken
     \/ /\ hpc = "wake" /\ WakeUp /\ hpc' = "idle" /\ UNCHANGED devVars
  /\ UNCHANGED <<memVars, threadVars, ndone>>

Irq == IrqEnter \/ IrqHandler

DeviceStep ==
  /\ Device
  /\ ndone' = IF sq_head' = sq_head THEN ndone ELSE ndone + 1
  /\ UNCHANGED <<threadVars, woken, hpc>>

-----------------------------------------------------------------------------
(* A thread that uses the engine the way nic.h asks for: any mix of calls, *)
(* the doorbell rung only for new SQEs, engine_wait called only when a     *)
(* completion is still to come.                                            *)

\* The n-th SQE: TX, RX and an unknown op in turn, the cookie is n.
Sqe(n) ==
  LET op == CASE n % 3 = 1 -> "TX" [] n % 3 = 2 -> "RX" [] OTHER -> "none"
  IN  [cookie |-> n, op |-> op, buf |-> IF op = "RX" THEN "dst" ELSE "src"]

Calls ==
  \/ /\ nsub < MaxOps
     /\ nsub - ndrained < MaxOutstanding
     /\ SubmitCheck(Sqe(nsub + 1))
  \/ sq_tail # eng_sq_tail /\ Doorbell
  \/ \E t \in Timeouts : Val(Start + ndrained) # sq_tail /\ Wait(t)
  \/ \E max \in 1 .. MaxDrain : Drain(max)

Running ==
  \/ SubmitWrite
  \/ WaitPrepare \/ WaitCheck \/ WaitWoken \/ WaitRefused
  \/ DrainCopy \/ DrainEnd

Next == Calls \/ Running \/ WaitExpires \/ WaitInterrupted \/ Irq \/ DeviceStep

Spec == Init /\ [][Next]_vars

\* The timer fires, the callback ends, interrupts are delivered and handled,
\* and a call that was made goes on; no call has to be made, and no timeout
\* has to expire.
FairSpec ==
  /\ Spec
  /\ WF_vars(DeviceStep)
  /\ WF_vars(Irq)
  /\ WF_vars(Running)

-----------------------------------------------------------------------------
(* Properties.                                                             *)

\* Every variable keeps its type: no counter leaves its 32 bits, engine_drain
\* copies no more than the caller's array holds, and the device completes no
\* more than was submitted.
TypeOK ==
  /\ DOMAIN sq = SqSlots /\ DOMAIN cq = CqSlots
  /\ mem \in [Buffers -> Data] /\ dev_buf \in Data
  /\ {sq_head, sq_tail, cq_tail, eng_sq_tail, eng_cq_head} \subseteq Counter
  /\ irq_status \in {0, 1}
  /\ {master, aimed, bar, line, timer, processing, did_work, woken} \subseteq BOOLEAN
  /\ irqMode \in {"msi", "intx"}
  /\ tpc \in {"idle", "submit", "prepare", "check", "sleep", "copy"}
  /\ hpc \in {"idle", "status", "ack", "wake"}
  /\ res \in {"none", "ok", "EAGAIN", "ETIMEDOUT"}
  /\ todo \in 0 .. MaxDrain
  /\ ndone \in 0 .. nsub /\ ndrained \in 0 .. ndone

\* No SQE is overwritten before the device consumed it, and the device
\* consumes what engine_submit wrote: the backpressure test of engine_submit
\* is right although REG_SQ_HEAD moves on after it was read.
SqesIntact ==
  \A i \in (ndone + 1) .. nsub : sq[SlotOf(Val(Start + i - 1), SqDepth)] = Sqe(i)

\* Every completion that was posted and not drained is intact in the CQ, and
\* engine_drain hands out completions in the order of submission: the cookie
\* is echoed exactly once.
CompletionsIntact ==
  /\ \A i \in (ndrained + 1) .. ndone :
       cq[SlotOf(Val(Start + i - 1), CqDepth)].cookie = i
  /\ tpc = "copy" =>
       \A k \in 1 .. Len(out) : out[k].cookie = ndrained + k

\* A thread sleeps in engine_wait with a completion in the CQ only while a
\* wake-up is on its way: the callback that posted it has yet to raise the
\* interrupt, or the interrupt is yet to be handled, or its handler is past
\* the status read.
NoLostWakeup ==
  tpc = "sleep" /\ ~woken /\ CqNotEmpty =>
    \/ processing /\ did_work
    \/ irq_status = 1 /\ (line \/ hpc = "status")
    \/ hpc \in {"ack", "wake"}

\* Every SQE the doorbell was rung for is completed: again and again the device
\* has caught up with its doorbell, whatever is submitted meanwhile.
RungIsCompleted == []<>(sq_head = sq_tail)

\* engine_wait returns without the help of its timeout.
WaitReturns == (tpc \in {"prepare", "check", "sleep"}) ~> (tpc = "idle")

\* dma_engine.c:150 "Check CQ has space" ... "CQ full, stop processing": the
\* device never posts more completions than the CQ has slots.
CqSpaceRespected == ndone - ndrained <= CqDepth

\* nic.h:101 "timeout_jiffies < 0 means wait forever": such a call never comes
\* back with -ETIMEDOUT.
NegativeWaitsForever ==
  [][waitArg = "negative" \/ Wait("negative") =>
       (res' = "ETIMEDOUT" => res = "ETIMEDOUT")]_vars
=============================================================================
