----------------------------- MODULE DmaDevice -----------------------------
(***************************************************************************)
(* The QEMU device model of 03-userspace-driver-dma-c (vm/dma_engine.c):   *)
(* submission and completion rings in guest memory, a doorbell that arms   *)
(* a timer, the timer callback dma_engine_process that consumes SQEs and   *)
(* produces CQEs, and the interrupt.                                       *)
(*                                                                         *)
(* The callback holds QEMU's big lock, and so does every register access:  *)
(* no register is read or written while it runs ("processing").  Guest     *)
(* memory is not under that lock: the driver touches the rings and the     *)
(* buffers between any two SQEs of one callback.                           *)
(*                                                                         *)
(* A buffer's contents and dev_buf are single values; the transfer length  *)
(* is left out.  Transfers may fail.  The device looks at no result of its *)
(* accesses to the rings; these are taken to succeed while bus mastering   *)
(* is on.                                                                  *)
(***************************************************************************)
EXTENDS Counters, Sequences

CONSTANTS
  SqDepth,    \* slots of the submission ring
  CqDepth,    \* slots of the completion ring
  Start       \* operations that went through an earlier use of the rings

ASSUME DmaAssumption == RingDepth(SqDepth) /\ RingDepth(CqDepth) /\ Start \in Nat

VARIABLES
  sq, cq,     \* the rings in guest memory
  mem,        \* guest data buffers
  master,     \* bus mastering is on: the device may access guest memory
  aimed,      \* the ring registers hold the base and depth of these rings
  bar,        \* BAR 0 is mapped; the driver's mmio pointer is NULL otherwise
  sq_head,    \* device: next SQE to consume
  sq_tail,    \* device: last doorbell value
  cq_tail,    \* device: next CQE to produce
  irq_status, \* device: IRQ_CQ_READY
  irqMode,    \* "msi" or "intx", as pci_alloc_irq_vectors found it
  line,       \* a latched MSI, or the level of the INTx pin
  timer,      \* dma_timer is armed
  processing, \* dma_engine_process is running
  did_work,   \* its local variable
  dev_buf     \* on-chip memory

devVars == <<sq_head, sq_tail, cq_tail, irq_status, line, timer, processing,
             did_work, dev_buf>>
memVars == <<sq, cq, mem, master, aimed, bar, irqMode>>

Buffers == {"src", "dst"}
Zero == 0                       \* contents of a cleared buffer
Hello == 1                      \* contents of the probe's source buffer
Data == {Zero, Hello}

ZeroSqe == [cookie |-> 0, op |-> "none", buf |-> "src"]
ZeroCqe == [cookie |-> 0, status |-> 0]

SqSlots == 0 .. (SqDepth - 1)
CqSlots == 0 .. (CqDepth - 1)

\* The device after realize (instance memory is zeroed), with Start operations
\* behind it, and the rings as dma_alloc_coherent returns them (zeroed).
DeviceInit ==
  /\ sq = [i \in SqSlots |-> ZeroSqe]
  /\ cq = [i \in CqSlots |-> ZeroCqe]
  /\ mem = [src |-> Hello, dst |-> Zero]
  /\ sq_head = Val(Start) /\ sq_tail = Val(Start) /\ cq_tail = Val(Start)
  /\ irq_status = 0
  /\ irqMode \in {"msi", "intx"} /\ line = FALSE
  /\ timer = FALSE /\ processing = FALSE /\ did_work = FALSE
  /\ dev_buf = Zero

\* A register access waits for the callback to end.  One through a NULL pointer
\* never gets to the device: ioread32 and iowrite32 of the x86 kernel only warn.
MmioFree == bar => ~processing

\* What the driver reads of the device's registers (dma_engine_mmio_read); all
\* bits set if the BAR is not mapped.
Reg == IF bar THEN [SQ_HEAD |-> sq_head, CQ_TAIL |-> cq_tail, IRQ_STATUS |-> irq_status]
       ELSE [r \in {"SQ_HEAD", "CQ_TAIL", "IRQ_STATUS"} |-> Modulus - 1]

\* Mutant of RegDoorbell: the timer is not armed.
RegDoorbell_NoTimer(val) ==
  /\ MmioFree
  /\ sq_tail' = IF bar THEN val ELSE sq_tail
  /\ UNCHANGED <<sq_head, cq_tail, irq_status, line, timer, processing,
                 did_work, dev_buf>>

\* The driver writes REG_SQ_DOORBELL.
RegDoorbell(val) ==
  /\ MmioFree
  /\ sq_tail' = IF bar THEN val ELSE sq_tail
  /\ timer' = (bar \/ timer)
  /\ UNCHANGED <<sq_head, cq_tail, irq_status, line, processing, did_work, dev_buf>>

\* dma_engine_lower_irq: the INTx pin goes down, a latched MSI stays.
LowerIrq == irq_status' = 0 /\ line' = (irqMode = "msi" /\ line)

\* The driver writes REG_IRQ_ACK.
RegIrqAck ==
  /\ MmioFree
  /\ IF bar THEN LowerIrq ELSE UNCHANGED <<irq_status, line>>
  /\ UNCHANGED <<sq_head, sq_tail, cq_tail, timer, processing, did_work, dev_buf>>

\* The timer expires and dma_engine_process starts.
TimerFires ==
  /\ timer /\ ~processing
  /\ timer' = FALSE
  /\ processing' = TRUE
  /\ did_work' = FALSE
  /\ UNCHANGED <<sq_head, sq_tail, cq_tail, irq_status, line, dev_buf, memVars>>

\* s->cq_tail - s->sq_head >= s->cq_depth
CqLooksFull == Minus(cq_tail, sq_head) >= CqDepth

\* Whether a DMA transfer of the given op fails: any may, an unknown op is
\* refused, and without bus mastering all do.
Statuses(op) ==
  IF op \notin {"TX", "RX"} THEN {-22} ELSE IF master THEN {0, -1} ELSE {-1}

\* What the DMA read of the SQE yields.  Its result is not checked: without
\* bus mastering the local variable stays uninitialized, and with registers
\* that are not set for the rings the read hits other memory.  A read of the
\* ring itself is taken to succeed.
FetchedSqes ==
  IF master /\ aimed THEN {sq[SlotOf(sq_head, SqDepth)]}
  ELSE [cookie : {0}, op : {"none", "TX", "RX"}, buf : Buffers]

\* Mutant of PostCqe: the slot is masked with the depth of the SQ.
PostCqe_SqIndex(cqe) ==
  cq' = IF master /\ aimed THEN [cq EXCEPT ![SlotOf(cq_tail, SqDepth)] = cqe] ELSE cq

\* DMA-write of the CQE; its result is not checked either, and a write to the
\* ring itself is taken to succeed.
PostCqe(cqe) ==
  cq' = IF master /\ aimed THEN [cq EXCEPT ![SlotOf(cq_tail, CqDepth)] = cqe] ELSE cq

\* What dev_buf may hold after the transfer; a failed one leaves anything.
DevBufAfter(sqe, status) ==
  IF sqe.op # "TX" THEN {dev_buf}
  ELSE IF status = 0 THEN {mem[sqe.buf]} ELSE Data

\* What guest memory may hold; a failed transfer may have happened or not.
MemAfter(sqe, status) ==
  LET moved == [mem EXCEPT ![sqe.buf] = dev_buf]
  IN  IF sqe.op # "RX" \/ ~master THEN {mem}
      ELSE IF status = 0 THEN {moved} ELSE {moved, mem}

\* One iteration of the loop of dma_engine_process.
ProcessSqe ==
  /\ processing /\ sq_head # sq_tail /\ ~CqLooksFull
  /\ \E sqe \in FetchedSqes : \E status \in Statuses(sqe.op) :
       /\ dev_buf' \in DevBufAfter(sqe, status)
       /\ mem' \in MemAfter(sqe, status)
       /\ PostCqe([cookie |-> sqe.cookie, status |-> status])
  /\ sq_head' = Val(sq_head + 1)
  /\ cq_tail' = Val(cq_tail + 1)
  /\ did_work' = TRUE
  /\ UNCHANGED <<sq, master, aimed, bar, irqMode, sq_tail, irq_status, line, timer,
                 processing>>

\* Mutant of RaiseIrq: the MSI branch is missing.
RaiseIrq_NoMsi == irq_status' = 1 /\ line' = (line \/ irqMode = "intx")

\* dma_engine_raise_irq: an MSI is latched, or the INTx pin goes up.
RaiseIrq == irq_status' = 1 /\ line' = TRUE

\* The loop ends; the interrupt is raised if it did any work.
ProcessEnd ==
  /\ processing /\ (sq_head = sq_tail \/ CqLooksFull)
  /\ processing' = FALSE
  /\ IF did_work THEN RaiseIrq ELSE UNCHANGED <<irq_status, line>>
  /\ UNCHANGED <<sq_head, sq_tail, cq_tail, timer, did_work, dev_buf, memVars>>

Device == TimerFires \/ ProcessSqe \/ ProcessEnd
=============================================================================
