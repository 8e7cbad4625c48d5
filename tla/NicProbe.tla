------------------------------ MODULE NicProbe ------------------------------
(***************************************************************************)
(* The life of the driver (nic.c: dma_engine_probe with its smoke test,    *)
(* engine_create, engine_destroy, dma_engine_remove) on top of DmaEngine.  *)
(* insmod binds the driver, rmmod removes it, and it may be loaded again.  *)
(* The probe calls the engine; its thread, the interrupt handler and the   *)
(* device interleave.                                                      *)
(***************************************************************************)
EXTENDS DmaEngine

CONSTANTS
  MaxLoads,  \* how often the driver is loaded
  Faults     \* calls of engine_create and the probe that may fail

\* The first probe meets a device that nobody has used.
ASSUME ProbeAssumption ==
  /\ MaxLoads \in Nat /\ Start = 0
  /\ Faults \subseteq {"kzalloc", "sq", "cq", "iomap", "request_irq", "kmalloc"}

VARIABLES
  stage,      \* where dma_engine_probe, the remove or the destroy is
  loads,      \* loads so far
  fault,      \* the call that fails in this load, or "none"
  nregs,      \* ring registers engine_create has written
  mapped,     \* buffers mapped for the device
  ringsLive,  \* the SQ and CQ memory is allocated
  irqOn,      \* the interrupt handler is registered
  verdict,    \* what the last probe reported
  trouble     \* what made a probe fail so far: "timeout", "bad"

probeVars == <<stage, loads, fault, nregs, mapped, ringsLive, irqOn, verdict, trouble>>
pvars == <<vars, probeVars>>

PInit ==
  /\ DeviceInit /\ master = FALSE /\ aimed = FALSE /\ bar = FALSE /\ EngineInit
  /\ stage = "unbound" /\ loads = 0 /\ fault = "none" /\ nregs = 0
  /\ mapped = {} /\ ringsLive = FALSE /\ irqOn = FALSE
  /\ verdict = "none" /\ trouble = {}

Goto(s) ==
  /\ stage' = s
  /\ UNCHANGED <<loads, fault, nregs, mapped, ringsLive, irqOn, verdict, trouble>>

TxSqe == [cookie |-> 1, op |-> "TX", buf |-> "src"]    \* 0xCAFE
RxSqe == [cookie |-> 2, op |-> "RX", buf |-> "dst"]    \* 0xBEEF

-----------------------------------------------------------------------------
(* Probe.                                                                  *)

\* No result of a call that may fail is looked at: a pointer that is NULL is
\* used all the same.

\* Bus mastering on, a zeroed engine, zeroed rings and BAR 0 mapped if it can
\* be.  The device's indices are not touched.
Probe ==
  /\ stage = "unbound" /\ loads < MaxLoads
  /\ sq' = [i \in SqSlots |-> ZeroSqe] /\ cq' = [i \in CqSlots |-> ZeroCqe]
  /\ master' = TRUE
  /\ eng_sq_tail' = 0 /\ eng_cq_head' = 0
  /\ cur' = ZeroSqe /\ todo' = 0 /\ out' = <<>> /\ res' = "none"
  /\ nsub' = 0 /\ ndone' = 0 /\ ndrained' = 0
  /\ fault' \in Faults \cup {"none"}
  /\ bar' = (fault' # "iomap")
  /\ stage' = "regs" /\ loads' = loads + 1 /\ nregs' = 0
  /\ ringsLive' = TRUE /\ verdict' = "none"
  /\ UNCHANGED <<mem, aimed, irqMode, devVars, tpc, waitArg, woken, hpc,
                 mapped, irqOn, trouble>>

\* The registers REG_SQ_BASE_LO to REG_CQ_DEPTH.
RingRegs == 6

\* engine_create writes the next ring register; the write gets to the device
\* only through a mapped BAR.
WriteReg ==
  /\ stage = "regs" /\ MmioFree /\ fault # "kzalloc"
  /\ nregs' = nregs + 1
  /\ aimed' = (bar /\ nregs' = RingRegs /\ fault \notin {"sq", "cq"})
  /\ stage' = IF nregs' = RingRegs THEN "request_irq" ELSE "regs"
  /\ UNCHANGED <<sq, cq, mem, master, bar, irqMode, devVars, threadVars, woken, hpc,
                 ndone, loads, fault, mapped, ringsLive, irqOn, verdict, trouble>>

\* pci_alloc_irq_vectors finds MSI or INTx, with the pin as it is.
RequestIrq ==
  /\ stage = "request_irq"
  /\ irqMode' \in {"msi", "intx"}
  /\ line' = (irqMode' = "intx" /\ line)
  /\ irqOn' = (fault # "request_irq")
  /\ stage' = "irq_requested"
  /\ UNCHANGED <<sq, cq, mem, master, aimed, bar, sq_head, sq_tail, cq_tail, irq_status,
                 timer, processing, did_work, dev_buf, threadVars, woken, hpc, ndone,
                 loads, fault, nregs, mapped, ringsLive, verdict, trouble>>

\* The wait queue is initialized; the buffers are filled and mapped.
ProbeMap ==
  /\ stage = "irq_requested" /\ fault # "kmalloc"
  /\ woken' = FALSE
  /\ mem' = [src |-> Hello, dst |-> Zero]
  /\ mapped' = Buffers
  /\ stage' = "tx_submit"
  /\ UNCHANGED <<sq, cq, master, aimed, bar, irqMode, devVars, threadVars, hpc, ndone,
                 loads, fault, nregs, ringsLive, irqOn, verdict, trouble>>

\* The calls of the smoke test; engine_submit's result is not looked at.
SmokeCalls ==
  \/ stage = "tx_submit" /\ SubmitCheck(TxSqe) /\ Goto("tx_doorbell")
  \/ stage = "tx_doorbell" /\ Doorbell /\ Goto("tx_wait")
  \/ stage = "tx_wait" /\ Wait("finite") /\ Goto("tx_waited")
  \/ stage = "tx_waited" /\ res = "ok" /\ Drain(1) /\ Goto("tx_drained")
  \/ stage = "rx_submit" /\ SubmitCheck(RxSqe) /\ Goto("rx_doorbell")
  \/ stage = "rx_doorbell" /\ Doorbell /\ Goto("rx_wait")
  \/ stage = "rx_wait" /\ Wait("finite") /\ Goto("rx_waited")
  \/ stage = "rx_waited" /\ res = "ok" /\ Drain(1) /\ Goto("rx_drained")

Fail(v) ==
  /\ verdict' = v
  /\ trouble' = trouble \cup {v}
  /\ stage' = "err_unmap"
  /\ UNCHANGED <<vars, loads, fault, nregs, mapped, ringsLive, irqOn>>

TimedOut ==
  /\ stage \in {"tx_waited", "rx_waited"} /\ tpc = "idle" /\ res = "ETIMEDOUT"
  /\ Fail("timeout")

\* Mutant of GoodCqe: the status is not looked at.
GoodCqe_NoStatus == todo = 1

\* n == 1 && cqe.status == 0; the cookie is not compared.
GoodCqe == todo = 1 /\ out[1].status = 0

BadCqe ==
  /\ stage \in {"tx_drained", "rx_drained"} /\ tpc = "idle" /\ ~GoodCqe
  /\ Fail("bad")

\* Mutant of TxDone: the RX buffer is unmapped as well.
TxDone_UnmapsBoth ==
  /\ stage = "tx_drained" /\ tpc = "idle" /\ GoodCqe
  /\ mapped' = {}
  /\ stage' = "rx_submit"
  /\ UNCHANGED <<vars, loads, fault, nregs, ringsLive, irqOn, verdict, trouble>>

\* The drained CQE is good: unmap the buffer and go on.
TxDone ==
  /\ stage = "tx_drained" /\ tpc = "idle" /\ GoodCqe
  /\ mapped' = mapped \ {"src"}
  /\ stage' = "rx_submit"
  /\ UNCHANGED <<vars, loads, fault, nregs, ringsLive, irqOn, verdict, trouble>>

RxDone ==
  /\ stage = "rx_drained" /\ tpc = "idle" /\ GoodCqe
  /\ mapped' = mapped \ {"dst"}
  /\ stage' = "verify"
  /\ UNCHANGED <<vars, loads, fault, nregs, ringsLive, irqOn, verdict, trouble>>

\* memcmp(src, dst, 18): the driver stays bound, or takes err_free.
Verify ==
  /\ stage = "verify"
  /\ IF mem["src"] = mem["dst"]
       THEN verdict' = "passed" /\ stage' = "bound"
       ELSE verdict' = "mismatch" /\ stage' = "destroy"
  /\ UNCHANGED <<vars, loads, fault, nregs, mapped, ringsLive, irqOn, trouble>>

\* Mutant of ErrUnmap: only the TX buffer is unmapped.
ErrUnmap_TxOnly ==
  /\ stage = "err_unmap"
  /\ mapped' = mapped \ {"src"}
  /\ stage' = "destroy"
  /\ UNCHANGED <<vars, loads, fault, nregs, ringsLive, irqOn, verdict, trouble>>

\* err_unmap and err_free: what is still mapped is unmapped and freed.
ErrUnmap ==
  /\ stage = "err_unmap"
  /\ mapped' = {}
  /\ stage' = "destroy"
  /\ UNCHANGED <<vars, loads, fault, nregs, ringsLive, irqOn, verdict, trouble>>

\* rmmod: dma_engine_remove.
Remove == stage = "bound" /\ Goto("destroy") /\ UNCHANGED vars

-----------------------------------------------------------------------------
(* engine_destroy, in its order.                                           *)

\* free_irq waits for a running handler; pci_free_irq_vectors turns MSI off.
FreeIrq ==
  /\ stage = "destroy" /\ hpc = "idle"
  /\ irqOn' = FALSE
  /\ irqMode' = "intx"
  /\ line' = (irqMode = "intx" /\ line)
  /\ stage' = "free_rings"
  /\ UNCHANGED <<sq, cq, mem, master, aimed, bar, sq_head, sq_tail, cq_tail, irq_status, timer,
                 processing, did_work, dev_buf, threadVars, woken, hpc, ndone,
                 loads, fault, nregs, mapped, ringsLive, verdict, trouble>>

\* The ring registers keep the addresses of the memory that is freed.
FreeRings ==
  /\ stage = "free_rings"
  /\ ringsLive' = FALSE
  /\ aimed' = FALSE
  /\ stage' = "clear_master"
  /\ UNCHANGED <<sq, cq, mem, master, bar, irqMode, devVars, threadVars, woken, hpc, ndone,
                 loads, fault, nregs, mapped, irqOn, verdict, trouble>>

\* pci_clear_master, pci_iounmap and what follows.
ClearMaster ==
  /\ stage = "clear_master"
  /\ master' = FALSE /\ bar' = FALSE
  /\ stage' = "unbound"
  /\ UNCHANGED <<sq, cq, mem, aimed, irqMode, devVars, threadVars, woken, hpc, ndone,
                 loads, fault, nregs, mapped, ringsLive, irqOn, verdict, trouble>>

\* The thread died on a NULL pointer, or the handler did.
Crashed == stage \in {"oops", "panic"}

\* The thread uses a NULL pointer to memory: the engine, a buffer, the SQ in
\* engine_submit, the CQ in engine_drain.  A NULL BAR stops nobody.
UsesNull ==
  \/ fault = "kzalloc" /\ stage = "regs"
  \/ fault = "kmalloc" /\ stage = "irq_requested"
  \/ fault = "sq" /\ tpc = "submit"
  \/ fault = "cq" /\ tpc = "copy"

Oops == ~Crashed /\ UsesNull /\ Goto("oops") /\ UNCHANGED vars

Driver ==
  \/ Probe \/ WriteReg \/ RequestIrq \/ ProbeMap
  \/ SmokeCalls \/ TimedOut \/ BadCqe \/ TxDone \/ RxDone \/ Verify
  \/ ErrUnmap \/ FreeIrq \/ FreeRings \/ ClearMaster
  \/ Oops
  \/ ~Crashed /\ ~UsesNull /\ Running /\ UNCHANGED probeVars

Expires == ~Crashed /\ WaitExpires /\ UNCHANGED probeVars

\* A wake-up before init_waitqueue_head walks a list of null pointers.
Interrupt ==
  /\ irqOn /\ ~Crashed /\ Irq
  /\ IF hpc = "wake" /\ stage = "irq_requested" THEN Goto("panic")
     ELSE UNCHANGED probeVars

Hardware == DeviceStep /\ UNCHANGED probeVars

\* All loads are used up, or there was a crash.
Idle ==
  /\ Crashed \/ (stage = "unbound" /\ loads = MaxLoads)
  /\ UNCHANGED pvars

PNext == Driver \/ Remove \/ Expires \/ Interrupt \/ Hardware \/ Idle

PSpec == PInit /\ [][PNext]_pvars

\* The kernel runs the probe, the device and the handler; nobody has to call
\* rmmod.  A timeout has to expire only where there is no handler to wake the
\* probe, or where the engine starts from other indices than the device.  An
\* INTx pin that is up while the BAR is not mapped is never acknowledged and
\* the handler is entered again and again; free_irq takes it off the list and
\* waits for one run only.
PFairSpec ==
  /\ PSpec
  /\ WF_pvars((~irqOn \/ loads > 1) /\ Expires)
  /\ WF_pvars(Driver) /\ SF_pvars(FreeIrq)
  /\ WF_pvars(Interrupt)
  /\ WF_pvars(Hardware)

-----------------------------------------------------------------------------
(* Properties.                                                             *)

\* On a device nobody has used the comparison at the end of the smoke test is
\* right about the device.  With BAR 0 mapped there is no mismatch: what TX
\* stored in the device RX returns, and each engine_wait of the probe waits for
\* its own completion.  Without it every register reads as all ones, both waits
\* and both CQEs look good, and only the comparison stands between a driver that
\* never talked to the device and "smoke test PASSED".
RoundTrips ==
  loads = 1 /\ verdict \in {"passed", "mismatch"} =>
    (verdict = "passed" <=> fault # "iomap")

\* In the first load, with both rings allocated and as long as no wait has timed
\* out, the device accesses memory only while the driver owns it: the ring
\* registers are complete, the rings are allocated and the buffer of the SQE is
\* mapped.
DmaOnlyToMapped ==
  /\ processing /\ sq_head # sq_tail /\ master
  /\ loads = 1 /\ fault \notin {"sq", "cq"} /\ "timeout" \notin trouble
  =>
    aimed /\ ringsLive /\ sq[SlotOf(sq_head, SqDepth)].buf \in mapped

\* request_irq comes before init_waitqueue_head.  The handler gets into that gap
\* only in a later load, and then only because an earlier load left the INTx
\* pin up or, by a wait that timed out, the device at work.  From the third load
\* on the device may be at work without a timeout too: the engine of the second
\* load starts from other indices than the device, and does not wait for its own
\* completions.
EarlyWakeup ==
  stage = "panic" =>
    loads > 1 /\ (irqMode = "intx" \/ "timeout" \in trouble \/ loads > 2)

\* Whatever way the probe ends, nothing stays mapped, and a driver that is not
\* bound has no rings, no handler, no bus mastering and no BAR.
CleansUp ==
  /\ stage \in {"bound", "unbound"} => mapped = {}
  /\ stage = "unbound" => ~ringsLive /\ ~irqOn /\ ~master /\ ~bar

\* Each probe ends; the first one, if its handler is registered, without the
\* help of a timeout.
ProbeEnds == (stage = "regs") ~> (stage \in {"bound", "unbound"} \/ Crashed)

\* vm/boot.sh:13 "sudo insmod nic.ko    # probe fires, smoke test runs", :14
\* 'look for "smoke test PASSED"', :15 "sudo rmmod nic": when the module is
\* loaded again after a probe that passed, and no wait or transfer fails, the
\* smoke test does not report a mismatch.
ReloadPasses == loads = 2 /\ trouble = {} => verdict # "mismatch"
=============================================================================
