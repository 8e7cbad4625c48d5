# TLA+ models of systems-prep

The repository is a set of small systems programs: lock-free rings in C and
C++, a PCI driver with its emulated DMA device, and the beginnings of a
collectives library. This directory holds TLA+ models of the parts that have
behaviour, TLC configurations that check them on small instances, and TLAPS
proofs for every value of the constants.

## Inventory

| Component | State | Operations | Interaction |
|---|---|---|---|
| SPSC ring, `01-spsc-ring-buffer-c` | `head`, `tail` (atomic `uint64_t`), `cached_tail` (producer's), `cached_head` (consumer's), slots | create, destroy, push, pop, push_n, pop_n, size, empty, full | two threads, through release stores and acquire loads of head and tail; slots are plain memory |
| MPSC queue, `02-mpmc-ring-buffer-cpp` | `head_`, `tail_`, per cell `data_` and `is_ready` | push, pop, size, empty, full | producers race by a CAS on head; each publishes its cell by a flag |
| DMA device, `03-…/vm/dma_engine.c` | registers, indices, timer, interrupt, on-chip buffer | doorbell, timer callback, interrupt raise and acknowledge | reads and writes the rings in guest memory, interrupts the driver |
| Driver engine, `03-…/nic.c` | `sq_tail`, `cq_head`, wait queue, rings | submit, doorbell, wait, drain, interrupt handler | registers (serialized with the device's callback), ring memory (not serialized), wait queue |
| Driver life cycle, `03-…/nic.c` | mappings, rings, handler, bus mastering | probe with its smoke test, remove, engine_create, engine_destroy | calls the engine; the device runs on meanwhile |
| In-process transport, `04-…/transport_inproc.cpp` | one queue, mutex and condition variable per pair of ranks | send, recv | threads of the ranks |
| Collectives 04 and 05 | – | – | stubs |

What is hard here: the two rings depend on memory ordering and on unsigned
differences of counters that wrap; the size of a ring is two loads; MPSC
producers finish out of the order in which they claimed; the driver tests a
register, sleeps and is woken by an interrupt from a device that goes on
working; a wait may time out while the device still owns memory; the device
keeps its indices when the driver is unloaded, and an interrupt or an armed
timer may outlive it; and the transport notifies one thread, outside the mutex,
while several may wait.

What makes each part correct:

* rings: no data race on a slot, no item overwritten before it is read, every
  item delivered once and in order, a call that fails changes nothing, and both
  retry loops end;
* driver engine: no SQE overwritten before the device consumed it, no
  completion lost, reordered or returned twice, no lost wake-up, every rung SQE
  completed;
* driver life cycle: data round-trips, a driver that did not reach its device
  notices, the device touches only memory the driver has given it, everything is released on every path, the probe ends;
* transport: one FIFO per pair of ranks, each message to one receiver, exact
  lengths, and no receiver blocked beside a message.

`PROJECT.json` lists each hazard at its line with the properties aimed at it.

## Modules

| Module | Models | |
|---|---|---|
| `Counters` | free-running unsigned counters: value, difference, slot | |
| `BoundedFifo` | abstract specification: a FIFO of at most `Capacity` items, with atomic batch put and take | |
| `SpscRing` | `spsc_ring.c` driven by two threads | EXTENDS Counters, refines BoundedFifo |
| `SpscCreate` | `spsc_ring_create` and the bytes push and pop touch | |
| `SpscTelemetry` | size, empty, full beside a running ring | EXTENDS SpscRing |
| `MpscQueue` | `mpmc_queue.hpp` with any number of producers and its one consumer | EXTENDS Counters, refines BoundedFifo |
| `DmaDevice` | `vm/dma_engine.c` | EXTENDS Counters |
| `DmaEngine` | the engine calls and the interrupt handler, composed with the device | EXTENDS DmaDevice |
| `NicProbe` | probe, smoke test, remove, destroy, composed with the engine | EXTENDS DmaEngine |
| `Channels` | abstract specification: one FIFO per ordered pair of ranks | |
| `InProcTransport` | `transport_inproc.cpp` with several threads per rank | refines Channels |
| `CountersProofs` | lemmas about wrapping counters | EXTENDS Counters |
| `SpscRingProofs`, `SpscTelemetryProofs`, `MpscQueueProofs`, `DmaEngineProofs`, `NicProbeProofs`, `InProcTransportProofs` | inductive invariants and theorems about the module each is named after | |

Some definitions come before the one they vary and are called
`<Name>_<Bug>`: `StoreTail_Relaxed`, `LooksFull_OffByOne`. They are mutants,
plausible bugs used to see that the properties notice them (`PROJECT.json`,
"mutants"); no specification uses them.

### SpscRing

Every atomic access of push, push_n, pop and pop_n is a step (`Push`,
`PushRefresh`, `PushWrite`, `PushPublish`, and so on); a memcpy is a step too.
The counters are kept as counts of items (`produced`, `consumed`); the values
the code computes with are `Val(count)`, modulo `Modulus`, and every comparison
of the code is made on those. An item is its number in the producer's stream.

The two threads are the loops of `test_spsc.c` and `bench_spsc.c`
(`ProducerSingle`, `ProducerBatch`, `ConsumerSingle`, `ConsumerBatch`): a call
that fails is made again, and each call may be the single or the batch form.

*Memory model.* The other thread sees the stores to an index as a set of
messages: an acquire load may return any store it has not moved past, the newest
or a stale one, and never an older one than it has already seen (coherence). A
message carries a view, the number of slot accesses that happen before the
release store, and an acquire load takes the view over. Slots are plain memory:
an access is free of a race when the conflicting access of the other thread is
in the view. A store that is relaxed instead of release (the mutant
`StoreTail_Relaxed`) therefore breaks `NoRace`, although no interleaving of
sequentially consistent steps would show it.

### SpscCreate

The ring in bytes, used by one thread: `Create` allocates `capacity * elem_size`
modulo `SizeMod`, `Push` and `Pop` record the bytes their memcpy touches. Every
pair of arguments below `SizeMod` is tried.

### SpscTelemetry

`size` is two relaxed loads, head first. On an owner's thread one of the two is
the thread's own counter, so one step is enough; on a third thread they are two
steps, each returning any store coherence allows.

### MpscQueue

The CAS is two actions: `PushClaim` succeeds, `PushRetry` fails, spuriously too
(`compare_exchange_weak`). The view of a consumer is the position whose
write the flag it loaded published; that of a producer the positions whose reads
the tail it loaded published. With `StaleLoads = FALSE` every load returns the
newest store. A producer may stop for ever between any two steps, its claim and
its flag included.

The constructor takes any capacity. The assumption on `Capacity` asks for a
divisor of the modulus only when the counters wrap, because `idx % capacity_`
jumps at the wrap otherwise; for 64-bit counters that is 2^64 pushes away.

### DmaDevice and DmaEngine

The device's callback `dma_engine_process` and all register accesses hold QEMU's
big lock, so no register is accessed while `processing`; the rings are guest
memory and are accessed between any two SQEs of one callback. `bar` says whether
BAR 0 is mapped: through a NULL pointer `ioread32` and `iowrite32` of the x86
kernel, which the VM runs, only warn, so that a read yields all ones, a write is
lost and nobody waits for the callback (`MmioFree`, `Reg`).

A transfer of data may fail. The device does not check the results of its DMA
reads and writes of the rings themselves: without bus mastering its local SQE is
uninitialized (a choice over all SQEs) and its CQE is lost. With bus mastering
on and the registers set these accesses are taken to succeed, an assumption
about the machine: the rings are coherent guest memory, and the model has no IOMMU. The interrupt is an MSI (latched, consumed on entry)
or INTx (a level). `aimed` says that the six ring registers hold the addresses
and depths of the rings the driver uses; while it is false the SQE the device
reads is any SQE and its CQE goes elsewhere. `Reg` is the part of `mmio_read`
the driver reads.

`engine_wait` is `wait_event_interruptible_timeout`, expanded into test,
prepare, test, sleep. When its condition holds the macro yields the time that is
left; for a negative timeout that is the negative number, and `engine_wait`
returns -ETIMEDOUT beside a completion (`Result`). When it does not hold,
`schedule_timeout` refuses a negative timeout and returns zero at once
(`WaitRefused`). `waitArg` is the timeout of the call that runs. `IrqHandler` has one disjunct per step of the handler:
read the status, acknowledge, wake.

`nsub`, `ndone` and `ndrained` count operations and exist for the properties
and for the caller's discipline (`MaxOutstanding`); no guard of the engine or of
the device reads them.

### NicProbe

One stage per call of the probe. Errors go through `ErrUnmap` and the steps of
`engine_destroy` in their order: handler freed, rings freed, bus mastering
cleared. `Probe` leaves the device's indices alone, as `engine_create` does,
and the ring registers are written one at a time (`WriteReg`), so that a device
an earlier load left at work may run in between.

`Faults` are the calls whose result the code does not look at. At most one of
them fails in a load, and the model follows the failure to its end. A NULL
pointer to memory, the engine, a ring or a buffer, ends where it is used
(`UsesNull`, stage "oops"). A NULL BAR ends nothing: the ring registers stay as
they were, SQ head and CQ tail read as all ones, both waits return at once, both
drained CQEs are zeroed memory with status 0, and the probe comes as far as its
`memcmp`. `RoundTrips` says that this comparison is right, in the first load:
it passes if the BAR was mapped and fails if it was not. (With an SQ of 2 the
second `engine_submit` without a BAR returns -EAGAIN, with the driver's 16 it
does not; its result is ignored, nothing reaches the device, and what follows is
the same.) A failed `request_irq` only leaves the probe without a handler.

The rings of a load are taken to be elsewhere than those of an earlier load, so
that `aimed` is false from `FreeRings` on until all six registers are written. `request_irq` comes before `init_waitqueue_head`; a handler
that wakes in this gap ends the model in stage "panic", and `EarlyWakeup` says
who can bring this about.

### InProcTransport and Channels

One step for the range check and the copy, one for taking the mutex, one for
`push` and the end of the `lock_guard`, one for `notify_one` without the mutex;
in `recv` one each for the mutex, for the test of the predicate with the release
and block of `wait`, for `front`, `pop` and unlock, and for the size check and
the return. A blocked thread is in `cv[i]`; `notify_one` takes some thread out,
`SpuriousWakeup` any. Allocations in `send` may throw; an exception releases the
mutex. A message is its length and the identity of the call that sent it.

`Channels` has the calls of each thread beside the channels: `Send` and `Put`,
`Recv` and `Take`, and how they end. A call reports "sent" after its `Put` and in
no other way, and a `recv` ends in "received" exactly if the message it took has
the length it asked for ("len is exact", `collective.hpp`); otherwise that
message is dropped. Channel `<<src, dst>>` is queue `src * n + dst`, and `CallOf`
reads a thread's call off its program counter and locals. The assumption that
`None` is neither a number nor a message only says that the marker for "nothing"
is not mistaken for something.

## Runs

| Run | Result | Shows |
|---|---|---|
| `spsc_ring` | pass | four slots, counters modulo 8, nine items, batches up to 5: `NoRace`, `NoOverwrite`, `InOrder`, `ImplementsFifo` (refinement of BoundedFifo); `Delivered`: both retry loops end although loads may be stale; `PublishedIsConsumed`: a producer that stops anywhere keeps no published item from the consumer |
| `spsc_size_owners` | pass | `size()` on an owner's thread errs on the safe side (`OwnerSizeIsSafe`), and "not full" or "not empty" binds the next call (`SizeIsBinding`) |
| `spsc_size_watcher` | violation | `size()` on a third thread may return a number near 2^64 |
| `spsc_create_overflow` | violation | `create` accepts a capacity and an element size whose product overflows, and push leaves the buffer |
| `mpsc_queue` | pass | two producers, two cells, stale loads, wrapping counters: `NoRace`, `ImplementsFifo`, `Delivered`; `OnlyUnfinishedBlocks`: a producer that dies in a push holds the consumer up at its own position and nowhere else |
| `mpsc_false_full` | violation | push returns false on a queue that was never full |
| `dma_engine` | pass | `SqesIntact`, `CompletionsIntact`, `NoLostWakeup` over all mixes of engine calls, with finite and negative timeouts; rung SQEs are completed (`RungIsCompleted`), and `engine_wait` returns without its timeout (`WaitReturns`) |
| `dma_cq_overflow` | violation | the device's CQ check never stops it |
| `dma_wait_forever` | violation | a negative timeout does not wait for ever, and is reported as -ETIMEDOUT even beside a completion |
| `probe` | pass | three loads with failing transfers, timeouts and failing calls: `RoundTrips` (the comparison passes exactly if the driver reached the device) and `DmaOnlyToMapped`, both in the first load, `CleansUp`, `EarlyWakeup`, `ProbeEnds` |
| `probe_reload` | violation | insmod, rmmod, insmod ends in a mismatch |
| `transport` | pass | three threads on two ranks: `NoLostWakeup`, `ImplementsChannels` (refinement of Channels: order, one receiver for each message, "sent" only what went in, exact lengths), `NobodyForgotten` (no receiver stays blocked beside a message) |

A violation run checks one sentence of the repository's docs or comments; the
`findings` of `PROJECT.json` quote it and say what the code does.

### Bounds

* Two or four slots and a modulus of two to four times as much: the counters
  wrap during the passing runs of the rings and of the engine, and the item
  counts let a ring go full, empty and around the wrap. `MaxBatch` is larger
  than the capacity.
* SPSC with four slots has batches that cross the end of the buffer at each
  position. MPSC with two producers has every pairwise race, and one of them can
  push a whole lap while the other stands before its CAS. `Start` puts the wrap
  of the MPSC and DMA counters in the middle of the run: a queue or a device
  that was used before.
* `dma_engine` uses a CQ of 4 and an SQ of 2 with at most 3 outstanding
  operations, five in all: the counters wrap at the third and a CQ slot is
  reused at the fifth. `CompletionsIntact` needs a CQ as deep as the operations
  that are outstanding; without this discipline of the caller it does not hold
  (`dma_cq_overflow`), because nothing in the device or the driver enforces it.
* `probe` uses rings of 2; the probe has at most one operation in flight. A
  second load meets what the first leaves behind: indices, an INTx pin, an armed
  timer, stale ring registers. The engine of the second load starts from zero
  while the device goes on from its own indices, so it may be through before the
  device is; the third load is there for what this leaves behind. `RoundTrips`
  and `DmaOnlyToMapped` speak of the first load, since the second already fails
  for the reason `probe_reload` shows.
* `transport` has three threads on two ranks, so that two of them can send on
  one channel or receive on one channel while the third is their peer, and two
  messages. Of the lengths only "asked for" and "not asked for" matter; the one
  not asked for is zero, the empty message.
* `spsc_create_overflow` has a `size_t` of four bits; a product overflows as it
  does with 64.

### Fairness

* SPSC: a thread that runs takes its steps (`WF`), and a load that it repeats
  for ever does not return a stale value for ever (`SF` on the load of the newest
  store). C11 7.17.3 asks for this: stores become visible in a reasonable amount
  of time. The specification has this for the consumer only; `Delivered` has it
  for the producer as its hypothesis, `PublishedIsConsumed` does without it.
* MPSC: the specification is fair to the consumer only, with loads that become
  fresh as above. `Delivered` has as its hypothesis `ProducersRun`: the
  producers run, and a CAS tried again and again on the current head does not fail
  spuriously for ever (`SF` on `PushClaim`). That a producer is not overtaken for
  ever needs no assumption, since the others run out of items.
  `OnlyUnfinishedBlocks` does without the hypothesis.
* DMA: the timer fires, the callback goes on, interrupts are delivered and
  handled, a call that was made goes on. No call has to be made and no timeout
  or signal has to occur, so `WaitReturns` does not rest on the timeout. In the
  probe a timeout has to expire only where no handler is registered or where a
  second load meets the indices of the first, so that `ProbeEnds` does not rest
  on it otherwise. `free_irq` is strongly fair: an INTx pin that an earlier load
  left up is never acknowledged while the BAR is not mapped, and the handler is
  entered again and again; `free_irq` takes it off the list first and waits for
  one run of it only.
* Transport: a thread inside a call that can go on does (`WF` for each thread).
  Nobody has to make a call, no spurious wake-up has to occur, and the mutex may
  pass a waiting thread by for ever.

## Proofs

`SpscRingProofs` proves, for every capacity that divides the modulus and is
smaller (`RingDepth`: what create's power-of-two test gives for a capacity below
2^64), every number of items and every batch size:

* `TypeCorrect` – `TypeOK`, with it that no memcpy leaves the buffer;
* `RaceFreedom` – `NoRace`;
* `NoSilentOverwrite` – `NoOverwrite`;
* `FifoOrder` – `InOrder`.

None of these is inductive. `IInv` adds what the threads know of each other.
`IndexInv` says that a cached index is an old value of the other side's counter
and that `produced` is within a lap of the tail the producer has *seen*, which is
stronger than within a lap of the real one; this makes the unsigned differences
the code computes equal to the real distances (`Distances`), so that a check on a
stale index can only be too careful. `ViewInv` says that every store still
visible publishes exactly the slot accesses up to its count, `ProducerInv` and
`ConsumerInv` carry the room or the items a call has made sure of from its check
to its memcpy and its store, and `ContentInv` says that each item copied in and
not released is in its slot. There is one lemma per action, with one step per
conjunct; `CopyInFacts` and `CopyOutFacts` are about the split memcpys.

`CountersProofs` has the arithmetic: `MinusVal` (the unsigned difference of two
wrapped counters is their distance), `SlotVal` (masking does not notice a wrap),
`ModDistinct` (two items less than a lap apart have different slots).

`Refinement` shows that the ring implements BoundedFifo (`ImplementsFifo`): the
store of head is the put of all items copied in since the last one, the store of
tail the take, and every other step leaves the abstract queue alone.

### Telemetry

`SpscTelemetryProofs` proves `OwnerSizeSafety` (`OwnerSizeIsSafe`) and `SizeBinds`
(the action property `SizeIsBinding`) for owners that call size at any time.
`OwnerSizeIsSafe` does not give the second: the push that follows makes a load of
its own. `SizeInv` adds that every store the owner may still load agrees with the
size it was told, which is coherence put as an invariant.

### MPSC queue

`MpscQueueProofs` proves `TypeSafety`, `RaceFreedom` (`NoRace`) and `Refinement`
(`ImplementsFifo`) for any finite set of producers, any capacity (one that divides
the modulus if the counters wrap), any number of items below the modulus and with
or without stale loads. The conjuncts of `IInv`:

* `ClaimInv`: each position was claimed for an item of its own, within a lap of
  the consumer. So there are no more claims than items (`ClaimsFit`, a
  cardinality argument), hence fewer than the modulus, and a CAS that compares
  wrapped values succeeds only at the position it was meant for. A producer
  overtaken by 2^64 pushes is what the bound on the items rules out.
* `ProducerInv`: a producer before its CAS holds a head that is within a lap of
  the tail it saw, or too old to win; one between its CAS and its flag has its
  position and its cell to itself.
* `ConsumerInv`: the consumer is at the oldest position, and once it has seen the
  flag the producer of that position is through.
* `CellInv`: a flag that is set announces an item that is there.

In the refinement a push takes effect at its CAS and a pop at its store of tail.
The queue holds claimed items that may not be written yet; that the consumer takes
them in the order of the claims is the point.

### DMA engine

`DmaEngineProofs` proves, for every depth, width and number of operations and in
both interrupt modes:

* `WakeupSafety` – `NoLostWakeup`, which is inductive as it stands: it names each
  stage a wake-up passes through;
* `TypeSafety` – `TypeOK`;
* `SubmissionSafety` – `SqesIntact`;
* `CompletionSafety` – `CompletionsIntact`, under the hypothesis
  `MaxOutstanding <= CqDepth`.

`IInv` ties the wrapped indices of both sides to the numbers of operations
submitted, rung, completed and drained (`IndexInv`), and keeps the engine within a
lap of the device between the test of `engine_submit` and its write (`CallInv`).
The hypothesis of `CompletionSafety` is a duty of the caller: nothing in the
device or the driver enforces it, and `dma_cq_overflow` is a run that breaks it.

### Driver life cycle

`NicProbeProofs` proves `SmokeTestSafety` (`RoundTrips`), `DmaSafety`
(`DmaOnlyToMapped`), `CleanupSafety` (`CleansUp`) and `WakeupGap` (`EarlyWakeup`)
for every depth and width, any number of loads and any set of failing calls. The
conjuncts of `PInv`:

* `OwnInv`: what the driver holds at each stage, in every load;
* `FirstInv`: where engine and device stand in the first load, operation by
  operation: `Settled`, `Submitting`, `Rung`, `Waited`, `Drained`;
* `DataInv`: where the data of the smoke test is meanwhile;
* `NullInv`: in a first load without BAR 0 the device stays at rest and the two
  buffers stay different, which `RoundTrips` needs for its other half (`FirstInv`
  and `DataInv` speak of a `Regular` load: BAR 0 mapped, no timeout so far);
* `TimeoutInv` and `SecondInv`: that the device is at rest when a load ends,
  unless a wait timed out, and stays so until the next load rings.

Looking for this invariant corrected `EarlyWakeup`. It used to say that a
handler enters the gap before `init_waitqueue_head` only because of INTx or of a
timeout; TLC had agreed, with two loads. `SecondInv` does not carry over from
the second load to the third, and with three loads TLC shows why: the second
engine's `engine_wait` returns at once, since the CQ tail of the device is not
zero, and the driver can be gone before the device has run. The property now
excepts the third and later loads, and the run has three.

### Transport

`InProcTransportProofs` proves `TypeSafety`, `WakeupSafety` (`NoLostWakeup`) and
`Refinement` (`ImplementsChannels`) for every world size and any numbers of
threads and messages. `MutexInv` makes the critical sections of a channel
exclusive, so that what the predicate of `wait` saw is still in the queue when
`recv` pops (`CallInv`). `NoLostWakeup` counts: each step that takes away a
thread that covers a message, a sender about to notify or a receiver that is
awake, takes a message away as well or puts another such thread in its place. In
the refinement `push` is the `Put`, `pop` the `Take` that moves the message into
the receiver's call, and the size check ends the call with it or without it. That
a call is mapped to the channel of its queue rests on `src * n + dst` taken apart
again by division and remainder (`WayOf`).

### The inductive invariants and TLC

Each inductive invariant was checked by TLC before it was proved. It is defined at
the top of its proof module, which TLC loads like any other: run the proof module
with the configuration of the model and `INVARIANT IInv` (`TInv`, `PInv`, `CqInv`)
added.

### Only model-checked

Liveness (`Delivered`, `PublishedIsConsumed`, `OnlyUnfinishedBlocks`,
`RungIsCompleted`, `WaitReturns`, `ProbeEnds`, `NobodyForgotten`), which TLAPS
cannot prove under fairness. The violation runs, which are counterexamples, and
with them `SpscCreate`. Every invariant, action property and refinement of the
passing runs is proved.

## Not modelled

* Failures of `pci_enable_device`, `pci_request_region` and `dma_map_single`;
  more than one failing call in a load.
* DMA accesses of the rings that fail with bus mastering on.
* Transfer lengths and the addresses of buffers, the read-back of the ring
  registers, and registers nobody uses.
* `size`, `empty` and `full` of the MPSC queue, which only read; more than one
  consumer, which pop's comment rules out.
* A producer overtaken by 2^64 pushes between its load of head and its CAS.
* The MPMC queue: `mpmc_queue.hpp` implements the MPSC queue, the other exists in
  the README only. The collectives of 04 (`allreduce_ring.cpp` and its
  neighbours) and all of 05 have empty bodies; their plan is in comments.
* The timing of the benchmarks, and the VM scripts.

`DmaOnlyToMapped` says nothing of what follows a timed-out wait. The error path
then unmaps the buffers and frees the rings while the device may still have SQEs
to process and bus mastering is on; the model has these behaviours. Nor does it
speak of later loads, where a device left at work may run while the ring
registers are half written.

## Plan

Everything in the repository that has behaviour has a model, and every safety
property of a passing run a proof, done in this order: SPSC ring and its proofs,
telemetry, MPSC queue, DMA device and engine, wake-up proof, driver life cycle,
transport, the bytes of create, second loads and failing calls; then the
refinements of BoundedFifo, the proofs about telemetry, transport, DMA rings, MPSC
queue and life cycle.

What could follow:

1. The steps of the liveness arguments that are safety: that a counter which
   measures the work left never grows, for the retry loops of both rings.
2. The complement of the overflow found in `SpscCreate`: for arguments whose
   product fits, push and pop stay inside the buffer.
3. Models of the collectives of 04 and 05 once their bodies are written; the
   transport they stand on has its specification in Channels.
