# Verification of the norost kernel and its user library

TLA+ models of the parts of this system where order matters: the packet rings
between tasks and kernel, the scheduler, interrupts and notification handlers,
and the physical memory manager. TLC checks them on small instances; TLAPS
proves the central invariants for every value of the constants.

## The system

A microkernel for RISC-V with one hart in use. The kernel runs with interrupts
off, except while it idles; user code is preempted by the timer and by external
interrupts anywhere. A task has a main routine and may have a notification
handler, which interrupts the main routine in the same address space.

| Part | State | Operations | Interacts with |
|---|---|---|---|
| Packet IPC (`kernel/src/task/ipc.rs`, `lib/rust/dux/src/mem.rs`) | packet table, transmit and received ring, free stack (shared); last indices (private) | transmit, receive, defer, drop of the two locks, io_set_queues, io_wait with process_packets | scheduler (wait times), memory (page ranges) |
| Scheduler (`task/executor.rs`, `arch/riscv/timer.s`) | NEXT_ID, wait_time, executor_id, sscratch, timer | next, idle, get_task, wait_duration, timer interrupt | everything |
| Interrupts (`arch/riscv/plic.s`, `plic.rs`, `syscall.s`) | reservations, irq and flags of a task, PLIC claim state | external interrupt, notification_enter, io_notify_return, io_notify_defer, reserve | scheduler, drivers |
| Physical memory (`memory/allocator.rs`, `memory/mod.rs`) | ring of free pages, u16 top and base | push, pop, pop_base, allocate, deallocate | virtual memory |
| Virtual memory (`arch/riscv/vms/sv39.rs`) | page tables | add, allocate, share, deallocate, physical_addresses | physical memory, IPC |
| Groups, arena, registry (`task/group.rs`, `allocator/arena.rs`, `task/registry.rs`) | slots and free list, name table | insert, remove, get, add | scheduler, system calls |
| Range list (`dux/src/mem.rs`) | sorted list of reserved ranges, free ranges | reserve_range, unreserve_range, add_free_range | IPC |
| Virtqueue, drivers, FAT, console, C library | device rings, buffers, descriptor table | requests and notification handlers | IPC, interrupts |

`PROJECT.json` lists every part with its status, and the hazards of the code at
the lines where they bite.

## Modules

**RingIndex** is the arithmetic of a u16 index that runs freely and is masked
on access, used by Ipc and Pmm. `Ahead(i, j)` is `i.wrapping_sub(j)`. The ring is
at most half of the index range, as `IPC::new` and `STACK_SIZE` have it.

**Ipc** models the user and the kernel half of packet passing. Each task has
its shared memory (`packets`, `tx_*`, `rx_*`, `stack` with its lock), the
kernel's private fields, the library's private fields, and `pc`, its place in
the library. The user actions follow `mem.rs` function by function, split
where a preemption matters: `Transmit`/`PopFreeSlot` around the spin lock,
`Defer`/`DeferSwap` around the read of the index,
`DropReceivedLock`/`LockStack`/`PushFreeSlot`. `IoWait` enters the kernel,
where `ProcessPacket`, `ProcessNoQueues`, `ProcessPanic` and `ProcessDone` are the
rounds and exits of the loop of `process_packets`; no task moves meanwhile. A
packet is abstracted to its address field, which a task fills in as it likes: its
own address and that of no task are among the choices. The assertion and the
unwraps of the loop body are the members of `Failures`, in the order of the code:
no such packet in the table, sent to self, no group or task at the address, the
recipient's free stack locked or empty, a page that is not one, has no range at
the recipient or cannot be shared, and the sender's free stack locked or full.
What the pages are is left out; a packet may always have some that fail.

**Mailboxes** is what the rings promise: an outbox and an inbox per task.
`RingsAreMailboxes` is the refinement: `Outbox` and `Inbox` read the rings
between the indices.

**Executor** models `Executor::next` as one step: `Hits` are the rounds of its
loop that find a task to execute, and the first one wins. With none, the loop
ends in the round `LastRounds` says, and `idle` arms the timer for `MinTime`, the
running minimum over the rounds made. Times are relative to the clock, which
`Tick` advances; `Past` stands for all times gone by.

NEXT_ID is an address, and the FIXME at `executor.rs:37-39` reports it out of sync.
`next` stores an id below 16 in it, but `get_task`, called for external interrupts
and defers, stores the address it was given as it is and looks the task up by the
low 12 bits (`Address::task`). So after a defer to an address above the mask the
right task runs with a NEXT_ID that is not its id. `CurrentAddress` is what is
still true then, and `ReservationsLead` is what the callers of `current_address`
need of it: `reserve_interrupt` stores it, and every later interrupt looks it up.
What does break is the loop of `next`: it compares its masked id with the unmasked
NEXT_ID, so with nothing to execute it has no exit. `Schedule` takes that case to
`Halted`, as `GetTask` does for an address with no task (`mini_panic`).

**Interrupts** models `external_interrupt_handler`, `notification_enter` and
the two halves of `io_notify_return`. `frames[t]` are the handlers running on
t's stack. The main routine is the loop of the drivers: take what the handler
left (`CheckWork`), else `io_wait(u64::MAX)`. A defer that waits for the irq field
of another task leaves the hart in `spin`, where nothing else can move. The PLIC
itself is external: `Raise` forwards one request per source until completion.
`Reserve` assumes what `plic.rs` does not check: a task that reserves a source has
set its handler before, as both drivers do (`uart/src/main.rs:209` and `221`,
`pci/src/notification.rs:91` and `96`).

**Pmm** models the ring of free pages, one step per function, including the
filling of the ring at boot. **PageSet** is its abstract specification. `deallocate`
and `pop_base` have no caller in the program (both are `allow(dead_code)`, and the
deallocate of `sv39.rs` keeps its pages), so what is shown of them is that the
ring is ready for a caller, and what the program does today is filling and
`allocate`.

`MCIpc`, `MCExecutor`, `MCInterrupts` and `MCPmm` instantiate them. Operators
marked `mutant` are wrong variants of the definition after them; they are in no
next-state relation and serve to show that a property can fail.

## Runs

| cfg | Shows |
|---|---|
| MCIpc | two tasks, two slots, indices modulo 4: TypeOK, SlotConservation, AssertionsHold, HeldEntryStable, DeferInRange, RingsAreMailboxes |
| MCIpcTimed | one slot, with timeouts and notifications: NotifiedStaysAwake |
| MCIpcStack (violated) | a slot is on a free stack twice |
| MCIpcSleep (violated) | receive sleeps on a ring that is not empty |
| MCExecutor | four tasks, one driver, defers to a task, to nobody and above the mask: TypeOK, CurrentAddress, ReservationsLead, NoOversleep, TurnComesCloser, and TurnsCome as long as the timer is armed again and again and defers name tasks by id |
| MCExecutorStarve (violated) | an interrupt out of an untimed idle gives a task the hart without a time slice |
| MCExecutorClaim (violated) | a running task is not claimed |
| MCInterrupts | two sources, two tasks, defers: TypeOK, IrqHeldOnce, NoLostNotification |
| MCInterruptsLive | no defers: InterruptsAreServed, once interrupts stop and as long as the scheduler gives its turns |
| MCInterruptsNested (violated) | a nested interrupt is never completed |
| MCInterruptsSpin (violated) | the kernel spins for ever in a defer |
| MCPmm | four entries, indices modulo 12: TypeOK, OnePlace, NeverFull, RingIsPageSet |

The six violated properties are quoted from comments and documents; the
findings in `PROJECT.json` give the lines on both sides.

### Bounds

Two slots are enough for a ring position and a packet slot to differ, for a
swap in defer and for a full table; indices modulo 4 wrap within a few packets.
Timeouts and notifications multiply the states, so MCIpcTimed has one slot.
Four tasks in the scheduler need the stride to skip empty slots; all 16 slots
are scanned. Defers go to 2, which is a task or not yet one, and to 4097, which
is task 1 above the 12 bits of the mask. Delays of 0, 2 and never against a slice of 2 make wait times
expire before, with and after the slice. Two sources are the fewest that nest.
Four pages in a ring of four fill it to the last entry; indices modulo 12, three
times the ring, let base and top wrap at every fill level.
`CHECK_DEADLOCK FALSE` stands where the system may stop: after a panic, and when
every task sleeps with no timeout.

### Fairness

Executor: the clock advances and a timer that is due fires; nothing is assumed
of the tasks, which may compute for ever. TurnsCome has three premises, and the
code can break each: interrupts stop in the end (each one may take the hart from
the task whose turn it is), the timer is armed again and again (MCExecutorStarve
shows what happens otherwise), and NEXT_ID is the id of a task, that is, no defer
has named anything else.

Interrupts: a handler that gets the hart again and again finishes (strong fairness
on the steps of a task), and a pending interrupt is taken, because user code and
the idle loop run with interrupts on. There is no fairness on the scheduler.
InterruptsAreServed instead has as premises that interrupts stop in the end and
that a task which is awake gets the hart in the end. The second is the conclusion
of Executor's TurnsCome, and so rests on its premises, the armed timer included;
it is not a consequence of the code alone. Devices are never obliged to raise an
interrupt. Ipc and Pmm state safety only.

## Proofs

Each holds for every value of the constants that satisfies the named
assumptions: a ring divides its index range and is at most half of it
(RingIndex), the pages fit in the ring (Pmm), drivers are ids and addresses are
numbers (Executor), source 0 does not exist (Interrupts).

* **RingIndexProofs**: moving an index by one moves its distance by one, across
  the wrap too (AheadInc, AheadDec, AheadIncSecond), and two indices less than a
  ring apart have different slots (MasksDiffer). The latter needs that the
  ring divides the index range.
* **IpcProofs**: `Invariance` shows IndInv = TypeOK, SlotConservation,
  HeldEntryStable, Whereabouts and AssertionsHold together.
  None is inductive alone: that a push finds room, and that a delivery does not
  write over an unread or held entry, follow from the balance of slots; the
  balance needs `Whereabouts` to know which slot the library has in its hands.
  From it: `Types`, `Conservation`, `EntryStability`, `Assertions`. `DeferStays`
  adds DeferInRange: deliveries only add to what a preempted defer may swap
  with. With both, `RingsRefine` shows that the rings implement Mailboxes: one
  lemma per step that moves an entry (PostStep, TakeStep, ExchangeStep,
  DeliverStep), over lemmas on what `Entries` reads from a ring before and after
  a write. `Awake` proves NotifiedStaysAwake by itself. The refinement says which
  entry goes where; it says nothing of the contents of a packet slot, which
  MCIpcStack shows can be freed and filled again while it is in use.
* **PmmProofs**: IndInv adds to OnePlace that the number of free pages is the
  distance of the indices, so that the pages left over always fit. From it:
  `SinglePlace`, `RingSuffices`, and `Refinement`, that Spec implements PageSet.

* **ExecutorProofs**: 7 is its own inverse modulo 16, so the loop gets to each
  slot in exactly one of its 16 rounds (StrideReaches, StrideOnce), from any
  NEXT_ID, and going on from round k saves k rounds (RoundsSaved). A loop that
  ends has made all 16 (LastRound), and by induction over the rounds min_time is
  no later than the wait time of any task it has looked at (MinTimeBounds); the
  two give `Punctual`. IndInv adds to the invariants that no task is ever claimed,
  which `RoundRobin` needs. `Address` and `Reservations` hold for any set of
  addresses to defer to.
* **InterruptsProofs**: IndInv adds that a source is not both pending and
  claimed (so a claim brings in a source nobody holds), that the task on the
  hart is not asleep, and that a task which has decided to wait although a
  handler left it work is notified. From it: `HeldOnce`, `NothingLost`.

Only model-checked: all liveness (TurnsCome, InterruptsAreServed), which is out of
the prover's reach.

## Not modelled, and plan

In this order:

1. Free page ranges: pop_free_range of the kernel against add_free_range, with
   the sharing of pages (`sv39.rs` share), composed with Ipc.
2. The sorted list of reserved ranges in `dux/src/mem.rs` against a set of pages.
3. Arena, Group and registry; SpinLockGuard.
4. Virtual memory: the sv39 page table as a map from pages to frames, and its
   abstract specification.
5. Virtqueue with the device as environment; on top of it the block service.
6. UART buffer, PCI listener table, FAT sector buffer, console cursor, C library
   descriptor table.

Left out for good: logging, SBI calls and boot code (pure I/O or straight-line),
`memory/shared.rs` (todo!()), and the vendored crates.
