-------------------------------- MODULE Ipc --------------------------------
(***************************************************************************)
(* Packet passing between tasks.  The user half is lib/rust/dux/src/mem.rs *)
(* (transmit, receive, the two lock guards, the free stack), the kernel    *)
(* half is kernel/src/task/ipc.rs (process_packets) entered from the       *)
(* io_wait system call of kernel/src/syscall.rs.                           *)
(*                                                                         *)
(* One hart.  The kernel runs with interrupts off, so a system call is not *)
(* interleaved with anything; a task in user mode is preempted between any *)
(* two of its steps.  The loop of process_packets takes one step per       *)
(* packet, in mode "process", where no other task can move.                *)
(*                                                                         *)
(* A packet is abstracted to its address field.  The pages behind it (data *)
(* and name) are abstracted to what can go wrong with them: an address     *)
(* that is not a page, no free range at the recipient, a page that cannot  *)
(* be shared.  The kernel panics on each.                                  *)
(***************************************************************************)
EXTENDS RingIndex, Sequences

(* Size is ring_mask + 1: the slots of the packet table, of each ring and  *)
(* of the free stack of a task.                                            *)
CONSTANTS
    Tasks,      \* the tasks of the group
    NoTask,     \* nothing is on the hart; an address no task has
    Notifiable, \* the tasks that have set a notification handler
    WaitTimes   \* what the tasks' own calls of io_wait pass

ASSUME NoTaskAssumption == NoTask \notin Tasks

ASSUME WaitTimesAssumption == WaitTimes \subseteq {"zero", "timed", "forever"}

VARIABLES
    packets,                \* packets[t][s]: address field of t's packet s
    tx_index, tx_slots,     \* transmit ring, shared memory of t and kernel
    rx_index, rx_slots,     \* received ring, shared memory of t and kernel
    stack, stack_locked,    \* free stack; its top is u16::MAX when locked
    last_transmit_index,    \* kernel private
    ipc,                    \* t has registered its queues
    wait_time, notified,    \* kernel private
    last_received_index,    \* user private
    tx_slot, rx_slot,       \* slot of the TransmitLock, ReceivedLock t holds
    prev_index,             \* local of defer
    freeing,                \* slot push_free_slot is about to push
    pc,                     \* where t is in the library
    cur, mode, panic        \* the hart

sharedVars == <<packets, tx_index, tx_slots, rx_index, rx_slots, stack,
                stack_locked>>
kernelVars == <<last_transmit_index, ipc, wait_time, notified>>
userVars == <<last_received_index, tx_slot, rx_slot, prev_index, freeing, pc>>
hartVars == <<cur, mode, panic>>
vars == <<sharedVars, kernelVars, userVars, hartVars>>

NoSlot == -1

Locations == {"init", "user", "tx_pop", "tx_pop_locked", "tx_wait",
              "tx_write", "rx_check", "rx_wait", "defer", "push",
              "push_locked"}

Panics == {"none", "NoPacket", "self", "NoRecipient", "NoFreeSlots",
           "LockTimeout", "NoFreeRange", "BadPage", "Full", "overflow",
           "mutated"}

Pop(s) == SubSeq(s, 1, Len(s) - 1)
Top(s) == s[Len(s)]

(***************************************************************************)
(* dux init: the slots are pushed in order 0, 1, ..., Size - 1.  Fresh     *)
(* pages are zeroed, so every ring entry is slot 0.                        *)
(***************************************************************************)
Init ==
    /\ packets \in [Tasks -> {[s \in Slots |-> NoTask]}]
    /\ tx_index = [t \in Tasks |-> 0]
    /\ tx_slots = [t \in Tasks |-> [s \in Slots |-> 0]]
    /\ rx_index = [t \in Tasks |-> 0]
    /\ rx_slots = [t \in Tasks |-> [s \in Slots |-> 0]]
    /\ stack = [t \in Tasks |-> [i \in 1 .. Size |-> i - 1]]
    /\ stack_locked = [t \in Tasks |-> FALSE]
    /\ last_transmit_index = [t \in Tasks |-> 0]
    /\ ipc = [t \in Tasks |-> FALSE]
    /\ wait_time = [t \in Tasks |-> "zero"]
    /\ notified = [t \in Tasks |-> FALSE]
    /\ last_received_index = [t \in Tasks |-> 0]
    /\ tx_slot = [t \in Tasks |-> NoSlot]
    /\ rx_slot = [t \in Tasks |-> NoSlot]
    /\ prev_index = [t \in Tasks |-> 0]
    /\ freeing = [t \in Tasks |-> NoSlot]
    /\ pc = [t \in Tasks |-> "init"]
    /\ cur = NoTask
    /\ mode = "next"
    /\ panic = "none"

(***************************************************************************)
(* User mode.  Each action below is one step of the task on the hart that  *)
(* another task can observe the absence of.                                *)
(***************************************************************************)
Running(t) == mode = "user" /\ cur = t /\ panic = "none"

At(t, l) == Running(t) /\ pc[t] = l

Goto(t, l) == pc' = [pc EXCEPT ![t] = l]

(* A failed assertion ends the run: the task or the kernel is gone.        *)
Panic(reason) ==
    /\ panic' = reason
    /\ UNCHANGED <<sharedVars, kernelVars, userVars, cur, mode>>

(* io_set_queues, after init has filled the free stack                     *)
SetQueues(t) ==
    /\ At(t, "init")
    /\ ipc' = [ipc EXCEPT ![t] = TRUE]
    /\ last_transmit_index' = [last_transmit_index EXCEPT ![t] = 0]
    /\ Goto(t, "user")
    /\ UNCHANGED <<sharedVars, wait_time, notified, last_received_index,
                   tx_slot, rx_slot, prev_index, freeing, hartVars>>

(***************************************************************************)
(* transmit and try_transmit up to the spin lock of the free stack in      *)
(* pop_free_slot, and again from there when io_wait has returned.          *)
(***************************************************************************)
Transmit(t) ==
    /\ At(t, "user") \/ At(t, "tx_pop")
    /\ ~stack_locked[t]
    /\ stack_locked' = [stack_locked EXCEPT ![t] = TRUE]
    /\ Goto(t, "tx_pop_locked")
    /\ UNCHANGED <<packets, tx_index, tx_slots, rx_index, rx_slots, stack,
                   kernelVars, last_received_index, tx_slot, rx_slot,
                   prev_index, freeing, hartVars>>

(***************************************************************************)
(* The rest of pop_free_slot.  With no slot, transmit goes on to io_wait   *)
(* and try_transmit returns an error; which of the two was called matters  *)
(* nowhere else, so the choice is made here.                               *)
(***************************************************************************)
PopFreeSlot(t) ==
    /\ At(t, "tx_pop_locked")
    /\ stack_locked' = [stack_locked EXCEPT ![t] = FALSE]
    /\ \/ /\ stack[t] # << >>
          /\ tx_slot' = [tx_slot EXCEPT ![t] = Top(stack[t])]
          /\ stack' = [stack EXCEPT ![t] = Pop(stack[t])]
          /\ Goto(t, "tx_write")
       \/ /\ stack[t] = << >>
          /\ Goto(t, "tx_wait") \/ Goto(t, "user")
          /\ UNCHANGED <<stack, tx_slot>>
    /\ UNCHANGED <<packets, tx_index, tx_slots, rx_index, rx_slots,
                   kernelVars, last_received_index, rx_slot, prev_index,
                   freeing, hartVars>>

(***************************************************************************)
(* The caller fills in the packet behind its TransmitLock, with whatever   *)
(* address it likes, its own and that of no task included, and drops the   *)
(* lock.  The kernel reads the transmit ring and the packet only when t    *)
(* itself calls io_wait, so the writes are one step.                       *)
(***************************************************************************)
DropTransmitLock(t, to) ==
    /\ At(t, "tx_write")
    /\ packets' = [packets EXCEPT ![t][tx_slot[t]] = to]
    /\ tx_slots' = [tx_slots EXCEPT ![t][Mask(tx_index[t])] = tx_slot[t]]
    /\ tx_index' = [tx_index EXCEPT ![t] = WrapInc(@)]
    /\ tx_slot' = [tx_slot EXCEPT ![t] = NoSlot]
    /\ Goto(t, "user")
    /\ UNCHANGED <<rx_index, rx_slots, stack, stack_locked, kernelVars,
                   last_received_index, rx_slot, prev_index, freeing,
                   hartVars>>

(* mutant: the lock is on the newest entry                                 *)
ReceiveNewest(t) ==
    /\ At(t, "user") \/ At(t, "rx_check")
    /\ rx_slot[t] = NoSlot
    /\ last_received_index[t] # rx_index[t]
    /\ rx_slot' = [rx_slot EXCEPT ![t] =
                      rx_slots[t][Mask(WrapDec(rx_index[t]))]]
    /\ Goto(t, "user")
    /\ UNCHANGED <<sharedVars, kernelVars, last_received_index, tx_slot,
                   prev_index, freeing, hartVars>>

(***************************************************************************)
(* The loop body of receive: a ReceivedLock on the entry, or, with nothing *)
(* received, on to io_wait (receive) or back to the caller (try_receive).  *)
(* The tasks never ask for a second ReceivedLock while they hold one.      *)
(***************************************************************************)
Receive(t) ==
    /\ At(t, "user") \/ At(t, "rx_check")
    /\ rx_slot[t] = NoSlot
    /\ \/ /\ last_received_index[t] # rx_index[t]
          /\ rx_slot' = [rx_slot EXCEPT ![t] =
                            rx_slots[t][Mask(last_received_index[t])]]
          /\ Goto(t, "user")
       \/ /\ last_received_index[t] = rx_index[t]
          /\ Goto(t, "rx_wait") \/ Goto(t, "user")
          /\ UNCHANGED rx_slot
    /\ UNCHANGED <<sharedVars, kernelVars, last_received_index, tx_slot,
                   prev_index, freeing, hartVars>>

(* mutant: the slot is not given back                                      *)
DropReceivedLockLeak(t) ==
    /\ At(t, "user")
    /\ rx_slot[t] # NoSlot
    /\ last_received_index' =
           [last_received_index EXCEPT ![t] = WrapInc(@)]
    /\ rx_slot' = [rx_slot EXCEPT ![t] = NoSlot]
    /\ UNCHANGED <<sharedVars, kernelVars, tx_slot, prev_index, freeing, pc,
                   hartVars>>

(* drop of the ReceivedLock up to its call of push_free_slot               *)
DropReceivedLock(t) ==
    /\ At(t, "user")
    /\ rx_slot[t] # NoSlot
    /\ last_received_index' =
           [last_received_index EXCEPT ![t] = WrapInc(@)]
    /\ freeing' = [freeing EXCEPT ![t] = rx_slot[t]]
    /\ rx_slot' = [rx_slot EXCEPT ![t] = NoSlot]
    /\ Goto(t, "push")
    /\ UNCHANGED <<sharedVars, kernelVars, tx_slot, prev_index, hartVars>>

(* push_free_slot up to its spin lock                                      *)
LockStack(t) ==
    /\ At(t, "push")
    /\ ~stack_locked[t]
    /\ stack_locked' = [stack_locked EXCEPT ![t] = TRUE]
    /\ Goto(t, "push_locked")
    /\ UNCHANGED <<packets, tx_index, tx_slots, rx_index, rx_slots, stack,
                   kernelVars, last_received_index, tx_slot, rx_slot,
                   prev_index, freeing, hartVars>>

(* mutant: the assertion is off by one                                     *)
PushFreeSlotStrict(t) ==
    /\ At(t, "push_locked")
    /\ IF Len(stack[t]) < Size - 1
       THEN /\ stack' = [stack EXCEPT ![t] = Append(@, freeing[t])]
            /\ stack_locked' = [stack_locked EXCEPT ![t] = FALSE]
            /\ freeing' = [freeing EXCEPT ![t] = NoSlot]
            /\ Goto(t, "user")
            /\ UNCHANGED <<packets, tx_index, tx_slots, rx_index, rx_slots,
                           kernelVars, last_received_index, tx_slot, rx_slot,
                           prev_index, hartVars>>
       ELSE Panic("overflow")

(* push_free_slot inside its spin lock; its assertion comes first          *)
PushFreeSlot(t) ==
    /\ At(t, "push_locked")
    /\ IF Len(stack[t]) < Size
       THEN /\ stack' = [stack EXCEPT ![t] = Append(@, freeing[t])]
            /\ stack_locked' = [stack_locked EXCEPT ![t] = FALSE]
            /\ freeing' = [freeing EXCEPT ![t] = NoSlot]
            /\ Goto(t, "user")
            /\ UNCHANGED <<packets, tx_index, tx_slots, rx_index, rx_slots,
                           kernelVars, last_received_index, tx_slot, rx_slot,
                           prev_index, hartVars>>
       ELSE Panic("overflow")

(* mutant: the index is not taken back to the last entry                   *)
DeferPastEnd(t) ==
    /\ At(t, "user")
    /\ rx_slot[t] # NoSlot
    /\ prev_index' = [prev_index EXCEPT ![t] = rx_index[t]]
    /\ Goto(t, "defer")
    /\ UNCHANGED <<sharedVars, kernelVars, last_received_index, tx_slot,
                   rx_slot, freeing, hartVars>>

(* defer reads the received index, and may be preempted before it swaps    *)
Defer(t) ==
    /\ At(t, "user")
    /\ rx_slot[t] # NoSlot
    /\ prev_index' = [prev_index EXCEPT ![t] = WrapDec(rx_index[t])]
    /\ Goto(t, "defer")
    /\ UNCHANGED <<sharedVars, kernelVars, last_received_index, tx_slot,
                   rx_slot, freeing, hartVars>>

(* the rest of defer: the held entry changes places with the last one      *)
DeferSwap(t) ==
    LET last == Mask(last_received_index[t])
        prev == Mask(prev_index[t])
        a == rx_slots[t][last]
        b == rx_slots[t][prev]
    IN  /\ At(t, "defer")
        /\ IF a = rx_slot[t]
           THEN /\ rx_slots' = [rx_slots EXCEPT
                                  ![t] = [@ EXCEPT ![prev] = a, ![last] = b]]
                /\ rx_slot' = [rx_slot EXCEPT ![t] = NoSlot]
                /\ prev_index' = [prev_index EXCEPT ![t] = 0]
                /\ Goto(t, "user")
                /\ UNCHANGED <<packets, tx_index, tx_slots, rx_index, stack,
                               stack_locked, kernelVars, last_received_index,
                               tx_slot, freeing, hartVars>>
           ELSE Panic("mutated")

(* mutant: the NOTIFIED flag is not looked at                              *)
IoWaitUnchecked(t, time) ==
    /\ Running(t)
    /\ pc[t] = "user" /\ time \in WaitTimes
    /\ wait_time' = [wait_time EXCEPT ![t] = time]
    /\ mode' = "process"
    /\ UNCHANGED <<sharedVars, last_transmit_index, ipc, notified, userVars,
                   cur, panic>>

(***************************************************************************)
(* The io_wait system call.  Called by transmit and receive with u64::MAX  *)
(* and by the services themselves with other times as well.  A task that   *)
(* was notified returns at once.                                           *)
(***************************************************************************)
IoWait(t, time) ==
    /\ Running(t)
    /\ \/ pc[t] = "user" /\ time \in WaitTimes
       \/ pc[t] \in {"tx_wait", "rx_wait"} /\ time = "forever"
    /\ Goto(t, CASE pc[t] = "tx_wait" -> "tx_pop"
                 [] pc[t] = "rx_wait" -> "rx_check"
                 [] OTHER -> "user")
    /\ \/ /\ notified[t]
          /\ notified' = [notified EXCEPT ![t] = FALSE]
          /\ UNCHANGED <<wait_time, mode>>
       \/ /\ ~notified[t]
          /\ wait_time' = [wait_time EXCEPT ![t] = time]
          /\ mode' = "process"
          /\ UNCHANGED notified
    /\ UNCHANGED <<sharedVars, last_transmit_index, ipc, last_received_index,
                   tx_slot, rx_slot, prev_index, freeing, cur, panic>>

(***************************************************************************)
(* Kernel mode: the loop of process_packets for the task that called       *)
(* io_wait.                                                                *)
(***************************************************************************)
Processing(t) == mode = "process" /\ cur = t /\ panic = "none"

Pending(t) == ipc[t] /\ last_transmit_index[t] # tx_index[t]

(* the ring position the loop is at, the packet there and its recipient    *)
TxPktSlot(t) == Mask(last_transmit_index[t])
TxPkt(t) == tx_slots[t][TxPktSlot(t)]
Recipient(t) == packets[t][TxPkt(t)]

(* no packet left, or the task has no queues: on to Executor::next         *)
ProcessDone(t) ==
    /\ Processing(t)
    /\ ~Pending(t)
    /\ mode' = "next" /\ cur' = NoTask
    /\ UNCHANGED <<sharedVars, kernelVars, userVars, panic>>

(* the recipient has no queues yet: stay runnable and retry next time      *)
ProcessNoQueues(t) ==
    /\ Processing(t)
    /\ Pending(t)
    /\ TxPkt(t) \in Slots
    /\ Recipient(t) \in Tasks \ {t}
    /\ ~ipc[Recipient(t)]
    /\ wait_time' = [wait_time EXCEPT ![t] = "zero"]
    /\ mode' = "next" /\ cur' = NoTask
    /\ UNCHANGED <<sharedVars, last_transmit_index, ipc, notified, userVars,
                   panic>>

(* the slot the kernel puts back on the sender's free stack                *)
FreedSlot(t) == TxPktSlot(t)

(***************************************************************************)
(* What the assertion and the unwraps of the loop body may fail with, in   *)
(* their order: the entry names no packet of the table; the sender is its  *)
(* own recipient; the address has no group or no task; pop_free_slot of    *)
(* the recipient; Page::new, pop_free_range, skip and share of the pages,  *)
(* which may fail for any packet that has some; the popped slot names no   *)
(* packet; push_free_slot of the sender.                                   *)
(***************************************************************************)
Failures(t) ==
    LET u == Recipient(t)
        popped == ~stack_locked[u] /\ stack[u] # << >>
    IN  {r \in Panics :
            \/ r = "NoPacket" /\ TxPkt(t) \notin Slots
            \/ r = "self" /\ TxPkt(t) \in Slots /\ u = t
            \/ r = "NoRecipient" /\ TxPkt(t) \in Slots /\ u \notin Tasks
            \/ /\ TxPkt(t) \in Slots /\ u \in Tasks \ {t} /\ ipc[u]
               /\ \/ r = "LockTimeout" /\ stack_locked[u]
                  \/ r = "NoFreeSlots" /\ ~stack_locked[u] /\ stack[u] = << >>
                  \/ r \in {"NoFreeRange", "BadPage"} /\ popped
                  \/ r = "NoPacket" /\ popped /\ Top(stack[u]) \notin Slots
                  \/ r = "LockTimeout" /\ popped /\ stack_locked[t]
                  \/ r = "Full" /\ popped /\ ~stack_locked[t]
                               /\ Len(stack[t]) >= Size}

ProcessPanic(t) ==
    /\ Processing(t)
    /\ Pending(t)
    /\ \E reason \in Failures(t) : Panic(reason)

(* one packet copied into a slot of the recipient, which is woken          *)
ProcessPacket(t) ==
    LET u == Recipient(t)
        rx_pkt_slot == Top(stack[u])
    IN  /\ Processing(t)
        /\ Pending(t)
        /\ TxPkt(t) \in Slots
        /\ u \in Tasks \ {t}
        /\ ipc[u]
        /\ ~stack_locked[u] /\ stack[u] # << >> /\ rx_pkt_slot \in Slots
        /\ ~stack_locked[t] /\ Len(stack[t]) < Size
        /\ rx_slots' = [rx_slots EXCEPT
                          ![u][Mask(rx_index[u])] = rx_pkt_slot]
        /\ packets' = [packets EXCEPT ![u][rx_pkt_slot] = t]
        /\ rx_index' = [rx_index EXCEPT ![u] = WrapInc(@)]
        /\ wait_time' = [wait_time EXCEPT ![u] = "zero"]
        /\ stack' = [stack EXCEPT ![u] = Pop(@),
                                  ![t] = Append(@, FreedSlot(t))]
        /\ last_transmit_index' =
               [last_transmit_index EXCEPT ![t] = WrapInc(@)]
        /\ UNCHANGED <<tx_index, tx_slots, stack_locked, ipc, notified,
                       userVars, hartVars>>

(***************************************************************************)
(* The hart.  The order in which Executor::next tries the tasks is the     *)
(* subject of module Executor: here any runnable task may be next.         *)
(***************************************************************************)
Next_(t) ==
    /\ mode = "next" /\ panic = "none"
    /\ wait_time[t] = "zero"
    /\ cur' = t
    /\ mode' = "user"
    /\ UNCHANGED <<sharedVars, kernelVars, userVars, panic>>

(* the timer interrupt takes the hart from a task                          *)
Preempt(t) ==
    /\ Running(t)
    /\ mode' = "next" /\ cur' = NoTask
    /\ UNCHANGED <<sharedVars, kernelVars, userVars, panic>>

(* the time io_wait was given has passed                                   *)
Timeout(t) ==
    /\ panic = "none"
    /\ wait_time[t] = "timed"
    /\ wait_time' = [wait_time EXCEPT ![t] = "zero"]
    /\ UNCHANGED <<sharedVars, last_transmit_index, ipc, notified, userVars,
                   hartVars>>

(* an interrupt is delivered to t, whose handler runs and returns; the     *)
(* steps of this are the subject of module Interrupts                      *)
Notify(t) ==
    /\ mode \in {"user", "next"} /\ panic = "none"
    /\ ipc[t] /\ t \in Notifiable
    /\ wait_time' = [wait_time EXCEPT ![t] = "zero"]
    /\ notified' = [notified EXCEPT ![t] = TRUE]
    /\ cur' = t
    /\ mode' = "user"
    /\ UNCHANGED <<sharedVars, last_transmit_index, ipc, userVars, panic>>

UserStep(t) ==
    \/ SetQueues(t) \/ Transmit(t) \/ PopFreeSlot(t)
    \/ \E to \in Tasks \cup {NoTask} : DropTransmitLock(t, to)
    \/ Receive(t) \/ DropReceivedLock(t) \/ LockStack(t) \/ PushFreeSlot(t)
    \/ Defer(t) \/ DeferSwap(t)
    \/ \E time \in WaitTimes \cup {"forever"} : IoWait(t, time)

KernelStep(t) ==
    \/ ProcessDone(t) \/ ProcessNoQueues(t) \/ ProcessPanic(t)
    \/ ProcessPacket(t)
    \/ Next_(t) \/ Preempt(t) \/ Timeout(t) \/ Notify(t)

Next == \E t \in Tasks : UserStep(t) \/ KernelStep(t)

Spec == Init /\ [][Next]_vars

-----------------------------------------------------------------------------
(* Indices, ring entries and stack entries stay within the widths and the  *)
(* table sizes that IPC::new and the library give them.                    *)
TypeOK ==
    /\ packets \in [Tasks -> [Slots -> Tasks \cup {NoTask}]]
    /\ tx_index \in [Tasks -> Indices]
    /\ tx_slots \in [Tasks -> [Slots -> Slots]]
    /\ rx_index \in [Tasks -> Indices]
    /\ rx_slots \in [Tasks -> [Slots -> Slots]]
    /\ stack \in [Tasks -> Seq(Slots)]
    /\ stack_locked \in [Tasks -> BOOLEAN]
    /\ last_transmit_index \in [Tasks -> Indices]
    /\ ipc \in [Tasks -> BOOLEAN]
    /\ wait_time \in [Tasks -> {"zero", "timed", "forever"}]
    /\ notified \in [Tasks -> BOOLEAN]
    /\ last_received_index \in [Tasks -> Indices]
    /\ tx_slot \in [Tasks -> Slots \cup {NoSlot}]
    /\ rx_slot \in [Tasks -> Slots \cup {NoSlot}]
    /\ prev_index \in [Tasks -> Indices]
    /\ freeing \in [Tasks -> Slots \cup {NoSlot}]
    /\ pc \in [Tasks -> Locations]
    /\ cur \in Tasks \cup {NoTask}
    /\ mode \in {"user", "process", "next"}
    /\ panic \in Panics

(***************************************************************************)
(* How many slots of t are free, in the transmit ring and not yet          *)
(* processed, in the received ring and not yet dropped, and in the hands   *)
(* of the library.                                                         *)
(***************************************************************************)
Free(t) == Len(stack[t])
Unsent(t) == Ahead(tx_index[t], last_transmit_index[t])
Unread(t) == Ahead(rx_index[t], last_received_index[t])
Held(t) == (IF tx_slot[t] # NoSlot THEN 1 ELSE 0)
           + (IF freeing[t] # NoSlot THEN 1 ELSE 0)

(***************************************************************************)
(* Slots are neither lost nor made up: what is on the free stack (kernel   *)
(* ipc.rs pop/push_free_slot, dux pop/push_free_slot), in the rings and    *)
(* held by the library always adds up to the table.  Although the kernel   *)
(* and the task push and pop the same stack from both sides of a           *)
(* preemption, no index ever overruns its ring, across the wrap of the u16 *)
(* indices too.                                                            *)
(***************************************************************************)
SlotConservation ==
    \A t \in Tasks : Free(t) + Unsent(t) + Unread(t) + Held(t) = Size

(***************************************************************************)
(* Four of the checks in the code never fail: an entry of a ring or of the *)
(* free stack names a packet of the table (the two packet(..).unwrap of    *)
(* process_packets), a push finds room on the free stack (kernel Full, dux *)
(* "free stack overflow"), and the entry of a ReceivedLock does not change *)
(* under it ("current received entry mutated while locked").  The other    *)
(* checks are on what a task may write in a packet or on what another task *)
(* has free, and can fail.                                                 *)
(***************************************************************************)
AssertionsHold == panic \notin {"NoPacket", "Full", "overflow", "mutated"}

(***************************************************************************)
(* While a task holds a ReceivedLock, preempted or not, the ring entry it  *)
(* will drop or defer is the slot it was given, and is still unread.       *)
(***************************************************************************)
HeldEntryStable ==
    \A t \in Tasks :
        rx_slot[t] # NoSlot =>
            /\ Unread(t) > 0
            /\ rx_slots[t][Mask(last_received_index[t])] = rx_slot[t]

(***************************************************************************)
(* The entry that a defer is about to exchange with its own is unread when *)
(* it gets to the swap, however many packets have come in since it read    *)
(* the received index (mem.rs:481-489): the swap reaches no free entry of  *)
(* the ring and none the kernel is about to overwrite.                     *)
(***************************************************************************)
DeferInRange ==
    \A t \in Tasks :
        pc[t] = "defer" =>
            Ahead(prev_index[t], last_received_index[t]) < Unread(t)

(***************************************************************************)
(* Which slot the library holds is known from where the task is in it.     *)
(***************************************************************************)
Whereabouts ==
    \A t \in Tasks :
        /\ tx_slot[t] # NoSlot <=> pc[t] = "tx_write"
        /\ freeing[t] # NoSlot <=> pc[t] \in {"push", "push_locked"}
        /\ pc[t] = "defer" => rx_slot[t] # NoSlot
        /\ pc[t] = "init" => ~ipc[t] /\ last_transmit_index[t] = 0

(* The inductive invariant behind these properties; DeferInRange follows   *)
(* from it step by step.                                                   *)
IndInv ==
    /\ TypeOK
    /\ SlotConservation
    /\ HeldEntryStable
    /\ Whereabouts
    /\ AssertionsHold

(***************************************************************************)
(* A task with the NOTIFIED flag set does not wait: io_wait looks at the   *)
(* flag before it sets the wait time, and a notification resets the wait   *)
(* time, whichever of the two comes first and whatever timeout was asked.  *)
(***************************************************************************)
NotifiedStaysAwake ==
    \A t \in Tasks : notified[t] => wait_time[t] = "zero"

(***************************************************************************)
(* The rings as the queues they stand for, oldest entry first.             *)
(***************************************************************************)
Entries(slots, first, n) == [i \in 1 .. n |-> slots[Mask(first + i - 1)]]
Outbox == [t \in Tasks |-> Entries(tx_slots[t], last_transmit_index[t], Unsent(t))]
Inbox == [t \in Tasks |-> Entries(rx_slots[t], last_received_index[t], Unread(t))]

Mailboxes == INSTANCE Mailboxes WITH outbox <- Outbox, inbox <- Inbox

(***************************************************************************)
(* The rings implement mailboxes: an entry leaves an outbox only by        *)
(* appearing at the end of another task's inbox, nothing but its owner     *)
(* takes from or reorders an inbox, and a defer loses or doubles nothing   *)
(* even when packets arrive between its read of the index and its swap.    *)
(***************************************************************************)
RingsAreMailboxes == Mailboxes!Spec

(***************************************************************************)
(* dux mem.rs:609, of push_free_slot: "The index must be in range and not  *)
(* already present on the stack."                                          *)
(***************************************************************************)
FreeSlotsDistinct ==
    \A t \in Tasks : \A i, j \in 1 .. Len(stack[t]) :
        i # j => stack[t][i] # stack[t][j]

(***************************************************************************)
(* dux mem.rs:431, of receive: "This will yield the task if no packets     *)
(* have been received yet."  A task that receive has put to sleep with no  *)
(* timeout, and that nothing is being delivered to, has received nothing.  *)
(***************************************************************************)
SleepsOnlyWhenNothingReceived ==
    \A t \in Tasks :
        /\ pc[t] = "rx_check" /\ wait_time[t] = "forever"
        /\ mode # "process"
        => Unread(t) = 0

=============================================================================
