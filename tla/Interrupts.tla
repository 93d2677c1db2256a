----------------------------- MODULE Interrupts -----------------------------
(***************************************************************************)
(* External interrupts and the notification handlers of tasks: the trap    *)
(* handler and notification_enter of kernel/src/arch/riscv/plic.s, the     *)
(* io_notify_return system call with its two halves in syscall.s, the      *)
(* reservations of plic.rs, and the io_wait system call with its NOTIFIED  *)
(* flag.                                                                   *)
(*                                                                         *)
(* A handler runs on its task's stack, above the main routine or above an  *)
(* older handler it interrupted; frames[t] holds the sources of the        *)
(* handlers that have not returned, the innermost last.  The main routine  *)
(* of a driver is the loop they all have: work while a handler has left    *)
(* something to do, else io_wait(u64::MAX).                                *)
(***************************************************************************)
EXTENDS Integers, Sequences

CONSTANTS
    Tasks,
    Sources,    \* the interrupt sources of the PLIC, without source 0
    NoTask,     \* idle, or a reservation that is free (usize::MAX)
    Defers      \* whether handlers ever return with a task to defer to

NoIrq == 0

ASSUME SourcesAssumption == NoIrq \notin Sources
ASSUME NoTaskAssumption == NoTask \notin Tasks
ASSUME DefersAssumption == Defers \in BOOLEAN

VARIABLES
    pending,        \* sources raised and not claimed
    claimed,        \* sources claimed and not completed
    reservations,   \* plic_reservations
    handler,        \* the tasks with a notification handler
    irq,            \* current_irq of each task
    notified,       \* flag NOTIFIED of each task
    notifying,      \* flag NOTIFYING of each task
    frames,
    asleep,         \* tasks whose wait_time is u64::MAX
    pc,             \* main routine: "check", "wait"
    work,           \* the tasks a handler has left something to do
    cur,            \* the task on the hart, or NoTask
    spin,           \* <<irq, from, to>> when the kernel spins in a defer
    panic

plicVars == <<pending, claimed, reservations>>
taskVars == <<handler, irq, notified, notifying, frames, asleep>>
driverVars == <<pc, work>>
vars == <<plicVars, taskVars, driverVars, cur, spin, panic>>

NoSpin == << >>

Init ==
    /\ pending = {}
    /\ claimed = {}
    /\ reservations = [s \in Sources |-> NoTask]
    /\ handler = {}
    /\ irq = [t \in Tasks |-> NoIrq]
    /\ notified = [t \in Tasks |-> FALSE]
    /\ notifying = [t \in Tasks |-> FALSE]
    /\ frames = [t \in Tasks |-> << >>]
    /\ asleep = {}
    /\ pc = [t \in Tasks |-> "check"]
    /\ work = {}
    /\ cur = NoTask
    /\ spin = NoSpin
    /\ panic = FALSE

(* the hart takes interrupts and runs user code                            *)
Live == spin = NoSpin /\ ~panic

InMain(t) == Live /\ cur = t /\ frames[t] = << >>
InHandler(t) == Live /\ cur = t /\ frames[t] # << >>

Pop(f) == SubSeq(f, 1, Len(f) - 1)

(* io_set_notify_handler                                                   *)
SetHandler(t) ==
    /\ InMain(t)
    /\ handler' = handler \cup {t}
    /\ UNCHANGED <<plicVars, irq, notified, notifying, frames, asleep,
                   driverVars, cur, spin, panic>>

(* sys_reserve_interrupt.  That a driver has set its handler by then is    *)
(* what the drivers do (services/driver/uart main.rs), not what reserve    *)
(* checks.                                                                 *)
Reserve(t, s) ==
    /\ InMain(t)
    /\ t \in handler
    /\ reservations[s] = NoTask
    /\ reservations' = [reservations EXCEPT ![s] = t]
    /\ UNCHANGED <<pending, claimed, taskVars, driverVars, cur, spin, panic>>

(* A device raises its interrupt.  The PLIC gateway forwards the next      *)
(* request of a source only when the last one was completed.               *)
Raise(s) ==
    /\ reservations[s] # NoTask
    /\ s \notin pending \cup claimed
    /\ pending' = pending \cup {s}
    /\ UNCHANGED <<claimed, reservations, taskVars, driverVars, cur, spin,
                   panic>>

(* notification_enter with the task's flags and irq as they are            *)
Enter(t) ==
    /\ cur' = t
    /\ asleep' = asleep \ {t}
    /\ panic' = (t \notin handler)

(* mutant: the idle loop does not take interrupts                          *)
ExternalInterruptBusy(s) ==
    LET t == reservations[s]
    IN  /\ Live
        /\ cur # NoTask
        /\ s \in pending
        /\ pending' = pending \ {s}
        /\ claimed' = claimed \cup {s}
        /\ irq' = [irq EXCEPT ![t] = s]
        /\ frames' = [frames EXCEPT ![t] = Append(@, s)]
        /\ Enter(t)
        /\ UNCHANGED <<reservations, handler, notified, notifying,
                       driverVars, spin>>

(* external_interrupt_handler, from user mode or from the idle loop        *)
ExternalInterrupt(s) ==
    LET t == reservations[s]
    IN  /\ Live
        /\ s \in pending
        /\ pending' = pending \ {s}
        /\ claimed' = claimed \cup {s}
        /\ irq' = [irq EXCEPT ![t] = s]
        /\ frames' = [frames EXCEPT ![t] = Append(@, s)]
        /\ Enter(t)
        /\ UNCHANGED <<reservations, handler, notified, notifying,
                       driverVars, spin>>

(* mutant: the interrupt is not completed                                  *)
NotifyReturnNoComplete(t) ==
    /\ InHandler(t)
    /\ notified' = [notified EXCEPT ![t] = TRUE]
    /\ irq' = [irq EXCEPT ![t] = NoIrq]
    /\ frames' = [frames EXCEPT ![t] = Pop(@)]
    /\ work' = work \cup {t}
    /\ UNCHANGED <<plicVars, handler, notifying, asleep, pc, cur, spin, panic>>

(***************************************************************************)
(* io_notify_return(usize::MAX), that is syscall_io_notify_return: it      *)
(* completes what the irq field of the task holds.  The handler has put    *)
(* what it took from the device where its main routine finds it.           *)
(***************************************************************************)
NotifyReturn(t) ==
    /\ InHandler(t)
    /\ notified' = [notified EXCEPT ![t] = TRUE]
    /\ \/ /\ irq[t] # NoIrq
          /\ claimed' = claimed \ {irq[t]}
          /\ irq' = [irq EXCEPT ![t] = NoIrq]
          /\ UNCHANGED notifying
       \/ /\ irq[t] = NoIrq
          /\ notifying' = [notifying EXCEPT ![t] = FALSE]
          /\ UNCHANGED <<claimed, irq>>
    /\ frames' = [frames EXCEPT ![t] = Pop(@)]
    /\ work' = work \cup {t}
    /\ UNCHANGED <<pending, reservations, handler, asleep, pc, cur, spin,
                   panic>>

(* mutants: the irq field of the deferring task is not cleared; the irq    *)
(* and the source change places                                            *)
NotifyDeferKeep(t, u) ==
    /\ Defers
    /\ InHandler(t)
    /\ notified' = [notified EXCEPT ![t] = TRUE]
    /\ frames' = [frames EXCEPT ![t] = Pop(@)]
    /\ spin' = <<irq[t], frames[t][Len(frames[t])], u>>
    /\ cur' = NoTask
    /\ UNCHANGED <<plicVars, handler, irq, notifying, asleep, driverVars, panic>>

NotifyDeferSwapped(t, u) ==
    /\ Defers
    /\ InHandler(t)
    /\ irq' = [irq EXCEPT ![t] = NoIrq]
    /\ notified' = [notified EXCEPT ![t] = TRUE]
    /\ frames' = [frames EXCEPT ![t] = Pop(@)]
    /\ spin' = <<frames[t][Len(frames[t])], irq[t], u>>
    /\ cur' = NoTask
    /\ UNCHANGED <<plicVars, handler, notifying, asleep, driverVars, panic>>

(***************************************************************************)
(* io_notify_return(u), that is syscall_io_notify_defer up to the loop     *)
(* that waits for the irq field of the new task.                           *)
(***************************************************************************)
NotifyDefer(t, u) ==
    /\ Defers
    /\ InHandler(t)
    /\ irq' = [irq EXCEPT ![t] = NoIrq]
    /\ notified' = [notified EXCEPT ![t] = TRUE]
    /\ frames' = [frames EXCEPT ![t] = Pop(@)]
    /\ spin' = <<irq[t], frames[t][Len(frames[t])], u>>
    /\ cur' = NoTask
    /\ UNCHANGED <<plicVars, handler, notifying, asleep, driverVars, panic>>

(* the rest of the defer: hand over the irq once the new task has none     *)
DeferEnter ==
    /\ spin # NoSpin /\ ~panic
    /\ LET s == spin[1]
           u == spin[3]
       IN  /\ \/ /\ s # NoIrq
                 /\ irq[u] = NoIrq
                 /\ irq' = [irq EXCEPT ![u] = s]
                 /\ UNCHANGED notifying
              \/ /\ s = NoIrq
                 /\ notifying' = [notifying EXCEPT ![u] = TRUE]
                 /\ UNCHANGED irq
           /\ frames' = [frames EXCEPT ![u] = Append(@, spin[2])]
           /\ Enter(u)
    /\ spin' = NoSpin
    /\ UNCHANGED <<plicVars, handler, notified, driverVars>>

(* the main routine takes what the handlers left, or decides to wait       *)
CheckWork(t) ==
    /\ InMain(t)
    /\ pc[t] = "check"
    /\ \/ t \in work /\ work' = work \ {t} /\ UNCHANGED pc
       \/ t \notin work /\ pc' = [pc EXCEPT ![t] = "wait"] /\ UNCHANGED work
    /\ UNCHANGED <<plicVars, taskVars, cur, spin, panic>>

(* mutant: the NOTIFIED flag is not looked at                              *)
IoWaitUnchecked(t) ==
    /\ InMain(t)
    /\ pc[t] = "wait"
    /\ pc' = [pc EXCEPT ![t] = "check"]
    /\ asleep' = asleep \cup {t}
    /\ cur' = NoTask
    /\ UNCHANGED <<plicVars, handler, irq, notified, notifying, frames, work,
                   spin, panic>>

(* the flag check of io_wait: a task notified since its last io_wait       *)
(* returns at once, any other goes to sleep                                *)
IoWait(t) ==
    /\ InMain(t)
    /\ pc[t] = "wait"
    /\ pc' = [pc EXCEPT ![t] = "check"]
    /\ \/ /\ notified[t]
          /\ notified' = [notified EXCEPT ![t] = FALSE]
          /\ UNCHANGED <<asleep, cur>>
       \/ /\ ~notified[t]
          /\ asleep' = asleep \cup {t}
          /\ cur' = NoTask
          /\ UNCHANGED notified
    /\ UNCHANGED <<plicVars, handler, irq, notifying, frames, work, spin,
                   panic>>

(* the executor, see module Executor                                       *)
Schedule(t) ==
    /\ Live
    /\ cur # t
    /\ t \notin asleep
    /\ cur' = t
    /\ UNCHANGED <<plicVars, taskVars, driverVars, spin, panic>>

TaskStep(t) ==
    \/ SetHandler(t) \/ NotifyReturn(t) \/ CheckWork(t) \/ IoWait(t)
    \/ Schedule(t)

Next ==
    \/ \E t \in Tasks : TaskStep(t)
    \/ \E t \in Tasks, s \in Sources : Reserve(t, s)
    \/ \E t, u \in Tasks : NotifyDefer(t, u)
    \/ \E s \in Sources : Raise(s) \/ ExternalInterrupt(s)
    \/ DeferEnter

(***************************************************************************)
(* The kernel finishes its calls, a task that gets the hart again and      *)
(* again runs on, and a pending interrupt is taken.  Nothing is assumed of *)
(* the scheduler: who gets the hart again is the subject of module         *)
(* Executor, and a premise of InterruptsAreServed.                         *)
(***************************************************************************)
Fairness ==
    /\ WF_vars(DeferEnter)
    /\ \A s \in Sources : SF_vars(ExternalInterrupt(s))
    /\ \A t \in Tasks : SF_vars(NotifyReturn(t)) /\ SF_vars(CheckWork(t))
                        /\ SF_vars(IoWait(t))

Spec == Init /\ [][Next]_vars /\ Fairness

-----------------------------------------------------------------------------
(* The irq field and the handler frames of a task name sources that exist, *)
(* and a task on the hart is one of the tasks.                             *)
TypeOK ==
    /\ pending \subseteq Sources /\ claimed \subseteq Sources
    /\ reservations \in [Sources -> Tasks \cup {NoTask}]
    /\ handler \subseteq Tasks
    /\ irq \in [Tasks -> Sources \cup {NoIrq}]
    /\ notified \in [Tasks -> BOOLEAN]
    /\ notifying \in [Tasks -> BOOLEAN]
    /\ frames \in [Tasks -> Seq(Sources)]
    /\ asleep \subseteq Tasks
    /\ pc \in [Tasks -> {"check", "wait"}]
    /\ work \subseteq Tasks
    /\ cur \in Tasks \cup {NoTask}
    /\ spin \in {NoSpin} \cup (Sources \cup {NoIrq}) \X Sources \X Tasks
    /\ panic \in BOOLEAN

(***************************************************************************)
(* The irq fields of the tasks (and of a defer under way) name sources     *)
(* that are claimed, each in one place only: no interrupt is completed     *)
(* that was not claimed, and none is completed twice, however handlers     *)
(* nest, defer and are preempted.                                          *)
(***************************************************************************)
IrqHeldOnce ==
    /\ \A t \in Tasks : irq[t] # NoIrq => irq[t] \in claimed
    /\ \A t, u \in Tasks : (irq[t] = irq[u] /\ irq[t] # NoIrq) => t = u
    /\ (spin # NoSpin /\ spin[1] # NoIrq) =>
           /\ spin[1] \in claimed
           /\ \A t \in Tasks : irq[t] # spin[1]

(***************************************************************************)
(* The wait of a driver's main loop loses no event: "Return immediately so *)
(* the task doesn't deadlock" (syscall.rs, io_wait).  A task that sleeps   *)
(* with no timeout and no handler running has no work left behind by a     *)
(* handler, even when the handler ran after the main routine had looked    *)
(* and before it called io_wait.                                           *)
(***************************************************************************)
NoLostNotification == asleep \cap work = {}

(***************************************************************************)
(* The inductive invariant behind the two properties above.  A source is   *)
(* pending or claimed, not both; the task on the hart is not asleep; and a *)
(* task that has decided to wait since a handler left it work has been     *)
(* notified, so io_wait will not let it sleep.                             *)
(***************************************************************************)
IndInv ==
    /\ TypeOK
    /\ IrqHeldOnce
    /\ NoLostNotification
    /\ pending \cap claimed = {}
    /\ \A s \in pending : reservations[s] \in Tasks
    /\ cur \notin asleep
    /\ \A t \in work : pc[t] = "wait" => notified[t]

(***************************************************************************)
(* interrupts.rst:59: "If using immediate handlers, the interrupt will be  *)
(* marked as completed as soon as the handler exits."  A source stays      *)
(* claimed only while a handler for it is running or being deferred.       *)
(***************************************************************************)
CompletedOnExit ==
    \A s \in claimed :
        \/ spin # NoSpin /\ spin[2] = s
        \/ \E t \in Tasks : \E i \in 1 .. Len(frames[t]) : frames[t][i] = s

(***************************************************************************)
(* syscall.s:150, of the defer call: "Set the IRQ in the new task's field  *)
(* whenever said task is done."  The kernel gets out of that wait.         *)
(***************************************************************************)
DeferEnds == (spin # NoSpin) ~> (spin = NoSpin)

(* the devices fall quiet                                                  *)
Quiet == <>[][\A s \in Sources : ~Raise(s)]_vars

(* Executor!TurnsCome, of the tasks that are not asleep                    *)
TurnsCome == \A t \in Tasks : (t \notin asleep) ~> (cur = t)

(***************************************************************************)
(* No interrupt of a reserved source is left unserved, when handlers defer *)
(* nothing: every one that is pending gets its handler run to the end,     *)
(* which leaves work for the main routine, and the main routine gets to    *)
(* it (external_interrupt_handler, io_notify_return, io_wait).  That the   *)
(* devices fall quiet is needed for the scheduler to give the tasks their  *)
(* turns, and so is its timer: under both, module Executor shows that it   *)
(* does.                                                                   *)
(***************************************************************************)
InterruptsAreServed ==
    (Quiet /\ TurnsCome) =>
        /\ \A s \in Sources : \A t \in Tasks :
               (s \in pending /\ reservations[s] = t) ~> (t \in work)
        /\ \A t \in Tasks : (t \in work) ~> (t \notin work)

=============================================================================
