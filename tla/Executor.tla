------------------------------ MODULE Executor ------------------------------
(***************************************************************************)
(* The scheduler, kernel/src/task/executor.rs, on its one hart, with the   *)
(* ways the kernel enters it: the timer interrupt (arch/riscv/timer.s) and *)
(* the io_wait system call.  External interrupts and deferred              *)
(* notifications (arch/riscv/plic.s, syscall.s) switch tasks without it:   *)
(* they call get_task, which stores the address it is given in NEXT_ID as  *)
(* it is and looks the task up by part of its bits only (task/address.rs). *)
(*                                                                         *)
(* Times are kept relative to now: wait_time[t] is how far ahead of the    *)
(* clock the time stored in the task is, Never is u64::MAX and Past is any *)
(* time the clock has left behind.  timer is the armed timer likewise.     *)
(***************************************************************************)
EXTENDS Integers, FiniteSets

CONSTANTS
    MaxTasks,       \* bound on the tasks ever spawned, at most 16
    Delays,         \* the delays passed to io_wait, Never among them or not
    Slice,          \* ticks in the time slice of schedule_timer
    Never,          \* u64::MAX
    Drivers,        \* ids of the tasks that reserve an interrupt source
    DeferAddresses, \* what io_notify_return is given, of group 0
    HartId          \* the id Executor::init is given

GroupSize == 16
Stride == 7
Ids == 0 .. GroupSize - 1
TaskMask == 4096            \* Address::task keeps the bits below
Idle == GroupSize           \* stands for IDLE_TASK_STUB in sscratch
Halted == GroupSize + 1     \* mini_panic, or a loop with no exit
Past == -1
Unclaimed == 65535          \* u16::MAX

ASSUME MaxTasksAssumption == MaxTasks \in 1 .. GroupSize
ASSUME SliceAssumption == Slice \in Nat \ {0}
ASSUME DelaysAssumption == Delays \subseteq Nat \cup {Never}
ASSUME NeverAssumption == Never \notin Int
ASSUME DriversAssumption == Drivers \subseteq Ids
ASSUME DeferAddressesAssumption == DeferAddresses \subseteq Nat
ASSUME HartIdAssumption == HartId \in 0 .. Unclaimed - 1

VARIABLES
    tasks,          \* slots of group 0 that hold a task
    wait_time,
    executor_id,    \* per task, and of the idle stub
    next_id,        \* NEXT_ID, an address and not always a plain id
    reserved,       \* the addresses in plic_reservations
    cur,            \* the task in sscratch, Idle or Halted
    timer

vars == <<tasks, wait_time, executor_id, next_id, reserved, cur, timer>>

Times == Int \cup {Never}
Addresses == Ids \cup DeferAddresses

(* a comes strictly before b / not after b on the clock                    *)
Before(a, b) == a # Never /\ (b = Never \/ a < b)
NotAfter(a, b) == a = b \/ Before(a, b)
Earlier(a, b) == IF Before(b, a) THEN b ELSE a

Runnable(w, t) == Before(w[t], 0)
Ready(t) == t \in tasks /\ Runnable(wait_time, t)

(* the id the loop of Executor::next looks at in its k-th round            *)
Candidate(prev, k) == (prev + Stride * k) % GroupSize

(* how many rounds the loop needs from prev until it gets to t             *)
Rounds(prev, t) ==
    CHOOSE k \in 1 .. GroupSize : Candidate(prev, k) = t

(***************************************************************************)
(* The rounds in which the loop of Executor::next finds a task it can      *)
(* execute: a runnable one whose claim is free.  The claim it would write  *)
(* is what Executor::id reads back from the task it has just unclaimed.    *)
(***************************************************************************)
Hits(w, claims) ==
    {k \in 1 .. GroupSize :
        LET t == Candidate(next_id, k)
        IN  t \in tasks /\ Runnable(w, t) /\ claims[t] = Unclaimed}

(* mutant: the loop stops where it should make its last round               *)
LastRoundsEarly ==
    {k \in 1 .. GroupSize : Candidate(next_id, k + 1) = next_id}

(***************************************************************************)
(* The loop ends with the round that looks at prev_id: id == prev_id sets  *)
(* stop_next before that round, and after it the loop breaks.  id is       *)
(* masked and prev_id is not, so from a NEXT_ID above the mask there is no *)
(* such round, and with nothing to execute the loop goes on for ever.      *)
(***************************************************************************)
LastRounds == {k \in 1 .. GroupSize : Candidate(next_id, k) = next_id}

(* min_time after n rounds that have executed nothing                      *)
MinTime(w, n) ==
    LET min_time[k \in 0 .. n] ==
            IF k = 0 THEN Never
            ELSE LET t == Candidate(next_id, k)
                 IN  IF t \in tasks THEN Earlier(min_time[k - 1], w[t])
                     ELSE min_time[k - 1]
    IN  min_time[n]

(* mutants of Executor::next: the loop always starts from slot 0, NEXT_ID  *)
(* is not stored, it is stored without its mask                            *)
ScheduleFromZero(w) ==
    LET hits == {k \in 1 .. GroupSize : LET t == Candidate(0, k)
                                        IN  t \in tasks /\ Runnable(w, t)}
    IN  /\ wait_time' = w
        /\ \/ \E k \in hits :
                /\ \A j \in hits : k <= j
                /\ next_id' = Candidate(0, k)
                /\ cur' = next_id'
                /\ timer' = Slice
           \/ /\ hits = {}
              /\ cur' = Idle
              /\ timer' = MinTime(w, GroupSize)
              /\ UNCHANGED next_id
        /\ UNCHANGED executor_id

ScheduleKeepsId(w) ==
    LET hits == Hits(w, executor_id)
    IN  /\ wait_time' = w
        /\ \/ \E k \in hits :
                /\ \A j \in hits : k <= j
                /\ cur' = Candidate(next_id, k)
                /\ timer' = Slice
           \/ /\ hits = {}
              /\ cur' = Idle
              /\ timer' = MinTime(w, GroupSize)
        /\ UNCHANGED <<executor_id, next_id>>

ScheduleUnmasked(w) ==
    LET hits == Hits(w, executor_id)
    IN  /\ wait_time' = w
        /\ \/ \E k \in hits :
                /\ \A j \in hits : k <= j
                /\ next_id' = next_id + Stride * k
                /\ cur' = Candidate(next_id, k)
                /\ timer' = Slice
           \/ /\ hits = {}
              /\ cur' = Idle
              /\ timer' = MinTime(w, GroupSize)
              /\ UNCHANGED next_id
        /\ UNCHANGED executor_id

(***************************************************************************)
(* Executor::next with the wait times w: the first hit is executed; with   *)
(* none, idle arms the timer for min_time when the loop has ended.         *)
(***************************************************************************)
Schedule(w) ==
    LET claims == [executor_id EXCEPT ![cur] = Unclaimed]
        hits == Hits(w, claims)
    IN  /\ wait_time' = w
        /\ \/ \E k \in hits :
                /\ \A j \in hits : k <= j
                /\ next_id' = Candidate(next_id, k)
                /\ cur' = next_id'
                /\ timer' = Slice
                /\ executor_id' = [claims EXCEPT ![next_id'] = claims[cur]]
           \/ \E k \in LastRounds :
                /\ hits = {}
                /\ cur' = Idle
                /\ timer' = MinTime(w, k)
                /\ executor_id' = claims
                /\ UNCHANGED next_id
           \/ /\ hits = {} /\ LastRounds = {}
              /\ cur' = Halted
              /\ executor_id' = claims
              /\ UNCHANGED <<next_id, timer>>

(* boot: Executor::init, then one task in slot 0 and a call of next        *)
Init ==
    /\ tasks = {0}
    /\ wait_time = [t \in Ids |-> Past]
    /\ executor_id = [t \in Ids \cup {Idle} |->
                        IF t = Idle THEN HartId ELSE Unclaimed]
    /\ next_id = 0
    /\ reserved = {}
    /\ cur = Idle
    /\ timer = Past

(* the timer interrupt, from a task or from the idle loop                  *)
TimerInterrupt ==
    /\ cur # Halted
    /\ NotAfter(timer, 0)
    /\ Schedule(wait_time)
    /\ UNCHANGED <<tasks, reserved>>

(***************************************************************************)
(* io_wait of a task that was not notified: wait_duration, then process_io *)
(* clears the wait time of every task it delivers to, and of the caller    *)
(* when a recipient has no queues; then the next task.                     *)
(***************************************************************************)
IoWait(delay, woken) ==
    /\ cur \in Ids
    /\ Schedule([t \in Ids |-> CASE t \in woken -> Past
                                 [] t = cur /\ t \notin woken -> delay
                                 [] OTHER -> wait_time[t]])
    /\ UNCHANGED <<tasks, reserved>>

(* sys_reserve_interrupt, with the caller's current_address                *)
Reserve ==
    /\ cur \in Drivers
    /\ reserved' = reserved \cup {next_id}
    /\ UNCHANGED <<tasks, wait_time, executor_id, next_id, cur, timer>>

(* the task an address of group 0 leads to: Address::task                  *)
TaskOf(a) == a % TaskMask

(* mutant: NEXT_ID is left alone                                           *)
GetTaskKeepsId(a) ==
    /\ TaskOf(a) \in tasks
    /\ cur' = TaskOf(a)
    /\ wait_time' = [wait_time EXCEPT ![TaskOf(a)] = Past]
    /\ UNCHANGED <<tasks, executor_id, next_id, reserved, timer>>

(***************************************************************************)
(* executor_get_task and what follows it in assembly: notification_enter   *)
(* with the task that was found, mini_panic when there is none.            *)
(***************************************************************************)
GetTask(a) ==
    /\ next_id' = a
    /\ \/ /\ TaskOf(a) \in tasks
          /\ cur' = TaskOf(a)
          /\ wait_time' = [wait_time EXCEPT ![TaskOf(a)] = Past]
       \/ /\ TaskOf(a) \notin tasks
          /\ cur' = Halted
          /\ UNCHANGED wait_time
    /\ UNCHANGED <<tasks, executor_id, reserved, timer>>

(* an interrupt of a reserved source, to a task or to the idle loop        *)
ExternalInterrupt(a) ==
    /\ cur # Halted
    /\ a \in reserved
    /\ GetTask(a)

(* io_notify_return with an address; what the irq field of the other task  *)
(* does to it is the subject of module Interrupts                          *)
Defer(a) ==
    /\ cur \in Ids
    /\ a \in DeferAddresses
    /\ GetTask(a)

Notify(a) == ExternalInterrupt(a) \/ Defer(a)

(* task_spawn: Group::insert takes the first empty slot                    *)
Spawn ==
    /\ cur \in Ids
    /\ Cardinality(tasks) < MaxTasks
    /\ \E t \in Ids \ tasks :
           /\ \A j \in Ids \ tasks : t <= j
           /\ tasks' = tasks \cup {t}
           /\ wait_time' = [wait_time EXCEPT ![t] = Past]
    /\ UNCHANGED <<executor_id, next_id, reserved, cur, timer>>

Advance(x) == IF x = Never THEN Never ELSE IF x > Past THEN x - 1 ELSE Past

(* the clock                                                               *)
Tick ==
    /\ wait_time' = [t \in Ids |-> Advance(wait_time[t])]
    /\ timer' = Advance(timer)
    /\ UNCHANGED <<tasks, executor_id, next_id, reserved, cur>>

Next ==
    \/ TimerInterrupt
    \/ \E delay \in Delays, woken \in SUBSET tasks : IoWait(delay, woken)
    \/ Reserve
    \/ \E a \in Addresses : ExternalInterrupt(a) \/ Defer(a)
    \/ Spawn
    \/ Tick

(***************************************************************************)
(* The clock runs and an armed timer that is due fires.  Nothing is        *)
(* assumed of the tasks: they may compute for ever.                        *)
(***************************************************************************)
Spec == Init /\ [][Next]_vars /\ WF_vars(Tick) /\ WF_vars(TimerInterrupt)

-----------------------------------------------------------------------------
(* NEXT_ID is an id that next has masked or an address get_task was given, *)
(* and the times are times of the clock.                                   *)
TypeOK ==
    /\ tasks \subseteq Ids
    /\ wait_time \in [Ids -> Times]
    /\ executor_id \in [Ids \cup {Idle} -> 0 .. Unclaimed]
    /\ next_id \in Addresses
    /\ reserved \subseteq Addresses
    /\ cur \in Ids \cup {Idle, Halted}
    /\ timer \in Times

(***************************************************************************)
(* Executor::current_address returns NEXT_ID, which next, the interrupt    *)
(* handler and the defer call all overwrite, and of which executor.rs:38   *)
(* reports that "it just got out of sync due to an interrupt".  Whatever   *)
(* their order, NEXT_ID leads get_task to the task on the hart.  It need   *)
(* not be the task's plain id: a defer stores the bits above the mask too. *)
(***************************************************************************)
CurrentAddress == cur \in Ids => cur \in tasks /\ TaskOf(next_id) = cur

(***************************************************************************)
(* A reservation holds what current_address returned to the task that made *)
(* it.  Through all the switches before that call and since, its address   *)
(* leads to a driver that exists, so that the lookup in                    *)
(* external_interrupt_handler (plic.s:64-66) never ends in mini_panic.     *)
(***************************************************************************)
ReservationsLead == \A a \in reserved : TaskOf(a) \in tasks \cap Drivers

(***************************************************************************)
(* The hart never oversleeps: while it idles, the timer that Executor::idle *)
(* armed is due no later than the wait time of any task.                   *)
(***************************************************************************)
NoOversleep ==
    cur = Idle => \A t \in tasks : NotAfter(timer, wait_time[t])

(* The inductive invariant behind the properties of this module: no task   *)
(* is ever claimed, since the claim that is written is the unclaimed value.*)
IndInv ==
    /\ TypeOK
    /\ CurrentAddress
    /\ ReservationsLead
    /\ NoOversleep
    /\ \A t \in Ids : executor_id[t] = Unclaimed

(* the steps that call Executor::next                                      *)
SchedulingStep ==
    \/ TimerInterrupt
    \/ \E delay \in Delays, woken \in SUBSET tasks : IoWait(delay, woken)

(***************************************************************************)
(* Round robin: each call of Executor::next runs a task that is and stays  *)
(* ready, or brings it closer in the order of the loop.  So no task is     *)
(* passed over twice by the same task while it waits for its turn.         *)
(***************************************************************************)
TurnComesCloser ==
    [][SchedulingStep =>
         \A t \in tasks :
            (Ready(t) /\ Runnable(wait_time', t))
            => (cur' = t \/ Rounds(next_id', t) < Rounds(next_id, t))]_vars

(* no more interrupts come                                                 *)
Quiet == <>[][\A a \in Addresses : ~Notify(a)]_vars

(***************************************************************************)
(* Every task that does not wait for ever gets the hart: the ready ones in *)
(* their turn, the waiting ones when their timeout has passed, whatever    *)
(* the other tasks do on the hart.  Three things can keep them from it:    *)
(* interrupts that never stop; a timer that stays disarmed, as idle leaves *)
(* it when every task waits for ever; and a defer to an address that is    *)
(* not the plain id of a task, which ends in mini_panic or leaves next     *)
(* with a loop that has no exit.                                           *)
(***************************************************************************)
TurnsCome ==
    (Quiet /\ []<>(timer # Never) /\ [](next_id \in tasks)) =>
        \A t \in Ids : (t \in tasks /\ wait_time[t] # Never) ~> (cur = t)

(***************************************************************************)
(* scheduling.rst:9: the scheduler "should give every task and task group  *)
(* a reasonable amount of CPU time while preventing malicious applications *)
(* from taking it all".  Once no more interrupts come, a task that is      *)
(* ready gets the hart, all defers having gone to tasks by their ids.      *)
(***************************************************************************)
NoStarvationOnceQuiet ==
    (Quiet /\ [](next_id \in tasks)) => \A t \in Ids : Ready(t) ~> (cur = t)

(***************************************************************************)
(* task/mod.rs:97: "The executor / hart that is executing this task.  This *)
(* value is u16::MAX if no executor has claimed it."  A task on the hart   *)
(* has been claimed.                                                       *)
(***************************************************************************)
RunningTaskIsClaimed == cur \in Ids => executor_id[cur] = HartId

=============================================================================
