-------------------------- MODULE InterruptsProofs --------------------------
(***************************************************************************)
(* The invariants of module Interrupts, for any number of tasks and        *)
(* sources, with and without defers.                                       *)
(***************************************************************************)
EXTENDS Interrupts, SequenceTheorems, TLAPS

(* the frames below the innermost handler                                  *)
LEMMA PopTypes ==
  ASSUME NEW f \in Seq(Sources), f # << >>
  PROVE  Pop(f) \in Seq(Sources) /\ f[Len(f)] \in Sources
<1>1. Len(f) \in Nat /\ Len(f) >= 1 BY EmptySeq, LenProperties
<1>2. f[Len(f)] \in Sources BY <1>1, ElementOfSeq
<1>3. Pop(f) \in Seq(Sources) BY <1>1, SubSeqProperties DEF Pop
<1> QED BY <1>2, <1>3

(* Nothing is raised, claimed, asleep or to be done at the start.          *)
LEMMA InitIndInv == Init => IndInv
<1> SUFFICES ASSUME Init PROVE IndInv
  OBVIOUS
<1>1. frames \in [Tasks -> Seq(Sources)]
  <2>1. << >> \in Seq(Sources) BY EmptySeq
  <2> QED BY <2>1 DEF Init
<1>2. TypeOK BY <1>1 DEF Init, TypeOK
<1>3. spin = NoSpin /\ irq = [t \in Tasks |-> NoIrq] BY DEF Init
<1>4. IrqHeldOnce BY <1>3 DEF IrqHeldOnce
<1>5. /\ pending = {} /\ claimed = {} /\ asleep = {} /\ work = {}
  BY DEF Init
<1> QED BY <1>2, <1>4, <1>5 DEF IndInv, NoLostNotification

(* io_set_notify_handler touches nothing the invariant relates             *)
LEMMA SetHandlerStep ==
  ASSUME IndInv, NEW t \in Tasks, SetHandler(t)
  PROVE  IndInv'
<1>1. /\ UNCHANGED <<pending, claimed, reservations, irq, notified, notifying,
                     frames, asleep, pc, work, cur, spin, panic>>
      /\ handler' = handler \cup {t}
  BY DEF SetHandler, plicVars, driverVars
<1>2. TypeOK' BY <1>1 DEF IndInv, TypeOK
<1>3. IrqHeldOnce' BY <1>1 DEF IndInv, IrqHeldOnce
<1>4. NoLostNotification' BY <1>1 DEF IndInv, NoLostNotification
<1> QED BY <1>1, <1>2, <1>3, <1>4 DEF IndInv

(* a reservation keeps the reserved sources reserved                       *)
LEMMA ReserveStep ==
  ASSUME IndInv, NEW t \in Tasks, NEW s \in Sources, Reserve(t, s)
  PROVE  IndInv'
<1>1. /\ UNCHANGED <<pending, claimed, handler, irq, notified, notifying,
                     frames, asleep, pc, work, cur, spin, panic>>
      /\ reservations' = [reservations EXCEPT ![s] = t]
  BY DEF Reserve, taskVars, driverVars
<1>2. TypeOK' BY <1>1 DEF IndInv, TypeOK
<1>3. IrqHeldOnce' BY <1>1 DEF IndInv, IrqHeldOnce
<1>4. NoLostNotification' BY <1>1 DEF IndInv, NoLostNotification
<1>5. (\A r \in pending : reservations[r] \in Tasks)'
  BY <1>1 DEF IndInv, TypeOK
<1> QED BY <1>1, <1>2, <1>3, <1>4, <1>5 DEF IndInv

(* The gateway lets a source through that is reserved and not claimed.     *)
LEMMA RaiseStep ==
  ASSUME IndInv, NEW s \in Sources, Raise(s)
  PROVE  IndInv'
<1>1. /\ UNCHANGED <<claimed, reservations, handler, irq, notified, notifying,
                     frames, asleep, pc, work, cur, spin, panic>>
      /\ s \notin claimed /\ reservations[s] # NoTask
      /\ pending' = pending \cup {s}
  BY DEF Raise, taskVars, driverVars
<1>2. TypeOK' BY <1>1 DEF IndInv, TypeOK
<1>3. IrqHeldOnce' BY <1>1 DEF IndInv, IrqHeldOnce
<1>4. NoLostNotification' BY <1>1 DEF IndInv, NoLostNotification
<1>5. (pending \cap claimed = {})' BY <1>1 DEF IndInv
<1>6. reservations[s] \in Tasks BY <1>1 DEF IndInv, TypeOK
<1>7. (\A r \in pending : reservations[r] \in Tasks)'
  BY <1>1, <1>6 DEF IndInv
<1> QED BY <1>1, <1>2, <1>3, <1>4, <1>5, <1>7 DEF IndInv

(* The source claimed is one nobody holds, as it was pending.              *)
LEMMA ExternalInterruptStep ==
  ASSUME IndInv, NEW s \in Sources, ExternalInterrupt(s)
  PROVE  IndInv'
<1> DEFINE t == reservations[s]
<1>1. /\ s \in pending /\ spin = NoSpin
      /\ pending' = pending \ {s}
      /\ claimed' = claimed \cup {s}
      /\ irq' = [irq EXCEPT ![t] = s]
      /\ frames' = [frames EXCEPT ![t] = Append(@, s)]
      /\ cur' = t /\ asleep' = asleep \ {t}
      /\ panic' = (t \notin handler)
      /\ UNCHANGED <<reservations, handler, notified, notifying, pc, work, spin>>
  BY DEF ExternalInterrupt, Live, Enter, driverVars
<1>2. t \in Tasks /\ s \notin claimed BY <1>1 DEF IndInv
<1> HIDE DEF t
<1>3. frames' \in [Tasks -> Seq(Sources)]
  <2>1. frames[t] \in Seq(Sources) BY <1>2 DEF IndInv, TypeOK
  <2>2. Append(frames[t], s) \in Seq(Sources) BY <2>1, AppendProperties
  <2> QED BY <1>1, <1>2, <2>2 DEF IndInv, TypeOK
<1>4. TypeOK' BY <1>1, <1>2, <1>3 DEF IndInv, TypeOK
<1>5. IrqHeldOnce' BY <1>1, <1>2, SourcesAssumption DEF IndInv, TypeOK, IrqHeldOnce
<1>6. NoLostNotification' BY <1>1 DEF IndInv, NoLostNotification
<1>7. (pending \cap claimed = {})' BY <1>1 DEF IndInv
<1>8. (\A r \in pending : reservations[r] \in Tasks)' BY <1>1 DEF IndInv
<1>9. (cur \notin asleep)' BY <1>1
<1>10. (\A u \in work : pc[u] = "wait" => notified[u])' BY <1>1 DEF IndInv
<1> QED BY <1>4, <1>5, <1>6, <1>7, <1>8, <1>9, <1>10 DEF IndInv

(* What io_notify_return completes is held by this task alone.             *)
LEMMA NotifyReturnStep ==
  ASSUME IndInv, NEW t \in Tasks, NotifyReturn(t)
  PROVE  IndInv'
<1>1. /\ cur = t /\ spin = NoSpin /\ frames[t] # << >>
      /\ notified' = [notified EXCEPT ![t] = TRUE]
      /\ frames' = [frames EXCEPT ![t] = Pop(@)]
      /\ work' = work \cup {t}
      /\ UNCHANGED <<pending, reservations, handler, asleep, pc, cur, spin, panic>>
  BY DEF NotifyReturn, InHandler, Live
<1>2. \/ /\ irq[t] # NoIrq /\ claimed' = claimed \ {irq[t]}
         /\ irq' = [irq EXCEPT ![t] = NoIrq] /\ notifying' = notifying
      \/ /\ notifying' = [notifying EXCEPT ![t] = FALSE]
         /\ UNCHANGED <<claimed, irq>>
  BY DEF NotifyReturn
<1>3. frames' \in [Tasks -> Seq(Sources)]
  BY <1>1, PopTypes DEF IndInv, TypeOK
<1>4. TypeOK' BY <1>1, <1>2, <1>3 DEF IndInv, TypeOK
<1>5. IrqHeldOnce'
  <2>1. irq \in [Tasks -> Sources \cup {NoIrq}] BY DEF IndInv, TypeOK
  <2>2. \A v \in Tasks : irq[v] # NoIrq => irq[v] \in claimed
    BY DEF IndInv, IrqHeldOnce
  <2>3. \A v, w \in Tasks : (irq[v] = irq[w] /\ irq[v] # NoIrq) => v = w
    BY DEF IndInv, IrqHeldOnce
  <2>4. \A v \in Tasks : irq'[v] # NoIrq =>
           irq'[v] = irq[v] /\ irq[v] \in claimed'
    BY <1>2, <2>1, <2>2, <2>3
  <2> QED BY <1>1, <2>2, <2>3, <2>4 DEF IrqHeldOnce
<1>6. NoLostNotification' BY <1>1 DEF IndInv, NoLostNotification
<1>7. (pending \cap claimed = {})' BY <1>1, <1>2 DEF IndInv
<1>8. (\A r \in pending : reservations[r] \in Tasks)' BY <1>1 DEF IndInv
<1>9. (cur \notin asleep)' BY <1>1 DEF IndInv
<1>10. (\A u \in work : pc[u] = "wait" => notified[u])'
  BY <1>1 DEF IndInv, TypeOK
<1> QED BY <1>4, <1>5, <1>6, <1>7, <1>8, <1>9, <1>10 DEF IndInv

(* The defer call takes the source out of the task's field.                *)
LEMMA NotifyDeferStep ==
  ASSUME IndInv, NEW t \in Tasks, NEW u \in Tasks, NotifyDefer(t, u)
  PROVE  IndInv'
<1>1. /\ cur = t /\ spin = NoSpin /\ frames[t] # << >>
      /\ irq' = [irq EXCEPT ![t] = NoIrq]
      /\ notified' = [notified EXCEPT ![t] = TRUE]
      /\ frames' = [frames EXCEPT ![t] = Pop(@)]
      /\ spin' = <<irq[t], frames[t][Len(frames[t])], u>>
      /\ cur' = NoTask
      /\ UNCHANGED <<pending, claimed, reservations, handler, notifying, asleep,
                     pc, work, panic>>
  BY DEF NotifyDefer, InHandler, Live, plicVars, driverVars
<1>2. frames[t] \in Seq(Sources) BY DEF IndInv, TypeOK
<1>3. frames' \in [Tasks -> Seq(Sources)] /\ frames[t][Len(frames[t])] \in Sources
  BY <1>1, <1>2, PopTypes DEF IndInv, TypeOK
<1>4. spin' \in (Sources \cup {NoIrq}) \X Sources \X Tasks
  BY <1>1, <1>3 DEF IndInv, TypeOK
<1>5. TypeOK' BY <1>1, <1>3, <1>4 DEF IndInv, TypeOK
<1>6. IrqHeldOnce'
  <2>1. spin'[1] = irq[t] BY <1>1
  <2> QED BY <1>1, <2>1 DEF IndInv, TypeOK, IrqHeldOnce
<1>7. NoLostNotification' BY <1>1 DEF IndInv, NoLostNotification
<1>8. (cur \notin asleep)' BY <1>1, NoTaskAssumption DEF IndInv, TypeOK
<1>9. (\A v \in work : pc[v] = "wait" => notified[v])'
  BY <1>1 DEF IndInv, TypeOK
<1> QED BY <1>1, <1>5, <1>6, <1>7, <1>8, <1>9 DEF IndInv

(* Once the new task's field is free, the source is put there.             *)
LEMMA DeferEnterStep ==
  ASSUME IndInv, DeferEnter
  PROVE  IndInv'
<1> DEFINE s == spin[1]
           r == spin[2]
           u == spin[3]
<1>1. /\ spin # NoSpin
      /\ \/ /\ s # NoIrq /\ irq[u] = NoIrq
            /\ irq' = [irq EXCEPT ![u] = s] /\ notifying' = notifying
         \/ /\ s = NoIrq
            /\ notifying' = [notifying EXCEPT ![u] = TRUE] /\ irq' = irq
      /\ frames' = [frames EXCEPT ![u] = Append(@, r)]
      /\ cur' = u /\ asleep' = asleep \ {u}
      /\ panic' = (u \notin handler)
      /\ spin' = NoSpin
      /\ UNCHANGED <<pending, claimed, reservations, handler, notified, pc, work>>
  BY DEF DeferEnter, Enter, plicVars, driverVars
<1>2. s \in Sources \cup {NoIrq} /\ r \in Sources /\ u \in Tasks
  BY <1>1 DEF IndInv, TypeOK
<1>2a. s # NoIrq => s \in claimed /\ \A v \in Tasks : irq[v] # s
  BY <1>1 DEF IndInv, IrqHeldOnce
<1> HIDE DEF s, r, u
<1>3. frames' \in [Tasks -> Seq(Sources)]
  <2>1. frames[u] \in Seq(Sources) BY <1>2 DEF IndInv, TypeOK
  <2>2. Append(frames[u], r) \in Seq(Sources) BY <1>2, <2>1, AppendProperties
  <2> QED BY <1>1, <1>2, <2>2 DEF IndInv, TypeOK
<1>4. TypeOK'
  <2>1. irq' \in [Tasks -> Sources \cup {NoIrq}] BY <1>1, <1>2 DEF IndInv, TypeOK
  <2>2. notifying' \in [Tasks -> BOOLEAN] BY <1>1, <1>2 DEF IndInv, TypeOK
  <2>3. asleep' \subseteq Tasks /\ cur' \in Tasks /\ panic' \in BOOLEAN
    BY <1>1, <1>2 DEF IndInv, TypeOK
  <2> QED BY <1>1, <1>3, <2>1, <2>2, <2>3 DEF IndInv, TypeOK
<1>5. IrqHeldOnce'
  <2>1. irq \in [Tasks -> Sources \cup {NoIrq}] BY DEF IndInv, TypeOK
  <2>2. \A v \in Tasks : irq[v] # NoIrq => irq[v] \in claimed
    BY DEF IndInv, IrqHeldOnce
  <2>3. \A v, w \in Tasks : (irq[v] = irq[w] /\ irq[v] # NoIrq) => v = w
    BY DEF IndInv, IrqHeldOnce
  <2>4. \A v \in Tasks : irq'[v] # NoIrq => irq'[v] \in claimed'
    BY <1>1, <1>2, <1>2a, <2>1, <2>2
  <2>5. \A v, w \in Tasks : (irq'[v] = irq'[w] /\ irq'[v] # NoIrq) => v = w
    BY <1>1, <1>2, <1>2a, <2>1, <2>3
  <2> QED BY <1>1, <2>4, <2>5 DEF IrqHeldOnce
<1>6. NoLostNotification' BY <1>1 DEF IndInv, NoLostNotification
<1> QED BY <1>1, <1>4, <1>5, <1>6 DEF IndInv

(* the main routine: what it decides on is protected by the NOTIFIED flag  *)
LEMMA MainStep ==
  ASSUME IndInv, NEW t \in Tasks, CheckWork(t) \/ IoWait(t) \/ Schedule(t)
  PROVE  IndInv'
<1>1. UNCHANGED <<pending, claimed, reservations, handler, irq, notifying,
                  frames, spin, panic>>
  BY DEF CheckWork, IoWait, Schedule, plicVars, taskVars, driverVars
<1>2. IrqHeldOnce' BY <1>1 DEF IndInv, IrqHeldOnce
<1>3. CASE CheckWork(t)
  <2>1. /\ cur' = cur /\ asleep' = asleep /\ notified' = notified
        /\ \/ work' = work \ {t} /\ pc' = pc
           \/ t \notin work /\ work' = work /\ pc' = [pc EXCEPT ![t] = "wait"]
    BY <1>3 DEF CheckWork, taskVars
  <2>2. TypeOK' BY <1>1, <2>1 DEF IndInv, TypeOK
  <2> QED BY <1>1, <1>2, <2>1, <2>2 DEF IndInv, TypeOK, NoLostNotification
<1>4. CASE IoWait(t)
  <2>1. /\ pc[t] = "wait" /\ cur = t /\ work' = work
        /\ pc' = [pc EXCEPT ![t] = "check"]
        /\ \/ /\ notified' = [notified EXCEPT ![t] = FALSE]
              /\ UNCHANGED <<asleep, cur>>
           \/ /\ ~notified[t] /\ notified' = notified
              /\ asleep' = asleep \cup {t} /\ cur' = NoTask
    BY <1>4 DEF IoWait, InMain
  <2>2. TypeOK' BY <1>1, <2>1 DEF IndInv, TypeOK
  <2>3. NoLostNotification' BY <2>1 DEF IndInv, NoLostNotification
  <2>4. (cur \notin asleep)'
    BY <2>1, NoTaskAssumption DEF IndInv, TypeOK
  <2>5. (\A u \in work : pc[u] = "wait" => notified[u])'
    BY <2>1 DEF IndInv, TypeOK
  <2> QED BY <1>1, <1>2, <2>2, <2>3, <2>4, <2>5 DEF IndInv
<1>5. CASE Schedule(t)
  <2>1. /\ t \notin asleep /\ cur' = t
        /\ UNCHANGED <<asleep, notified, work, pc>>
    BY <1>5 DEF Schedule, taskVars, driverVars
  <2>2. TypeOK' BY <1>1, <2>1 DEF IndInv, TypeOK
  <2> QED BY <1>1, <1>2, <2>1, <2>2 DEF IndInv, NoLostNotification
<1> QED BY <1>3, <1>4, <1>5

(* Every step keeps the inductive invariant.                               *)
LEMMA NextIndInv == IndInv /\ [Next]_vars => IndInv'
<1> SUFFICES ASSUME IndInv, [Next]_vars PROVE IndInv'
  OBVIOUS
<1>1. CASE UNCHANGED vars
  BY <1>1 DEF IndInv, TypeOK, IrqHeldOnce, NoLostNotification, vars, plicVars,
              taskVars, driverVars
<1>2. ASSUME NEW t \in Tasks, TaskStep(t) PROVE IndInv'
  BY <1>2, SetHandlerStep, NotifyReturnStep, MainStep DEF TaskStep
<1> QED BY <1>1, <1>2, ReserveStep, RaiseStep, ExternalInterruptStep,
           NotifyDeferStep, DeferEnterStep DEF Next

(***************************************************************************)
(* The interrupt entry, the two returns of a handler and the io_wait loop  *)
(* of a driver keep the inductive invariant.                               *)
(***************************************************************************)
THEOREM Invariance == Spec => []IndInv
BY InitIndInv, NextIndInv, PTL DEF Spec

(***************************************************************************)
(* Each claimed source is in the irq field of one task at most, so no      *)
(* return of a handler completes an interrupt twice or out of turn.        *)
(***************************************************************************)
THEOREM HeldOnce == Spec => []IrqHeldOnce
<1>1. IndInv => IrqHeldOnce BY DEF IndInv
<1> QED BY <1>1, Invariance, PTL

(***************************************************************************)
(* A driver that checks for work and then calls io_wait never sleeps on    *)
(* work its handler has left.                                              *)
(***************************************************************************)
THEOREM NothingLost == Spec => []NoLostNotification
<1>1. IndInv => NoLostNotification BY DEF IndInv
<1> QED BY <1>1, Invariance, PTL

=============================================================================
