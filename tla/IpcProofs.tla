------------------------------ MODULE IpcProofs ------------------------------
(***************************************************************************)
(* Proofs about Ipc, for any set of tasks and any ring and index size.     *)
(* IndInv is inductive: one lemma per action, then the theorems.  The      *)
(* second half shows that the rings implement Mailboxes.                   *)
(***************************************************************************)
EXTENDS Ipc, RingIndexProofs, SequenceTheorems

(* the number a count of held slots is                                     *)
LEMMA CountTypes ==
  ASSUME TypeOK, NEW t \in Tasks
  PROVE  /\ Unsent(t) \in Indices
         /\ Unread(t) \in Indices
         /\ Held(t) \in 0 .. 2
         /\ Free(t) \in Nat
<1>1. tx_index[t] \in Indices /\ last_transmit_index[t] \in Indices
      /\ rx_index[t] \in Indices /\ last_received_index[t] \in Indices
      /\ stack[t] \in Seq(Slots)
  BY DEF TypeOK
<1>2. Unsent(t) \in Indices /\ Unread(t) \in Indices
  BY <1>1, IndexTypes DEF Unsent, Unread
<1>3. Held(t) \in 0 .. 2 BY DEF Held
<1>4. Free(t) \in Nat BY <1>1 DEF Free
<1> QED BY <1>2, <1>3, <1>4

(* popping a free stack that is not empty                                  *)
LEMMA PopTypes ==
  ASSUME NEW s \in Seq(Slots), s # << >>
  PROVE  /\ Pop(s) \in Seq(Slots)
         /\ Len(Pop(s)) = Len(s) - 1
         /\ Top(s) \in Slots
<1>1. Len(s) \in Nat /\ Len(s) >= 1 OBVIOUS
<1>2. \A i \in 1 .. Len(s) - 1 : s[i] \in Slots BY <1>1, ElementOfSeq
<1>3. Len(s) - 1 \in Int BY <1>1
<1>4. Pop(s) \in Seq(Slots) BY <1>2, <1>3, SubSeqProperties DEF Pop
<1>5. Len(Pop(s)) = IF 1 <= Len(s) - 1 THEN Len(s) - 1 - 1 + 1 ELSE 0
  BY <1>2, <1>3, SubSeqProperties DEF Pop
<1>6. Top(s) \in Slots BY <1>1, ElementOfSeq DEF Top
<1>7. Len(Pop(s)) = Len(s) - 1
  <2> DEFINE n == Len(s)
  <2>1. n \in Nat /\ n >= 1 /\ Len(Pop(s)) = IF 1 <= n - 1 THEN n - 1 - 1 + 1 ELSE 0
    BY <1>1, <1>5
  <2> HIDE DEF n
  <2>2. Len(Pop(s)) = n - 1 BY <2>1
  <2> QED BY <2>2 DEF n
<1> QED BY <1>4, <1>6, <1>7

(* pushing on a free stack                                                 *)
LEMMA PushTypes ==
  ASSUME NEW s \in Seq(Slots), NEW x \in Slots
  PROVE  Append(s, x) \in Seq(Slots) /\ Len(Append(s, x)) = Len(s) + 1
OBVIOUS

(***************************************************************************)
(* While the slots add up no distance reaches the end of its index range,  *)
(* so counting up by one is counting up by one across the wrap as well.    *)
(***************************************************************************)
LEMMA CountBounds ==
  ASSUME IndInv, NEW t \in Tasks
  PROVE  /\ Unsent(t) <= Size
         /\ Unread(t) <= Size
         /\ Unsent(t) + Unread(t) + Held(t) <= Size
         /\ Size <= IndexMod - 1
<1>1. Free(t) + Unsent(t) + Unread(t) + Held(t) = Size
  BY DEF IndInv, SlotConservation
<1>2. Unsent(t) \in Nat /\ Unread(t) \in Nat /\ Held(t) \in Nat
      /\ Free(t) \in Nat
  BY CountTypes, IndexModAssumption DEF IndInv, Indices
<1> QED BY <1>1, <1>2, SizeAssumption, IndexModAssumption

(***************************************************************************)
(* A step that leaves the rings, the stacks and the held slots alone keeps *)
(* the invariant when it keeps its other parts.                            *)
(***************************************************************************)
LEMMA Frame ==
  ASSUME IndInv, TypeOK', Whereabouts', AssertionsHold',
         UNCHANGED <<packets, tx_index, tx_slots, rx_index, rx_slots, stack,
                     last_transmit_index, last_received_index, tx_slot,
                     rx_slot, freeing>>
  PROVE  IndInv'
<1>1. SlotConservation' BY DEF IndInv, SlotConservation, Free, Unsent, Unread, Held
<1>2. HeldEntryStable' BY DEF IndInv, HeldEntryStable, Unread
<1> QED BY <1>1, <1>2 DEF IndInv

(* io_set_queues moves no slot, and starts from an index of zero.          *)
LEMMA SetQueuesStep ==
  ASSUME IndInv, NEW t \in Tasks, SetQueues(t)
  PROVE  IndInv'
<1> USE DEF SetQueues, At, Running, Goto, sharedVars, hartVars
<1>1. TypeOK' BY IndexTypes DEF IndInv, TypeOK, Locations
<1>2. UNCHANGED last_transmit_index BY DEF IndInv, TypeOK, Whereabouts
<1>3. Whereabouts' BY DEF IndInv, TypeOK, Whereabouts
<1>4. AssertionsHold' BY DEF IndInv, AssertionsHold
<1> QED BY <1>1, <1>2, <1>3, <1>4, Frame

(* Taking the lock of the free stack in transmit moves no slot.            *)
LEMMA TransmitStep ==
  ASSUME IndInv, NEW t \in Tasks, Transmit(t)
  PROVE  IndInv'
<1> USE DEF Transmit, At, Running, Goto, kernelVars, hartVars
<1>1. TypeOK' BY DEF IndInv, TypeOK, Locations
<1>2. Whereabouts' BY DEF IndInv, TypeOK, Whereabouts
<1>3. AssertionsHold' BY DEF IndInv, AssertionsHold
<1> QED BY <1>1, <1>2, <1>3, Frame

(* Taking the lock of the free stack in push_free_slot moves no slot.      *)
LEMMA LockStackStep ==
  ASSUME IndInv, NEW t \in Tasks, LockStack(t)
  PROVE  IndInv'
<1> USE DEF LockStack, At, Running, Goto, kernelVars, hartVars
<1>1. TypeOK' BY DEF IndInv, TypeOK, Locations
<1>2. Whereabouts' BY DEF IndInv, TypeOK, Whereabouts
<1>3. AssertionsHold' BY DEF IndInv, AssertionsHold
<1> QED BY <1>1, <1>2, <1>3, Frame

(* The first half of defer only reads the received index.                  *)
LEMMA DeferStep ==
  ASSUME IndInv, NEW t \in Tasks, Defer(t)
  PROVE  IndInv'
<1> USE DEF Defer, At, Running, Goto, sharedVars, kernelVars, hartVars
<1>1. TypeOK' BY IndexTypes DEF IndInv, TypeOK, Locations
<1>2. Whereabouts' BY DEF IndInv, TypeOK, Whereabouts
<1>3. AssertionsHold' BY DEF IndInv, AssertionsHold
<1> QED BY <1>1, <1>2, <1>3, Frame

(* Entering io_wait moves no slot.                                         *)
LEMMA IoWaitStep ==
  ASSUME IndInv, NEW t \in Tasks, NEW time, IoWait(t, time)
  PROVE  IndInv'
<1> USE DEF IoWait, Running, Goto, sharedVars
<1>1. TypeOK' BY WaitTimesAssumption DEF IndInv, TypeOK, Locations
<1>2. Whereabouts' BY DEF IndInv, TypeOK, Whereabouts
<1>3. AssertionsHold' BY DEF IndInv, AssertionsHold
<1> QED BY <1>1, <1>2, <1>3, Frame

(* The steps of the hart move no slot.                                     *)
LEMMA HartStep ==
  ASSUME IndInv, NEW t \in Tasks,
         \/ ProcessDone(t) \/ ProcessNoQueues(t) \/ Next_(t) \/ Preempt(t)
         \/ Timeout(t) \/ Notify(t)
  PROVE  IndInv'
<1> USE DEF ProcessDone, ProcessNoQueues, Next_, Preempt, Timeout, Notify,
            Processing, Running, sharedVars, kernelVars, userVars, hartVars
<1>1. TypeOK' BY DEF IndInv, TypeOK
<1>2. Whereabouts' BY DEF IndInv, Whereabouts
<1>3. AssertionsHold' BY DEF IndInv, AssertionsHold
<1> QED BY <1>1, <1>2, <1>3, Frame

(* pop_free_slot: the slot goes from the stack to the library.             *)
LEMMA PopFreeSlotStep ==
  ASSUME IndInv, NEW t \in Tasks, PopFreeSlot(t)
  PROVE  IndInv'
<1>1. /\ pc[t] = "tx_pop_locked"
      /\ stack_locked' = [stack_locked EXCEPT ![t] = FALSE]
      /\ UNCHANGED <<packets, tx_index, tx_slots, rx_index, rx_slots,
                     kernelVars, last_received_index, rx_slot, prev_index,
                     freeing, hartVars>>
  BY DEF PopFreeSlot, At
<1>2. AssertionsHold' BY <1>1 DEF IndInv, AssertionsHold, hartVars
<1>3. stack_locked' \in [Tasks -> BOOLEAN] BY <1>1 DEF IndInv, TypeOK
<1>4. CASE stack[t] = << >>
  <2>1. /\ UNCHANGED <<stack, tx_slot>>
        /\ \/ pc' = [pc EXCEPT ![t] = "tx_wait"]
           \/ pc' = [pc EXCEPT ![t] = "user"]
    BY <1>4 DEF PopFreeSlot, Goto
  <2>2. TypeOK'
    BY <1>1, <1>3, <2>1 DEF IndInv, TypeOK, Locations, kernelVars, hartVars
  <2>3. Whereabouts'
    BY <1>1, <2>1 DEF IndInv, TypeOK, Whereabouts, kernelVars
  <2> QED BY <1>1, <1>2, <2>1, <2>2, <2>3, Frame DEF kernelVars
<1>5. CASE stack[t] # << >>
  <2>1. /\ tx_slot' = [tx_slot EXCEPT ![t] = Top(stack[t])]
        /\ stack' = [stack EXCEPT ![t] = Pop(stack[t])]
        /\ pc' = [pc EXCEPT ![t] = "tx_write"]
    BY <1>5 DEF PopFreeSlot, Goto
  <2>2. stack[t] \in Seq(Slots) BY DEF IndInv, TypeOK
  <2>3. Pop(stack[t]) \in Seq(Slots) BY <1>5, <2>2, PopTypes
  <2>4. Len(Pop(stack[t])) = Len(stack[t]) - 1 BY <1>5, <2>2, PopTypes
  <2>5. Top(stack[t]) \in Slots BY <1>5, <2>2, PopTypes
  <2>6. Top(stack[t]) # NoSlot BY <2>5 DEF NoSlot, Slots
  <2>7. TypeOK'
    <3>1. stack' \in [Tasks -> Seq(Slots)] BY <2>1, <2>3 DEF IndInv, TypeOK
    <3>2. tx_slot' \in [Tasks -> Slots \cup {NoSlot}]
      BY <2>1, <2>5 DEF IndInv, TypeOK
    <3>3. pc' \in [Tasks -> Locations] BY <2>1 DEF IndInv, TypeOK, Locations
    <3> QED BY <1>1, <1>3, <3>1, <3>2, <3>3
            DEF IndInv, TypeOK, kernelVars, hartVars
  <2>8. Whereabouts'
    BY <1>1, <2>1, <2>6 DEF IndInv, TypeOK, Whereabouts, kernelVars
  <2>9. SlotConservation'
    <3> SUFFICES ASSUME NEW v \in Tasks
                 PROVE  (Free(v) + Unsent(v) + Unread(v) + Held(v) = Size)'
      BY DEF SlotConservation
    <3>1. Free(v) + Unsent(v) + Unread(v) + Held(v) = Size
      BY DEF IndInv, SlotConservation
    <3>2. Unsent(v)' = Unsent(v) /\ Unread(v)' = Unread(v)
      BY <1>1 DEF Unsent, Unread, kernelVars
    <3>3. CASE v # t
      <4>1. Held(v)' = Held(v) /\ Free(v)' = Free(v)
        BY <1>1, <2>1, <3>3 DEF Held, Free, IndInv, TypeOK
      <4> QED BY <3>1, <3>2, <4>1
    <3>4. CASE v = t
      <4>1. tx_slot[v] = NoSlot BY <1>1, <3>4 DEF IndInv, Whereabouts
      <4>2. tx_slot'[v] # NoSlot BY <2>1, <2>6, <3>4 DEF IndInv, TypeOK
      <4>3. Held(v)' = Held(v) + 1 BY <1>1, <4>1, <4>2 DEF Held
      <4>4. Free(v)' = Free(v) - 1
        BY <2>1, <2>4, <3>4 DEF Free, IndInv, TypeOK
      <4>5. Unsent(v) \in Int /\ Unread(v) \in Int /\ Held(v) \in Int
            /\ Free(v) \in Int
        BY CountTypes, IndexModAssumption DEF IndInv, Indices
      <4> QED BY <3>1, <3>2, <4>3, <4>4, <4>5
    <3> QED BY <3>3, <3>4
  <2>10. HeldEntryStable' BY <1>1 DEF IndInv, HeldEntryStable, Unread
  <2> QED BY <1>2, <2>7, <2>8, <2>9, <2>10 DEF IndInv
<1> QED BY <1>4, <1>5

(***************************************************************************)
(* Dropping a TransmitLock: the slot goes from the library to the ring.    *)
(***************************************************************************)
LEMMA DropTransmitLockStep ==
  ASSUME IndInv, NEW t \in Tasks, NEW to \in Tasks \cup {NoTask},
         DropTransmitLock(t, to)
  PROVE  IndInv'
<1>1. /\ pc[t] = "tx_write"
      /\ packets' = [packets EXCEPT ![t][tx_slot[t]] = to]
      /\ tx_slots' = [tx_slots EXCEPT ![t][Mask(tx_index[t])] = tx_slot[t]]
      /\ tx_index' = [tx_index EXCEPT ![t] = WrapInc(tx_index[t])]
      /\ tx_slot' = [tx_slot EXCEPT ![t] = NoSlot]
      /\ pc' = [pc EXCEPT ![t] = "user"]
      /\ UNCHANGED <<rx_index, rx_slots, stack, stack_locked, kernelVars,
                     last_received_index, rx_slot, prev_index, freeing,
                     hartVars>>
  BY DEF DropTransmitLock, At, Goto
<1>2. tx_slot[t] \in Slots /\ tx_slot[t] # NoSlot
  BY <1>1 DEF IndInv, TypeOK, Whereabouts
<1>3. /\ tx_index[t] \in Indices /\ last_transmit_index[t] \in Indices
      /\ WrapInc(tx_index[t]) \in Indices /\ Mask(tx_index[t]) \in Slots
  BY IndexTypes DEF IndInv, TypeOK
<1>4. Unsent(t) < Size /\ Unsent(t) \in Nat
  <2>1. Held(t) \in Nat /\ Held(t) >= 1 BY <1>2 DEF Held
  <2>2. Unread(t) \in Nat /\ Unsent(t) \in Nat
    BY CountTypes, IndexModAssumption DEF IndInv, Indices
  <2> QED BY <2>1, <2>2, CountBounds, SizeAssumption
<1>5. Ahead(WrapInc(tx_index[t]), last_transmit_index[t]) = Unsent(t) + 1
  BY <1>3, <1>4, AheadInc, CountBounds, SizeAssumption, IndexModAssumption
     DEF Unsent
<1>6. TypeOK'
  <2>1. packets' \in [Tasks -> [Slots -> Tasks \cup {NoTask}]]
    BY <1>1, <1>2 DEF IndInv, TypeOK
  <2>2. tx_slots' \in [Tasks -> [Slots -> Slots]]
    BY <1>1, <1>2, <1>3 DEF IndInv, TypeOK
  <2>3. tx_index' \in [Tasks -> Indices] BY <1>1, <1>3 DEF IndInv, TypeOK
  <2>4. tx_slot' \in [Tasks -> Slots \cup {NoSlot}]
    BY <1>1 DEF IndInv, TypeOK
  <2>5. pc' \in [Tasks -> Locations] BY <1>1 DEF IndInv, TypeOK, Locations
  <2> QED BY <1>1, <2>1, <2>2, <2>3, <2>4, <2>5
          DEF IndInv, TypeOK, kernelVars, hartVars
<1>7. SlotConservation'
  <2> SUFFICES ASSUME NEW v \in Tasks
               PROVE  (Free(v) + Unsent(v) + Unread(v) + Held(v) = Size)'
    BY DEF SlotConservation
  <2>1. Free(v) + Unsent(v) + Unread(v) + Held(v) = Size
    BY DEF IndInv, SlotConservation
  <2>2. Unread(v)' = Unread(v) /\ Free(v)' = Free(v)
    BY <1>1 DEF Unread, Free
  <2>3. CASE v # t
    <3>1. Held(v)' = Held(v) /\ Unsent(v)' = Unsent(v)
      BY <1>1, <2>3 DEF Held, Unsent, IndInv, TypeOK, kernelVars
    <3> QED BY <2>1, <2>2, <3>1
  <2>4. CASE v = t
    <3>1. Held(v)' = Held(v) - 1
      BY <1>1, <1>2, <2>4 DEF Held, IndInv, TypeOK
    <3>2. Unsent(v)' = Unsent(v) + 1
      BY <1>1, <1>5, <2>4 DEF Unsent, IndInv, TypeOK, kernelVars
    <3>3. Unsent(v) \in Int /\ Unread(v) \in Int /\ Held(v) \in Int
          /\ Free(v) \in Int
      BY CountTypes, IndexModAssumption DEF IndInv, Indices
    <3> QED BY <2>1, <2>2, <3>1, <3>2, <3>3
  <2> QED BY <2>3, <2>4
<1>8. HeldEntryStable' BY <1>1 DEF IndInv, HeldEntryStable, Unread
<1>9. Whereabouts'
  BY <1>1 DEF IndInv, TypeOK, Whereabouts, kernelVars
<1>10. AssertionsHold' BY <1>1 DEF IndInv, AssertionsHold, hartVars
<1> QED BY <1>6, <1>7, <1>8, <1>9, <1>10 DEF IndInv

(* receive hands out the oldest unread entry, or none.                     *)
LEMMA ReceiveStep ==
  ASSUME IndInv, NEW t \in Tasks, Receive(t)
  PROVE  IndInv'
<1>1. /\ pc[t] \in {"user", "rx_check"}
      /\ rx_slot[t] = NoSlot
      /\ UNCHANGED <<sharedVars, kernelVars, last_received_index, tx_slot,
                     prev_index, freeing, hartVars>>
  BY DEF Receive, At
<1>2. AssertionsHold' BY <1>1 DEF IndInv, AssertionsHold, hartVars
<1>3. CASE last_received_index[t] = rx_index[t]
  <2>1. /\ UNCHANGED rx_slot
        /\ \/ pc' = [pc EXCEPT ![t] = "rx_wait"]
           \/ pc' = [pc EXCEPT ![t] = "user"]
    BY <1>3 DEF Receive, Goto
  <2>2. TypeOK'
    BY <1>1, <2>1 DEF IndInv, TypeOK, Locations, sharedVars, kernelVars,
                      hartVars
  <2>3. Whereabouts'
    BY <1>1, <2>1 DEF IndInv, TypeOK, Whereabouts, kernelVars
  <2> QED BY <1>1, <1>2, <2>1, <2>2, <2>3, Frame DEF sharedVars, kernelVars
<1>4. CASE last_received_index[t] # rx_index[t]
  <2> DEFINE entry == rx_slots[t][Mask(last_received_index[t])]
  <2>1. /\ rx_slot' = [rx_slot EXCEPT ![t] = entry]
        /\ pc' = [pc EXCEPT ![t] = "user"]
    BY <1>4 DEF Receive, Goto
  <2>2. entry \in Slots
    <3>1. Mask(last_received_index[t]) \in Slots
      BY IndexTypes DEF IndInv, TypeOK
    <3> QED BY <3>1 DEF IndInv, TypeOK
  <2>3. TypeOK'
    <3>1. rx_slot' \in [Tasks -> Slots \cup {NoSlot}]
      BY <2>1, <2>2 DEF IndInv, TypeOK
    <3>2. pc' \in [Tasks -> Locations] BY <2>1 DEF IndInv, TypeOK, Locations
    <3> QED BY <1>1, <3>1, <3>2
            DEF IndInv, TypeOK, sharedVars, kernelVars, hartVars
  <2>4. SlotConservation'
    BY <1>1 DEF IndInv, SlotConservation, Free, Unsent, Unread, Held,
                sharedVars, kernelVars
  <2>5. HeldEntryStable'
    <3> SUFFICES ASSUME NEW v \in Tasks, rx_slot'[v] # NoSlot
                 PROVE  /\ Unread(v) > 0
                        /\ rx_slots[v][Mask(last_received_index[v])]
                           = rx_slot'[v]
      BY <1>1 DEF HeldEntryStable, Unread, sharedVars
    <3>1. CASE v # t
      BY <2>1, <3>1 DEF IndInv, TypeOK, HeldEntryStable
    <3>2. CASE v = t
      <4>1. Unread(v) \in Nat /\ Unread(v) # 0
        BY <1>4, <3>2, AheadNat, AheadZero DEF IndInv, TypeOK, Unread
      <4> QED BY <2>1, <3>2, <4>1 DEF IndInv, TypeOK
    <3> QED BY <3>1, <3>2
  <2>6. Whereabouts'
    BY <1>1, <2>1 DEF IndInv, TypeOK, Whereabouts, kernelVars
  <2> QED BY <1>2, <2>3, <2>4, <2>5, <2>6 DEF IndInv
<1> QED BY <1>3, <1>4

(***************************************************************************)
(* Dropping a ReceivedLock: the slot goes from the received ring to the    *)
(* hands of push_free_slot.                                                *)
(***************************************************************************)
LEMMA DropReceivedLockStep ==
  ASSUME IndInv, NEW t \in Tasks, DropReceivedLock(t)
  PROVE  IndInv'
<1>1. /\ pc[t] = "user"
      /\ rx_slot[t] # NoSlot
      /\ last_received_index' = [last_received_index EXCEPT ![t] =
                                    WrapInc(last_received_index[t])]
      /\ freeing' = [freeing EXCEPT ![t] = rx_slot[t]]
      /\ rx_slot' = [rx_slot EXCEPT ![t] = NoSlot]
      /\ pc' = [pc EXCEPT ![t] = "push"]
      /\ UNCHANGED <<sharedVars, kernelVars, tx_slot, prev_index, hartVars>>
  BY DEF DropReceivedLock, At, Goto
<1>2. /\ rx_index[t] \in Indices /\ last_received_index[t] \in Indices
      /\ WrapInc(last_received_index[t]) \in Indices
  BY IndexTypes DEF IndInv, TypeOK
<1>3. rx_index[t] # last_received_index[t]
  BY <1>1, <1>2, AheadZero DEF IndInv, HeldEntryStable, Unread
<1>4. freeing[t] = NoSlot BY <1>1 DEF IndInv, Whereabouts
<1>5. TypeOK'
  <2>1. last_received_index' \in [Tasks -> Indices]
    BY <1>1, <1>2 DEF IndInv, TypeOK
  <2>2. freeing' \in [Tasks -> Slots \cup {NoSlot}]
        /\ rx_slot' \in [Tasks -> Slots \cup {NoSlot}]
    BY <1>1 DEF IndInv, TypeOK
  <2>3. pc' \in [Tasks -> Locations] BY <1>1 DEF IndInv, TypeOK, Locations
  <2> QED BY <1>1, <2>1, <2>2, <2>3
          DEF IndInv, TypeOK, sharedVars, kernelVars, hartVars
<1>6. SlotConservation'
  <2> SUFFICES ASSUME NEW v \in Tasks
               PROVE  (Free(v) + Unsent(v) + Unread(v) + Held(v) = Size)'
    BY DEF SlotConservation
  <2>1. Free(v) + Unsent(v) + Unread(v) + Held(v) = Size
    BY DEF IndInv, SlotConservation
  <2>2. Unsent(v)' = Unsent(v) /\ Free(v)' = Free(v)
    BY <1>1 DEF Unsent, Free, sharedVars, kernelVars
  <2>3. CASE v # t
    <3>1. Held(v)' = Held(v) /\ Unread(v)' = Unread(v)
      BY <1>1, <2>3 DEF Held, Unread, IndInv, TypeOK, sharedVars
    <3> QED BY <2>1, <2>2, <3>1
  <2>4. CASE v = t
    <3>1. Held(v)' = Held(v) + 1
      BY <1>1, <1>4, <2>4 DEF Held, IndInv, TypeOK
    <3>2. Unread(v)' = Unread(v) - 1
      BY <1>1, <1>2, <1>3, <2>4, AheadIncSecond
         DEF Unread, IndInv, TypeOK, sharedVars
    <3>3. Unsent(v) \in Int /\ Unread(v) \in Int /\ Held(v) \in Int
          /\ Free(v) \in Int
      BY CountTypes, IndexModAssumption DEF IndInv, Indices
    <3> QED BY <2>1, <2>2, <3>1, <3>2, <3>3
  <2> QED BY <2>3, <2>4
<1>7. HeldEntryStable'
  BY <1>1 DEF IndInv, TypeOK, HeldEntryStable, Unread, sharedVars
<1>8. Whereabouts'
  BY <1>1 DEF IndInv, TypeOK, Whereabouts, kernelVars
<1>9. AssertionsHold' BY <1>1 DEF IndInv, AssertionsHold, hartVars
<1> QED BY <1>5, <1>6, <1>7, <1>8, <1>9 DEF IndInv

(***************************************************************************)
(* push_free_slot: its assertion holds because the slot it is about to     *)
(* push is not on the stack's side of the balance yet.                     *)
(***************************************************************************)
LEMMA PushFreeSlotStep ==
  ASSUME IndInv, NEW t \in Tasks, PushFreeSlot(t)
  PROVE  IndInv'
<1>1. pc[t] = "push_locked" BY DEF PushFreeSlot, At
<1>2. freeing[t] \in Slots /\ freeing[t] # NoSlot
  BY <1>1 DEF IndInv, TypeOK, Whereabouts
<1>3. Len(stack[t]) < Size
  <2>1. Held(t) \in Nat /\ Held(t) >= 1 BY <1>2 DEF Held
  <2>2. Unsent(t) \in Nat /\ Unread(t) \in Nat /\ Free(t) \in Nat
    BY CountTypes, IndexModAssumption DEF IndInv, Indices
  <2>3. Free(t) + Unsent(t) + Unread(t) + Held(t) = Size
    BY DEF IndInv, SlotConservation
  <2>4. Free(t) < Size BY <2>1, <2>2, <2>3, SizeAssumption
  <2> QED BY <2>4 DEF Free
<1>4. /\ stack' = [stack EXCEPT ![t] = Append(stack[t], freeing[t])]
      /\ stack_locked' = [stack_locked EXCEPT ![t] = FALSE]
      /\ freeing' = [freeing EXCEPT ![t] = NoSlot]
      /\ pc' = [pc EXCEPT ![t] = "user"]
      /\ UNCHANGED <<packets, tx_index, tx_slots, rx_index, rx_slots,
                     kernelVars, last_received_index, tx_slot, rx_slot,
                     prev_index, hartVars>>
  BY <1>3 DEF PushFreeSlot, Goto
<1>5. stack[t] \in Seq(Slots) BY DEF IndInv, TypeOK
<1>6. Append(stack[t], freeing[t]) \in Seq(Slots) BY <1>2, <1>5, PushTypes
<1>7. Len(Append(stack[t], freeing[t])) = Len(stack[t]) + 1
  BY <1>2, <1>5, PushTypes
<1>8. TypeOK'
  <2>1. stack' \in [Tasks -> Seq(Slots)] BY <1>4, <1>6 DEF IndInv, TypeOK
  <2>2. freeing' \in [Tasks -> Slots \cup {NoSlot}]
    BY <1>4 DEF IndInv, TypeOK
  <2>3. pc' \in [Tasks -> Locations] BY <1>4 DEF IndInv, TypeOK, Locations
  <2>4. stack_locked' \in [Tasks -> BOOLEAN] BY <1>4 DEF IndInv, TypeOK
  <2> QED BY <1>4, <2>1, <2>2, <2>3, <2>4
          DEF IndInv, TypeOK, kernelVars, hartVars
<1>9. SlotConservation'
  <2> SUFFICES ASSUME NEW v \in Tasks
               PROVE  (Free(v) + Unsent(v) + Unread(v) + Held(v) = Size)'
    BY DEF SlotConservation
  <2>1. Free(v) + Unsent(v) + Unread(v) + Held(v) = Size
    BY DEF IndInv, SlotConservation
  <2>2. Unsent(v)' = Unsent(v) /\ Unread(v)' = Unread(v)
    BY <1>4 DEF Unsent, Unread, kernelVars
  <2>3. CASE v # t
    <3>1. Held(v)' = Held(v) /\ Free(v)' = Free(v)
      BY <1>4, <2>3 DEF Held, Free, IndInv, TypeOK
    <3> QED BY <2>1, <2>2, <3>1
  <2>4. CASE v = t
    <3>1. Held(v)' = Held(v) - 1
      BY <1>2, <1>4, <2>4 DEF Held, IndInv, TypeOK
    <3>2. Free(v)' = Free(v) + 1
      BY <1>4, <1>7, <2>4 DEF Free, IndInv, TypeOK
    <3>3. Unsent(v) \in Int /\ Unread(v) \in Int /\ Held(v) \in Int
          /\ Free(v) \in Int
      BY CountTypes, IndexModAssumption DEF IndInv, Indices
    <3> QED BY <2>1, <2>2, <3>1, <3>2, <3>3
  <2> QED BY <2>3, <2>4
<1>10. HeldEntryStable' BY <1>4 DEF IndInv, HeldEntryStable, Unread
<1>11. Whereabouts'
  BY <1>1, <1>4 DEF IndInv, TypeOK, Whereabouts, kernelVars
<1>12. AssertionsHold' BY <1>4 DEF IndInv, AssertionsHold, hartVars
<1> QED BY <1>8, <1>9, <1>10, <1>11, <1>12 DEF IndInv

(***************************************************************************)
(* defer swaps ring entries only; its assertion is HeldEntryStable.        *)
(***************************************************************************)
LEMMA DeferSwapStep ==
  ASSUME IndInv, NEW t \in Tasks, DeferSwap(t)
  PROVE  IndInv'
<1> DEFINE last == Mask(last_received_index[t])
           prev == Mask(prev_index[t])
           a == rx_slots[t][last]
           b == rx_slots[t][prev]
<1>1. pc[t] = "defer" BY DEF DeferSwap, At
<1>2. a = rx_slot[t]
  BY <1>1 DEF IndInv, Whereabouts, HeldEntryStable
<1>3. /\ rx_slots' = [rx_slots EXCEPT
                        ![t] = [rx_slots[t] EXCEPT ![prev] = a, ![last] = b]]
      /\ rx_slot' = [rx_slot EXCEPT ![t] = NoSlot]
      /\ prev_index' = [prev_index EXCEPT ![t] = 0]
      /\ pc' = [pc EXCEPT ![t] = "user"]
      /\ UNCHANGED <<packets, tx_index, tx_slots, rx_index, stack,
                     stack_locked, kernelVars, last_received_index, tx_slot,
                     freeing, hartVars>>
  BY <1>2 DEF DeferSwap, Goto
<1>4. last \in Slots /\ prev \in Slots /\ 0 \in Indices
  BY IndexTypes DEF IndInv, TypeOK
<1>5. a \in Slots /\ b \in Slots BY <1>4 DEF IndInv, TypeOK
<1> HIDE DEF last, prev, a, b
<1>6. TypeOK'
  <2>1. rx_slots' \in [Tasks -> [Slots -> Slots]]
    BY <1>3, <1>5 DEF IndInv, TypeOK
  <2>2. rx_slot' \in [Tasks -> Slots \cup {NoSlot}]
        /\ prev_index' \in [Tasks -> Indices]
    BY <1>3, <1>4 DEF IndInv, TypeOK
  <2>3. pc' \in [Tasks -> Locations] BY <1>3 DEF IndInv, TypeOK, Locations
  <2> QED BY <1>3, <2>1, <2>2, <2>3
          DEF IndInv, TypeOK, kernelVars, hartVars
<1>7. SlotConservation'
  BY <1>3 DEF IndInv, SlotConservation, Free, Unsent, Unread, Held, kernelVars
<1>8. HeldEntryStable'
  BY <1>3 DEF IndInv, TypeOK, HeldEntryStable, Unread
<1>9. Whereabouts'
  BY <1>1, <1>3 DEF IndInv, TypeOK, Whereabouts, kernelVars
<1>10. AssertionsHold' BY <1>3 DEF IndInv, AssertionsHold, hartVars
<1> QED BY <1>6, <1>7, <1>8, <1>9, <1>10 DEF IndInv

(* what is known of the packet the loop of process_packets is at           *)
LEMMA PendingPacket ==
  ASSUME IndInv, NEW t \in Tasks, Pending(t)
  PROVE  /\ TxPkt(t) \in Slots
         /\ TxPktSlot(t) \in Slots
         /\ Unsent(t) > 0
         /\ Len(stack[t]) < Size
         /\ tx_index[t] # last_transmit_index[t]
<1>1. tx_index[t] \in Indices /\ last_transmit_index[t] \in Indices
  BY DEF IndInv, TypeOK
<1>2. tx_index[t] # last_transmit_index[t] BY DEF Pending
<1>3. Unsent(t) \in Nat /\ Unsent(t) > 0
  BY <1>1, <1>2, AheadNat, AheadZero DEF Unsent
<1>4. TxPktSlot(t) \in Slots BY <1>1, IndexTypes DEF TxPktSlot
<1>5. TxPkt(t) \in Slots BY <1>4 DEF IndInv, TypeOK, TxPkt
<1>6. Len(stack[t]) < Size
  <2>1. Held(t) \in Nat /\ Unread(t) \in Nat /\ Free(t) \in Nat
    BY CountTypes, IndexModAssumption DEF IndInv, Indices
  <2>2. Free(t) + Unsent(t) + Unread(t) + Held(t) = Size
    BY DEF IndInv, SlotConservation
  <2>3. Free(t) < Size BY <1>3, <2>1, <2>2, SizeAssumption
  <2> QED BY <2>3 DEF Free
<1> QED BY <1>2, <1>3, <1>4, <1>5, <1>6

(* the kernel fails on what is in a packet, or for want of a lock, a slot  *)
(* or a range, but not on its own stack and entries                        *)
LEMMA ProcessPanicStep ==
  ASSUME IndInv, NEW t \in Tasks, ProcessPanic(t)
  PROVE  IndInv'
<1>1. PICK reason \in Failures(t) : Panic(reason) BY DEF ProcessPanic
<1>2. Pending(t) BY DEF ProcessPanic
<1>3. TxPkt(t) \in Slots /\ Len(stack[t]) < Size BY <1>2, PendingPacket
<1>4. /\ Size \in Int /\ Len(stack[t]) \in Int
      /\ \A u \in Tasks : stack[u] # << >> => Top(stack[u]) \in Slots
  BY SizeAssumption, PopTypes DEF IndInv, TypeOK
<1>5. reason \in Panics \ {"NoPacket", "Full", "overflow", "mutated"}
  BY <1>1, <1>3, <1>4 DEF Failures, Panics
<1>6. panic' = reason /\ UNCHANGED <<sharedVars, kernelVars, userVars, cur, mode>>
  BY <1>1 DEF Panic
<1>7. TypeOK'
  BY <1>5, <1>6 DEF IndInv, TypeOK, sharedVars, kernelVars, userVars
<1>8. Whereabouts'
  BY <1>6 DEF IndInv, Whereabouts, userVars, kernelVars
<1>9. AssertionsHold' BY <1>5, <1>6 DEF AssertionsHold
<1> QED BY <1>6, <1>7, <1>8, <1>9, Frame DEF sharedVars, kernelVars, userVars

(***************************************************************************)
(* One packet delivered.  The sender's slot goes from the transmit ring to *)
(* the stack, a slot of the recipient from the stack to the received ring. *)
(* The recipient's stack was not empty, so its received ring was not full  *)
(* and the entry written is not the one a ReceivedLock stands for.         *)
(***************************************************************************)
LEMMA ProcessPacketStep ==
  ASSUME IndInv, NEW t \in Tasks, ProcessPacket(t)
  PROVE  IndInv'
<1> DEFINE u == Recipient(t)
           s == Top(stack[u])
           f == FreedSlot(t)
<1>1. /\ Pending(t)
      /\ u \in Tasks \ {t}
      /\ stack[u] # << >>
      /\ rx_slots' = [rx_slots EXCEPT ![u][Mask(rx_index[u])] = s]
      /\ packets' = [packets EXCEPT ![u][s] = t]
      /\ rx_index' = [rx_index EXCEPT ![u] = WrapInc(rx_index[u])]
      /\ wait_time' = [wait_time EXCEPT ![u] = "zero"]
      /\ stack' = [stack EXCEPT ![u] = Pop(@), ![t] = Append(@, f)]
      /\ last_transmit_index' = [last_transmit_index EXCEPT ![t] =
                                    WrapInc(last_transmit_index[t])]
      /\ UNCHANGED <<tx_index, tx_slots, stack_locked, ipc, notified,
                     userVars, hartVars>>
  BY DEF ProcessPacket
<1>2. u \in Tasks /\ u # t /\ f \in Slots /\ Len(stack[t]) < Size
      /\ tx_index[t] # last_transmit_index[t]
  BY <1>1, PendingPacket DEF FreedSlot
<1> HIDE DEF u, f
<1>3. stack[u] \in Seq(Slots) /\ stack[t] \in Seq(Slots)
  BY <1>2 DEF IndInv, TypeOK
<1>4. Pop(stack[u]) \in Seq(Slots) BY <1>1, <1>3, PopTypes
<1>5. Len(Pop(stack[u])) = Len(stack[u]) - 1 BY <1>1, <1>3, PopTypes
<1>6. s \in Slots BY <1>1, <1>3, PopTypes
<1>7. Append(stack[t], f) \in Seq(Slots)
      /\ Len(Append(stack[t], f)) = Len(stack[t]) + 1
  BY <1>2, <1>3, PushTypes
<1> HIDE DEF s
<1>8. /\ rx_index[u] \in Indices /\ last_received_index[u] \in Indices
      /\ tx_index[t] \in Indices /\ last_transmit_index[t] \in Indices
  BY <1>2 DEF IndInv, TypeOK
<1>9. /\ WrapInc(rx_index[u]) \in Indices
      /\ WrapInc(last_transmit_index[t]) \in Indices
      /\ Mask(rx_index[u]) \in Slots
  BY <1>8, IndexTypes
<1>10. /\ stack'[u] = Pop(stack[u])
       /\ stack'[t] = Append(stack[t], f)
       /\ \A v \in Tasks : v # t /\ v # u => stack'[v] = stack[v]
  BY <1>1, <1>2 DEF IndInv, TypeOK
<1>11. Unread(u) \in Nat /\ Unread(u) < Size
  <2>1. Held(u) \in Nat /\ Unsent(u) \in Nat /\ Unread(u) \in Nat
        /\ Free(u) \in Nat
    BY <1>2, CountTypes, IndexModAssumption DEF IndInv, Indices
  <2>2. Free(u) + Unsent(u) + Unread(u) + Held(u) = Size
    BY <1>2 DEF IndInv, SlotConservation
  <2>3. Free(u) # 0 BY <1>1, <1>3 DEF Free
  <2> QED BY <2>1, <2>2, <2>3, SizeAssumption
<1>12. Ahead(WrapInc(rx_index[u]), last_received_index[u]) = Unread(u) + 1
  <2>1. Size <= IndexMod - 1 BY <1>2, CountBounds
  <2>2. Unread(u) < IndexMod - 1
    BY <1>11, <2>1, SizeAssumption, IndexModAssumption
  <2> QED BY <1>8, <2>2, AheadInc DEF Unread
<1>13. Ahead(tx_index[t], WrapInc(last_transmit_index[t])) = Unsent(t) - 1
  BY <1>2, <1>8, AheadIncSecond DEF Unsent
<1>14. TypeOK'
  <2>1. packets' \in [Tasks -> [Slots -> Tasks \cup {NoTask}]]
    BY <1>1, <1>2, <1>6 DEF IndInv, TypeOK
  <2>2. rx_slots' \in [Tasks -> [Slots -> Slots]]
    BY <1>1, <1>2, <1>6, <1>9 DEF IndInv, TypeOK
  <2>3. rx_index' \in [Tasks -> Indices]
        /\ last_transmit_index' \in [Tasks -> Indices]
    BY <1>1, <1>9 DEF IndInv, TypeOK
  <2>4. stack' \in [Tasks -> Seq(Slots)]
    BY <1>1, <1>2, <1>4, <1>7 DEF IndInv, TypeOK
  <2>5. wait_time' \in [Tasks -> {"zero", "timed", "forever"}]
    BY <1>1 DEF IndInv, TypeOK
  <2> QED BY <1>1, <2>1, <2>2, <2>3, <2>4, <2>5
          DEF IndInv, TypeOK, userVars, hartVars
<1>15. SlotConservation'
  <2> SUFFICES ASSUME NEW v \in Tasks
               PROVE  (Free(v) + Unsent(v) + Unread(v) + Held(v) = Size)'
    BY DEF SlotConservation
  <2>1. Free(v) + Unsent(v) + Unread(v) + Held(v) = Size
    BY DEF IndInv, SlotConservation
  <2>2. Held(v)' = Held(v) BY <1>1 DEF Held, userVars
  <2>3. Unsent(v) \in Int /\ Unread(v) \in Int /\ Held(v) \in Int
        /\ Free(v) \in Int
    BY CountTypes, IndexModAssumption DEF IndInv, Indices
  <2>4. CASE v # t /\ v # u
    <3>1. Free(v)' = Free(v) BY <1>10, <2>4 DEF Free
    <3>2. Unsent(v)' = Unsent(v) /\ Unread(v)' = Unread(v)
      BY <1>1, <2>4 DEF Unsent, Unread, IndInv, TypeOK, userVars
    <3> QED BY <2>1, <2>2, <3>1, <3>2
  <2>5. CASE v = t
    <3>1. Free(v)' = Free(v) + 1 BY <1>7, <1>10, <2>5 DEF Free
    <3>2. Unsent(v)' = Unsent(v) - 1
      BY <1>1, <1>13, <2>5 DEF Unsent, IndInv, TypeOK
    <3>3. Unread(v)' = Unread(v)
      BY <1>1, <1>2, <2>5 DEF Unread, IndInv, TypeOK, userVars
    <3> QED BY <2>1, <2>2, <2>3, <3>1, <3>2, <3>3
  <2>6. CASE v = u
    <3>1. Free(v)' = Free(v) - 1 BY <1>5, <1>10, <2>6 DEF Free
    <3>2. Unread(v)' = Unread(v) + 1
      BY <1>1, <1>12, <2>6 DEF Unread, IndInv, TypeOK, userVars
    <3>3. Unsent(v)' = Unsent(v)
      BY <1>1, <1>2, <2>6 DEF Unsent, IndInv, TypeOK
    <3> QED BY <2>1, <2>2, <2>3, <3>1, <3>2, <3>3
  <2> QED BY <2>4, <2>5, <2>6
<1>16. HeldEntryStable'
  <2> SUFFICES ASSUME NEW v \in Tasks, rx_slot[v] # NoSlot
               PROVE  /\ Unread(v)' > 0
                      /\ rx_slots'[v][Mask(last_received_index[v])]
                         = rx_slot[v]
    BY <1>1 DEF HeldEntryStable, userVars
  <2>1. /\ Unread(v) > 0
        /\ rx_slots[v][Mask(last_received_index[v])] = rx_slot[v]
    BY DEF IndInv, HeldEntryStable
  <2>2. CASE v # u
    <3>1. Unread(v)' = Unread(v) /\ rx_slots'[v] = rx_slots[v]
      BY <1>1, <2>2 DEF Unread, IndInv, TypeOK, userVars
    <3> QED BY <2>1, <3>1
  <2>3. CASE v = u
    <3>1. Unread(v)' = Unread(u) + 1
      BY <1>1, <1>12, <2>3 DEF Unread, IndInv, TypeOK, userVars
    <3>2. rx_index[u] # last_received_index[u]
      BY <1>8, <2>1, <2>3, AheadZero DEF Unread
    <3>3. Mask(rx_index[u]) # Mask(last_received_index[u])
      BY <1>8, <1>11, <3>2, MasksDiffer DEF Unread
    <3>4. Mask(last_received_index[u]) \in Slots BY <1>8, IndexTypes
    <3>5. rx_slots'[u][Mask(last_received_index[u])]
          = rx_slots[u][Mask(last_received_index[u])]
      BY <1>1, <1>2, <3>3, <3>4 DEF IndInv, TypeOK
    <3>6. Unread(v)' > 0 BY <1>11, <3>1
    <3> QED BY <2>1, <2>3, <3>5, <3>6
  <2> QED BY <2>2, <2>3
<1>17. Whereabouts'
  <2>1. ipc[t] BY <1>1 DEF Pending
  <2> QED BY <1>1, <2>1 DEF IndInv, TypeOK, Whereabouts, userVars
<1>18. AssertionsHold' BY <1>1 DEF IndInv, AssertionsHold, hartVars
<1> QED BY <1>14, <1>15, <1>16, <1>17, <1>18 DEF IndInv

-----------------------------------------------------------------------------
(* All slots are on the free stack and both rings are empty at the start.  *)
LEMMA InitIndInv ==
  ASSUME Init
  PROVE  IndInv
<1> USE DEF Init
<1>1. 0 \in Indices /\ 0 \in Slots
  BY SizeAssumption, IndexModAssumption DEF Indices, Slots
<1>2. [i \in 1 .. Size |-> i - 1] \in Seq(Slots)
      /\ Len([i \in 1 .. Size |-> i - 1]) = Size
  BY SizeAssumption DEF Slots
<1>3. TypeOK
  <2>1. packets \in [Tasks -> [Slots -> Tasks \cup {NoTask}]] OBVIOUS
  <2>2. stack \in [Tasks -> Seq(Slots)] BY <1>2
  <2> QED BY <1>1, <2>1, <2>2 DEF TypeOK, Locations, Panics
<1>4. SlotConservation
  <2> SUFFICES ASSUME NEW t \in Tasks
               PROVE  Free(t) + Unsent(t) + Unread(t) + Held(t) = Size
    BY DEF SlotConservation
  <2>1. Free(t) = Size BY <1>2 DEF Free
  <2>2. Unsent(t) = 0 /\ Unread(t) = 0
    BY <1>1, AheadZero DEF Unsent, Unread
  <2>3. Held(t) = 0 BY DEF Held
  <2> QED BY <2>1, <2>2, <2>3, SizeAssumption
<1>5. HeldEntryStable BY DEF HeldEntryStable
<1>6. Whereabouts BY DEF Whereabouts
<1>7. AssertionsHold BY DEF AssertionsHold
<1> QED BY <1>3, <1>4, <1>5, <1>6, <1>7 DEF IndInv

(* Every step keeps the inductive invariant.                               *)
LEMMA NextIndInv ==
  ASSUME IndInv, [Next]_vars
  PROVE  IndInv'
<1>1. CASE UNCHANGED vars
  <2> USE <1>1 DEF vars, sharedVars, kernelVars, userVars, hartVars
  <2>1. TypeOK' BY DEF IndInv, TypeOK
  <2>2. Whereabouts' BY DEF IndInv, Whereabouts
  <2>3. AssertionsHold' BY DEF IndInv, AssertionsHold
  <2> QED BY <2>1, <2>2, <2>3, Frame
<1>2. ASSUME NEW t \in Tasks, UserStep(t) PROVE IndInv'
  BY <1>2, SetQueuesStep, TransmitStep, PopFreeSlotStep,
     DropTransmitLockStep, ReceiveStep, DropReceivedLockStep, LockStackStep,
     PushFreeSlotStep, DeferStep, DeferSwapStep, IoWaitStep
     DEF UserStep
<1>3. ASSUME NEW t \in Tasks, KernelStep(t) PROVE IndInv'
  BY <1>3, HartStep, ProcessPanicStep, ProcessPacketStep DEF KernelStep
<1> QED BY <1>1, <1>2, <1>3 DEF Next

(***************************************************************************)
(* The packet path of dux mem.rs and process_packets of ipc.rs keeps its   *)
(* inductive invariant, for any tasks, ring size and index range.          *)
(***************************************************************************)
THEOREM Invariance == Spec => []IndInv
BY InitIndInv, NextIndInv, PTL DEF Spec

(* The state of the rings, the stacks and the tasks keeps its type.        *)
THEOREM Types == Spec => []TypeOK
<1>1. IndInv => TypeOK BY DEF IndInv
<1> QED BY Invariance, <1>1, PTL

(***************************************************************************)
(* No slot of a task's packet table is ever lost or made up, whatever the  *)
(* task and the kernel push and pop in between (push_free_slot and         *)
(* pop_free_slot on both sides).                                           *)
(***************************************************************************)
THEOREM Conservation == Spec => []SlotConservation
<1>1. IndInv => SlotConservation BY DEF IndInv
<1> QED BY Invariance, <1>1, PTL

(***************************************************************************)
(* The entry behind a ReceivedLock stays the same while packets arrive.    *)
(***************************************************************************)
THEOREM EntryStability == Spec => []HeldEntryStable
<1>1. IndInv => HeldEntryStable BY DEF IndInv
<1> QED BY Invariance, <1>1, PTL

(***************************************************************************)
(* The unwraps on an entry that names no packet, the checks for a full     *)
(* free stack on both sides and the assertion on a mutated entry cannot    *)
(* fail, whatever addresses the tasks write into their packets.            *)
(***************************************************************************)
THEOREM Assertions == Spec => []AssertionsHold
<1>1. IndInv => AssertionsHold BY DEF IndInv
<1> QED BY Invariance, <1>1, PTL

(***************************************************************************)
(* The flag check of io_wait and the reset in notification_enter keep a    *)
(* notified task awake.  Only the steps that write the flag or the wait    *)
(* time matter: io_wait, process_packets, Timeout and Notify.              *)
(***************************************************************************)
THEOREM Awake == Spec => []NotifiedStaysAwake
<1>1. Init => NotifiedStaysAwake BY DEF Init, NotifiedStaysAwake
<1>2. TypeOK /\ NotifiedStaysAwake /\ [Next]_vars => NotifiedStaysAwake'
  <2> SUFFICES ASSUME TypeOK, NotifiedStaysAwake, [Next]_vars
               PROVE  NotifiedStaysAwake'
    OBVIOUS
  <2>0. /\ wait_time \in [Tasks -> {"zero", "timed", "forever"}]
        /\ notified \in [Tasks -> BOOLEAN]
    BY DEF TypeOK
  <2>1. CASE UNCHANGED <<wait_time, notified>>
    BY <2>1 DEF NotifiedStaysAwake
  <2>2. ASSUME NEW t \in Tasks, NEW time, IoWait(t, time)
        PROVE  NotifiedStaysAwake'
    <3>1. \/ notified' = [notified EXCEPT ![t] = FALSE] /\ wait_time' = wait_time
          \/ /\ ~notified[t] /\ notified' = notified
             /\ wait_time' = [wait_time EXCEPT ![t] = time]
      BY <2>2 DEF IoWait
    <3> QED BY <3>1, <2>0 DEF NotifiedStaysAwake
  <2>3. ASSUME NEW t \in Tasks, ProcessNoQueues(t) \/ Timeout(t) \/ Notify(t)
        PROVE  NotifiedStaysAwake'
    <3>1. /\ wait_time' = [wait_time EXCEPT ![t] = "zero"]
          /\ notified' = notified \/ notified' = [notified EXCEPT ![t] = TRUE]
      BY <2>3 DEF ProcessNoQueues, Timeout, Notify
    <3> QED BY <3>1, <2>0 DEF NotifiedStaysAwake
  <2>4. ASSUME NEW t \in Tasks, ProcessPacket(t)
        PROVE  NotifiedStaysAwake'
    <3>1. /\ wait_time' = [wait_time EXCEPT ![Recipient(t)] = "zero"]
          /\ notified' = notified
      BY <2>4 DEF ProcessPacket
    <3> QED BY <3>1, <2>0 DEF NotifiedStaysAwake
  <2>5. ASSUME NEW t \in Tasks, ~UNCHANGED <<wait_time, notified>>,
               UserStep(t) \/ KernelStep(t)
        PROVE  \/ \E time : IoWait(t, time)
               \/ ProcessNoQueues(t) \/ Timeout(t) \/ Notify(t)
               \/ ProcessPacket(t)
    BY <2>5 DEF UserStep, KernelStep, SetQueues, Transmit, PopFreeSlot,
         DropTransmitLock, Receive, DropReceivedLock, LockStack, PushFreeSlot,
         Defer, DeferSwap, ProcessDone, ProcessPanic, Panic, Next_, Preempt,
         kernelVars
  <2> QED BY <2>1, <2>2, <2>3, <2>4, <2>5 DEF Next, vars, kernelVars
<1> QED BY <1>1, <1>2, Types, PTL DEF Spec

-----------------------------------------------------------------------------
(***************************************************************************)
(* The packet rings implement Mailboxes, for any set of tasks and any ring *)
(* and index size.  First what the entries between two indices are after   *)
(* each index moves, then one lemma per action that moves one.             *)
(***************************************************************************)

-----------------------------------------------------------------------------
(* The slots of a run of indices.                                          *)

(* the slot reached by counting up from first to i is the slot of i        *)
LEMMA MaskAhead ==
  ASSUME NEW first \in Indices, NEW i \in Indices
  PROVE  Mask(first + Ahead(i, first)) = Mask(i)
<1>0. first \in Int /\ i \in Int /\ Size \in Nat \ {0}
      /\ IndexMod \in Nat /\ IndexMod % Size = 0
  BY SizeAssumption, IndexModAssumption DEF Indices
<1>1. CASE i >= first
  <2>1. first + Ahead(i, first) = i BY <1>0, <1>1 DEF Ahead
  <2> QED BY <2>1
<1>2. CASE ~(i >= first)
  <2>1. first + Ahead(i, first) = i + IndexMod BY <1>0, <1>2 DEF Ahead
  <2>2. (i + IndexMod) % Size = i % Size BY <1>0, Shift
  <2> QED BY <2>1, <2>2 DEF Mask
<1> QED BY <1>1, <1>2

(* two entries less than a ring apart are in different slots               *)
LEMMA MaskApart ==
  ASSUME NEW first \in Indices, NEW a \in 0 .. Size - 1, NEW b \in 0 .. Size - 1,
         a # b
  PROVE  Mask(first + a) # Mask(first + b)
<1>0. first \in Int /\ a \in Int /\ b \in Int /\ Size \in Nat \ {0}
      /\ a >= 0 /\ b >= 0 /\ a < Size /\ b < Size
  BY SizeAssumption, IndexModAssumption DEF Indices
<1> SUFFICES ASSUME Mask(first + a) = Mask(first + b) PROVE FALSE
  OBVIOUS
<1>1. first + a \in Int /\ first + b \in Int BY <1>0
<1>2. (first + a) % Size = (first + b) % Size BY DEF Mask
<1>3. CASE a > b
  <2>1. first + a > first + b BY <1>0, <1>3
  <2>2. (first + a) - (first + b) >= Size BY <1>0, <1>1, <1>2, <2>1, Far
  <2> QED BY <2>2, <1>0
<1>4. CASE b > a
  <2>1. first + b > first + a BY <1>0, <1>4
  <2>2. (first + b) - (first + a) >= Size BY <1>0, <1>1, <1>2, <2>1, Far
  <2> QED BY <2>2, <1>0
<1> QED BY <1>0, <1>3, <1>4

(* counting from the next index is counting one further                    *)
LEMMA MaskNext ==
  ASSUME NEW first \in Indices, NEW k \in Nat
  PROVE  Mask(WrapInc(first) + k) = Mask(first + k + 1)
<1>0. first \in Int /\ k \in Int /\ Size \in Nat \ {0}
      /\ IndexMod \in Nat /\ IndexMod % Size = 0
  BY SizeAssumption, IndexModAssumption DEF Indices
<1>1. CASE first = IndexMod - 1
  <2>1. WrapInc(first) + k = k BY <1>0, <1>1 DEF WrapInc
  <2>2. first + k + 1 = k + IndexMod BY <1>0, <1>1
  <2>3. (k + IndexMod) % Size = k % Size BY <1>0, Shift
  <2> QED BY <2>1, <2>2, <2>3 DEF Mask
<1>2. CASE first # IndexMod - 1
  <2>1. WrapInc(first) + k = first + k + 1 BY <1>0, <1>2 DEF WrapInc
  <2> QED BY <2>1
<1> QED BY <1>1, <1>2

(* a masked number is a slot                                               *)
LEMMA MaskSlot ==
  ASSUME NEW first \in Indices, NEW k \in Nat
  PROVE  Mask(first + k) \in Slots
<1>1. first + k \in Int BY IndexModAssumption DEF Indices
<1> QED BY <1>1, DivMod, SizeAssumption DEF Mask, Slots

-----------------------------------------------------------------------------
(* The sequence of entries.                                                *)

(* the entries of a ring are a sequence of slots                           *)
LEMMA EntriesSeq ==
  ASSUME NEW slots \in [Slots -> Slots], NEW first \in Indices, NEW n \in Nat
  PROVE  /\ Entries(slots, first, n) \in Seq(Slots)
         /\ Len(Entries(slots, first, n)) = n
         /\ \A i \in 1 .. n :
               Entries(slots, first, n)[i] = slots[Mask(first + i - 1)]
<1>1. \A i \in 1 .. n : slots[Mask(first + i - 1)] \in Slots
  <2> TAKE i \in 1 .. n
  <2>1. i - 1 \in Nat /\ first + (i - 1) = first + i - 1
    BY IndexModAssumption DEF Indices
  <2>2. Mask(first + i - 1) \in Slots BY <2>1, MaskSlot
  <2> QED BY <2>2
<1> DEFINE E == Entries(slots, first, n)
<1>2. E = [i \in 1 .. n |-> slots[Mask(first + i - 1)]] BY DEF Entries
<1>3. E \in [1 .. n -> Slots] BY <1>1, <1>2
<1>4. \A i \in 1 .. n : E[i] = slots[Mask(first + i - 1)] BY <1>2
<1> HIDE DEF E
<1>5. E \in Seq(Slots) /\ Len(E) = n BY <1>3
<1> QED BY <1>4, <1>5 DEF E

(* an entry written at the end and the index moved past it: an append      *)
LEMMA EntriesAppend ==
  ASSUME NEW slots \in [Slots -> Slots], NEW first \in Indices,
         NEW i \in Indices, NEW v \in Slots, Ahead(i, first) < Size
  PROVE  Entries([slots EXCEPT ![Mask(i)] = v], first, Ahead(WrapInc(i), first))
           = Append(Entries(slots, first, Ahead(i, first)), v)
<1> DEFINE n == Ahead(i, first)
           new == [slots EXCEPT ![Mask(i)] = v]
           E == Entries(slots, first, n)
           F == Entries(new, first, n + 1)
           A == Append(E, v)
<1>0. /\ n \in Nat /\ n < Size /\ Size \in Nat /\ Size <= IndexMod - 1
      /\ IndexMod \in Nat /\ first \in Nat
  BY AheadNat, SizeAssumption, IndexModAssumption DEF Indices
<1>1. Ahead(WrapInc(i), first) = n + 1 BY <1>0, AheadInc
<1>2. Mask(first + n) = Mask(i) BY MaskAhead
<1>3. Mask(i) \in Slots BY IndexTypes
<1>4. new \in [Slots -> Slots] BY <1>3
<1> HIDE DEF n
<1>5. /\ E \in Seq(Slots) /\ Len(E) = n
      /\ \A j \in 1 .. n : E[j] = slots[Mask(first + j - 1)]
  BY <1>0, EntriesSeq
<1>6. /\ F \in Seq(Slots) /\ Len(F) = n + 1
      /\ \A j \in 1 .. n + 1 : F[j] = new[Mask(first + j - 1)]
  <2>1. n + 1 \in Nat BY <1>0
  <2> HIDE DEF new
  <2> QED BY <2>1, <1>4, EntriesSeq
<1>7. /\ A \in Seq(Slots) /\ Len(A) = n + 1
      /\ \A j \in 1 .. n : A[j] = E[j]
      /\ A[n + 1] = v
  <2> HIDE DEF E
  <2> QED BY <1>5, AppendProperties
<1>8. \A j \in 1 .. n + 1 : F[j] = A[j]
  <2> TAKE j \in 1 .. n + 1
  <2>1. j \in Int /\ first + j - 1 = first + (j - 1) /\ j - 1 \in Nat /\ j - 1 <= n
    BY <1>0
  <2>2. Mask(first + (j - 1)) \in Slots BY <2>1, MaskSlot
  <2>3. CASE j = n + 1
    <3>1. j - 1 = n BY <2>3, <1>0
    <3>2. F[j] = new[Mask(i)] BY <1>6, <2>1, <3>1, <1>2
    <3>3. new[Mask(i)] = v BY <1>3
    <3> QED BY <3>2, <3>3, <1>7, <2>3
  <2>4. CASE j # n + 1
    <3>1. j \in 1 .. n /\ j - 1 # n /\ j - 1 \in 0 .. Size - 1 /\ n \in 0 .. Size - 1
      BY <2>4, <1>0, <2>1
    <3>2. Mask(first + (j - 1)) # Mask(first + n) BY <3>1, MaskApart
    <3>3. new[Mask(first + (j - 1))] = slots[Mask(first + (j - 1))]
      BY <3>2, <1>2, <2>2
    <3> QED BY <3>1, <3>3, <1>5, <1>6, <1>7, <2>1
  <2> QED BY <2>3, <2>4
<1>9. F = A
  <2> HIDE DEF F, A
  <2> QED BY <1>6, <1>7, <1>8, SeqEqual
<1> QED BY <1>1, <1>9 DEF n

(* the first index moved on: the tail                                      *)
LEMMA EntriesTail ==
  ASSUME NEW slots \in [Slots -> Slots], NEW first \in Indices,
         NEW i \in Indices, i # first
  PROVE  /\ Entries(slots, first, Ahead(i, first)) # << >>
         /\ Entries(slots, WrapInc(first), Ahead(i, WrapInc(first)))
              = Tail(Entries(slots, first, Ahead(i, first)))
<1> DEFINE n == Ahead(i, first)
           E == Entries(slots, first, n)
           F == Entries(slots, WrapInc(first), n - 1)
           T == Tail(E)
<1>0. n \in Nat /\ n # 0 /\ first \in Nat BY AheadNat, AheadZero DEF Indices
<1>1. Ahead(i, WrapInc(first)) = n - 1 BY AheadIncSecond
<1>2. WrapInc(first) \in Indices BY IndexTypes
<1> HIDE DEF n
<1>3. n - 1 \in Nat BY <1>0
<1>4. /\ E \in Seq(Slots) /\ Len(E) = n
      /\ \A j \in 1 .. n : E[j] = slots[Mask(first + j - 1)]
  BY <1>0, EntriesSeq
<1>5. /\ F \in Seq(Slots) /\ Len(F) = n - 1
      /\ \A j \in 1 .. n - 1 : F[j] = slots[Mask(WrapInc(first) + j - 1)]
  BY <1>2, <1>3, EntriesSeq
<1>6. E # << >>
  <2> HIDE DEF E
  <2> QED BY <1>4, <1>0
<1>7. /\ T \in Seq(Slots) /\ Len(T) = n - 1
      /\ \A j \in 1 .. n - 1 : T[j] = E[j + 1]
  <2> HIDE DEF E
  <2> QED BY <1>4, <1>6, HeadTailProperties
<1>8. \A j \in 1 .. n - 1 : F[j] = T[j]
  <2> TAKE j \in 1 .. n - 1
  <2>1. /\ j \in Int /\ j - 1 \in Nat /\ j + 1 \in 1 .. n
        /\ WrapInc(first) \in Int
        /\ WrapInc(first) + (j - 1) = WrapInc(first) + j - 1
        /\ first + (j - 1) + 1 = first + (j + 1) - 1
    BY <1>0, <1>2, IndexModAssumption DEF Indices
  <2>2. Mask(WrapInc(first) + (j - 1)) = Mask(first + (j - 1) + 1)
    BY <2>1, MaskNext
  <2>3. F[j] = slots[Mask(WrapInc(first) + j - 1)]
    <3> HIDE DEF F
    <3> QED BY <1>5
  <2>4. T[j] = E[j + 1]
    <3> HIDE DEF E, T
    <3> QED BY <1>7
  <2>5. E[j + 1] = slots[Mask(first + (j + 1) - 1)]
    <3> HIDE DEF E
    <3> QED BY <1>4, <2>1
  <2>6. slots[Mask(WrapInc(first) + j - 1)] = slots[Mask(first + (j + 1) - 1)]
    BY <2>1, <2>2
  <2> HIDE DEF E, F, T
  <2> QED BY <2>3, <2>4, <2>5, <2>6
<1>9. F = T
  <2> HIDE DEF F, T
  <2> QED BY <1>5, <1>7, <1>8, SeqEqual
<1> QED BY <1>1, <1>6, <1>9 DEF n

(* a sequence with its first entry exchanged for entry k                   *)
LEMMA SeqExchange ==
  ASSUME NEW S, NEW E \in Seq(S), NEW k \in 1 .. Len(E),
         NEW F \in Seq(S), Len(F) = Len(E),
         \A j \in 1 .. Len(E) :
             F[j] = IF j = k THEN E[1] ELSE IF j = 1 THEN E[k] ELSE E[j]
  PROVE  F = [E EXCEPT ![1] = E[k], ![k] = E[1]]
<1> DEFINE Y == [E EXCEPT ![1] = E[k]]
           X == [Y EXCEPT ![k] = E[1]]
<1>1. 1 \in 1 .. Len(E) OBVIOUS
<1>2. E[1] \in S /\ E[k] \in S BY <1>1, ElementOfSeq
<1>3. /\ Y \in Seq(S) /\ Len(Y) = Len(E)
      /\ \A j \in 1 .. Len(E) : Y[j] = IF j = 1 THEN E[k] ELSE E[j]
  BY <1>1, <1>2, ExceptSeq
<1> HIDE DEF Y
<1>4. /\ X \in Seq(S) /\ Len(X) = Len(E)
      /\ \A j \in 1 .. Len(E) : X[j] = IF j = k THEN E[1] ELSE Y[j]
  BY <1>2, <1>3, ExceptSeq
<1> HIDE DEF X
<1>5. \A j \in 1 .. Len(E) : F[j] = X[j] BY <1>3, <1>4
<1>6. F = X BY <1>4, <1>5, SeqEqual
<1> QED BY <1>6 DEF X, Y

(* two entries changed places in the ring: they change places              *)
LEMMA EntriesExchange ==
  ASSUME NEW slots \in [Slots -> Slots], NEW first \in Indices,
         NEW i \in Indices, NEW n \in Nat, n <= Size, Ahead(i, first) < n,
         NEW new \in [Slots -> Slots],
         \A x \in Slots : new[x] = IF x = Mask(first) THEN slots[Mask(i)]
                                   ELSE IF x = Mask(i) THEN slots[Mask(first)]
                                   ELSE slots[x]
  PROVE  \A j \in 1 .. n :
             Entries(new, first, n)[j] =
                 IF j = Ahead(i, first) + 1 THEN Entries(slots, first, n)[1]
                 ELSE IF j = 1 THEN Entries(slots, first, n)[Ahead(i, first) + 1]
                 ELSE Entries(slots, first, n)[j]
<1> DEFINE E == Entries(slots, first, n)
           F == Entries(new, first, n)
           m == Ahead(i, first)
<1>0. /\ m \in Nat /\ m < n /\ Size \in Nat /\ first \in Nat
  BY AheadNat, SizeAssumption DEF Indices
<1>1. Mask(i) \in Slots /\ Mask(first) \in Slots BY IndexTypes
<1>2. Mask(first + m) = Mask(i) BY MaskAhead
<1>3. Mask(first + 0) = Mask(first) BY <1>0
<1> HIDE DEF m
<1>4. /\ E \in Seq(Slots) /\ Len(E) = n
      /\ \A j \in 1 .. n : E[j] = slots[Mask(first + j - 1)]
  BY EntriesSeq
<1>5. /\ F \in Seq(Slots) /\ Len(F) = n
      /\ \A j \in 1 .. n : F[j] = new[Mask(first + j - 1)]
  BY EntriesSeq
<1>6. 1 \in 1 .. n /\ m + 1 \in 1 .. n BY <1>0
<1>7. E[1] = slots[Mask(first)] /\ E[m + 1] = slots[Mask(i)]
  <2>1. first + 1 - 1 = first + 0 /\ first + (m + 1) - 1 = first + m BY <1>0
  <2> QED BY <2>1, <1>2, <1>3, <1>4, <1>6
<1>8. \A j \in 1 .. n :
          F[j] = IF j = m + 1 THEN E[1] ELSE IF j = 1 THEN E[m + 1] ELSE E[j]
  <2> TAKE j \in 1 .. n
  <2>1. /\ j - 1 \in 0 .. Size - 1 /\ m \in 0 .. Size - 1 /\ 0 \in 0 .. Size - 1
        /\ first + j - 1 = first + (j - 1) /\ j - 1 \in Nat
    BY <1>0
  <2>2. F[j] = new[Mask(first + (j - 1))] BY <1>5, <2>1
  <2>3. Mask(first + (j - 1)) \in Slots BY <2>1, MaskSlot
  <2>4. E[j] = slots[Mask(first + (j - 1))] BY <1>4, <2>1
  <2>5. CASE j = m + 1 /\ j # 1
    <3>1. j - 1 = m /\ m # 0 BY <2>5, <1>0
    <3>2. Mask(first + m) # Mask(first + 0) BY <3>1, <2>1, MaskApart
    <3>3. Mask(first + (j - 1)) = Mask(i) /\ Mask(i) # Mask(first)
      BY <3>1, <3>2, <1>2, <1>3
    <3>4. new[Mask(i)] = slots[Mask(first)] BY <3>3, <1>1
    <3> QED BY <2>2, <2>5, <3>3, <3>4, <1>7
  <2>6. CASE j = 1
    <3>1. j - 1 = 0 BY <2>6
    <3>2. F[j] = new[Mask(first)] BY <3>1, <2>2, <1>3
    <3>3. new[Mask(first)] = slots[Mask(i)] BY <1>1
    <3>4. CASE m = 0
      <4>1. Mask(i) = Mask(first) BY <3>4, <1>2, <1>3
      <4> QED BY <3>2, <3>3, <3>4, <4>1, <2>6, <1>7
    <3>5. CASE m # 0
      <4>1. j # m + 1 BY <3>5, <2>6, <1>0
      <4> QED BY <3>2, <3>3, <4>1, <2>6, <1>7
    <3> QED BY <3>4, <3>5
  <2>7. CASE j # m + 1 /\ j # 1
    <3>1. j - 1 # m /\ j - 1 # 0 BY <2>7, <1>0
    <3>2. Mask(first + (j - 1)) # Mask(first + m) BY <3>1, <2>1, MaskApart
    <3>3. Mask(first + (j - 1)) # Mask(first + 0) BY <3>1, <2>1, MaskApart
    <3>4. new[Mask(first + (j - 1))] = slots[Mask(first + (j - 1))]
      BY <3>2, <3>3, <1>2, <1>3, <1>1, <2>3
    <3> QED BY <2>2, <2>4, <2>7, <3>4
  <2> QED BY <2>5, <2>6, <2>7
<1> QED BY <1>8 DEF m

-----------------------------------------------------------------------------
(* The mailboxes of a state.                                               *)

(* what the rings hold, as sequences                                       *)
LEMMA BoxTypes ==
  ASSUME IndInv, NEW t \in Tasks
  PROVE  /\ Outbox[t] = Entries(tx_slots[t], last_transmit_index[t], Unsent(t))
         /\ Inbox[t] = Entries(rx_slots[t], last_received_index[t], Unread(t))
         /\ Len(Outbox[t]) = Unsent(t)
         /\ Len(Inbox[t]) = Unread(t)
         /\ Unsent(t) \in Nat
         /\ Unread(t) \in Nat
<1>1. /\ tx_slots[t] \in [Slots -> Slots] /\ rx_slots[t] \in [Slots -> Slots]
      /\ last_transmit_index[t] \in Indices /\ last_received_index[t] \in Indices
  BY DEF IndInv, TypeOK
<1>2. Unsent(t) \in Nat /\ Unread(t) \in Nat
  BY CountTypes, IndexModAssumption DEF IndInv, Indices
<1>3. /\ Outbox[t] = Entries(tx_slots[t], last_transmit_index[t], Unsent(t))
      /\ Inbox[t] = Entries(rx_slots[t], last_received_index[t], Unread(t))
  BY DEF Outbox, Inbox
<1>4. Len(Entries(tx_slots[t], last_transmit_index[t], Unsent(t))) = Unsent(t)
  BY <1>1, <1>2, EntriesSeq
<1>5. Len(Entries(rx_slots[t], last_received_index[t], Unread(t))) = Unread(t)
  BY <1>1, <1>2, EntriesSeq
<1> QED BY <1>2, <1>3, <1>4, <1>5

(* a free or held slot is one that the mailboxes have left over            *)
LEMMA BoxesFit ==
  ASSUME IndInv, NEW t \in Tasks, stack[t] # << >> \/ tx_slot[t] # NoSlot
  PROVE  Len(Outbox[t]) + Len(Inbox[t]) < Size
<1>1. Free(t) + Unsent(t) + Unread(t) + Held(t) = Size
  BY DEF IndInv, SlotConservation
<1>2. Unsent(t) \in Nat /\ Unread(t) \in Nat /\ Free(t) \in Nat /\ Held(t) \in Nat
  BY CountTypes, IndexModAssumption DEF IndInv, Indices
<1>3. Free(t) + Held(t) > 0
  <2>1. CASE stack[t] # << >>
    <3>1. stack[t] \in Seq(Slots) BY DEF IndInv, TypeOK
    <3>2. Len(stack[t]) \in Nat \ {0} BY <2>1, <3>1, EmptySeq
    <3> QED BY <3>2, <1>2 DEF Free
  <2>2. CASE tx_slot[t] # NoSlot
    <3>1. Held(t) > 0 BY <2>2 DEF Held
    <3> QED BY <3>1, <1>2
  <2> QED BY <2>1, <2>2
<1>4. Unsent(t) + Unread(t) < Size BY <1>1, <1>2, <1>3, SizeAssumption
<1> QED BY <1>4, BoxTypes

(* a step that leaves rings and indices alone leaves the mailboxes alone   *)
LEMMA BoxFrame ==
  ASSUME UNCHANGED <<tx_slots, tx_index, last_transmit_index,
                     rx_slots, rx_index, last_received_index>>
  PROVE  UNCHANGED <<Outbox, Inbox>>
BY DEF Outbox, Inbox, Unsent, Unread

(* The drop of a TransmitLock posts its slot.                              *)
LEMMA PostStep ==
  ASSUME IndInv, NEW t \in Tasks, NEW to \in Tasks \cup {NoTask},
         DropTransmitLock(t, to)
  PROVE  tx_slot[t] \in 0 .. Size - 1 /\ Mailboxes!Post(t, tx_slot[t])
<1>1. /\ pc[t] = "tx_write"
      /\ tx_slots' = [tx_slots EXCEPT ![t][Mask(tx_index[t])] = tx_slot[t]]
      /\ tx_index' = [tx_index EXCEPT ![t] = WrapInc(tx_index[t])]
      /\ UNCHANGED <<last_transmit_index, rx_slots, rx_index, last_received_index>>
  BY DEF DropTransmitLock, At, kernelVars
<1>2. tx_slot[t] # NoSlot BY <1>1 DEF IndInv, Whereabouts
<1>3. /\ tx_slot[t] \in Slots
      /\ tx_slots \in [Tasks -> [Slots -> Slots]]
      /\ tx_index \in [Tasks -> Indices]
      /\ last_transmit_index[t] \in Indices
  BY <1>2 DEF IndInv, TypeOK
<1>4. Len(Outbox[t]) + Len(Inbox[t]) < Size BY <1>2, BoxesFit
<1>5. Unsent(t) < Size
  <2>1. Len(Outbox[t]) = Unsent(t) /\ Len(Inbox[t]) = Unread(t)
        /\ Unsent(t) \in Nat /\ Unread(t) \in Nat
    BY BoxTypes
  <2> QED BY <2>1, <1>4, SizeAssumption
<1>6. Inbox' = Inbox BY <1>1 DEF Inbox, Unread
<1>7. Outbox' = [Outbox EXCEPT ![t] = Append(@, tx_slot[t])]
  <2>1. Outbox'[t] = Append(Outbox[t], tx_slot[t])
    <3>1. /\ tx_slots'[t] = [tx_slots[t] EXCEPT ![Mask(tx_index[t])] = tx_slot[t]]
          /\ tx_index'[t] = WrapInc(tx_index[t])
      BY <1>1, <1>3
    <3>2. /\ tx_slots[t] \in [Slots -> Slots] /\ tx_index[t] \in Indices
          /\ Ahead(tx_index[t], last_transmit_index[t]) < Size
      BY <1>3, <1>5 DEF Unsent
    <3>3. Entries([tx_slots[t] EXCEPT ![Mask(tx_index[t])] = tx_slot[t]],
                  last_transmit_index[t],
                  Ahead(WrapInc(tx_index[t]), last_transmit_index[t]))
            = Append(Entries(tx_slots[t], last_transmit_index[t],
                             Ahead(tx_index[t], last_transmit_index[t])),
                     tx_slot[t])
      BY <3>2, <1>3, EntriesAppend
    <3> QED BY <3>1, <3>3, <1>1 DEF Outbox, Unsent
  <2>2. \A x \in Tasks \ {t} : Outbox'[x] = Outbox[x]
    BY <1>1, <1>3 DEF Outbox, Unsent
  <2> QED BY <2>1, <2>2 DEF Outbox
<1> QED BY <1>3, <1>4, <1>6, <1>7 DEF Slots, Mailboxes!Post, Mailboxes!Fits

(* The drop of a ReceivedLock takes the first entry of the inbox.          *)
LEMMA TakeStep ==
  ASSUME IndInv, NEW t \in Tasks, DropReceivedLock(t)
  PROVE  Mailboxes!Take(t)
<1>1. /\ rx_slot[t] # NoSlot
      /\ last_received_index' =
             [last_received_index EXCEPT ![t] = WrapInc(last_received_index[t])]
      /\ UNCHANGED <<tx_slots, tx_index, last_transmit_index, rx_slots, rx_index>>
  BY DEF DropReceivedLock, sharedVars, kernelVars
<1>2. /\ rx_slots[t] \in [Slots -> Slots] /\ rx_index[t] \in Indices
      /\ last_received_index \in [Tasks -> Indices]
  BY DEF IndInv, TypeOK
<1>3. rx_index[t] # last_received_index[t]
  <2>1. Unread(t) > 0 BY <1>1 DEF IndInv, HeldEntryStable
  <2> QED BY <2>1, <1>2, AheadZero DEF Unread
<1>4. Outbox' = Outbox BY <1>1 DEF Outbox, Unsent
<1>5. /\ Inbox[t] # << >>
      /\ Inbox'[t] = Tail(Inbox[t])
  <2>1. last_received_index'[t] = WrapInc(last_received_index[t]) BY <1>1, <1>2
  <2>2. /\ Entries(rx_slots[t], last_received_index[t], Unread(t)) # << >>
        /\ Entries(rx_slots[t], last_received_index'[t],
                   Ahead(rx_index[t], last_received_index'[t]))
             = Tail(Entries(rx_slots[t], last_received_index[t], Unread(t)))
    BY <2>1, <1>2, <1>3, EntriesTail DEF Unread
  <2> QED BY <2>2, <1>1 DEF Inbox, Unread
<1>6. \A x \in Tasks \ {t} : Inbox'[x] = Inbox[x] BY <1>1, <1>2 DEF Inbox, Unread
<1>7. Inbox' = [Inbox EXCEPT ![t] = Tail(@)] BY <1>5, <1>6 DEF Inbox
<1> QED BY <1>4, <1>5, <1>7 DEF Mailboxes!Take

(* The swap of a defer exchanges the first entry with a later one.         *)
LEMMA ExchangeStep ==
  ASSUME IndInv, DeferInRange, NEW t \in Tasks, DeferSwap(t), rx_slots' # rx_slots
  PROVE  \E k \in 1 .. Len(Inbox[t]) : Mailboxes!Exchange(t, k)
<1> DEFINE first == last_received_index[t]
           i == prev_index[t]
           k == Ahead(i, first) + 1
<1>1. /\ pc[t] = "defer"
      /\ rx_slots' = [rx_slots EXCEPT ![t] =
             [@ EXCEPT ![Mask(i)] = rx_slots[t][Mask(first)],
                       ![Mask(first)] = rx_slots[t][Mask(i)]]]
      /\ UNCHANGED <<tx_slots, tx_index, last_transmit_index, rx_index,
                     last_received_index>>
  BY DEF DeferSwap, At, kernelVars, Panic, sharedVars
<1>2. /\ rx_slots \in [Tasks -> [Slots -> Slots]]
      /\ first \in Indices /\ i \in Indices
  BY DEF IndInv, TypeOK
<1>3. Unread(t) \in Nat /\ Unread(t) <= Size BY BoxTypes, CountBounds
<1>4. Ahead(i, first) < Unread(t) BY <1>1 DEF DeferInRange
<1>5. rx_slots'[t] = [rx_slots[t] EXCEPT ![Mask(i)] = rx_slots[t][Mask(first)],
                                         ![Mask(first)] = rx_slots[t][Mask(i)]]
  BY <1>1, <1>2
<1>6. rx_slots[t] \in [Slots -> Slots] BY <1>2
<1> HIDE DEF first, i
<1> DEFINE n == Unread(t)
           E == Entries(rx_slots[t], first, n)
           F == Entries(rx_slots'[t], first, n)
<1>7. k \in 1 .. Len(E) /\ F = [E EXCEPT ![1] = E[k], ![k] = E[1]]
  <2>1. n \in Nat /\ n <= Size /\ Ahead(i, first) < n BY <1>3, <1>4
  <2>2. Mask(i) \in Slots /\ Mask(first) \in Slots BY <1>2, IndexTypes
  <2>3. /\ rx_slots'[t] \in [Slots -> Slots]
        /\ \A x \in Slots :
              rx_slots'[t][x] = IF x = Mask(first) THEN rx_slots[t][Mask(i)]
                                ELSE IF x = Mask(i) THEN rx_slots[t][Mask(first)]
                                ELSE rx_slots[t][x]
    BY <1>5, <1>6, <2>2
  <2>4. Ahead(i, first) \in Nat BY <1>2, AheadNat
  <2> HIDE DEF n
  <2>5. \A j \in 1 .. n :
            F[j] = IF j = k THEN E[1] ELSE IF j = 1 THEN E[k] ELSE E[j]
    BY <1>2, <1>6, <2>1, <2>3, EntriesExchange
  <2>6. E \in Seq(Slots) /\ Len(E) = n BY <1>2, <1>6, <2>1, EntriesSeq
  <2>7. F \in Seq(Slots) /\ Len(F) = n BY <1>2, <2>1, <2>3, EntriesSeq
  <2>8. k \in 1 .. n BY <2>1, <2>4
  <2> HIDE DEF E, F, k
  <2> QED BY <2>5, <2>6, <2>7, <2>8, SeqExchange
<1> HIDE DEF k
<1>8. k \in 1 .. Len(Inbox[t]) BY <1>7 DEF Inbox, first
<1>9. Inbox'[t] = [Inbox[t] EXCEPT ![1] = Inbox[t][k], ![k] = Inbox[t][1]]
  BY <1>7, <1>1 DEF Inbox, Unread, first
<1>10. \A x \in Tasks \ {t} : Inbox'[x] = Inbox[x] BY <1>1, <1>2 DEF Inbox, Unread
<1>11. Outbox' = Outbox BY <1>1 DEF Outbox, Unsent
<1>12. Inbox' = [Inbox EXCEPT ![t] = [@ EXCEPT ![1] = Inbox[t][k],
                                                ![k] = Inbox[t][1]]]
  BY <1>9, <1>10 DEF Inbox
<1>13. Mailboxes!Exchange(t, k) BY <1>11, <1>12 DEF Mailboxes!Exchange
<1> QED BY <1>8, <1>13

(***************************************************************************)
(* One round of process_packets moves the oldest entry of an outbox to the *)
(* end of the recipient's inbox.                                           *)
(***************************************************************************)
LEMMA DeliverStep ==
  ASSUME IndInv, NEW t \in Tasks, ProcessPacket(t)
  PROVE  \E u \in Tasks, s \in 0 .. Size - 1 : Mailboxes!Deliver(t, u, s)
<1> DEFINE u == Recipient(t)
           s == Top(stack[u])
<1>1. /\ Pending(t)
      /\ u \in Tasks \ {t}
      /\ stack[u] # << >>
      /\ rx_slots' = [rx_slots EXCEPT ![u][Mask(rx_index[u])] = s]
      /\ rx_index' = [rx_index EXCEPT ![u] = WrapInc(rx_index[u])]
      /\ last_transmit_index' = [last_transmit_index EXCEPT ![t] =
                                    WrapInc(last_transmit_index[t])]
      /\ UNCHANGED <<tx_index, tx_slots, last_received_index>>
  BY DEF ProcessPacket, userVars
<1>2. u \in Tasks /\ u # t /\ tx_index[t] # last_transmit_index[t]
  BY <1>1, PendingPacket
<1> HIDE DEF u
<1>3. /\ tx_slots \in [Tasks -> [Slots -> Slots]]
      /\ rx_slots \in [Tasks -> [Slots -> Slots]]
      /\ tx_index \in [Tasks -> Indices] /\ rx_index \in [Tasks -> Indices]
      /\ last_transmit_index \in [Tasks -> Indices]
      /\ last_received_index \in [Tasks -> Indices]
      /\ stack[u] \in Seq(Slots)
  BY <1>2 DEF IndInv, TypeOK
<1>4. s \in Slots BY <1>1, <1>3, PopTypes
<1> HIDE DEF s
<1>5. Len(Outbox[u]) + Len(Inbox[u]) < Size BY <1>1, <1>2, BoxesFit
<1>6. Unread(u) < Size
  <2>1. Len(Outbox[u]) = Unsent(u) /\ Len(Inbox[u]) = Unread(u)
        /\ Unsent(u) \in Nat /\ Unread(u) \in Nat
    BY <1>2, BoxTypes
  <2> QED BY <2>1, <1>5, SizeAssumption
<1>7. Outbox[t] # << >> /\ Outbox'[t] = Tail(Outbox[t])
  <2>1. last_transmit_index'[t] = WrapInc(last_transmit_index[t]) BY <1>1, <1>3
  <2>2. /\ Entries(tx_slots[t], last_transmit_index[t], Unsent(t)) # << >>
        /\ Entries(tx_slots[t], last_transmit_index'[t],
                   Ahead(tx_index[t], last_transmit_index'[t]))
             = Tail(Entries(tx_slots[t], last_transmit_index[t], Unsent(t)))
    BY <2>1, <1>2, <1>3, EntriesTail DEF Unsent
  <2> QED BY <2>2, <1>1 DEF Outbox, Unsent
<1>8. \A x \in Tasks \ {t} : Outbox'[x] = Outbox[x] BY <1>1, <1>3 DEF Outbox, Unsent
<1>9. Outbox' = [Outbox EXCEPT ![t] = Tail(@)] BY <1>7, <1>8 DEF Outbox
<1>10. Inbox'[u] = Append(Inbox[u], s)
  <2>1. /\ rx_slots'[u] = [rx_slots[u] EXCEPT ![Mask(rx_index[u])] = s]
        /\ rx_index'[u] = WrapInc(rx_index[u])
    BY <1>1, <1>2, <1>3
  <2>2. /\ rx_slots[u] \in [Slots -> Slots] /\ rx_index[u] \in Indices
        /\ last_received_index[u] \in Indices
        /\ Ahead(rx_index[u], last_received_index[u]) < Size
    BY <1>2, <1>3, <1>6 DEF Unread
  <2>3. Entries([rx_slots[u] EXCEPT ![Mask(rx_index[u])] = s],
                last_received_index[u],
                Ahead(WrapInc(rx_index[u]), last_received_index[u]))
          = Append(Entries(rx_slots[u], last_received_index[u],
                           Ahead(rx_index[u], last_received_index[u])), s)
    BY <2>2, <1>4, EntriesAppend
  <2> QED BY <2>1, <2>3, <1>1, <1>2 DEF Inbox, Unread
<1>11. \A x \in Tasks \ {u} : Inbox'[x] = Inbox[x] BY <1>1, <1>3 DEF Inbox, Unread
<1>12. Inbox' = [Inbox EXCEPT ![u] = Append(@, s)] BY <1>2, <1>10, <1>11 DEF Inbox
<1>13. Mailboxes!Deliver(t, u, s)
  BY <1>2, <1>5, <1>7, <1>9, <1>12 DEF Mailboxes!Deliver, Mailboxes!Fits
<1> QED BY <1>2, <1>4, <1>13 DEF Slots

-----------------------------------------------------------------------------
(* The refinement.                                                         *)

(***************************************************************************)
(* Packets that come in while a defer is preempted only add to what it may *)
(* exchange with, and it is the task itself that would take something      *)
(* away.                                                                   *)
(***************************************************************************)
LEMMA DeferInRangeStep ==
  ASSUME IndInv, DeferInRange, [Next]_vars
  PROVE  DeferInRange'
<1>0. /\ rx_index \in [Tasks -> Indices] /\ last_received_index \in [Tasks -> Indices]
      /\ prev_index \in [Tasks -> Indices] /\ pc \in [Tasks -> Locations]
  BY DEF IndInv, TypeOK
<1>1. ASSUME UNCHANGED <<rx_index, last_received_index>>,
             \A t \in Tasks : pc'[t] = "defer" =>
                 pc[t] = "defer" /\ prev_index'[t] = prev_index[t]
      PROVE  DeferInRange'
  BY <1>1 DEF DeferInRange, Unread
<1>2. ASSUME NEW t \in Tasks, Defer(t) PROVE DeferInRange'
  <2>1. /\ rx_slot[t] # NoSlot
        /\ prev_index' = [prev_index EXCEPT ![t] = WrapDec(rx_index[t])]
        /\ pc' = [pc EXCEPT ![t] = "defer"]
        /\ UNCHANGED <<rx_index, last_received_index>>
    BY <1>2 DEF Defer, Goto, sharedVars
  <2>2. Unread(t) > 0 /\ Unread(t) \in Nat
    BY <2>1, BoxTypes DEF IndInv, HeldEntryStable
  <2>3. rx_index[t] # last_received_index[t]
    BY <2>2, <1>0, AheadZero DEF Unread
  <2>4. Ahead(WrapDec(rx_index[t]), last_received_index[t]) = Unread(t) - 1
    BY <2>3, <1>0, AheadDec DEF Unread
  <2>5. prev_index'[t] = WrapDec(rx_index[t]) BY <2>1, <1>0
  <2>6. Ahead(prev_index'[t], last_received_index[t]) < Unread(t)
    BY <2>2, <2>4, <2>5
  <2>7. \A x \in Tasks \ {t} : pc'[x] = pc[x] /\ prev_index'[x] = prev_index[x]
    BY <2>1, <1>0
  <2> QED BY <2>1, <2>6, <2>7 DEF DeferInRange, Unread
<1>3. ASSUME NEW t \in Tasks, DropReceivedLock(t) PROVE DeferInRange'
  <2>1. /\ last_received_index' =
               [last_received_index EXCEPT ![t] = WrapInc(last_received_index[t])]
        /\ pc' = [pc EXCEPT ![t] = "push"]
        /\ UNCHANGED <<rx_index, prev_index>>
    BY <1>3 DEF DropReceivedLock, Goto, sharedVars
  <2>2. pc'[t] = "push" BY <2>1, <1>0
  <2>3. \A x \in Tasks \ {t} : pc'[x] = pc[x]
                               /\ last_received_index'[x] = last_received_index[x]
    BY <2>1, <1>0
  <2> QED BY <2>1, <2>2, <2>3 DEF DeferInRange, Unread
<1>4. ASSUME NEW t \in Tasks, ProcessPacket(t) PROVE DeferInRange'
  <2>1. Recipient(t) \in Tasks BY <1>4 DEF ProcessPacket
  <2>2. PICK u \in Tasks :
            /\ stack[u] # << >>
            /\ rx_index' = [rx_index EXCEPT ![u] = WrapInc(rx_index[u])]
            /\ UNCHANGED <<last_received_index, prev_index, pc>>
    BY <2>1, <1>4 DEF ProcessPacket, userVars
  <2>3. Unread(u) \in Nat /\ Unread(u) <= Size /\ Size <= IndexMod - 1
        /\ Len(Inbox[u]) = Unread(u) /\ Len(Outbox[u]) \in Nat
    BY BoxTypes, CountBounds
  <2>4. Unread(u) < Size
    <3>1. Len(Outbox[u]) + Len(Inbox[u]) < Size BY <2>2, BoxesFit
    <3> QED BY <3>1, <2>3, SizeAssumption
  <2>5. Ahead(WrapInc(rx_index[u]), last_received_index[u]) = Unread(u) + 1
    <3>1. Ahead(rx_index[u], last_received_index[u]) < IndexMod - 1
      BY <2>3, <2>4, SizeAssumption, IndexModAssumption DEF Unread
    <3> QED BY <3>1, <1>0, AheadInc DEF Unread
  <2>6. Unread(u)' = Unread(u) + 1 BY <2>2, <2>5, <1>0 DEF Unread
  <2>7. \A x \in Tasks \ {u} : Unread(x)' = Unread(x) BY <2>2, <1>0 DEF Unread
  <2>8. pc[u] = "defer" =>
            Ahead(prev_index[u], last_received_index[u]) < Unread(u) + 1
    <3>1. Ahead(prev_index[u], last_received_index[u]) \in Nat
      BY <1>0, AheadNat
    <3> QED BY <3>1, <2>3 DEF DeferInRange
  <2> QED BY <2>2, <2>6, <2>7, <2>8 DEF DeferInRange
<1>5. ASSUME NEW t \in Tasks,
             \/ SetQueues(t) \/ Transmit(t) \/ PopFreeSlot(t)
             \/ \E to \in Tasks \cup {NoTask} : DropTransmitLock(t, to)
             \/ Receive(t) \/ LockStack(t) \/ PushFreeSlot(t) \/ DeferSwap(t)
             \/ \E time \in WaitTimes \cup {"forever"} : IoWait(t, time)
      PROVE  DeferInRange'
  <2>1. UNCHANGED <<rx_index, last_received_index>>
    BY <1>5 DEF SetQueues, Transmit, PopFreeSlot, DropTransmitLock, Receive,
         LockStack, PushFreeSlot, DeferSwap, IoWait, Panic, sharedVars, userVars
  <2>2. \/ pc' = pc /\ prev_index' = prev_index
        \/ /\ \E l \in Locations \ {"defer"} : pc' = [pc EXCEPT ![t] = l]
           /\ prev_index' = prev_index \/ prev_index' = [prev_index EXCEPT ![t] = 0]
    BY <1>5 DEF SetQueues, Transmit, PopFreeSlot, DropTransmitLock, Receive,
         LockStack, PushFreeSlot, DeferSwap, IoWait, Panic, userVars, Goto,
         Locations
  <2>3. \A x \in Tasks : pc'[x] = "defer" =>
            pc[x] = "defer" /\ prev_index'[x] = prev_index[x]
    BY <2>2, <1>0
  <2> QED BY <2>1, <2>3, <1>1
<1>6. ASSUME NEW t \in Tasks,
             \/ ProcessDone(t) \/ ProcessNoQueues(t) \/ ProcessPanic(t)
             \/ Next_(t) \/ Preempt(t) \/ Timeout(t) \/ Notify(t)
      PROVE  DeferInRange'
  <2>1. UNCHANGED <<rx_index, last_received_index, prev_index, pc>>
    BY <1>6 DEF ProcessDone, ProcessNoQueues, ProcessPanic, Next_, Preempt, Timeout,
         Notify, Panic, sharedVars, userVars
  <2> QED BY <2>1, <1>1
<1>7. CASE UNCHANGED vars
  BY <1>7, <1>1 DEF vars, sharedVars, userVars
<1> QED BY <1>2, <1>3, <1>4, <1>5, <1>6, <1>7 DEF Next, UserStep, KernelStep

(* Every step is one of the mailboxes, or moves nothing in them.           *)
LEMMA BoxStep ==
  ASSUME IndInv, DeferInRange, [Next]_vars
  PROVE  [Mailboxes!Next]_<<Outbox, Inbox>>
<1>1. ASSUME NEW t \in Tasks, NEW to \in Tasks \cup {NoTask},
             DropTransmitLock(t, to)
      PROVE  Mailboxes!Next
  BY <1>1, PostStep DEF Mailboxes!Next
<1>2. ASSUME NEW t \in Tasks, DropReceivedLock(t) PROVE Mailboxes!Next
  BY <1>2, TakeStep DEF Mailboxes!Next
<1>3. ASSUME NEW t \in Tasks, ProcessPacket(t) PROVE Mailboxes!Next
  BY <1>3, DeliverStep DEF Mailboxes!Next
<1>4. ASSUME NEW t \in Tasks, DeferSwap(t)
      PROVE  [Mailboxes!Next]_<<Outbox, Inbox>>
  <2>1. CASE rx_slots' # rx_slots
    <3>1. Mailboxes!Next BY <1>4, <2>1, ExchangeStep DEF Mailboxes!Next
    <3> QED BY <3>1
  <2>2. CASE rx_slots' = rx_slots
    <3>1. UNCHANGED <<tx_slots, tx_index, last_transmit_index, rx_index,
                      last_received_index>>
      BY <1>4 DEF DeferSwap, Panic, sharedVars, kernelVars, userVars
    <3> QED BY <2>2, <3>1, BoxFrame
  <2> QED BY <2>1, <2>2
<1>5. ASSUME NEW t \in Tasks, SetQueues(t) PROVE UNCHANGED <<Outbox, Inbox>>
  <2>1. UNCHANGED last_transmit_index
    BY <1>5 DEF SetQueues, At, IndInv, TypeOK, Whereabouts
  <2> QED BY <1>5, <2>1, BoxFrame DEF SetQueues, sharedVars
<1>6. ASSUME NEW t \in Tasks,
             \/ Transmit(t) \/ PopFreeSlot(t) \/ Receive(t) \/ LockStack(t)
             \/ PushFreeSlot(t) \/ Defer(t)
             \/ \E time \in WaitTimes \cup {"forever"} : IoWait(t, time)
      PROVE  UNCHANGED <<Outbox, Inbox>>
  <2>1. UNCHANGED <<tx_slots, tx_index, last_transmit_index,
                    rx_slots, rx_index, last_received_index>>
    BY <1>6 DEF Transmit, PopFreeSlot, Receive, LockStack, PushFreeSlot, Defer,
         IoWait, Panic, sharedVars, kernelVars, userVars
  <2> QED BY <2>1, BoxFrame
<1>7. ASSUME NEW t \in Tasks,
             \/ ProcessDone(t) \/ ProcessNoQueues(t) \/ ProcessPanic(t)
             \/ Next_(t) \/ Preempt(t) \/ Timeout(t) \/ Notify(t)
      PROVE  UNCHANGED <<Outbox, Inbox>>
  <2>1. UNCHANGED <<tx_slots, tx_index, last_transmit_index,
                    rx_slots, rx_index, last_received_index>>
    BY <1>7 DEF ProcessDone, ProcessNoQueues, ProcessPanic, Next_, Preempt, Timeout,
         Notify, Panic, sharedVars, kernelVars, userVars
  <2> QED BY <2>1, BoxFrame
<1>8. CASE UNCHANGED vars
  BY <1>8, BoxFrame DEF vars, sharedVars, kernelVars, userVars
<1> QED BY <1>1, <1>2, <1>3, <1>4, <1>5, <1>6, <1>7, <1>8
        DEF Next, UserStep, KernelStep

(* Rings whose indices are equal are empty mailboxes.                      *)
LEMMA BoxInit ==
  ASSUME Init
  PROVE  Mailboxes!Init /\ DeferInRange
<1>1. 0 \in Indices BY SizeAssumption, IndexModAssumption DEF Indices
<1>2. \A t \in Tasks : Unsent(t) = 0 /\ Unread(t) = 0
  BY <1>1, AheadZero DEF Init, Unsent, Unread
<1>3. \A slots, first : Entries(slots, first, 0) = << >> BY DEF Entries
<1>4. Mailboxes!Init BY <1>2, <1>3 DEF Mailboxes!Init, Outbox, Inbox
<1>5. DeferInRange BY DEF Init, DeferInRange
<1> QED BY <1>4, <1>5

(***************************************************************************)
(* The swap of defer stays among the unread entries, although it uses an   *)
(* index read before a preemption (mem.rs:481-489).                        *)
(***************************************************************************)
THEOREM DeferStays == Spec => []DeferInRange
<1>1. Init => DeferInRange BY BoxInit
<1>2. IndInv /\ DeferInRange /\ [Next]_vars => DeferInRange' BY DeferInRangeStep
<1> QED BY Invariance, <1>1, <1>2, PTL DEF Spec

(***************************************************************************)
(* The rings of dux mem.rs and process_packets of ipc.rs implement         *)
(* mailboxes, for any set of tasks, any ring and any index size: nothing   *)
(* is lost, doubled or reordered but by its owner, also by a defer that is *)
(* preempted before its swap.                                              *)
(***************************************************************************)
THEOREM RingsRefine == Spec => RingsAreMailboxes
<1>1. Init => Mailboxes!Init BY BoxInit
<1>2. IndInv /\ DeferInRange /\ [Next]_vars => [Mailboxes!Next]_<<Outbox, Inbox>>
  BY BoxStep
<1> QED BY Invariance, DeferStays, <1>1, <1>2, PTL
        DEF Spec, RingsAreMailboxes, Mailboxes!Spec, Mailboxes!mailVars
=============================================================================
