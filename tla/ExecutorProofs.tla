--------------------------- MODULE ExecutorProofs ---------------------------
(***************************************************************************)
(* The safety properties of module Executor, for any number of tasks, any  *)
(* delays and slices, interrupts to any of the tasks, and defers to any    *)
(* addresses.                                                              *)
(***************************************************************************)
EXTENDS Executor, WellFoundedInduction, TLAPS

(* the order of the clock                                                  *)
LEMMA ClockOrder ==
  ASSUME NEW a \in Times, NEW b \in Times, NotAfter(a, b)
  PROVE  /\ Advance(a) \in Times /\ Advance(b) \in Times
         /\ NotAfter(Advance(a), Advance(b))
BY NeverAssumption DEF Times, NotAfter, Before, Advance, Past

(* an address is a number, and so is an id                                 *)
LEMMA AddressesAreNumbers ==
  /\ Addresses \subseteq Nat
  /\ Ids = 0 .. 15
  /\ \A t \in Ids : t \in Addresses /\ TaskOf(t) = t
<1>1. Addresses \subseteq Nat
  BY DeferAddressesAssumption DEF Addresses, Ids, GroupSize
<1>2. Ids = 0 .. 15 BY DEF Ids, GroupSize
<1>3. \A t \in 0 .. 15 : t % 4096 = t OBVIOUS
<1> QED BY <1>1, <1>2, <1>3 DEF Addresses, TaskOf, TaskMask

(* the loop looks at ids only, the same ones from an address and from its  *)
(* remainder                                                               *)
LEMMA CandidateIs ==
  ASSUME NEW p \in Nat, NEW k \in Nat
  PROVE  /\ Candidate(p, k) \in Ids
         /\ p % 16 \in Ids
         /\ Candidate(p, k) = Candidate(p % 16, k)
<1>1. p % 16 \in 0 .. 15 OBVIOUS
<1>2. (p + 7 * k) % 16 \in 0 .. 15 OBVIOUS
<1>3. (p + 7 * k) % 16 = ((p % 16) + 7 * k) % 16 OBVIOUS
<1> QED BY <1>1, <1>2, <1>3, AddressesAreNumbers DEF Candidate, GroupSize, Stride

(***************************************************************************)
(* The stride of 7 visits every slot in 16 rounds, each slot in one round  *)
(* only: 7 is its own inverse modulo 16.                                   *)
(***************************************************************************)
LEMMA StrideReaches ==
  ASSUME NEW p \in Nat, NEW t \in Ids
  PROVE  \E k \in 1 .. GroupSize : Candidate(p, k) = t
<1> DEFINE m == p % 16
           r == (7 * (t + 16 - m)) % 16
           k == IF r = 0 THEN 16 ELSE r
<1>1. m \in 0 .. 15 /\ t \in 0 .. 15 BY DEF Ids, GroupSize
<1> HIDE DEF m
<1>2. k \in 1 .. 16 BY <1>1
<1>3. (m + 7 * k) % 16 = t BY <1>1
<1>4. Candidate(p, k) = Candidate(m, k) BY <1>2, CandidateIs DEF m
<1> QED BY <1>2, <1>3, <1>4 DEF Candidate, GroupSize, Stride

(* a slot is visited in one round only                                     *)
LEMMA StrideOnce ==
  ASSUME NEW p \in Nat, NEW j \in 1 .. GroupSize, NEW k \in 1 .. GroupSize,
         Candidate(p, j) = Candidate(p, k)
  PROVE  j = k
<1> DEFINE m == p % 16
<1>1. m \in Ids /\ Candidate(m, j) = Candidate(m, k)
  BY CandidateIs DEF GroupSize
<1> HIDE DEF m
<1> QED BY <1>1 DEF Ids, Candidate, GroupSize, Stride

(* the last round from an id is the sixteenth                              *)
LEMMA LastRound ==
  ASSUME next_id \in Nat, NEW k \in LastRounds
  PROVE  k = GroupSize
<1>1. k \in 1 .. GroupSize /\ Candidate(next_id, k) = next_id BY DEF LastRounds
<1>2. next_id \in Ids BY <1>1, CandidateIs DEF GroupSize
<1>3. Candidate(next_id, GroupSize) = next_id
  BY <1>2 DEF Ids, Candidate, GroupSize, Stride
<1>4. GroupSize \in 1 .. GroupSize BY DEF GroupSize
<1> QED BY <1>1, <1>3, <1>4, StrideOnce

(* Rounds is the one round in which the loop gets to t.                    *)
LEMMA RoundsIs ==
  ASSUME NEW p \in Nat, NEW t \in Ids
  PROVE  /\ Rounds(p, t) \in 1 .. GroupSize
         /\ Candidate(p, Rounds(p, t)) = t
         /\ \A k \in 1 .. GroupSize : Candidate(p, k) = t => Rounds(p, t) = k
<1>1. /\ Rounds(p, t) \in 1 .. GroupSize
      /\ Candidate(p, Rounds(p, t)) = t
  BY StrideReaches DEF Rounds
<1>2. \A k \in 1 .. GroupSize : Candidate(p, k) = t => Rounds(p, t) = k
  BY <1>1, StrideOnce
<1> QED BY <1>1, <1>2

(* going on from the slot of round k saves k rounds                        *)
LEMMA RoundsSaved ==
  ASSUME NEW p \in Nat, NEW t \in Ids, NEW k \in 1 .. GroupSize,
         k < Rounds(p, t)
  PROVE  Rounds(Candidate(p, k), t) = Rounds(p, t) - k
<1> DEFINE n == Rounds(p, t)
           q == Candidate(p, k)
<1>1. n \in 1 .. GroupSize /\ Candidate(p, n) = t BY RoundsIs
<1>2. q \in Ids /\ q \in Nat BY CandidateIs DEF GroupSize, Ids
<1>3. k < n OBVIOUS
<1>4. Candidate(q, n - k) = Candidate(p, n)
  <2> HIDE DEF n
  <2>1. n \in 1 .. 16 /\ k \in 1 .. 16 BY <1>1 DEF GroupSize
  <2>2. (((p + 7 * k) % 16) + 7 * (n - k)) % 16 = (p + 7 * n) % 16 BY <2>1
  <2> QED BY <2>2 DEF Candidate, GroupSize, Stride
<1>5. n - k \in 1 .. GroupSize
  <2> HIDE DEF n
  <2> QED BY <1>1, <1>3 DEF GroupSize
<1> HIDE DEF q, n
<1>6. Rounds(q, t) = n - k BY <1>1, <1>2, <1>4, <1>5, RoundsIs
<1> QED BY <1>6 DEF q, n

-----------------------------------------------------------------------------
(* The running minimum of the loop.                                        *)

(* what holds before a loop and is kept by every round holds after each    *)
LEMMA LoopInduction ==
  ASSUME NEW n \in Nat, NEW Y, NEW h, h[0] \in Y[0],
         \A k \in 1 .. n : h[k - 1] \in Y[k - 1] => h[k] \in Y[k]
  PROVE  \A k \in 0 .. n : h[k] \in Y[k]
<1> DEFINE bad == {k \in 0 .. n : h[k] \notin Y[k]}
<1> SUFFICES ASSUME bad # {} PROVE FALSE OBVIOUS
<1>1. bad \in SUBSET Nat OBVIOUS
<1> HIDE DEF bad
<1>2. PICK m \in bad : \A j \in bad : ~(<<j, m>> \in OpToRel(<, Nat))
  BY <1>1, NatLessThanWellFounded, WFMin
<1>3. \A j \in bad : ~(j < m) BY <1>1, <1>2 DEF OpToRel
<1>4. m \in 0 .. n /\ h[m] \notin Y[m] BY DEF bad
<1>5. m # 0 BY <1>4
<1>6. m \in 1 .. n /\ m - 1 \in 0 .. n /\ m - 1 < m BY <1>4, <1>5
<1>7. h[m - 1] \notin Y[m - 1] BY <1>4, <1>6
<1>8. m - 1 \in bad BY <1>6, <1>7 DEF bad
<1> QED BY <1>3, <1>6, <1>8

(* the minimum after one more round; m is min_time after each of n rounds  *)
OneRound(w, k, x) ==
    IF Candidate(next_id, k) \in tasks THEN Earlier(x, w[Candidate(next_id, k)])
    ELSE x

IsMinTime(m, w, n) ==
    m = [k \in 0 .. n |-> IF k = 0 THEN Never ELSE OneRound(w, k, m[k - 1])]

(* the recursion of MinTime defines a function                             *)
LEMMA MinTimeExists ==
  ASSUME NEW w, NEW n \in Nat
  PROVE  \E m : IsMinTime(m, w, n)
<1> DEFINE bad == {c \in Nat : ~\E m : IsMinTime(m, w, c)}
<1> SUFFICES ASSUME bad # {} PROVE FALSE OBVIOUS
<1>1. bad \in SUBSET Nat OBVIOUS
<1> HIDE DEF bad
<1>2. PICK c \in bad : \A j \in bad : ~(<<j, c>> \in OpToRel(<, Nat))
  BY <1>1, NatLessThanWellFounded, WFMin
<1>3. \A j \in bad : ~(j < c) BY <1>1, <1>2 DEF OpToRel
<1>4. c \in Nat /\ ~\E m : IsMinTime(m, w, c) BY DEF bad
<1>5. c # 0
  <2> SUFFICES ASSUME c = 0 PROVE FALSE OBVIOUS
  <2> DEFINE g == [k \in 0 .. 0 |-> Never]
  <2>1. g = [k \in 0 .. 0 |-> IF k = 0 THEN Never ELSE OneRound(w, k, g[k - 1])]
    OBVIOUS
  <2> QED BY <1>4, <2>1 DEF IsMinTime
<1>6. c - 1 \in Nat /\ c - 1 < c BY <1>4, <1>5
<1>7. PICK g : IsMinTime(g, w, c - 1) BY <1>3, <1>6 DEF bad
<1> DEFINE h == [k \in 0 .. c |-> IF k = c THEN OneRound(w, c, g[c - 1]) ELSE g[k]]
<1>8. ASSUME NEW k \in 0 .. c
      PROVE  h[k] = IF k = 0 THEN Never ELSE OneRound(w, k, h[k - 1])
  <2>1. CASE k = 0
    <3>1. h[0] = g[0] /\ 0 \in 0 .. c - 1 BY <1>4, <1>5
    <3>2. g[0] = Never BY <1>7, <3>1 DEF IsMinTime
    <3> QED BY <2>1, <3>1, <3>2
  <2>2. CASE k # 0 /\ k # c
    <3>1. k \in 0 .. c - 1 /\ k - 1 \in 0 .. c /\ k - 1 # c BY <1>4, <2>2
    <3>2. h[k] = g[k] /\ h[k - 1] = g[k - 1] BY <2>2, <3>1
    <3>3. g[k] = OneRound(w, k, g[k - 1]) BY <1>7, <2>2, <3>1 DEF IsMinTime
    <3> QED BY <2>2, <3>2, <3>3
  <2>3. CASE k = c
    <3>1. c - 1 \in 0 .. c /\ c - 1 # c BY <1>4, <1>5
    <3>2. h[c - 1] = g[c - 1] BY <3>1
    <3>3. h[c] = OneRound(w, c, g[c - 1]) BY <1>4
    <3> QED BY <1>5, <2>3, <3>2, <3>3
  <2> QED BY <2>1, <2>2, <2>3
<1>9. h = [k \in 0 .. c |-> h[k]] OBVIOUS
<1> HIDE DEF h
<1>10. IsMinTime(h, w, c) BY <1>8, <1>9 DEF IsMinTime
<1> QED BY <1>4, <1>10

(* the times no later than those of the tasks in the first k rounds        *)
Bounds(w, k) ==
    {x \in Times : \A j \in 1 .. k : Candidate(next_id, j) \in tasks =>
                      NotAfter(x, w[Candidate(next_id, j)])}

(* one more round lowers the minimum to what it finds                      *)
LEMMA OneRoundBounds ==
  ASSUME NEW w \in [Ids -> Times], tasks \subseteq Ids,
         NEW k \in Nat \ {0}, NEW x \in Bounds(w, k - 1)
  PROVE  OneRound(w, k, x) \in Bounds(w, k)
<1> DEFINE t == Candidate(next_id, k)
           y == OneRound(w, k, x)
<1>1. \A j \in 1 .. k : j = k \/ j \in 1 .. k - 1 OBVIOUS
<1>2. x \in Times BY DEF Bounds
<1>3. CASE t \notin tasks
  <2>1. y = x BY <1>3 DEF OneRound
  <2> QED BY <1>1, <1>2, <1>3, <2>1 DEF Bounds
<1>4. CASE t \in tasks
  <2>1. w[t] \in Times BY <1>4
  <2>2. y = Earlier(x, w[t]) BY <1>4 DEF OneRound
  <2>3. y \in Times /\ NotAfter(y, x) /\ NotAfter(y, w[t])
    <3> HIDE DEF t, y
    <3> QED BY <1>2, <2>1, <2>2, NeverAssumption
            DEF Earlier, NotAfter, Before, Times
  <2>4. ASSUME NEW j \in 1 .. k, Candidate(next_id, j) \in tasks
        PROVE  NotAfter(y, w[Candidate(next_id, j)])
    <3>1. CASE j = k BY <2>3, <3>1
    <3>2. CASE j \in 1 .. k - 1
      <4> DEFINE z == w[Candidate(next_id, j)]
      <4>1. NotAfter(x, z) BY <2>4, <3>2 DEF Bounds
      <4>2. z \in Times BY <2>4
      <4> HIDE DEF y, z
      <4>3. NotAfter(y, z)
        BY <1>2, <2>3, <4>1, <4>2, NeverAssumption DEF NotAfter, Before, Times
      <4> QED BY <4>3 DEF z
    <3> QED BY <1>1, <3>1, <3>2
  <2> HIDE DEF y
  <2>5. y \in Bounds(w, k) BY <2>3, <2>4 DEF Bounds
  <2> QED BY <2>5 DEF y
<1> QED BY <1>3, <1>4

(* min_time bounds the wait times of all tasks the loop has looked at      *)
LEMMA MinTimeBounds ==
  ASSUME NEW w \in [Ids -> Times], tasks \subseteq Ids, NEW n \in Nat
  PROVE  MinTime(w, n) \in Bounds(w, n)
<1> DEFINE m == CHOOSE g : IsMinTime(g, w, n)
           Y == [k \in 0 .. n |-> Bounds(w, k)]
<1>1. IsMinTime(m, w, n) BY MinTimeExists
<1>2. MinTime(w, n) = m[n] BY DEF MinTime, IsMinTime, OneRound
<1> HIDE DEF m
<1>3. \A k \in 1 .. n : k \in 0 .. n /\ k - 1 \in 0 .. n /\ k # 0
      /\ k \in Nat \ {0}
  OBVIOUS
<1>4. m[0] = Never /\ \A k \in 1 .. n : m[k] = OneRound(w, k, m[k - 1])
  BY <1>1, <1>3 DEF IsMinTime
<1>5. m[0] \in Y[0]
  <2>1. Y[0] = Bounds(w, 0) OBVIOUS
  <2> QED BY <1>4, <2>1 DEF Bounds, Times
<1>6. ASSUME NEW k \in 1 .. n, m[k - 1] \in Y[k - 1] PROVE m[k] \in Y[k]
  <2>1. m[k - 1] \in Bounds(w, k - 1) BY <1>3, <1>6
  <2>2. m[k] \in Bounds(w, k) BY <1>3, <1>4, <2>1, OneRoundBounds
  <2> QED BY <1>3, <2>2
<1>7. n \in 0 .. n /\ Y[n] = Bounds(w, n) OBVIOUS
<1> HIDE DEF Y
<1>8. \A k \in 0 .. n : m[k] \in Y[k] BY <1>5, <1>6, LoopInduction
<1> QED BY <1>2, <1>7, <1>8

(* after all sixteen rounds, that is every task                            *)
LEMMA MinTimeIsEarliest ==
  ASSUME NEW w \in [Ids -> Times], tasks \subseteq Ids, next_id \in Nat
  PROVE  /\ MinTime(w, GroupSize) \in Times
         /\ \A t \in tasks : NotAfter(MinTime(w, GroupSize), w[t])
<1>1. GroupSize \in Nat BY DEF GroupSize
<1>2. MinTime(w, GroupSize) \in Bounds(w, GroupSize) BY <1>1, MinTimeBounds
<1>3. \A t \in tasks : \E k \in 1 .. GroupSize : Candidate(next_id, k) = t
  BY StrideReaches
<1> QED BY <1>2, <1>3 DEF Bounds

-----------------------------------------------------------------------------
(***************************************************************************)
(* Executor::next keeps the invariant, and runs a runnable task or brings  *)
(* it closer: its round is one of the hits, as no task is claimed, so the  *)
(* first hit comes no later.  This holds from any NEXT_ID: only a loop     *)
(* that finds nothing to execute depends on it being an id.                *)
(***************************************************************************)
LEMMA ScheduleStep ==
  ASSUME IndInv, cur # Halted, NEW w \in [Ids -> Times], Schedule(w),
         tasks' = tasks, reserved' = reserved
  PROVE  /\ IndInv'
         /\ wait_time' = w
         /\ \A t \in tasks : Runnable(w, t) =>
               cur' = t \/ Rounds(next_id', t) < Rounds(next_id, t)
<1> DEFINE claims == [executor_id EXCEPT ![cur] = Unclaimed]
           hits == Hits(w, claims)
<1>0. /\ tasks \subseteq Ids /\ next_id \in Addresses /\ next_id \in Nat
      /\ reserved \subseteq Addresses /\ cur \in Ids \cup {Idle}
      /\ timer \in Times
      /\ executor_id \in [Ids \cup {Idle} -> 0 .. Unclaimed]
      /\ \A t \in Ids : executor_id[t] = Unclaimed
  BY AddressesAreNumbers DEF IndInv, TypeOK
<1>0a. Unclaimed \in 0 .. Unclaimed BY DEF Unclaimed
<1>0b. ReservationsLead' BY DEF IndInv, ReservationsLead
<1>0c. Idle \notin Ids /\ Halted \notin Ids /\ Halted # Idle
  BY DEF Ids, Idle, Halted, GroupSize
<1>1. /\ claims \in [Ids \cup {Idle} -> 0 .. Unclaimed]
      /\ \A t \in Ids : claims[t] = Unclaimed
      /\ claims[cur] = Unclaimed
  BY <1>0, <1>0a
<1>2. wait_time' = w BY DEF Schedule
<1>3. \A k : k \in hits <=>
         /\ k \in 1 .. GroupSize
         /\ Candidate(next_id, k) \in tasks
         /\ Runnable(w, Candidate(next_id, k))
  BY <1>0, <1>1 DEF Hits
<1>4. \/ \E k \in hits : /\ \A j \in hits : k <= j
                         /\ next_id' = Candidate(next_id, k)
                         /\ cur' = next_id'
                         /\ timer' = Slice
                         /\ executor_id' = [claims EXCEPT ![next_id'] = claims[cur]]
      \/ \E k \in LastRounds : /\ hits = {} /\ cur' = Idle
                               /\ timer' = MinTime(w, k)
                               /\ executor_id' = claims
                               /\ next_id' = next_id
      \/ /\ hits = {} /\ cur' = Halted
         /\ timer' = timer
         /\ executor_id' = claims
         /\ next_id' = next_id
  BY DEF Schedule
<1> HIDE DEF claims, hits
<1>5. CASE \E k \in hits : /\ \A j \in hits : k <= j
                          /\ next_id' = Candidate(next_id, k)
                          /\ cur' = next_id'
                          /\ timer' = Slice
                          /\ executor_id' = [claims EXCEPT ![next_id'] = claims[cur]]
  <2>1. PICK k \in hits : /\ \A j \in hits : k <= j
                          /\ next_id' = Candidate(next_id, k)
                          /\ cur' = next_id'
                          /\ timer' = Slice
                          /\ executor_id' = [claims EXCEPT ![next_id'] = claims[cur]]
    BY <1>5
  <2>2. k \in 1 .. GroupSize /\ next_id' \in tasks /\ next_id' \in Ids
    BY <1>0, <1>3, <2>1
  <2>3. cur' # Idle /\ next_id' \in Addresses /\ TaskOf(next_id') = cur'
    BY <1>0c, <2>1, <2>2, AddressesAreNumbers
  <2>4. TypeOK'
    <3>1. timer' \in Times BY <2>1, SliceAssumption DEF Times
    <3>2. executor_id' \in [Ids \cup {Idle} -> 0 .. Unclaimed]
      BY <1>0a, <1>1, <2>1, <2>2
    <3> QED BY <1>0, <1>2, <2>1, <2>2, <2>3, <3>1, <3>2 DEF TypeOK
  <2>5. \A t \in Ids : executor_id'[t] = Unclaimed BY <1>1, <2>1, <2>2
  <2>6. IndInv'
    BY <1>0b, <2>1, <2>2, <2>3, <2>4, <2>5 DEF IndInv, CurrentAddress, NoOversleep
  <2>7. ASSUME NEW t \in tasks, Runnable(w, t), cur' # t
        PROVE  Rounds(next_id', t) < Rounds(next_id, t)
    <3>1. t \in Ids BY <1>0
    <3> DEFINE n == Rounds(next_id, t)
    <3>2. n \in 1 .. GroupSize /\ Candidate(next_id, n) = t
      BY <1>0, <3>1, RoundsIs
    <3>3. n \in hits BY <1>3, <2>7, <3>2
    <3>4. k <= n /\ k # n BY <2>1, <2>7, <3>2, <3>3
    <3>5. k < n
      <4> HIDE DEF n
      <4> QED BY <2>2, <3>2, <3>4 DEF GroupSize
    <3>6. Rounds(Candidate(next_id, k), t) = n - k
      BY <1>0, <2>2, <3>1, <3>5, RoundsSaved
    <3>7. n - k < n
      <4> HIDE DEF n
      <4> QED BY <2>2, <3>2 DEF GroupSize
    <3> QED BY <2>1, <3>6, <3>7
  <2> QED BY <1>2, <2>6, <2>7
<1>6. ASSUME hits = {}, NEW t \in tasks PROVE ~Runnable(w, t)
  <2>1. /\ Rounds(next_id, t) \in 1 .. GroupSize
        /\ Candidate(next_id, Rounds(next_id, t)) = t
    BY <1>0, RoundsIs
  <2> QED BY <1>3, <1>6, <2>1
<1>7. CASE \E k \in LastRounds : /\ hits = {} /\ cur' = Idle
                                 /\ timer' = MinTime(w, k)
                                 /\ executor_id' = claims
                                 /\ next_id' = next_id
  <2>1. /\ hits = {} /\ cur' = Idle
        /\ timer' = MinTime(w, GroupSize)
        /\ executor_id' = claims
        /\ next_id' = next_id
    BY <1>0, <1>7, LastRound
  <2>2. timer' \in Times /\ \A t \in tasks : NotAfter(timer', w[t])
    BY <1>0, <2>1, MinTimeIsEarliest
  <2>3. TypeOK' BY <1>0, <1>1, <1>2, <2>1, <2>2 DEF TypeOK
  <2>4. IndInv'
    BY <1>0b, <1>0c, <1>1, <1>2, <2>1, <2>2, <2>3
       DEF IndInv, CurrentAddress, NoOversleep
  <2> QED BY <1>2, <1>6, <2>1, <2>4
<1>8. CASE /\ hits = {} /\ cur' = Halted
           /\ timer' = timer
           /\ executor_id' = claims
           /\ next_id' = next_id
  <2>1. TypeOK' BY <1>0, <1>1, <1>2, <1>8 DEF TypeOK
  <2>2. IndInv'
    BY <1>0b, <1>0c, <1>1, <1>8, <2>1 DEF IndInv, CurrentAddress, NoOversleep
  <2> QED BY <1>2, <1>6, <1>8, <2>2
<1> QED BY <1>4, <1>5, <1>7, <1>8

(* the wait times io_wait calls the scheduler with                         *)
LEMMA IoWaitTimes ==
  ASSUME IndInv, NEW delay \in Delays, NEW woken \in SUBSET tasks
  PROVE  [t \in Ids |-> CASE t \in woken -> Past
                          [] t = cur /\ t \notin woken -> delay
                          [] OTHER -> wait_time[t]] \in [Ids -> Times]
<1>1. delay \in Times /\ Past \in Times
  BY DelaysAssumption DEF Times, Past
<1>2. wait_time \in [Ids -> Times] BY DEF IndInv, TypeOK
<1> QED BY <1>1, <1>2

(* what every call of the scheduler does                                   *)
LEMMA SchedulingStepIs ==
  ASSUME IndInv, SchedulingStep
  PROVE  /\ IndInv'
         /\ \A t \in tasks : Runnable(wait_time', t) =>
               cur' = t \/ Rounds(next_id', t) < Rounds(next_id, t)
<1>1. CASE TimerInterrupt
  <2>1. wait_time \in [Ids -> Times] BY DEF IndInv, TypeOK
  <2> QED BY <1>1, <2>1, ScheduleStep DEF TimerInterrupt
<1>2. ASSUME NEW delay \in Delays, NEW woken \in SUBSET tasks,
             IoWait(delay, woken)
      PROVE  /\ IndInv'
             /\ \A t \in tasks : Runnable(wait_time', t) =>
                   cur' = t \/ Rounds(next_id', t) < Rounds(next_id, t)
  <2> DEFINE w == [t \in Ids |-> CASE t \in woken -> Past
                                  [] t = cur /\ t \notin woken -> delay
                                  [] OTHER -> wait_time[t]]
  <2>1. w \in [Ids -> Times] BY IoWaitTimes
  <2>2. Schedule(w) /\ tasks' = tasks /\ reserved' = reserved BY <1>2 DEF IoWait
  <2>3. cur # Halted BY <1>2 DEF IoWait, Ids, Halted, GroupSize
  <2> HIDE DEF w
  <2> QED BY <2>1, <2>2, <2>3, ScheduleStep
<1> QED BY <1>1, <1>2 DEF SchedulingStep

(* a reservation is made with the address of the driver that makes it      *)
LEMMA ReserveStep ==
  ASSUME IndInv, Reserve
  PROVE  IndInv'
<1>1. /\ cur \in Drivers /\ reserved' = reserved \cup {next_id}
      /\ UNCHANGED <<tasks, wait_time, executor_id, next_id, cur, timer>>
  BY DEF Reserve
<1>2. cur \in tasks /\ TaskOf(next_id) = cur
  BY <1>1, DriversAssumption DEF IndInv, CurrentAddress
<1>3. TypeOK' BY <1>1 DEF IndInv, TypeOK
<1>4. ReservationsLead' BY <1>1, <1>2 DEF IndInv, ReservationsLead
<1> QED BY <1>1, <1>3, <1>4 DEF IndInv, CurrentAddress, NoOversleep

(* an interrupt or a defer: NEXT_ID and the task on the hart move together *)
LEMMA GetTaskStep ==
  ASSUME IndInv, NEW a \in Addresses, GetTask(a)
  PROVE  IndInv'
<1>1. next_id' = a /\ UNCHANGED <<tasks, executor_id, reserved, timer>>
  BY DEF GetTask
<1>2. ReservationsLead' BY <1>1 DEF IndInv, ReservationsLead
<1>3. Idle \notin Ids /\ Halted \notin Ids /\ Halted # Idle
  BY DEF Ids, Idle, Halted, GroupSize
<1>4. CASE /\ TaskOf(a) \in tasks /\ cur' = TaskOf(a)
           /\ wait_time' = [wait_time EXCEPT ![TaskOf(a)] = Past]
  <2>1. TaskOf(a) \in Ids BY <1>4 DEF IndInv, TypeOK
  <2>2. TypeOK' BY <1>1, <1>4, <2>1 DEF IndInv, TypeOK, Times, Past
  <2> QED BY <1>1, <1>2, <1>3, <1>4, <2>1, <2>2
          DEF IndInv, CurrentAddress, NoOversleep
<1>5. CASE TaskOf(a) \notin tasks /\ cur' = Halted /\ wait_time' = wait_time
  <2>1. TypeOK' BY <1>1, <1>5 DEF IndInv, TypeOK
  <2> QED BY <1>1, <1>2, <1>3, <1>5, <2>1 DEF IndInv, CurrentAddress, NoOversleep
<1> QED BY <1>4, <1>5 DEF GetTask

(* a new task, spawned by a task on the hart                               *)
LEMMA SpawnStep ==
  ASSUME IndInv, Spawn
  PROVE  IndInv'
<1>1. PICK t \in Ids \ tasks :
         /\ tasks' = tasks \cup {t}
         /\ wait_time' = [wait_time EXCEPT ![t] = Past]
  BY DEF Spawn
<1>2. cur # Idle /\ UNCHANGED <<executor_id, next_id, reserved, cur, timer>>
  BY DEF Spawn, Ids, Idle, GroupSize
<1>3. TypeOK' BY <1>1, <1>2 DEF IndInv, TypeOK, Times, Past
<1>4. ReservationsLead' BY <1>1, <1>2 DEF IndInv, ReservationsLead
<1> QED BY <1>1, <1>2, <1>3, <1>4 DEF IndInv, CurrentAddress, NoOversleep

(* the clock moves the timer and the wait times together                   *)
LEMMA TickStep ==
  ASSUME IndInv, Tick
  PROVE  IndInv'
<1>1. /\ wait_time' = [t \in Ids |-> Advance(wait_time[t])]
      /\ timer' = Advance(timer)
      /\ UNCHANGED <<tasks, executor_id, next_id, reserved, cur>>
  BY DEF Tick
<1>2. /\ wait_time \in [Ids -> Times] /\ timer \in Times /\ tasks \subseteq Ids
  BY DEF IndInv, TypeOK
<1>3. \A a \in Times : NotAfter(a, a) BY DEF NotAfter
<1>4. \A a \in Times : Advance(a) \in Times BY <1>3, ClockOrder
<1>5. TypeOK' BY <1>1, <1>2, <1>4 DEF IndInv, TypeOK
<1>6. NoOversleep'
  <2> SUFFICES ASSUME cur = Idle, NEW t \in tasks
               PROVE  NotAfter(timer', wait_time'[t])
    BY <1>1 DEF NoOversleep
  <2>1. NotAfter(timer, wait_time[t]) BY DEF IndInv, NoOversleep
  <2> QED BY <1>1, <1>2, <2>1, ClockOrder
<1>7. ReservationsLead' BY <1>1 DEF IndInv, ReservationsLead
<1> QED BY <1>1, <1>5, <1>6, <1>7 DEF IndInv, CurrentAddress

(* The hart boots idle, with one task that is ready.                       *)
LEMMA InitIndInv == Init => IndInv
<1> SUFFICES ASSUME Init PROVE IndInv
  OBVIOUS
<1>1. TypeOK
  <2>0. Unclaimed \in Nat BY DEF Unclaimed
  <2>1. HartId \in 0 .. Unclaimed /\ Unclaimed \in 0 .. Unclaimed
    BY <2>0, HartIdAssumption
  <2>2. executor_id \in [Ids \cup {Idle} -> 0 .. Unclaimed] BY <2>1 DEF Init
  <2>3. 0 \in Ids /\ Past \in Times BY DEF Ids, GroupSize, Times, Past
  <2> QED BY <2>2, <2>3 DEF Init, TypeOK, Addresses
<1>2. \A t \in Ids : executor_id[t] = Unclaimed
  BY DEF Init, Ids, Idle, GroupSize
<1>3. NoOversleep BY DEF Init, NoOversleep, NotAfter, Ids, GroupSize
<1>4. CurrentAddress /\ ReservationsLead
  BY DEF Init, CurrentAddress, ReservationsLead, Ids, Idle, GroupSize
<1> QED BY <1>1, <1>2, <1>3, <1>4 DEF IndInv

(* Every step keeps the inductive invariant.                               *)
LEMMA NextIndInv == IndInv /\ [Next]_vars => IndInv'
<1> SUFFICES ASSUME IndInv, [Next]_vars PROVE IndInv'
  OBVIOUS
<1>1. CASE UNCHANGED vars
  BY <1>1 DEF IndInv, TypeOK, CurrentAddress, ReservationsLead, NoOversleep, vars
<1>2. CASE SchedulingStep BY <1>2, SchedulingStepIs
<1>3. ASSUME NEW a \in Addresses, ExternalInterrupt(a) \/ Defer(a) PROVE IndInv'
  BY <1>3, GetTaskStep DEF ExternalInterrupt, Defer
<1> QED BY <1>1, <1>2, <1>3, ReserveStep, SpawnStep, TickStep
        DEF Next, SchedulingStep

(***************************************************************************)
(* Executor::next, the interrupts that bypass it, io_wait, task_spawn and  *)
(* the clock keep the inductive invariant.                                 *)
(***************************************************************************)
THEOREM Invariance == Spec => []IndInv
BY InitIndInv, NextIndInv, PTL DEF Spec

(***************************************************************************)
(* NEXT_ID leads to the task on the hart, whoever put it there, for any    *)
(* addresses that are deferred to, also above the mask of Address::task.   *)
(***************************************************************************)
THEOREM Address == Spec => []CurrentAddress
<1>1. IndInv => CurrentAddress BY DEF IndInv
<1> QED BY <1>1, Invariance, PTL

(***************************************************************************)
(* Every reservation leads to a driver, from reserve_interrupt on.         *)
(***************************************************************************)
THEOREM Reservations == Spec => []ReservationsLead
<1>1. IndInv => ReservationsLead BY DEF IndInv
<1> QED BY <1>1, Invariance, PTL

(***************************************************************************)
(* An idle hart has a timer that is due before any task's wait is over:    *)
(* the rounds of the loop that idles visit every slot, so the minimum they *)
(* have taken is over all tasks.                                           *)
(***************************************************************************)
THEOREM Punctual == Spec => []NoOversleep
<1>1. IndInv => NoOversleep BY DEF IndInv
<1> QED BY <1>1, Invariance, PTL

(***************************************************************************)
(* Every call of Executor::next runs a task that is ready or brings it     *)
(* closer in the order of the loop.                                        *)
(***************************************************************************)
THEOREM RoundRobin == Spec => TurnComesCloser
<1> DEFINE Closer ==
      SchedulingStep =>
        \A t \in tasks : (Ready(t) /\ Runnable(wait_time', t))
          => (cur' = t \/ Rounds(next_id', t) < Rounds(next_id, t))
<1>1. IndInv /\ [Next]_vars => [Closer]_vars
  BY SchedulingStepIs
<1> QED BY <1>1, Invariance, PTL DEF Spec, TurnComesCloser

=============================================================================
