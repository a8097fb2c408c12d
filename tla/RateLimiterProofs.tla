------------------------- MODULE RateLimiterProofs -------------------------
(***************************************************************************)
(* The agents keep to their rate for any number of threads, any rps and    *)
(* window, and whatever the clock is set to.                               *)
(***************************************************************************)
EXTENDS RateLimiter, FiniteSetTheorems, TLAPS

\* i was granted in an earlier epoch than r, or more than a window before it.
Out(i, r) == granted[i].epoch < r.epoch \/ r.real - granted[i].real > Window

\* Readings come in the order of time, and the clock was only set back since
\* one of the same epoch.
Before(q, r) ==
    /\ q.real <= r.real
    /\ q.epoch <= r.epoch
    /\ q.epoch = r.epoch => r.stamp - r.real <= q.stamp - q.real

Ordered ==
    /\ \A i, j \in 1..Len(granted) : i <= j => Before(granted[i], granted[j])
    /\ \A i \in 1..Len(granted) : Before(granted[i], Clock)
    /\ \A t \in Thread : pc[t] = "in" =>
        /\ Before(reading[t], Clock)
        /\ \A i \in 1..Len(granted) : Before(granted[i], reading[t])

\* What is not in the list is out of the window, and so is what the thread in
\* the critical section dropped, at the time of its reading.
ListComplete ==
    /\ \A i \in 1..Len(granted) : i \notin ts => Out(i, Clock)
    /\ \A t \in Thread : pc[t] = "in" =>
        \A i \in 1..Len(granted) : i \notin tmp[t] => Out(i, reading[t])

RateInv == TypeOK /\ Ordered /\ ListComplete /\ SteadyRate

LEMMA ClockType == TypeOK => Clock \in Reading
  BY DEF TypeOK, Clock, Reading

\* The fields of a granted reading are integers.
LEMMA GrantedType ==
    ASSUME TypeOK, NEW i \in 1..Len(granted)
    PROVE  /\ granted[i] \in Reading
           /\ granted[i].real \in Int /\ granted[i].stamp \in Int
           /\ granted[i].epoch \in Nat
  <1>1. granted[i] \in Reading
    BY DEF TypeOK
  <1> QED
    BY <1>1 DEF Reading

LEMMA RateInit == Init => RateInv
  <1> SUFFICES ASSUME Init PROVE RateInv
    OBVIOUS
  <1>1. granted = <<>> /\ Len(granted) = 0
    BY DEF Init
  <1>2. TypeOK
    BY <1>1, ThreadAssumption DEF Init, TypeOK, Reading, NoReading
  <1>3. Ordered
    BY <1>1 DEF Init, Ordered
  <1>4. ListComplete
    BY <1>1 DEF Init, ListComplete
  <1>5. SteadyRate
    BY <1>1 DEF SteadyRate
  <1> QED
    BY <1>2, <1>3, <1>4, <1>5 DEF RateInv

\* A thread reads the clock: a stamp that is dropped is out of the window.
LEMMA EnterStep ==
    ASSUME RateInv, NEW t \in Thread, Enter(t)
    PROVE  RateInv'
  <1>1. /\ pc[t] = "out" /\ lock = None /\ lock' = t
        /\ pc' = [pc EXCEPT ![t] = "in"]
        /\ reading' = [reading EXCEPT ![t] = Clock]
        /\ tmp' = [tmp EXCEPT ![t] = Recent(Clock.stamp)]
        /\ ts' = ts /\ granted' = granted /\ now' = now
        /\ offset' = offset /\ epoch' = epoch /\ jumps' = jumps
    BY DEF Enter
  <1>2. Clock' = Clock /\ Clock \in Reading
    BY <1>1, ClockType DEF Clock, RateInv
  <1>3. TypeOK'
    BY <1>1, <1>2, ThreadAssumption DEF RateInv, TypeOK, Recent
  <1>4. \A u \in Thread : u # t => pc[u] # "in"
    BY <1>1, ThreadAssumption DEF RateInv, TypeOK
  <1>5. reading'[t] = Clock /\ tmp'[t] = Recent(Clock.stamp)
    BY <1>1 DEF RateInv, TypeOK
  <1>6. \A u \in Thread : pc'[u] = "in" => u = t
    BY <1>1, <1>4 DEF RateInv, TypeOK
  <1>7. Ordered'
    <2>1. Before(Clock, Clock)
      BY <1>2 DEF Before, Reading
    <2> QED
      BY <1>1, <1>2, <1>5, <1>6, <2>1 DEF RateInv, Ordered, Before
  <1>8. ListComplete'
    <2>1. ASSUME NEW i \in 1..Len(granted), i \notin Recent(Clock.stamp)
          PROVE  Out(i, Clock)
      <3>1. CASE i \notin ts
        BY <3>1 DEF RateInv, ListComplete
      <3>2. CASE i \in ts
        <4>1. /\ granted[i].real \in Int /\ granted[i].stamp \in Int
              /\ granted[i].epoch \in Nat
              /\ Clock.real \in Int /\ Clock.stamp \in Int /\ Clock.epoch \in Nat
          BY <1>2, GrantedType DEF RateInv, Reading
        <4>2. Clock.stamp - granted[i].stamp > Window
          BY <2>1, <3>2, <4>1, WindowAssumption DEF Recent
        <4>3. Before(granted[i], Clock)
          BY DEF RateInv, Ordered
        <4> QED
          BY <4>1, <4>2, <4>3, WindowAssumption DEF Before, Out
      <3> QED
        BY <3>1, <3>2
    <2> QED
      BY <1>1, <1>2, <1>5, <1>6, <2>1 DEF RateInv, ListComplete, Out
  <1>9. SteadyRate'
    BY <1>1 DEF RateInv, SteadyRate
  <1> QED
    BY <1>3, <1>7, <1>8, <1>9 DEF RateInv

\* Time passes, or the clock is set: readings stay before the clock, and what
\* was out of the window stays out.
LEMMA ClockStep ==
    ASSUME RateInv, Tick \/ SetClock
    PROVE  RateInv'
  <1>1. /\ lock' = lock /\ pc' = pc /\ reading' = reading /\ tmp' = tmp
        /\ ts' = ts /\ granted' = granted
    BY DEF Tick, SetClock
  <1>2. /\ now' \in Nat /\ offset' \in Int /\ epoch' \in Nat /\ jumps' \in Nat
        /\ now' >= now /\ epoch' >= epoch
        /\ epoch' = epoch => offset' <= offset
    <2>1. CASE Tick
      BY <2>1 DEF Tick, RateInv, TypeOK
    <2>2. CASE SetClock
      BY <2>2, JumpAssumption DEF SetClock, RateInv, TypeOK
    <2> QED
      BY <2>1, <2>2
  <1>3. TypeOK'
    BY <1>1, <1>2 DEF RateInv, TypeOK
  <1>4. ASSUME NEW r \in Reading, Before(r, Clock)
        PROVE  Before(r, Clock')
    BY SMTT(60), <1>2, <1>4 DEF Before, Clock, Reading, RateInv, TypeOK
  <1>5. ASSUME NEW i \in 1..Len(granted), Out(i, Clock)
        PROVE  Out(i, Clock')
    <2>1. /\ granted[i].real \in Int /\ granted[i].epoch \in Nat
      BY GrantedType DEF RateInv
    <2> QED
      BY <2>1, <1>2, <1>5, WindowAssumption DEF Out, Clock, RateInv, TypeOK
  <1>6. Ordered'
    <2>1. \A i \in 1..Len(granted) : Before(granted[i], Clock')
      BY <1>4, GrantedType DEF RateInv, Ordered
    <2>2. \A t \in Thread : pc[t] = "in" => Before(reading[t], Clock')
      BY <1>4 DEF RateInv, Ordered, TypeOK
    <2> QED
      BY <1>1, <2>1, <2>2 DEF RateInv, Ordered, Before
  <1>7. ListComplete'
    BY <1>1, <1>5 DEF RateInv, ListComplete, Out
  <1>8. SteadyRate'
    BY <1>1 DEF RateInv, SteadyRate
  <1> QED
    BY <1>3, <1>6, <1>7, <1>8 DEF RateInv

\* If the call rps before were within the window, so would be all after it, and
\* the list would be full.
LEMMA GrantKeepsRate ==
    ASSUME RateInv, NEW t \in Thread, pc[t] = "in", Cardinality(tmp[t]) < Rps,
           NEW i \in 1..Len(granted), i + Rps = Len(granted) + 1,
           granted[i].epoch = reading[t].epoch
    PROVE  reading[t].real - granted[i].real > Window
  <1> DEFINE n == Len(granted)
  <1>1. n \in Nat /\ tmp[t] \subseteq 1..n /\ reading[t] \in Reading
    BY DEF RateInv, TypeOK
  <1>2. SUFFICES ASSUME ~(reading[t].real - granted[i].real > Window)
                 PROVE  FALSE
    OBVIOUS
  <1>3. ASSUME NEW j \in i..n
        PROVE  j \in tmp[t]
    <2>1. j \in 1..n /\ i <= j
      BY <1>1, <1>3
    <2>2. Before(granted[i], granted[j]) /\ Before(granted[j], reading[t])
      BY <2>1 DEF RateInv, Ordered
    <2>3. /\ granted[i].real \in Int /\ granted[i].epoch \in Nat
          /\ granted[j].real \in Int /\ granted[j].epoch \in Nat
          /\ reading[t].real \in Int /\ reading[t].epoch \in Nat
      BY <1>1, <2>1, GrantedType DEF RateInv, Reading
    <2>4. ~Out(j, reading[t])
      BY SMTT(60), <1>2, <2>2, <2>3, WindowAssumption DEF Out, Before
    <2> QED
      BY <2>1, <2>4 DEF RateInv, ListComplete
  <1>4. IsFiniteSet(tmp[t])
    <2>1. \A k \in Int : IsFiniteSet(1..k)
      BY FS_Interval
    <2> QED
      BY <1>1, <2>1, FS_Subset
  <1>5. i..n \in SUBSET tmp[t]
    BY <1>3
  <1>6. Cardinality(i..n) <= Cardinality(tmp[t])
    BY <1>4, <1>5, FS_Subset
  <1>7. Cardinality(i..n) = Rps
    <2>1. Cardinality(i..n) = IF i > n THEN 0 ELSE n - i + 1
      BY <1>1, FS_Interval
    <2> QED
      BY <1>1, <2>1, RpsAssumption
  <1>8. Cardinality(tmp[t]) \in Nat
    BY <1>4, FS_CardinalityType
  <1> QED
    BY <1>6, <1>7, <1>8, RpsAssumption

\* What stays the same when a thread leaves, granted or refused.
LEMMA LeaveCommon ==
    ASSUME RateInv, NEW t \in Thread, Leave(t)
    PROVE  /\ pc[t] = "in" /\ lock' = None
           /\ pc' = [pc EXCEPT ![t] = "out"] /\ tmp' = [tmp EXCEPT ![t] = {}]
           /\ \A u \in Thread : pc'[u] = "out"
           /\ reading' = reading /\ now' = now /\ offset' = offset
           /\ epoch' = epoch /\ jumps' = jumps /\ Clock' = Clock
           /\ Before(reading[t], Clock) /\ reading[t] \in Reading
  <1>1. \A u \in Thread : u # t => pc[u] = "out"
    BY DEF Leave, RateInv, TypeOK
  <1> QED
    BY <1>1 DEF Leave, RateInv, TypeOK, Ordered, Clock

\* Out at the time of the reading is out now.
LEMMA StillOut ==
    ASSUME TypeOK, NEW i \in 1..Len(granted), NEW r \in Reading, Out(i, r),
           Before(r, Clock)
    PROVE  Out(i, Clock)
  <1>1. /\ granted[i].real \in Int /\ granted[i].epoch \in Nat
        /\ r.real \in Int /\ r.epoch \in Nat
        /\ Clock.real \in Int /\ Clock.epoch \in Nat
    BY GrantedType, ClockType DEF Reading
  <1> QED
    BY <1>1, WindowAssumption DEF Out, Before

LEMMA RefuseStep ==
    ASSUME RateInv, NEW t \in Thread, Leave(t), Refuse(t)
    PROVE  RateInv'
  <1>1. ts' = tmp[t] /\ granted' = granted
    BY DEF Refuse
  <1>2. TypeOK'
    BY <1>1, LeaveCommon, ThreadAssumption DEF RateInv, TypeOK
  <1>3. Ordered'
    BY <1>1, LeaveCommon DEF RateInv, Ordered
  <1>4. ListComplete'
    <2>1. ASSUME NEW i \in 1..Len(granted), i \notin tmp[t]
          PROVE  Out(i, Clock)
      <3>1. Out(i, reading[t])
        BY <2>1, LeaveCommon DEF RateInv, ListComplete
      <3> QED
        BY <3>1, LeaveCommon, StillOut DEF RateInv
    <2> QED
      BY <1>1, <2>1, LeaveCommon DEF ListComplete, Out
  <1>5. SteadyRate'
    BY <1>1 DEF RateInv, SteadyRate
  <1> QED
    BY <1>2, <1>3, <1>4, <1>5 DEF RateInv

LEMMA GrantStep ==
    ASSUME RateInv, NEW t \in Thread, Leave(t), Grant(t)
    PROVE  RateInv'
  <1> DEFINE n == Len(granted)
             r == reading[t]
  <1>1. /\ Cardinality(tmp[t]) < Rps /\ granted' = Append(granted, r)
        /\ ts' = tmp[t] \cup {n + 1}
    BY DEF Grant
  <1>2. n \in Nat /\ r \in Reading /\ granted \in Seq(Reading)
    BY LeaveCommon DEF RateInv, TypeOK
  <1>3. /\ granted' \in Seq(Reading) /\ Len(granted') = n + 1
        /\ granted'[n + 1] = r
        /\ \A i \in 1..n : granted'[i] = granted[i]
    BY <1>1, <1>2
  <1>4. tmp[t] \subseteq 1..n
    BY DEF RateInv, TypeOK
  <1>5. TypeOK'
    <2>1. ts' \subseteq 1..Len(granted')
      BY <1>1, <1>2, <1>3, <1>4
    <2>2. tmp' \in [Thread -> SUBSET (1..Len(granted'))]
      <3>1. \A u \in Thread : tmp[u] \in SUBSET (1..(n + 1))
        BY <1>2 DEF RateInv, TypeOK
      <3> QED
        BY <1>3, <3>1, LeaveCommon DEF RateInv, TypeOK
    <2> QED
      BY <1>3, <2>1, <2>2, LeaveCommon, ThreadAssumption DEF RateInv, TypeOK
  <1>6. Ordered'
    <2>1. \A i \in 1..n : Before(granted[i], r)
      BY LeaveCommon DEF RateInv, Ordered
    <2>2. Before(r, r)
      BY <1>2 DEF Before, Reading
    <2>3. ASSUME NEW i \in 1..(n + 1), NEW j \in 1..(n + 1), i <= j
          PROVE  Before(granted'[i], granted'[j])
      <3>1. CASE j \in 1..n
        <4>1. i \in 1..n
          BY <1>2, <2>3, <3>1
        <4> QED
          BY <1>3, <2>3, <3>1, <4>1 DEF RateInv, Ordered
      <3>2. CASE j = n + 1
        BY <1>2, <1>3, <2>1, <2>2, <3>2
      <3> QED
        BY <1>2, <3>1, <3>2
    <2>4. ASSUME NEW i \in 1..(n + 1)
          PROVE  Before(granted'[i], Clock)
      BY <1>2, <1>3, LeaveCommon DEF RateInv, Ordered
    <2> QED
      BY <1>3, <2>3, <2>4, LeaveCommon DEF Ordered
  <1>7. ListComplete'
    <2>1. ASSUME NEW i \in 1..n, i \notin tmp[t]
          PROVE  Out(i, Clock)
      <3>1. Out(i, r)
        BY <2>1, LeaveCommon DEF RateInv, ListComplete
      <3> QED
        BY <3>1, LeaveCommon, StillOut DEF RateInv
    <2>2. ASSUME NEW i \in 1..Len(granted'), i \notin ts'
          PROVE  Out(i, Clock)'
      <3>1. i \in 1..n /\ i \notin tmp[t] /\ granted'[i] = granted[i]
        BY <1>1, <1>2, <1>3, <2>2
      <3> QED
        BY <2>1, <3>1, LeaveCommon DEF Out
    <2> QED
      BY <2>2, LeaveCommon DEF ListComplete
  <1>8. SteadyRate'
    <2> SUFFICES ASSUME NEW i \in 1..(n + 1), i + Rps <= n + 1,
                        granted'[i].epoch = granted'[i + Rps].epoch
                 PROVE  granted'[i + Rps].real - granted'[i].real > Window
      BY <1>3 DEF SteadyRate
    <2>1. i \in 1..n
      BY <1>2, RpsAssumption
    <2>2. CASE i + Rps <= n
      <3>1. i + Rps \in 1..n
        BY <1>2, <2>2, RpsAssumption
      <3> QED
        BY <1>3, <2>1, <2>2, <3>1 DEF RateInv, SteadyRate
    <2>3. CASE i + Rps = n + 1
      <3>1. granted[i].epoch = r.epoch /\ granted'[i + Rps] = r
        BY <1>3, <2>1, <2>3
      <3>2. r.real - granted[i].real > Window
        BY <1>1, <2>1, <2>3, <3>1, LeaveCommon, GrantKeepsRate
      <3> QED
        BY <1>3, <2>1, <3>1, <3>2
    <2> QED
      BY <1>2, <2>2, <2>3, RpsAssumption
  <1> QED
    BY <1>5, <1>6, <1>7, <1>8 DEF RateInv

LEMMA RateStep == RateInv /\ [Next]_vars => RateInv'
  <1> SUFFICES ASSUME RateInv, [Next]_vars
               PROVE  RateInv'
    OBVIOUS
  <1>1. ASSUME NEW t \in Thread, Leave(t)
        PROVE  RateInv'
    BY <1>1, GrantStep, RefuseStep DEF Leave
  <1>2. CASE UNCHANGED vars
    BY <1>2 DEF vars, RateInv, TypeOK, Ordered, ListComplete, SteadyRate, Out,
                Before, Clock
  <1> QED
    BY <1>1, <1>2, EnterStep, ClockStep DEF Next

\* Types of clocks, lists and grants.
THEOREM TypeCorrect == Spec => []TypeOK
  <1>1. RateInv => TypeOK
    BY DEF RateInv
  <1> QED
    BY <1>1, RateInit, RateStep, PTL DEF Spec

\* In no second more than rps calls are granted, unless the clock is set
\* forward.
THEOREM RateIsKept == Spec => []SteadyRate
  <1>1. RateInv => SteadyRate
    BY DEF RateInv
  <1> QED
    BY <1>1, RateInit, RateStep, PTL DEF Spec

\* What a thread keeps is at most a window old at its reading.
KeptIsRecent ==
    \A t \in Thread : pc[t] = "in" =>
        \A i \in tmp[t] : reading[t].stamp - granted[i].stamp <= Window

LEMMA KeptStep == TypeOK /\ KeptIsRecent /\ [Next]_vars => KeptIsRecent'
  <1> SUFFICES ASSUME TypeOK, KeptIsRecent, [Next]_vars
               PROVE  KeptIsRecent'
    OBVIOUS
  <1>1. ASSUME NEW t \in Thread, Enter(t)
        PROVE  KeptIsRecent'
    <2>1. /\ reading'[t] = Clock /\ tmp'[t] = Recent(Clock.stamp)
          /\ granted' = granted
      BY <1>1 DEF Enter, TypeOK
    <2>2. \A u \in Thread : pc'[u] = "in" => u = t
      BY <1>1, ThreadAssumption DEF Enter, TypeOK
    <2> QED
      BY <2>1, <2>2 DEF KeptIsRecent, Recent
  <1>2. ASSUME NEW t \in Thread, Leave(t)
        PROVE  KeptIsRecent'
    <2>1. \A u \in Thread : pc'[u] # "in"
      BY <1>2 DEF Leave, TypeOK
    <2> QED
      BY <2>1 DEF KeptIsRecent
  <1>3. CASE Tick \/ SetClock \/ UNCHANGED vars
    BY <1>3 DEF KeptIsRecent, Tick, SetClock, vars
  <1> QED
    BY <1>1, <1>2, <1>3 DEF Next

\* Permits that expired are usable at once: no thread is refused while fewer
\* than rps granted calls are at most a window old.
THEOREM RefusesJustly == Spec => RefusesOnlyWhenFull
  <1> DEFINE Young(t) == {i \in 1..Len(granted) :
                            reading[t].stamp - granted[i].stamp <= Window}
  <1>1. ASSUME TypeOK, KeptIsRecent, Next, NEW t \in Thread, Refuses(t)
        PROVE  Cardinality(Young(t)) >= Rps
    <2>1. pc[t] = "in" /\ pc'[t] = "out" /\ granted' = granted
      BY <1>1 DEF Refuses
    <2>2. Leave(t)
      <3>1. \A u \in Thread : u # t /\ (Enter(u) \/ Leave(u)) => pc'[t] = pc[t]
        BY <1>1 DEF Enter, Leave, TypeOK
      <3>2. ~Enter(t) /\ ~Tick /\ ~SetClock
        BY <2>1 DEF Enter, Tick, SetClock
      <3> QED
        BY <1>1, <2>1, <3>1, <3>2 DEF Next
    <2>3. ~Grant(t)
      <3> SUFFICES ASSUME Grant(t) PROVE FALSE
        OBVIOUS
      <3>1. granted' = Append(granted, reading[t])
        BY DEF Grant
      <3>2. Len(granted') = Len(granted) + 1 /\ Len(granted) \in Nat
        BY <1>1, <3>1 DEF TypeOK
      <3> QED
        BY <2>1, <3>2
    <2>4. Cardinality(tmp[t]) >= Rps
      BY <2>2, <2>3 DEF Leave, Refuse
    <2>5. tmp[t] \subseteq Young(t)
      BY <1>1, <2>1 DEF TypeOK, KeptIsRecent
    <2>6. IsFiniteSet(Young(t))
      <3>1. Len(granted) \in Int
        BY <1>1 DEF TypeOK
      <3>2. IsFiniteSet(1..Len(granted))
        BY <3>1, FS_Interval
      <3>3. Young(t) \subseteq 1..Len(granted)
        OBVIOUS
      <3> HIDE DEF Young
      <3> QED
        BY <3>2, <3>3, FS_Subset
    <2> HIDE DEF Young
    <2>7. /\ Cardinality(tmp[t]) <= Cardinality(Young(t))
          /\ Cardinality(tmp[t]) \in Nat /\ Cardinality(Young(t)) \in Nat
      BY <2>5, <2>6, FS_Subset, FS_CardinalityType
    <2> QED
      BY <2>4, <2>7, RpsAssumption
  <1>2. TypeOK /\ KeptIsRecent /\ [Next]_vars
          => [\A t \in Thread : Refuses(t) => Cardinality(Young(t)) >= Rps]_vars
    BY <1>1
  <1>3. Init => KeptIsRecent
    BY DEF Init, KeptIsRecent
  <1> QED
    BY <1>2, <1>3, KeptStep, TypeCorrect, PTL DEF Spec, RefusesOnlyWhenFull
=============================================================================
