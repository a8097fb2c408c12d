-------------------------- MODULE WorkerPoolProofs --------------------------
(***************************************************************************)
(* Tasks of the Node agent are run in the order of their arrival, no       *)
(* worker idles while one waits, and the pool keeps its strength, for any  *)
(* number of tasks and workers.                                            *)
(***************************************************************************)
EXTENDS WorkerPool, FiniteSetTheorems, SequenceTheorems, TLAPS

\* The order depends on the second conjunct: a task that finds a free worker
\* would overtake those that wait.
InOrderInv ==
    /\ tasks \in Seq(Task)
    /\ started \in Seq(Task)
    /\ NoIdleWhileWaiting
    /\ RunInOrder

\* The first waiting task moves to the end of the started ones.
LEMMA MoveHead ==
    ASSUME NEW S, NEW s \in Seq(S), NEW t \in Seq(S), t # <<>>
    PROVE  /\ Head(t) \in S /\ Tail(t) \in Seq(S)
           /\ Append(s, Head(t)) \in Seq(S)
           /\ Append(s, Head(t)) \o Tail(t) = s \o t
  <1>1. Head(t) \in S /\ Tail(t) \in Seq(S)
    OBVIOUS
  <1>2. Append(s, Head(t)) \in Seq(S)
    BY <1>1
  <1> DEFINE l == Append(s, Head(t)) \o Tail(t)
             r == s \o t
  <1>3. l \in Seq(S) /\ r \in Seq(S) /\ Len(l) = Len(r)
    BY <1>1, <1>2
  <1>4. ASSUME NEW i \in 1..Len(r)
        PROVE  l[i] = r[i]
    BY <1>1, <1>2
  <1>5. l = r
    BY <1>3, <1>4
  <1> QED
    BY <1>1, <1>2, <1>5

\* What runTask is called with comes last.
LEMMA AppendLast ==
    ASSUME NEW S, NEW s \in Seq(S), NEW t \in Seq(S), NEW x \in S
    PROVE  /\ Append(t, x) \in Seq(S)
           /\ s \o Append(t, x) = Append(s \o t, x)
  <1>1. Append(t, x) \in Seq(S) /\ s \o t \in Seq(S)
    OBVIOUS
  <1> DEFINE l == s \o Append(t, x)
             r == Append(s \o t, x)
  <1>2. l \in Seq(S) /\ r \in Seq(S) /\ Len(l) = Len(r)
    BY <1>1
  <1>3. ASSUME NEW i \in 1..Len(r)
        PROVE  l[i] = r[i]
    BY <1>1
  <1>4. l = r
    BY <1>2, <1>3
  <1> QED
    BY <1>1, <1>4

\* A worker that is freed takes the task that waited longest.
LEMMA FreedKeepsOrder ==
    ASSUME InOrderInv, NEW w, NEW live, Freed(w, live), UNCHANGED arrived
    PROVE  InOrderInv'
  <1>1. CASE tasks # <<>>
    <2>1. /\ started' = Append(started, Head(tasks)) /\ tasks' = Tail(tasks)
          /\ free' = free /\ free = <<>>
      BY <1>1 DEF Freed, Give, InOrderInv, NoIdleWhileWaiting
    <2> QED
      BY <1>1, <2>1, MoveHead DEF InOrderInv, NoIdleWhileWaiting, RunInOrder
  <1>2. CASE tasks = <<>>
    BY <1>2 DEF Freed, InOrderInv, NoIdleWhileWaiting, RunInOrder
  <1> QED
    BY <1>1, <1>2

LEMMA InOrderStep == InOrderInv /\ [Next]_vars => InOrderInv'
  <1> SUFFICES ASSUME InOrderInv, [Next]_vars
               PROVE  InOrderInv'
    OBVIOUS
  <1>1. ASSUME NEW t \in Task, RunTask(t)
        PROVE  InOrderInv'
    <2>1. CASE free = <<>>
      <3>1. /\ tasks' = Append(tasks, t) /\ arrived' = Append(arrived, t)
            /\ started' = started /\ free' = free
        BY <1>1, <2>1 DEF RunTask
      <3>2. /\ Append(tasks, t) \in Seq(Task)
            /\ started \o Append(tasks, t) = Append(started \o tasks, t)
        BY AppendLast DEF InOrderInv
      <3> QED
        BY <2>1, <3>1, <3>2 DEF InOrderInv, NoIdleWhileWaiting, RunInOrder
    <2>2. CASE free # <<>>
      <3>1. tasks = <<>>
        BY <2>2 DEF InOrderInv, NoIdleWhileWaiting
      <3>2. /\ tasks' = tasks /\ arrived' = Append(arrived, t)
            /\ started' = Append(started, t)
        BY <1>1, <2>2 DEF RunTask, Give
      <3>3. arrived = started
        BY <3>1 DEF InOrderInv, RunInOrder
      <3> QED
        BY <3>1, <3>2, <3>3 DEF InOrderInv, NoIdleWhileWaiting, RunInOrder
    <2> QED
      BY <2>1, <2>2
  <1>2. ASSUME NEW w \in Worker, OnMessage(w)
        PROVE  InOrderInv'
    <2>1. Freed(w, thread[w] = "live") /\ UNCHANGED arrived
      BY <1>2 DEF OnMessage
    <2> QED
      BY <2>1, FreedKeepsOrder
  <1>3. ASSUME NEW w \in Worker, OnError(w)
        PROVE  InOrderInv'
    <2>1. PICK n \in Worker : Freed(n, TRUE)
      BY <1>3 DEF OnError
    <2>2. UNCHANGED arrived
      BY <1>3 DEF OnError
    <2> QED
      BY <2>1, <2>2, FreedKeepsOrder
  <1>4. ASSUME UNCHANGED <<tasks, free, arrived, started>>
        PROVE  InOrderInv'
    BY <1>4 DEF InOrderInv, NoIdleWhileWaiting, RunInOrder
  <1>5. ASSUME NEW w \in Worker, OnIdleError(w)
        PROVE  InOrderInv'
    BY <1>4, <1>5 DEF OnIdleError, poolVars, historyVars
  <1>6. ASSUME NEW w \in Worker, Work(w) \/ Die(w)
        PROVE  InOrderInv'
    BY <1>4, <1>6 DEF Work, Die, poolVars
  <1>7. ASSUME Close
        PROVE  InOrderInv'
    BY <1>4, <1>7 DEF Close, poolVars, historyVars
  <1>8. CASE UNCHANGED vars
    BY <1>4, <1>8 DEF vars
  <1> QED
    BY <1>1, <1>2, <1>3, <1>5, <1>6, <1>7, <1>8 DEF Next, Handle

\* Calls of runTask are given to workers in the order in which they were made.
THEOREM TasksRunInOrder == Spec => []RunInOrder
  <1>1. Init => InOrderInv
    BY DEF Init, InOrderInv, NoIdleWhileWaiting, RunInOrder
  <1>2. InOrderInv => RunInOrder
    BY DEF InOrderInv
  <1> QED
    BY <1>1, <1>2, InOrderStep, PTL DEF Spec

\* A worker that becomes free, or replaces one that failed, takes a waiting task.
THEOREM NoWorkerIdles == Spec => []NoIdleWhileWaiting
  <1>1. Init => InOrderInv
    BY DEF Init, InOrderInv, NoIdleWhileWaiting, RunInOrder
  <1>2. InOrderInv => NoIdleWhileWaiting
    BY DEF InOrderInv
  <1> QED
    BY <1>1, <1>2, InOrderStep, PTL DEF Spec

(***************************************************************************)
(* The strength of the pool                                                *)
(***************************************************************************)

Distinct(s) == \A i, j \in 1..Len(s) : s[i] = s[j] => i = j

\* What a thread of the pool may be doing and have said. A thread that has a
\* task, or said that it is through with one, has a kTaskInfo.
Heard == {<<>>, <<"message">>, <<"error">>, <<"message", "error">>}
Threads(w) ==
    /\ events[w] \in Heard
    /\ events[w] # <<>> => w \in workers
    /\ events[w] # <<>> /\ Head(events[w]) = "message" => info[w] # None
    /\ doing[w] # None => thread[w] = "live" /\ events[w] = <<>> /\ info[w] # None
    /\ thread[w] = "live" => w \in workers /\ events[w] \in {<<>>, <<"message">>}

PoolInv ==
    /\ TypeOK
    /\ IsFiniteSet(workers)
    /\ FullStrength
    /\ \A w \in Worker : Threads(w)

LEMMA PopLast ==
    ASSUME NEW S, NEW s \in Seq(S), s # <<>>, Distinct(s), NEW t,
           t = SubSeq(s, 1, Len(s) - 1)
    PROVE  /\ t \in Seq(S) /\ Distinct(t)
           /\ s[Len(s)] \in S
           /\ \A v : v \in SeqSet(t) <=> v \in SeqSet(s) /\ v # s[Len(s)]
<1> DEFINE n == Len(s)
<1>1. n \in Nat \ {0} /\ \A i \in 1..n : s[i] \in S
  BY EmptySeq, LenProperties, ElementOfSeq
<1>2. t \in Seq(S) /\ Len(t) = n - 1 /\ \A i \in 1..n - 1 : t[i] = s[i]
  <2>1. \A i \in 1..n - 1 : s[i] \in S
    BY <1>1
  <2>2. /\ SubSeq(s, 1, n - 1) \in Seq(S)
        /\ Len(SubSeq(s, 1, n - 1)) = IF 1 <= n - 1 THEN (n - 1) - 1 + 1 ELSE 0
        /\ \A i \in 1..(n - 1) - 1 + 1 : SubSeq(s, 1, n - 1)[i] = s[1 + i - 1]
    BY <1>1, <2>1, SubSeqProperties
  <2> HIDE DEF n
  <2>3. (n - 1) - 1 + 1 = n - 1 /\ n - 1 \in Nat /\ (~(1 <= n - 1) => n - 1 = 0)
    BY <1>1
  <2>4. \A i \in 1..n - 1 : 1 + i - 1 = i
    BY <1>1
  <2>5. t = SubSeq(s, 1, n - 1)
    BY DEF n
  <2>6. \A i \in 1..n - 1 : t[i] = s[i]
    BY <2>2, <2>3, <2>4, <2>5
  <2> QED
    BY <2>2, <2>3, <2>5, <2>6
<1> HIDE DEF n
<1>3. \A i \in 1..n - 1 : i \in 1..n /\ i # n
  BY <1>1
<1>4. \A i \in 1..n : i = n \/ i \in 1..n - 1
  BY <1>1
<1>5. n \in 1..n
  BY <1>1
<1>6. Distinct(t)
  BY <1>2, <1>3 DEF Distinct, n
<1>7. \A i, j \in 1..n : s[i] = s[j] => i = j
  BY DEF Distinct, n
<1>8. SeqSet(s) = {s[i] : i \in 1..n} /\ SeqSet(t) = {t[i] : i \in 1..n - 1}
  BY <1>2 DEF SeqSet, n
<1>9. ASSUME NEW v
      PROVE  v \in SeqSet(t) <=> v \in SeqSet(s) /\ v # s[n]
  BY SMTT(60), <1>2, <1>3, <1>4, <1>5, <1>7, <1>8
<1> QED
  BY <1>1, <1>2, <1>5, <1>6, <1>9 DEF n

LEMMA PushLast ==
    ASSUME NEW S, NEW s \in Seq(S), Distinct(s), NEW w \in S, w \notin SeqSet(s),
           NEW t, t = Append(s, w)
    PROVE  /\ t \in Seq(S) /\ Distinct(t)
           /\ \A v : v \in SeqSet(t) <=> v \in SeqSet(s) \/ v = w
<1> DEFINE n == Len(s)
<1>1. /\ n \in Nat /\ t \in Seq(S) /\ Len(t) = n + 1
      /\ \A i \in 1..n : t[i] = s[i]
      /\ t[n + 1] = w
  BY LenProperties, AppendProperties
<1> HIDE DEF n
<1>2. \A i \in 1..n + 1 : i = n + 1 \/ i \in 1..n
  BY <1>1
<1>3. /\ \A i \in 1..n : i \in 1..n + 1 /\ i # n + 1
      /\ n + 1 \in 1..n + 1
  BY <1>1
<1>4. SeqSet(s) = {s[i] : i \in 1..n} /\ SeqSet(t) = {t[i] : i \in 1..n + 1}
  BY <1>1 DEF SeqSet, n
<1>5. ASSUME NEW v
      PROVE  v \in SeqSet(t) <=> v \in SeqSet(s) \/ v = w
  BY <1>1, <1>2, <1>3, <1>4
<1>6. \A i, j \in 1..n : s[i] = s[j] => i = j
  BY DEF Distinct, n
<1>7. \A i \in 1..n : t[i] # w
  BY <1>1, <1>4
<1>8. ASSUME NEW i \in 1..n + 1, NEW j \in 1..n + 1, t[i] = t[j]
      PROVE  i = j
  BY <1>1, <1>2, <1>6, <1>7, <1>8
<1> QED
  BY <1>1, <1>5, <1>8 DEF Distinct

\* A worker of the pool W that is freed is in the stack, or has a task.
LEMMA FreedKeeps ==
    ASSUME TypeOK, NEW W, free \in Seq(W), Distinct(free), NEW w \in W, w \in Worker,
           w \notin SeqSet(free), NEW live, Freed(w, live)
    PROVE  /\ tasks' \in Seq(Task) /\ started' \in Seq(Task)
           /\ free' \in Seq(W) /\ Distinct(free)'
           /\ info' \in [Worker -> Task \cup {None}]
           /\ doing' \in [Worker -> Task \cup {None}]
           /\ \A v : v # w => (v \in SeqSet(free') <=> v \in SeqSet(free))
           /\ w \in SeqSet(free') <=> info'[w] = None
           /\ \A v \in Worker \ {w} : info'[v] = info[v] /\ doing'[v] = doing[v]
           /\ doing'[w] = doing[w] \/ (live /\ info'[w] # None)
<1>1. CASE tasks # <<>>
  <2>1. Head(tasks) \in Task /\ Tail(tasks) \in Seq(Task) /\ Head(tasks) # None
    BY <1>1, NoneAssumption DEF TypeOK
  <2>2. /\ info' = [info EXCEPT ![w] = Head(tasks)]
        /\ doing' = IF live THEN [doing EXCEPT ![w] = Head(tasks)] ELSE doing
        /\ started' = Append(started, Head(tasks))
        /\ tasks' = Tail(tasks) /\ free' = free
    BY <1>1 DEF Freed, Give
  <2> QED
    BY <2>1, <2>2 DEF TypeOK, Distinct
<1>2. CASE tasks = <<>>
  <2>1. free' = Append(free, w) /\ info' = [info EXCEPT ![w] = None]
        /\ UNCHANGED <<tasks, doing, started>>
    BY <1>2 DEF Freed
  <2>2. /\ free' \in Seq(W) /\ Distinct(free')
        /\ \A v : v \in SeqSet(free') <=> v \in SeqSet(free) \/ v = w
    BY <2>1, PushLast
  <2>3. Distinct(free)'
    BY <2>2 DEF Distinct
  <2>4. info' \in [Worker -> Task \cup {None}] /\ info'[w] = None
    BY <2>1 DEF TypeOK
  <2>5. \A v \in Worker \ {w} : info'[v] = info[v]
    BY <2>1 DEF TypeOK
  <2>6. /\ tasks' \in Seq(Task) /\ started' \in Seq(Task)
        /\ doing' \in [Worker -> Task \cup {None}] /\ doing' = doing
    BY <2>1 DEF TypeOK
  <2>7. /\ \A v : v # w => (v \in SeqSet(free') <=> v \in SeqSet(free))
        /\ w \in SeqSet(free') <=> info'[w] = None
    BY <2>2, <2>4
  <2>8. /\ \A v \in Worker \ {w} : info'[v] = info[v] /\ doing'[v] = doing[v]
        /\ doing'[w] = doing[w]
    BY <2>5, <2>6
  <2>9. free' \in Seq(W) /\ Distinct(free)'
    BY <2>2, <2>3
  <2>10. doing'[w] = doing[w] \/ (live /\ info'[w] # None)
    BY <2>8
  <2>11. /\ info' \in [Worker -> Task \cup {None}]
         /\ doing' \in [Worker -> Task \cup {None}]
    BY <2>4, <2>6
  <2> QED
    BY <2>6, <2>7, <2>8, <2>9, <2>10, <2>11
<1> QED
  BY <1>1, <1>2

LEMMA PoolInit == Init => PoolInv
<1> SUFFICES ASSUME Init PROVE PoolInv
  OBVIOUS
<1>1. PICK first \in [1..NumThreads -> Worker] :
        /\ \A i, j \in 1..NumThreads : i # j => first[i] # first[j]
        /\ free = first
        /\ workers = SeqSet(first)
        /\ thread = [w \in Worker |-> IF w \in SeqSet(first) THEN "live" ELSE "none"]
  BY DEF Init
<1>2. Len(first) = NumThreads /\ first \in Seq(Worker)
  BY ThreadsAssumption
<1>3. first \in [1..NumThreads -> workers] /\ workers \subseteq Worker
  BY <1>1, <1>2 DEF SeqSet
<1>4. free \in Seq(workers) /\ Len(free) = NumThreads
  <2>1. first \in Seq(workers)
    BY <1>3, ThreadsAssumption
  <2> QED
    BY <1>1, <1>2, <2>1
<1>5. first \in Bijection(1..NumThreads, workers)
  <2>1. \A i, j \in 1..NumThreads : first[i] = first[j] => i = j
    BY <1>1
  <2>2. \A w \in workers : \E i \in 1..NumThreads : first[i] = w
    BY <1>1, <1>2 DEF SeqSet
  <2> QED
    BY <1>3, <2>1, <2>2 DEF Bijection, Injection, Surjection, IsInjective
<1>6. IsFiniteSet(workers) /\ Cardinality(workers) = NumThreads
  <2>1. IsFiniteSet(1..NumThreads) /\ Cardinality(1..NumThreads) = NumThreads
    BY FS_Interval, ThreadsAssumption
  <2>2. ExistsBijection(1..NumThreads, workers)
    BY <1>5 DEF ExistsBijection
  <2> QED
    BY <2>1, <2>2, FS_Bijection
<1>7. TypeOK
  <2>1. /\ tasks \in Seq(Task) /\ arrived \in Seq(Task) /\ started \in Seq(Task)
        /\ \A w \in Worker : events[w] \in Seq({"message", "error"})
    BY EmptySeq DEF Init
  <2>2. thread \in [Worker -> {"none", "live", "dead"}]
    BY <1>1
  <2>3. \A w \in Worker : w \in workers => thread[w] # "none"
    BY <1>1
  <2> QED
    BY <1>3, <1>4, <2>1, <2>2, <2>3 DEF Init, TypeOK
<1>8. FullStrength
  <2>1. \A i, j \in 1..Len(free) : free[i] = free[j] => i = j
    BY <1>1, <1>4
  <2>2. \A w \in workers : w \in SeqSet(free) /\ info[w] = None
    BY <1>1, <1>3 DEF Init
  <2> QED
    BY <1>6, <2>1, <2>2 DEF FullStrength
<1>9. \A w \in Worker : Threads(w)
  BY <1>1 DEF Init, Threads, Heard
<1> QED
  BY <1>6, <1>7, <1>8, <1>9 DEF PoolInv

LEMMA StrengthInStack ==
    ASSUME PoolInv
    PROVE  /\ free \in Seq(workers) /\ Distinct(free) /\ workers \subseteq Worker
           /\ \A w : w \in SeqSet(free) => w \in workers
           /\ \A w \in workers : w \in SeqSet(free) <=> info[w] = None
BY DEF PoolInv, TypeOK, FullStrength, Distinct, SeqSet

\* A task is given to the worker on top of the stack, or waits.
LEMMA RunTaskKeeps ==
    ASSUME PoolInv, NEW t \in Task, RunTask(t)
    PROVE  PoolInv'
<1>0. TypeOK /\ t # None
  BY NoneAssumption DEF PoolInv
<1>1. arrived' \in Seq(Task) /\ UNCHANGED <<workers, thread, events, up, closed, outcome>>
  BY <1>0, AppendProperties DEF RunTask, TypeOK
<1>2. CASE free = <<>>
  <2>1. tasks' = Append(tasks, t) /\ UNCHANGED <<free, info, doing, started>>
    BY <1>2 DEF RunTask
  <2>2. tasks' \in Seq(Task)
    BY <1>0, <2>1, AppendProperties DEF TypeOK
  <2> QED
    BY <1>0, <1>1, <2>1, <2>2 DEF PoolInv, TypeOK, FullStrength, Threads
<1>3. CASE free # <<>>
  <2> DEFINE w == free[Len(free)]
  <2>1. /\ info' = [info EXCEPT ![w] = t]
        /\ doing' = IF thread[w] = "live" THEN [doing EXCEPT ![w] = t] ELSE doing
        /\ started' = Append(started, t)
        /\ free' = SubSeq(free, 1, Len(free) - 1)
        /\ UNCHANGED tasks
    BY <1>3 DEF RunTask, Give
  <2>2. /\ free' \in Seq(workers) /\ Distinct(free') /\ w \in workers
        /\ \A v : v \in SeqSet(free') <=> v \in SeqSet(free) /\ v # w
    <3>1. free \in Seq(workers) /\ Distinct(free)
      BY StrengthInStack
    <3>2. \A r : r = SubSeq(free, 1, Len(free) - 1) =>
            /\ r \in Seq(workers) /\ Distinct(r) /\ w \in workers
            /\ \A v : v \in SeqSet(r) <=> v \in SeqSet(free) /\ v # w
      BY <1>3, <3>1, PopLast
    <3> QED
      BY <2>1, <3>2
  <2>3. w \in Worker /\ info[w] = None
    <3>1. Len(free) \in 1..Len(free)
      BY <1>3, EmptySeq, StrengthInStack
    <3> QED
      BY <2>2, <3>1, StrengthInStack DEF SeqSet
  <2> HIDE DEF w
  <2>4. started' \in Seq(Task)
    BY <1>0, <2>1, AppendProperties DEF TypeOK
  <2>5. /\ info' \in [Worker -> Task \cup {None}] /\ info'[w] = t
        /\ doing' \in [Worker -> Task \cup {None}]
        /\ \A v \in Worker \ {w} : info'[v] = info[v] /\ doing'[v] = doing[v]
        /\ doing'[w] = doing[w] \/ thread[w] = "live"
    BY <1>0, <2>1, <2>3 DEF TypeOK
  <2>6. TypeOK'
    BY <1>0, <1>1, <2>1, <2>2, <2>4, <2>5 DEF TypeOK
  <2>7. FullStrength'
    <3>1. \A v \in workers : v \in SeqSet(free') <=> info'[v] = None
      BY <1>0, <2>2, <2>3, <2>5, StrengthInStack
    <3> QED
      BY <1>1, <2>2, <3>1 DEF PoolInv, FullStrength, Distinct
  <2>8. ASSUME NEW v \in Worker  PROVE Threads(v)'
    <3>1. CASE v = w
      BY <1>0, <1>1, <2>3, <2>5, <3>1 DEF PoolInv, Threads, Heard
    <3>2. CASE v # w
      BY <1>1, <2>5, <3>2 DEF PoolInv, Threads
    <3> QED
      BY <3>1, <3>2
  <2> QED
    BY <1>1, <2>6, <2>7, <2>8 DEF PoolInv
<1> QED
  BY <1>2, <1>3

\* "done" frees a worker, which takes the next task.
LEMMA OnMessageKeeps ==
    ASSUME PoolInv, NEW w \in Worker, OnMessage(w)
    PROVE  PoolInv'
<1>0. TypeOK /\ Threads(w)
  BY DEF PoolInv
<1>1. /\ w \in workers /\ info[w] # None /\ w \notin SeqSet(free) /\ doing[w] = None
      /\ events[w] \in {<<"message">>, <<"message", "error">>}
      /\ thread[w] = "live" => events[w] = <<"message">>
  BY <1>0, StrengthInStack DEF OnMessage, Threads, Heard
<1>2. events'[w] \in {<<>>, <<"error">>} /\ (thread[w] = "live" => events'[w] = <<>>)
  <2>1. Tail(<<"message">>) = <<>> /\ Tail(<<"message", "error">>) = <<"error">>
    OBVIOUS
  <2>2. events'[w] = Tail(events[w])
    BY <1>0 DEF OnMessage, TypeOK
  <2> QED
    BY <1>1, <2>1, <2>2
<1>3. \A v \in Worker \ {w} : events'[v] = events[v]
  BY <1>0 DEF OnMessage, TypeOK
<1>4. /\ Freed(w, thread[w] = "live")
      /\ UNCHANGED <<workers, thread, up, closed, arrived>>
  BY DEF OnMessage
<1>5. events' \in [Worker -> Seq({"message", "error"})]
  BY <1>0, <1>2 DEF OnMessage, TypeOK
<1>6. outcome' \in [Task -> {"none", "done", "failed"}]
  BY <1>0 DEF OnMessage, TypeOK
<1>7. /\ tasks' \in Seq(Task) /\ started' \in Seq(Task)
      /\ free' \in Seq(workers) /\ Distinct(free)'
      /\ info' \in [Worker -> Task \cup {None}]
      /\ doing' \in [Worker -> Task \cup {None}]
      /\ \A v : v # w => (v \in SeqSet(free') <=> v \in SeqSet(free))
      /\ w \in SeqSet(free') <=> info'[w] = None
      /\ \A v \in Worker \ {w} : info'[v] = info[v] /\ doing'[v] = doing[v]
      /\ doing'[w] = doing[w] \/ (thread[w] = "live" /\ info'[w] # None)
  BY <1>0, <1>1, <1>4, StrengthInStack, FreedKeeps, Zenon
<1>8. TypeOK'
  BY <1>0, <1>4, <1>5, <1>6, <1>7 DEF TypeOK
<1>9. FullStrength'
  <2>1. \A v \in workers : v \in SeqSet(free') <=> info'[v] = None
    BY <1>7, StrengthInStack
  <2> QED
    BY <1>4, <1>7, <2>1 DEF PoolInv, FullStrength, Distinct
<1>10. ASSUME NEW v \in Worker  PROVE Threads(v)'
  <2>1. CASE v = w
    BY <1>1, <1>2, <1>4, <1>7, <2>1 DEF Threads, Heard
  <2>2. CASE v # w
    BY <1>3, <1>4, <1>7, <2>2 DEF PoolInv, Threads
  <2> QED
    BY <2>1, <2>2
<1> QED
  BY <1>4, <1>8, <1>9, <1>10 DEF PoolInv

\* A failed worker leaves the pool and a new one comes.
LEMMA OnErrorKeeps ==
    ASSUME PoolInv, NEW w \in Worker, OnError(w)
    PROVE  PoolInv'
<1>0. TypeOK /\ Threads(w) /\ IsFiniteSet(workers) /\ Cardinality(workers) = NumThreads
  BY DEF PoolInv, FullStrength
<1>1. PICK n \in Worker :
        /\ thread[n] = "none"
        /\ thread' = [thread EXCEPT ![n] = "live"]
        /\ workers' = (workers \ {w}) \cup {n}
        /\ Freed(n, TRUE)
  BY DEF OnError
<1>2. /\ w \in workers /\ info[w] # None /\ w \notin SeqSet(free) /\ doing[w] = None
      /\ events[w] = <<"error">> /\ thread[w] # "live"
  BY <1>0, StrengthInStack DEF OnError, Threads, Heard
<1>3. /\ n \notin workers /\ n # w /\ n \notin SeqSet(free) /\ events[n] = <<>>
      /\ doing[n] = None
  BY <1>0, <1>1, <1>2, StrengthInStack DEF PoolInv, TypeOK, Threads
<1>4. /\ events'[w] = <<>> /\ \A v \in Worker \ {w} : events'[v] = events[v]
      /\ events' \in [Worker -> Seq({"message", "error"})]
  BY <1>0, <1>2 DEF OnError, TypeOK
<1>5. outcome' \in [Task -> {"none", "done", "failed"}] /\ UNCHANGED <<up, closed, arrived>>
  BY <1>0 DEF OnError, TypeOK
<1>6. free \in Seq(workers')
  <2>1. \A i \in 1..Len(free) : free[i] \in workers'
    BY <1>1, <1>2, StrengthInStack DEF SeqSet
  <2> QED
    BY <2>1, StrengthInStack
<1>7. /\ tasks' \in Seq(Task) /\ started' \in Seq(Task)
      /\ free' \in Seq(workers') /\ Distinct(free)'
      /\ info' \in [Worker -> Task \cup {None}]
      /\ doing' \in [Worker -> Task \cup {None}]
      /\ \A v : v # n => (v \in SeqSet(free') <=> v \in SeqSet(free))
      /\ n \in SeqSet(free') <=> info'[n] = None
      /\ \A v \in Worker \ {n} : info'[v] = info[v] /\ doing'[v] = doing[v]
      /\ doing'[n] = doing[n] \/ info'[n] # None
  <2>1. n \in workers'
    BY <1>1
  <2> QED
    BY <1>0, <1>1, <1>3, <1>6, <2>1, StrengthInStack, FreedKeeps, Zenon
<1>8. IsFiniteSet(workers') /\ Cardinality(workers') = NumThreads
  <2>1. IsFiniteSet(workers \ {w}) /\ Cardinality(workers \ {w}) = NumThreads - 1
    BY <1>0, <1>2, FS_RemoveElement
  <2>2. n \notin workers \ {w}
    BY <1>3
  <2>3. IsFiniteSet(workers') /\ Cardinality(workers') = NumThreads - 1 + 1
    BY <1>1, <2>1, <2>2, FS_AddElement
  <2> QED
    BY <2>3, ThreadsAssumption
<1>9. /\ thread' \in [Worker -> {"none", "live", "dead"}] /\ thread'[n] = "live"
      /\ \A v \in Worker \ {n} : thread'[v] = thread[v]
  BY <1>0, <1>1 DEF TypeOK
<1>10. TypeOK'
  <2>1. workers' \subseteq Worker
    BY <1>0, <1>1 DEF TypeOK
  <2>2. \A v \in Worker : v \in workers' => thread'[v] # "none"
    BY <1>0, <1>1, <1>9 DEF TypeOK
  <2> QED
    BY <1>0, <1>4, <1>5, <1>7, <1>9, <2>1, <2>2 DEF TypeOK
<1>11. FullStrength'
  <2>1. \A v \in workers' : v \in SeqSet(free') <=> info'[v] = None
    BY <1>1, <1>7, StrengthInStack
  <2> QED
    BY <1>7, <1>8, <2>1 DEF FullStrength, Distinct
<1>12. ASSUME NEW v \in Worker  PROVE Threads(v)'
  <2>1. CASE v = w
    BY <1>2, <1>3, <1>4, <1>7, <1>9, <2>1 DEF Threads, Heard
  <2>2. CASE v = n
    BY <1>1, <1>3, <1>4, <1>7, <1>9, <2>2 DEF Threads, Heard
  <2>3. CASE v # w /\ v # n
    BY <1>1, <1>4, <1>7, <1>9, <2>3 DEF PoolInv, Threads
  <2> QED
    BY <2>1, <2>2, <2>3
<1> QED
  BY <1>8, <1>10, <1>11, <1>12 DEF PoolInv

LEMMA AppendedError ==
    /\ Append(<<>>, "error") = <<"error">>
    /\ Append(<<"message">>, "error") = <<"message", "error">>
<1> DEFINE S == {"message", "error"}
           l == Append(<<>>, "error")
           m == Append(<<"message">>, "error")
           n == <<"message", "error">>
<1>1. <<>> \in Seq(S) /\ <<"message">> \in Seq(S) /\ <<"error">> \in Seq(S) /\ n \in Seq(S)
  OBVIOUS
<1>2. l \in Seq(S) /\ Len(l) = 1 /\ l[1] = "error"
  BY <1>1
<1>3. m \in Seq(S) /\ Len(m) = 2 /\ m[1] = "message" /\ m[2] = "error"
  BY <1>1
<1>4. l = <<"error">>
  BY <1>1, <1>2
<1>5. m = n
  <2>1. Len(n) = 2 /\ n[1] = "message" /\ n[2] = "error"
    OBVIOUS
  <2>2. \A i \in 1..2 : i = 1 \/ i = 2
    OBVIOUS
  <2> HIDE DEF m, n
  <2>3. \A i \in 1..2 : m[i] = n[i]
    BY <1>3, <2>1, <2>2
  <2> QED
    BY <1>1, <1>3, <2>1, <2>3
<1> QED
  BY <1>4, <1>5

LEMMA PoolStep == PoolInv /\ [Next]_vars => PoolInv'
<1> SUFFICES ASSUME PoolInv, [Next]_vars
             PROVE  PoolInv'
  OBVIOUS
<1>0. TypeOK /\ IsFiniteSet(workers) /\ FullStrength /\ \A w \in Worker : Threads(w)
  BY DEF PoolInv
<1>1. CASE UNCHANGED vars
  BY <1>0, <1>1 DEF vars, PoolInv, TypeOK, FullStrength, Threads
<1>2. ASSUME NEW w \in Worker, OnIdleError(w)  PROVE PoolInv'
  <2>1. events[w] = <<"error">> /\ thread[w] # "live"
    BY <1>0, <1>2 DEF OnIdleError, Threads, Heard
  <2>2. /\ events'[w] = <<>> /\ \A v \in Worker \ {w} : events'[v] = events[v]
        /\ events' \in [Worker -> Seq({"message", "error"})]
    BY <1>0, <1>2, <2>1 DEF OnIdleError, TypeOK
  <2>3. UNCHANGED <<poolVars, threadVars, closed, historyVars>> /\ up' \in BOOLEAN
    BY <1>2 DEF OnIdleError
  <2>4. TypeOK'
    BY <1>0, <2>2, <2>3 DEF poolVars, threadVars, historyVars, TypeOK
  <2>5. FullStrength'
    BY <1>0, <2>3 DEF poolVars, FullStrength
  <2>6. ASSUME NEW v \in Worker  PROVE Threads(v)'
    BY <1>0, <2>1, <2>2, <2>3 DEF poolVars, threadVars, Threads, Heard
  <2> QED
    BY <1>0, <2>3, <2>4, <2>5, <2>6 DEF poolVars, PoolInv
<1>3. ASSUME Close  PROVE PoolInv'
  <2>1. /\ \A w \in Worker : doing'[w] = None /\ thread'[w] # "live"
        /\ UNCHANGED <<poolVars, events>>
    BY <1>0, <1>3 DEF Close, TypeOK, Threads
  <2>2. TypeOK'
    BY <1>0, <1>3 DEF Close, poolVars, historyVars, TypeOK
  <2>3. FullStrength'
    BY <1>0, <2>1 DEF poolVars, FullStrength
  <2>4. ASSUME NEW v \in Worker  PROVE Threads(v)'
    BY <1>0, <2>1 DEF poolVars, Threads
  <2> QED
    BY <1>0, <2>1, <2>2, <2>3, <2>4 DEF poolVars, PoolInv
<1>4. ASSUME NEW w \in Worker, Work(w)  PROVE PoolInv'
  <2>1. events[w] = <<>> /\ info[w] # None /\ w \in workers
    BY <1>0, <1>4 DEF Work, Threads
  <2>2. /\ events'[w] = <<"message">> /\ doing'[w] = None
        /\ \A v \in Worker \ {w} : events'[v] = events[v] /\ doing'[v] = doing[v]
        /\ events' \in [Worker -> Seq({"message", "error"})]
    BY <1>0, <1>4, <2>1 DEF Work, TypeOK
  <2>3. UNCHANGED <<poolVars, thread, up, closed, arrived, started, outcome>>
    BY <1>4 DEF Work
  <2>4. TypeOK'
    <3>1. doing' \in [Worker -> Task \cup {None}]
      BY <1>0, <1>4 DEF Work, TypeOK
    <3> QED
      BY <1>0, <2>2, <2>3, <3>1 DEF poolVars, TypeOK
  <2>5. FullStrength'
    BY <1>0, <2>3 DEF poolVars, FullStrength
  <2>6. ASSUME NEW v \in Worker  PROVE Threads(v)'
    BY <1>0, <2>1, <2>2, <2>3 DEF poolVars, Threads, Heard
  <2> QED
    BY <1>0, <2>3, <2>4, <2>5, <2>6 DEF poolVars, PoolInv
<1>5. ASSUME NEW w \in Worker, Die(w)  PROVE PoolInv'
  <2>1. events[w] \in {<<>>, <<"message">>} /\ w \in workers
    BY <1>0, <1>5 DEF Die, Threads
  <2>2. /\ events'[w] \in {<<"error">>, <<"message", "error">>}
        /\ events[w] = <<>> => events'[w] = <<"error">>
        /\ doing'[w] = None /\ thread'[w] = "dead"
        /\ \A v \in Worker \ {w} : /\ events'[v] = events[v] /\ doing'[v] = doing[v]
                                   /\ thread'[v] = thread[v]
        /\ events' \in [Worker -> Seq({"message", "error"})]
    <3>1. /\ Append(<<>>, "error") = <<"error">>
          /\ Append(<<"message">>, "error") = <<"message", "error">>
      BY AppendedError
    <3>2. events'[w] = Append(events[w], "error")
      BY <1>0, <1>5 DEF Die, TypeOK
    <3>3. events'[w] \in Seq({"message", "error"})
      BY <1>0, <3>2 DEF TypeOK
    <3>4. events' = [events EXCEPT ![w] = events'[w]]
      BY <3>2, <1>5 DEF Die
    <3>5. events' \in [Worker -> Seq({"message", "error"})]
      BY <1>0, <3>3, <3>4 DEF TypeOK
    <3>6. /\ doing'[w] = None /\ thread'[w] = "dead"
          /\ \A v \in Worker \ {w} : /\ events'[v] = events[v] /\ doing'[v] = doing[v]
                                     /\ thread'[v] = thread[v]
      BY <1>0, <1>5 DEF Die, TypeOK
    <3> QED
      BY <2>1, <3>1, <3>2, <3>5, <3>6
  <2>3. UNCHANGED <<poolVars, up, closed, arrived, started, outcome>>
    BY <1>5 DEF Die
  <2>4. TypeOK'
    <3>1. /\ doing' \in [Worker -> Task \cup {None}]
          /\ thread' \in [Worker -> {"none", "live", "dead"}]
      BY <1>0, <1>5 DEF Die, TypeOK
    <3> QED
      BY <1>0, <2>2, <2>3, <3>1 DEF poolVars, TypeOK
  <2>5. FullStrength'
    BY <1>0, <2>3 DEF poolVars, FullStrength
  <2>6. ASSUME NEW v \in Worker  PROVE Threads(v)'
    BY <1>0, <2>1, <2>2, <2>3 DEF poolVars, Threads, Heard
  <2> QED
    BY <1>0, <2>3, <2>4, <2>5, <2>6 DEF poolVars, PoolInv
<1> QED
  BY <1>1, <1>2, <1>3, <1>4, <1>5, RunTaskKeeps, OnMessageKeeps, OnErrorKeeps DEF Next, Handle

LEMMA PoolInvHolds == Spec => []PoolInv
BY PoolInit, PoolStep, PTL DEF Spec

\* Types, and that a worker of the pool has a thread.
THEOREM TypeCorrect == Spec => []TypeOK
<1>1. PoolInv => TypeOK
  BY DEF PoolInv
<1> QED
  BY <1>1, PoolInvHolds, PTL

\* Every failed worker is replaced, and every worker of the pool is once in the
\* stack or has a task.
THEOREM PoolKeepsStrength == Spec => []FullStrength
<1>1. PoolInv => FullStrength
  BY DEF PoolInv
<1> QED
  BY <1>1, PoolInvHolds, PTL

(***************************************************************************)
(* The pool implements TaskService                                         *)
(***************************************************************************)

\* A call is given out once: it is with one worker, then has an outcome.
OnceInv ==
    /\ Distinct(arrived)
    /\ \A t \in Task : outcome[t] # "none" => t \in SeqSet(started)
    /\ \A w \in workers : info[w] # None =>
          info[w] \in SeqSet(started) /\ outcome[info[w]] = "none"
    /\ \A v, w \in workers : info[v] = info[w] /\ info[v] # None => v = w

ServiceInv == PoolInv /\ InOrderInv /\ OnceInv

LEMMA AppendSet ==
    ASSUME NEW S, NEW s \in Seq(S), NEW x \in S
    PROVE  /\ SeqSet(Append(s, x)) = SeqSet(s) \cup {x}
           /\ Distinct(s) /\ x \notin SeqSet(s) => Distinct(Append(s, x))
<1> DEFINE t == Append(s, x)
<1>1. /\ Len(s) \in Nat /\ Len(t) = Len(s) + 1 /\ t[Len(s) + 1] = x
      /\ \A i \in 1..Len(s) : t[i] = s[i]
  OBVIOUS
<1> HIDE DEF t
<1>2. SeqSet(t) = SeqSet(s) \cup {x}
  BY <1>1 DEF SeqSet
<1>3. ASSUME Distinct(s), x \notin SeqSet(s), NEW i \in 1..Len(t), NEW j \in 1..Len(t), t[i] = t[j]
      PROVE  i = j
  BY <1>1, <1>3 DEF SeqSet, Distinct
<1> QED
  BY <1>2, <1>3 DEF t, Distinct

\* The calls that wait came after those that were given out, and are others.
LEMMA WaitingApart ==
    ASSUME NEW S, NEW s \in Seq(S), NEW t \in Seq(S), Distinct(s \o t)
    PROVE  /\ SeqSet(s \o t) = SeqSet(s) \cup SeqSet(t)
           /\ \A x \in SeqSet(t) : x \notin SeqSet(s)
<1> DEFINE u == s \o t
<1>1. /\ Len(s) \in Nat /\ Len(t) \in Nat /\ Len(u) = Len(s) + Len(t)
      /\ \A i \in 1..Len(s) : u[i] = s[i]
      /\ \A i \in 1..Len(t) : u[Len(s) + i] = t[i] /\ Len(s) + i \in 1..Len(u)
  OBVIOUS
<1> HIDE DEF u
<1>2. ASSUME NEW i \in 1..Len(u)  PROVE i \in 1..Len(s) \/ \E j \in 1..Len(t) : i = Len(s) + j
  <2>1. CASE i > Len(s)
    <3>1. i - Len(s) \in 1..Len(t) /\ i = Len(s) + (i - Len(s))
      BY <1>1, <2>1
    <3> QED
      BY <3>1
  <2> QED
    BY <1>1, <2>1
<1>3. \A i \in 1..Len(s) : i \in 1..Len(u)
  BY <1>1
<1>4. SeqSet(u) = SeqSet(s) \cup SeqSet(t)
  <2>1. ASSUME NEW x \in SeqSet(u)  PROVE x \in SeqSet(s) \cup SeqSet(t)
    <3>1. PICK i \in 1..Len(u) : u[i] = x
      BY <2>1 DEF SeqSet
    <3>2. CASE i \in 1..Len(s)
      BY <1>1, <3>1, <3>2 DEF SeqSet
    <3>3. CASE \E j \in 1..Len(t) : i = Len(s) + j
      BY <1>1, <3>1, <3>3 DEF SeqSet
    <3> QED
      BY <1>2, <3>2, <3>3
  <2>2. ASSUME NEW x \in SeqSet(s)  PROVE x \in SeqSet(u)
    BY <1>1, <1>3 DEF SeqSet
  <2>3. ASSUME NEW x \in SeqSet(t)  PROVE x \in SeqSet(u)
    BY <1>1 DEF SeqSet
  <2> QED
    BY <2>1, <2>2, <2>3
<1>5. ASSUME NEW x \in SeqSet(t)  PROVE x \notin SeqSet(s)
  <2> SUFFICES ASSUME NEW i \in 1..Len(s), s[i] = x  PROVE FALSE
    BY DEF SeqSet
  <2>1. PICK j \in 1..Len(t) : t[j] = x
    BY DEF SeqSet
  <2>2. u[i] = u[Len(s) + j] /\ i \in 1..Len(u) /\ Len(s) + j \in 1..Len(u)
    BY <1>1, <1>3, <2>1
  <2>3. i = Len(s) + j
    BY <2>2 DEF Distinct, u
  <2> QED
    BY <1>1, <2>3
<1> QED
  BY <1>4, <1>5 DEF u

\* As many calls are served as workers are not in the stack.
LEMMA RunningCount ==
    ASSUME ServiceInv
    PROVE  /\ free = <<>> => Cardinality(Running) = NumThreads
           /\ free # <<>> => Cardinality(Running) < NumThreads
<1> DEFINE Busy == {w \in workers : info[w] # None}
           f == [w \in Busy |-> info[w]]
<1>1. IsFiniteSet(workers) /\ Cardinality(workers) = NumThreads
  BY DEF ServiceInv, PoolInv, FullStrength
<1>2. IsFiniteSet(Busy) /\ Cardinality(Running) = Cardinality(Busy)
  <2>1. f \in Bijection(Busy, Running)
    <3>1. f \in [Busy -> Running]
      BY DEF Running
    <3>2. \A v, w \in Busy : f[v] = f[w] => v = w
      BY DEF ServiceInv, OnceInv
    <3>3. \A t \in Running : \E w \in Busy : f[w] = t
      BY DEF Running
    <3> QED
      BY <3>1, <3>2, <3>3 DEF Bijection, Injection, Surjection, IsInjective
  <2>2. IsFiniteSet(Busy)
    BY <1>1, FS_Subset
  <2>3. ExistsBijection(Busy, Running)
    BY <2>1 DEF ExistsBijection
  <2> QED
    BY <2>2, <2>3, FS_Bijection
<1>3. \A w \in workers : w \in SeqSet(free) <=> info[w] = None
  BY DEF ServiceInv, PoolInv, FullStrength
<1>4. CASE free = <<>>
  <2>1. SeqSet(free) = {}
    BY <1>4 DEF SeqSet
  <2>2. Busy = workers
    BY <1>3, <2>1
  <2> QED
    BY <1>1, <1>2, <1>4, <2>2
<1>5. CASE free # <<>>
  <2>1. free[1] \in workers /\ free[1] \in SeqSet(free)
    <3>1. free \in Seq(workers)
      BY DEF ServiceInv, PoolInv, TypeOK
    <3>2. 1 \in 1..Len(free)
      BY <1>5, <3>1
    <3> QED
      BY <3>1, <3>2 DEF SeqSet
  <2>2. Busy \subseteq workers /\ Busy # workers
    BY <1>3, <2>1
  <2>3. /\ Cardinality(Busy) \in Nat /\ Cardinality(workers) \in Nat
        /\ Cardinality(Busy) <= Cardinality(workers)
        /\ Cardinality(Busy) # Cardinality(workers)
    BY <1>1, <1>2, <2>2, FS_Subset, FS_CardinalityType
  <2> QED
    BY <1>1, <1>2, <1>5, <2>3
<1> QED
  BY <1>4, <1>5

\* A worker w that has a call is freed, or n comes in its place: the call ends,
\* and the one that waited longest is served.
LEMMA FreedServes ==
    ASSUME ServiceInv, NEW w \in workers, info[w] # None, NEW n \in Worker,
           n = w \/ n \notin workers, workers' = (workers \ {w}) \cup {n},
           NEW how \in {"done", "failed"}, outcome' = [outcome EXCEPT ![info[w]] = how],
           NEW live, Freed(n, live), UNCHANGED arrived
    PROVE  OnceInv' /\ Service!End(info[w])
<1>0. /\ TypeOK /\ tasks \in Seq(Task) /\ started \in Seq(Task) /\ arrived = started \o tasks
      /\ OnceInv
  BY DEF ServiceInv, PoolInv, InOrderInv, RunInOrder
<1>1. PICK t : t = info[w]
  OBVIOUS
<1>2. t \in Task /\ w \in Worker
  BY <1>0, <1>1 DEF TypeOK
<1>3. /\ SeqSet(started \o tasks) = SeqSet(started) \cup SeqSet(tasks)
      /\ \A x \in SeqSet(tasks) : x \notin SeqSet(started)
  BY <1>0, WaitingApart DEF OnceInv
\* The next call, or none.
<1>4. PICK m : m = info'[n]
  OBVIOUS
<1>5. /\ info' = [info EXCEPT ![n] = m]
      /\ \/ tasks = <<>> /\ m = None /\ UNCHANGED <<tasks, started>>
         \/ /\ tasks # <<>> /\ m = Head(tasks) /\ m \in Task /\ m \in SeqSet(tasks)
            /\ tasks' = Tail(tasks) /\ started' = Append(started, m)
  <2>1. CASE tasks = <<>>
    <3>1. info' = [info EXCEPT ![n] = None] /\ UNCHANGED <<tasks, started>>
      BY <2>1 DEF Freed
    <3> QED
      BY <1>0, <1>4, <2>1, <3>1 DEF TypeOK
  <2>2. CASE tasks # <<>>
    <3>1. info' = [info EXCEPT ![n] = Head(tasks)] /\ tasks' = Tail(tasks)
          /\ started' = Append(started, Head(tasks))
      BY <2>2 DEF Freed, Give
    <3>2. Head(tasks) \in Task /\ Head(tasks) = tasks[1] /\ 1 \in 1..Len(tasks)
      BY <1>0, <2>2
    <3>3. m = Head(tasks)
      BY <1>0, <1>4, <3>1 DEF TypeOK
    <3> QED
      BY <2>2, <3>1, <3>2, <3>3 DEF SeqSet
  <2> QED
    BY <2>1, <2>2
<1>6. /\ m # None => m \in Task /\ m \notin SeqSet(started) /\ m # t /\ outcome[m] = "none"
      /\ SeqSet(started') = SeqSet(started) \cup ({m} \ {None})
  <2>1. CASE m = None
    <3>1. started' = started
      BY <1>5, <2>1, NoneAssumption
    <3> QED
      BY <2>1, <3>1
  <2>2. CASE m # None
    <3>1. m \in Task /\ m \in SeqSet(tasks) /\ started' = Append(started, m)
      BY <1>5, <2>2
    <3>2. m \notin SeqSet(started) /\ SeqSet(started') = SeqSet(started) \cup {m}
      BY <1>0, <1>3, <3>1, AppendSet
    <3>3. m # t /\ outcome[m] = "none"
      BY <1>0, <1>1, <3>1, <3>2 DEF OnceInv, TypeOK
    <3> QED
      BY <2>2, <3>1, <3>2, <3>3
  <2> QED
    BY <2>1, <2>2
<1>7. /\ info'[n] = m /\ n \in workers' /\ \A v \in workers' \ {n} : v \in workers \ {w} /\ info'[v] = info[v]
      /\ \A v \in workers \ {w} : v \in workers' /\ v # n
  BY <1>0, <1>5 DEF TypeOK
<1>8. /\ outcome'[t] = how /\ \A x \in Task \ {t} : outcome'[x] = outcome[x]
      /\ t \in SeqSet(started) /\ \A v \in workers \ {w} : info[v] # t
  BY <1>0, <1>1, <1>2 DEF TypeOK, OnceInv
<1>9. OnceInv'
  <2>1. Distinct(arrived)'
    BY <1>0 DEF OnceInv, Distinct
  <2>2. \A x \in Task : outcome'[x] # "none" => x \in SeqSet(started')
    BY <1>0, <1>6, <1>8 DEF OnceInv
  <2>3. ASSUME NEW v \in workers', info'[v] # None
        PROVE  info'[v] \in SeqSet(started') /\ outcome'[info'[v]] = "none"
    <3>1. CASE v = n
      BY <1>6, <1>7, <1>8, <2>3, <3>1
    <3>2. CASE v # n
      <4>1. v \in workers \ {w} /\ info'[v] = info[v] /\ info[v] \in Task
        BY <1>0, <1>7, <2>3, <3>2 DEF TypeOK
      <4> QED
        BY <1>0, <1>6, <1>8, <2>3, <4>1 DEF OnceInv
    <3> QED
      BY <3>1, <3>2
  <2>4. ASSUME NEW v \in workers', NEW x \in workers', info'[v] = info'[x], info'[v] # None
        PROVE  v = x
    <3>1. \A y \in workers' \ {n} : info'[y] # m \/ m = None
      BY <1>0, <1>6, <1>7 DEF OnceInv
    <3> QED
      BY <1>0, <1>7, <2>4, <3>1 DEF OnceInv
  <2> QED
    BY <2>1, <2>2, <2>3, <2>4 DEF OnceInv
<1>10. /\ t \in Running
       /\ Running' = (Running \ {t}) \cup ({m} \ {None})
  <2>1. t \in Running
    BY <1>1 DEF Running
  <2>2. ASSUME NEW x \in Running'  PROVE x \in (Running \ {t}) \cup ({m} \ {None})
    <3>1. PICK v \in workers' : x = info'[v] /\ x # None
      BY <2>2 DEF Running
    <3> QED
      BY <1>7, <1>8, <3>1 DEF Running
  <2>3. ASSUME NEW x \in (Running \ {t}) \cup ({m} \ {None})  PROVE x \in Running'
    <3>1. CASE x = m /\ m # None
      BY <1>7, <3>1 DEF Running
    <3>2. CASE x \in Running \ {t}
      <4>1. PICK v \in workers : x = info[v] /\ x # None
        BY <3>2 DEF Running
      <4>2. v # w
        BY <1>1, <3>2, <4>1
      <4> QED
        BY <1>7, <4>1, <4>2 DEF Running
    <3> QED
      BY <2>3, <3>1, <3>2
  <2> QED
    BY <2>1, <2>2, <2>3
<1>11. Service!End(t)
  <2>1. CASE tasks = <<>>
    <3>1. Running' = Running \ {t} /\ UNCHANGED tasks
      BY <1>5, <1>10, <2>1
    <3> QED
      BY <1>1, <1>10, <2>1, <3>1 DEF Service!End
  <2>2. CASE tasks # <<>>
    <3>1. Running' = (Running \ {t}) \cup {Head(tasks)} /\ tasks' = Tail(tasks)
      BY <1>5, <1>10, <2>2, NoneAssumption
    <3> QED
      BY <1>1, <1>10, <2>2, <3>1 DEF Service!End
  <2> QED
    BY <2>1, <2>2
<1> QED
  BY <1>1, <1>9, <1>11

LEMMA SameCardinality == \A S : Service!Cardinality(S) = Cardinality(S)
BY DEF Service!Cardinality, Cardinality

\* A step of the service, or none.
ServiceStep == \/ Service!Next
               \/ UNCHANGED <<tasks, Running, outcome>>

LEMMA RunTaskServes ==
    ASSUME ServiceInv, NEW t \in Task, RunTask(t)
    PROVE  OnceInv' /\ ServiceStep
<1>0. /\ TypeOK /\ tasks \in Seq(Task) /\ started \in Seq(Task) /\ arrived = started \o tasks
      /\ OnceInv /\ FullStrength
  BY DEF ServiceInv, PoolInv, InOrderInv, RunInOrder
<1>1. /\ SeqSet(started \o tasks) = SeqSet(started) \cup SeqSet(tasks)
      /\ arrived' = Append(arrived, t) /\ t \notin SeqSet(arrived)
      /\ UNCHANGED <<workers, outcome>>
  BY <1>0, WaitingApart DEF OnceInv, RunTask
<1>2. t \notin SeqSet(started) /\ t \notin SeqSet(tasks) /\ t # None
  BY <1>0, <1>1, NoneAssumption
<1>3. Distinct(arrived)'
  <2>1. Distinct(Append(arrived, t))
    BY <1>0, <1>1, AppendSet DEF OnceInv, TypeOK
  <2> QED
    BY <1>1, <2>1 DEF Distinct
<1>4. Service!New(t)
  <2>1. t \notin Running /\ outcome[t] = "none"
    BY <1>0, <1>2 DEF OnceInv, Running
  <2>2. \A i \in 1..Len(tasks) : tasks[i] # t
    BY <1>2 DEF SeqSet
  <2> QED
    BY <2>1, <2>2 DEF Service!New
<1>5. CASE free = <<>>
  <2>1. tasks' = Append(tasks, t) /\ UNCHANGED <<info, started>>
    BY <1>5 DEF RunTask
  <2>2. OnceInv'
    BY <1>0, <1>1, <1>3, <2>1 DEF OnceInv
  <2>3. Running' = Running
    BY <1>1, <2>1 DEF Running
  <2>4. Service!Queue(t)
    <3>1. Cardinality(Running) = NumThreads
      BY <1>5, RunningCount
    <3> QED
      BY <1>1, <1>4, <2>1, <2>3, <3>1, SameCardinality DEF Service!Queue
  <2> QED
    BY <2>2, <2>4 DEF ServiceStep, Service!Next
<1>6. CASE free # <<>>
  <2>1. PICK w : w = free[Len(free)]
    OBVIOUS
  <2>2. /\ info' = [info EXCEPT ![w] = t] /\ started' = Append(started, t) /\ UNCHANGED tasks
    BY <1>6, <2>1 DEF RunTask, Give
  <2>3. w \in workers /\ w \in Worker /\ info[w] = None
    <3>1. Len(free) \in 1..Len(free) /\ free[Len(free)] \in workers
      BY <1>0, <1>6 DEF TypeOK
    <3>2. w \in SeqSet(free) /\ w \in workers
      BY <2>1, <3>1 DEF SeqSet
    <3> QED
      BY <1>0, <3>2 DEF FullStrength, TypeOK
  <2>4. info'[w] = t /\ \A v \in workers \ {w} : info'[v] = info[v]
    BY <1>0, <2>2, <2>3 DEF TypeOK
  <2>5. SeqSet(started') = SeqSet(started) \cup {t}
    BY <1>0, <2>2, AppendSet
  <2>6. outcome[t] = "none" /\ \A v \in workers : info[v] # t
    BY <1>0, <1>2 DEF OnceInv
  <2>7. OnceInv'
    <3>1. \A x \in Task : outcome'[x] # "none" => x \in SeqSet(started')
      BY <1>0, <1>1, <2>5 DEF OnceInv
    <3>2. \A v \in workers' : info'[v] # None =>
             info'[v] \in SeqSet(started') /\ outcome'[info'[v]] = "none"
      BY <1>0, <1>1, <2>4, <2>5, <2>6 DEF OnceInv
    <3>3. \A v, x \in workers' : info'[v] = info'[x] /\ info'[v] # None => v = x
      BY <1>0, <1>1, <2>4, <2>6 DEF OnceInv
    <3> QED
      BY <1>3, <3>1, <3>2, <3>3 DEF OnceInv
  <2>8. Running' = Running \cup {t}
    <3>1. ASSUME NEW x \in Running'  PROVE x \in Running \cup {t}
      BY <1>1, <2>4, <3>1 DEF Running
    <3>2. ASSUME NEW x \in Running \cup {t}  PROVE x \in Running'
      BY <1>1, <1>2, <2>3, <2>4, <3>2 DEF Running
    <3> QED
      BY <3>1, <3>2
  <2>9. Service!Serve(t)
    <3>1. Cardinality(Running) < NumThreads
      BY <1>6, RunningCount
    <3> QED
      BY <1>1, <1>4, <2>2, <2>8, <3>1, SameCardinality DEF Service!Serve
  <2> QED
    BY <2>7, <2>9 DEF ServiceStep, Service!Next
<1> QED
  BY <1>5, <1>6

LEMMA PoolServesStep ==
    ASSUME ServiceInv, [Next]_vars  PROVE OnceInv' /\ ServiceStep
<1>0. TypeOK /\ OnceInv /\ \A w \in Worker : Threads(w)
  BY DEF ServiceInv, PoolInv
<1>1. CASE UNCHANGED <<tasks, workers, info, arrived, started, outcome>>
  BY <1>0, <1>1 DEF OnceInv, Distinct, ServiceStep, Running
<1>2. ASSUME NEW w \in Worker, OnMessage(w)  PROVE OnceInv' /\ ServiceStep
  <2>1. w \in workers /\ info[w] # None
    BY <1>0, <1>2 DEF OnMessage, Threads
  <2>2. /\ workers' = (workers \ {w}) \cup {w} /\ UNCHANGED arrived
        /\ outcome' = [outcome EXCEPT ![info[w]] = "done"]
        /\ Freed(w, thread[w] = "live")
    BY <1>2, <2>1 DEF OnMessage
  <2>3. OnceInv' /\ Service!End(info[w])
    BY <2>1, <2>2, FreedServes
  <2>4. info[w] \in Task
    BY <1>0, <2>1 DEF TypeOK
  <2> QED
    BY <2>3, <2>4 DEF ServiceStep, Service!Next
<1>3. ASSUME NEW w \in Worker, OnError(w)  PROVE OnceInv' /\ ServiceStep
  <2>1. w \in workers /\ info[w] # None
    BY <1>0, <1>3 DEF OnError, Threads
  <2>2. PICK n \in Worker : /\ thread[n] = "none" /\ workers' = (workers \ {w}) \cup {n}
                           /\ Freed(n, TRUE)
    BY <1>3 DEF OnError
  <2>3. n \notin workers
    BY <1>0, <2>2 DEF TypeOK
  <2>4. outcome' = [outcome EXCEPT ![info[w]] = "failed"] /\ UNCHANGED arrived
    BY <1>3 DEF OnError
  <2>5. OnceInv' /\ Service!End(info[w])
    BY <2>1, <2>2, <2>3, <2>4, FreedServes
  <2>6. info[w] \in Task
    BY <1>0, <2>1 DEF TypeOK
  <2> QED
    BY <2>5, <2>6 DEF ServiceStep, Service!Next
<1>4. ASSUME NEW w \in Worker, OnIdleError(w) \/ Work(w) \/ Die(w)  PROVE OnceInv' /\ ServiceStep
  BY <1>1, <1>4 DEF OnIdleError, Work, Die, poolVars, historyVars
<1>5. CASE Close
  BY <1>1, <1>5 DEF Close, poolVars, historyVars
<1>6. CASE UNCHANGED vars
  BY <1>1, <1>6 DEF vars
<1> QED
  BY <1>2, <1>3, <1>4, <1>5, <1>6, RunTaskServes DEF Next, Handle

\* The pool implements the service: for any number of calls and threads, and
\* whatever fails, calls are served in order, as many at a time as the pool has
\* threads, by one worker each, and end once.
THEOREM PoolServesCalls == Spec => ServesCalls
<1>1. Init => InOrderInv
  BY DEF Init, InOrderInv, NoIdleWhileWaiting, RunInOrder
<1>2. Init => OnceInv /\ Service!Init
  <2> SUFFICES ASSUME Init  PROVE OnceInv /\ Service!Init
    OBVIOUS
  <2>1. workers \subseteq Worker
    BY PoolInit DEF PoolInv, TypeOK
  <2>2. tasks = <<>> /\ arrived = <<>> /\ info = [w \in Worker |-> None]
        /\ outcome = [t \in Task |-> "none"]
    BY DEF Init
  <2>3. Running = {}
    BY <2>1, <2>2 DEF Running
  <2> QED
    BY <2>1, <2>2, <2>3 DEF OnceInv, Distinct, Service!Init
<1>3. ServiceInv /\ [Next]_vars => ServiceInv' /\ ServiceStep
  BY PoolStep, InOrderStep, PoolServesStep DEF ServiceInv
<1>4. ServiceStep => [Service!Next]_(<<tasks, Running, outcome>>)
  BY DEF ServiceStep
<1> QED
  BY <1>1, <1>2, <1>3, <1>4, PoolInit, PTL DEF Spec, ServiceInv, ServesCalls, Service!Spec
=============================================================================
