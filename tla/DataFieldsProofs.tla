-------------------------- MODULE DataFieldsProofs --------------------------
(***************************************************************************)
(* Proofs about DataFields: its types, that what users decide about a row  *)
(* and what a config save cleaned up comes back only with a row written    *)
(* from outdated knowledge, or a class that a request names, that the      *)
(* endpoint outgrows its limit only with outdated rows, and that an        *)
(* analysis fails on the unique keys only if others wrote rows meanwhile.  *)
(***************************************************************************)
EXTENDS DataFields, FiniteSetTheorems, TLAPS

(***************************************************************************)
(* The inductive invariant                                                 *)
(***************************************************************************)

SameLists(w, r) == /\ w.classes = r.classes /\ w.false = r.false

\* An analyzer holds the rows it is going to write.
Analyzing == {"classes", "commit"}

\* What the row w in the memory of x has to do with the row r of the table,
\* as long as no other wrote it; a user may name any classes.
Current(x, w, r) ==
    CASE pc[x] = "write" /\ x \in Request -> TRUE
      [] pc[x] = "write" /\ x \in Save -> /\ w.classes = r.classes \ known[x]
                                          /\ w.false = r.false \ known[x]
      [] OTHER -> SameLists(w, r)

HeldUnique(x) == \A v, w \in held[x] :
    v.key = w.key \/ (v.id = w.id /\ v.id # None) => v = w

\* A row in memory that is not new is in the table, if no other wrote since.
HeldCurrent(x) == \A w \in held[x] :
    IF w.id = None THEN x \in Analyzer /\ w.classes = {} /\ w.false = {}
    ELSE w.id \in behind[x] \/ \E r \in rows : r.id = w.id /\ Current(x, w, r)

\* Another row with the key of one in memory has been written since.
HeldKeys(x) == pc[x] \in Analyzing =>
    \A w \in held[x], r \in rows : r.key = w.key /\ r.id # w.id => r.id \in behind[x]

Memory(x) ==
    /\ pc[x] \notin Holding => held[x] = {}
    /\ pc[x] \in Analyzing => x \in Analyzer
    /\ \A w \in held[x] : w.classes \cap w.false = {}
    /\ HeldUnique(x) /\ HeldCurrent(x) /\ HeldKeys(x)

\* What was ruled out for a row is in its list, what was cleaned up is not.
Decided ==
    /\ \A p \in ruledOut : p[1] \in Ids(rows) \cup removed
    /\ \A r \in rows : r.classes \cap r.false = {}
    /\ \A r \in rows : r.id \notin outdated =>
        \A c \in Class : <<r.id, c>> \in ruledOut => c \in r.false
    /\ RemovedStaysRemoved

\* Between the read and the write of a cleanup a row gets the class back only
\* if a user names it.
Cleaned ==
    /\ dropped \cap config = {}
    /\ \A s \in Save : known[s] \cap config = {}
    /\ DroppedStaysDropped
    /\ \A s \in Save : \A w \in held[s] : w.classes \cap known[s] = {}
    /\ \A s \in Save : pc[s] = "write" =>
        \A r \in rows : r.id \notin outdated /\ r.id \notin Ids(held[s]) =>
            NamedOnly(r, known[s])

MemoryInv == \A x \in Actor : Memory(x)
FieldsInv == TypeOK /\ MemoryInv /\ Decided /\ Cleaned

(***************************************************************************)
(* Rows                                                                    *)
(***************************************************************************)

LEMMA RowFields == ASSUME NEW r \in Row
    PROVE /\ r.id \in Id \cup {None} /\ r.key \in Key /\ r.classes \subseteq Class
          /\ r.identified \subseteq Class /\ r.false \subseteq Class
BY DEF Row

LEMMA RowId == ASSUME NEW r \in Row, NEW i \in Id \cup {None}
    PROVE LET q == [r EXCEPT !.id = i]
          IN q \in Row /\ q.id = i /\ q.key = r.key /\ SameLists(q, r)
BY DEF Row, SameLists

LEMMA RowKey == ASSUME NEW r \in Row, NEW k \in Key
    PROVE LET q == [r EXCEPT !.key = k]
          IN q \in Row /\ q.id = r.id /\ q.key = k /\ SameLists(q, r)
BY DEF Row, SameLists

LEMMA RowLists == ASSUME NEW r \in Row, NEW A \in SUBSET Class, NEW B \in SUBSET Class,
                         NEW C \in SUBSET Class
    PROVE /\ LET q == [r EXCEPT !.classes = A, !.identified = B, !.false = C]
             IN q \in Row /\ q.id = r.id /\ q.key = r.key /\ q.classes = A /\ q.false = C
          /\ LET q == [r EXCEPT !.classes = A, !.false = C]
             IN q \in Row /\ q.id = r.id /\ q.key = r.key /\ q.classes = A /\ q.false = C
BY DEF Row

LEMMA NewRow == ASSUME NEW k \in Key
    PROVE /\ New(k) \in Row /\ New(k).id = None /\ New(k).key = k
          /\ New(k).classes = {} /\ New(k).false = {}
BY DEF New, Row

LEMMA HighestType == ASSUME NEW D \in SUBSET Class  PROVE Highest(D) \in RiskScore
<1> DEFINE S == {0} \cup {Severity[c] : c \in D}
<1>1. S \subseteq 0..3 /\ 0 \in S
  BY ClassAssumption DEF RiskScore
<1> HIDE DEF S
<1>2. \E x \in S : \A y \in S : x >= y
  <2>1. CASE 3 \in S  BY <1>1, <2>1
  <2>2. CASE 3 \notin S /\ 2 \in S  BY <1>1, <2>2
  <2>3. CASE 3 \notin S /\ 2 \notin S /\ 1 \in S  BY <1>1, <2>3
  <2>4. CASE 3 \notin S /\ 2 \notin S /\ 1 \notin S  BY <1>1, <2>4
  <2> QED BY <2>1, <2>2, <2>3, <2>4
<1>3. Max(S) \in S
  BY <1>2 DEF Max
<1> QED
  BY <1>1, <1>3 DEF Highest, S, RiskScore

LEMMA RiskType == ASSUME NEW R, NEW C \in SUBSET Class
    PROVE RiskOf(R, C) \in RiskScore
BY HighestType DEF RiskOf

LEMMA FieldsInvInit == Init => FieldsInv
<1> SUFFICES ASSUME Init PROVE FieldsInv
  OBVIOUS
<1>1. risk \in RiskScore
  BY RiskType DEF Init
<1>2. TypeOK
  BY <1>1, EarlierAssumption DEF Init, TypeOK, RiskScore
<1>3. MemoryInv
  BY DEF Init, MemoryInv, Memory, HeldUnique, HeldCurrent, HeldKeys, Analyzing
<1>4. Decided /\ Cleaned
  BY EarlierAssumption
     DEF Init, Decided, Cleaned, RemovedStaysRemoved, DroppedStaysDropped, NamedOnly, Actor
<1> QED
  BY <1>2, <1>3, <1>4 DEF FieldsInv

(***************************************************************************)
(* Writes                                                                  *)
(***************************************************************************)

\* A row that an actor writes over what others wrote since is outdated.
LEMMA Overwritten ==
    ASSUME NEW x \in Actor, NEW R, NEW C, Table(x, R, C), NEW q \in R,
           q.id \in behind[x]
    PROVE  q \in rows \/ q.id \in outdated'
BY DEF Table, Ids

LEMMA MoreOutdated ==
    ASSUME NEW x, NEW R, NEW C, Table(x, R, C)  PROVE outdated \subseteq outdated'
BY DEF Table

\* What others remember stays true of the table.
LEMMA OthersRemember ==
    ASSUME FieldsInv, NEW x \in Actor, NEW R \in SUBSET Row, NEW C, Table(x, R, C),
           NEW y \in Actor, y # x, held'[y] = held[y], known'[y] = known[y],
           pc'[y] = pc[y]
    PROVE  Memory(y)'
<1>0. Memory(y) /\ rows' = R
  BY DEF FieldsInv, MemoryInv, Table
<1>1. pc[y] \in Holding => behind'[y] = behind[y] \cup Ids(R \ rows) \cup Ids(rows \ R)
  BY DEF Table
<1>2. \A r, w : Current(y, w, r)' <=> Current(y, w, r)
  BY DEF Current, SameLists
<1>3. CASE pc[y] \notin Holding
  BY <1>0, <1>3 DEF Memory, HeldUnique, HeldCurrent, HeldKeys, Holding, Analyzing
<1>4. CASE pc[y] \in Holding
  <2>1. HeldUnique(y)'
    BY <1>0 DEF Memory, HeldUnique
  <2>2. HeldCurrent(y)'
    <3> SUFFICES ASSUME NEW w \in held[y], w.id # None, w.id \notin behind'[y]
                 PROVE  \E r \in R : r.id = w.id /\ Current(y, w, r)
      BY <1>0, <1>2 DEF Memory, HeldCurrent
    <3>1. PICK r \in rows : r.id = w.id /\ Current(y, w, r)
      BY <1>0, <1>1, <1>4 DEF Memory, HeldCurrent
    <3>2. r \in R
      BY <1>1, <1>4, <3>1 DEF Ids
    <3> QED
      BY <3>1, <3>2
  <2>3. HeldKeys(y)'
    <3> SUFFICES ASSUME pc[y] \in Analyzing, NEW w \in held[y], NEW r \in R,
                        r.key = w.key, r.id # w.id
                 PROVE  r.id \in behind'[y]
      BY <1>0 DEF HeldKeys
    <3>1. CASE r \in rows
      BY <1>0, <1>1, <1>4, <3>1 DEF Memory, HeldKeys
    <3>2. CASE r \notin rows
      BY <1>1, <1>4, <3>2 DEF Ids
    <3> QED
      BY <3>1, <3>2
  <2> QED
    BY <1>0, <1>4, <2>1, <2>2, <2>3 DEF Memory
<1> QED
  BY <1>3, <1>4

\* An actor that returns remembers nothing.
LEMMA Forgotten ==
    ASSUME NEW x \in Actor, TypeOK, Forget(x), pc'[x] \notin Holding
    PROVE  Memory(x)'
BY DEF Forget, TypeOK, Memory, HeldUnique, HeldCurrent, HeldKeys, Holding, Analyzing

(***************************************************************************)
(* What an analyzer writes                                                 *)
(***************************************************************************)

\* The rows of a table that may still have rows without a uuid.
Distinct(R) == \A v, w \in R :
    v.key = w.key \/ (v.id = w.id /\ v.id # None) => v = w

\* A row is as it was, holds what the analyzer remembers of it, is new, or was
\* written by others since the analyzer read it.
Origin(a, q) ==
    \/ q \in rows
    \/ q.id \in behind[a]
    \/ q.id = None /\ q.classes = {} /\ q.false = {}
    \/ \E r \in rows : r.id = q.id /\ SameLists(q, r)

Upserted(a) == IF SecondTry(held[a]) THEN UpsertById(held[a])
                                     ELSE UpsertByKey(held[a])

LEMMA HeldOrigin ==
    ASSUME FieldsInv, NEW a \in Analyzer, pc[a] = "commit", NEW w \in held[a]
    PROVE  w \in Row /\ Origin(a, w)
<1>1. a \in Actor /\ Memory(a) /\ w \in Row
  BY DEF FieldsInv, MemoryInv, Actor, TypeOK
<1> QED
  BY <1>1 DEF Memory, HeldCurrent, Current, Origin

\* Overwriting by key.
LEMMA ByKey ==
    ASSUME FieldsInv, NEW a \in Analyzer, pc[a] = "commit", ~SecondTry(held[a])
    PROVE  LET R == UpsertByKey(held[a])
           IN /\ R \subseteq Row /\ Distinct(R) /\ Ids(rows) \subseteq Ids(R)
              /\ \A q \in R : /\ Origin(a, q) /\ q.classes \cap q.false = {}
                              /\ q.id # None => q.id \in Ids(rows) \cup Ids(held[a])
<1> DEFINE W == held[a]
           Old(w) == CHOOSE r \in rows : r.key = w.key
           Put(w) == IF \E r \in rows : r.key = w.key
                     THEN [w EXCEPT !.id = Old(w).id] ELSE w
           Rest == {r \in rows : \A w \in W : w.key # r.key}
           R == Rest \cup {Put(w) : w \in W}
<1>0. /\ a \in Actor /\ Memory(a) /\ W \subseteq Row /\ rows \subseteq Row
      /\ Unique(rows) /\ None \notin Ids(rows) /\ \A r \in rows : r.classes \cap r.false = {}
  BY DEF FieldsInv, MemoryInv, Actor, TypeOK, Decided
<1>1. ASSUME NEW w \in W, NEW r \in rows, r.key = w.key
      PROVE  Put(w) \in Row /\ Put(w).id = r.id /\ Put(w).key = w.key /\ SameLists(Put(w), w)
  <2>1. Old(w) \in rows /\ Old(w).key = w.key
    BY <1>1
  <2>2. Old(w) = r
    BY <1>0, <1>1, <2>1 DEF Unique
  <2>3. r.id \in Id \cup {None} /\ w \in Row
    BY <1>0, RowFields
  <2>4. Put(w) = [w EXCEPT !.id = r.id]
    BY <1>1, <2>2
  <2> HIDE DEF Put
  <2> QED
    BY <2>3, <2>4, RowId
<1>2. ASSUME NEW w \in W, \A r \in rows : r.key # w.key
      PROVE  /\ Put(w) = w
             /\ w.id \notin Ids(rows)
  BY <1>2 DEF SecondTry
<1>3. ASSUME NEW w \in W
      PROVE  Put(w) \in Row /\ Put(w).key = w.key /\ SameLists(Put(w), w)
  BY <1>0, <1>1, <1>2 DEF SameLists
<1> HIDE DEF Put, Rest, Old
<1>4. ASSUME NEW v \in W, NEW w \in W, Put(v).id = Put(w).id, Put(v).id # None
      PROVE  v = w
  <2>1. CASE \E r \in rows : r.key = v.key
    <3>1. PICK r \in rows : r.key = v.key
      BY <2>1
    <3>2. Put(v).id = r.id
      BY <1>1, <3>1
    <3>3. CASE \E s \in rows : s.key = w.key
      <4>1. PICK s \in rows : s.key = w.key
        BY <3>3
      <4>2. Put(w).id = s.id
        BY <1>1, <4>1
      <4>3. s = r
        BY <1>0, <1>4, <3>2, <4>2 DEF Unique
      <4> QED
        BY <1>0, <3>1, <4>1, <4>3 DEF Memory, HeldUnique
    <3>4. CASE \A s \in rows : s.key # w.key
      <4>1. Put(w).id = w.id /\ w.id \notin Ids(rows)
        BY <1>2, <3>4
      <4> QED
        BY <1>4, <3>2, <4>1 DEF Ids
    <3> QED
      BY <3>3, <3>4
  <2>2. CASE \A r \in rows : r.key # v.key
    <3>1. Put(v) = v /\ v.id \notin Ids(rows)
      BY <1>2, <2>2
    <3>2. CASE \E s \in rows : s.key = w.key
      BY <1>1, <1>4, <3>1, <3>2 DEF Ids
    <3>3. CASE \A s \in rows : s.key # w.key
      BY <1>0, <1>2, <1>4, <3>1, <3>3 DEF Memory, HeldUnique
    <3> QED
      BY <3>2, <3>3
  <2> QED
    BY <2>1, <2>2
<1>5. ASSUME NEW r \in Rest, NEW w \in W  PROVE r.id # Put(w).id /\ r.key # Put(w).key
  <2>1. r \in rows /\ r.key # w.key
    BY DEF Rest
  <2>2. CASE \E s \in rows : s.key = w.key
    BY <1>0, <1>1, <1>3, <2>1, <2>2 DEF Unique
  <2>3. CASE \A s \in rows : s.key # w.key
    BY <1>2, <1>3, <2>1, <2>3 DEF Ids
  <2> QED
    BY <2>2, <2>3
<1>6. R \subseteq Row
  BY <1>0, <1>3 DEF Rest
<1>7. Distinct(R)
  <2> SUFFICES ASSUME NEW p \in R, NEW q \in R, p.key = q.key \/ (p.id = q.id /\ p.id # None)
               PROVE  p = q
    BY DEF Distinct
  <2>1. CASE p \in Rest /\ q \in Rest
    BY <1>0, <2>1 DEF Rest, Unique
  <2>2. CASE p \in Rest /\ q \notin Rest
    BY <1>5, <2>2
  <2>3. CASE p \notin Rest /\ q \in Rest
    BY <1>5, <2>3
  <2>4. CASE p \notin Rest /\ q \notin Rest
    <3>1. PICK v \in W : p = Put(v)
      BY <2>4
    <3>2. PICK w \in W : q = Put(w)
      BY <2>4
    <3>3. v = w
      BY <1>0, <1>3, <1>4, <3>1, <3>2 DEF Memory, HeldUnique
    <3> QED
      BY <3>1, <3>2, <3>3
  <2> QED
    BY <2>1, <2>2, <2>3, <2>4
<1>8. Ids(rows) \subseteq Ids(R)
  <2> SUFFICES ASSUME NEW r \in rows  PROVE \E q \in R : q.id = r.id
    BY DEF Ids
  <2>1. CASE r \in Rest
    BY <2>1
  <2>2. CASE r \notin Rest
    BY <1>1, <2>2 DEF Rest
  <2> QED
    BY <2>1, <2>2
<1>9. ASSUME NEW q \in R
      PROVE  /\ Origin(a, q) /\ q.classes \cap q.false = {}
             /\ q.id # None => q.id \in Ids(rows) \cup Ids(W)
  <2>1. CASE q \in Rest
    BY <1>0, <2>1 DEF Rest, Origin, Ids
  <2>2. ASSUME NEW w \in W, q = Put(w)
        PROVE  /\ Origin(a, q) /\ q.classes \cap q.false = {}
               /\ q.id # None => q.id \in Ids(rows) \cup Ids(W)
    <3>1. q.classes \cap q.false = {}
      BY <1>0, <1>3, <2>2 DEF Memory, SameLists
    <3>2. Origin(a, w)
      BY HeldOrigin
    <3>3. CASE \A r \in rows : r.key # w.key
      BY <1>2, <2>2, <3>1, <3>2, <3>3 DEF Ids
    <3>4. CASE \E r \in rows : r.key = w.key
      <4>1. PICK r \in rows : r.key = w.key
        BY <3>4
      <4>2. q.id = r.id /\ SameLists(q, w)
        BY <1>1, <2>2, <4>1
      <4>3. CASE w.id # r.id
        BY <1>0, <3>1, <4>1, <4>2, <4>3 DEF Memory, HeldKeys, Analyzing, Origin, Ids
      <4>4. CASE w.id = r.id
        <5>1. Origin(a, q)
          <6>1. CASE w \in rows
            BY <4>2, <4>4, <6>1 DEF Origin
          <6>2. CASE w.id \in behind[a] \/ w.id = None
            BY <1>0, <4>1, <4>2, <4>4, <6>2 DEF Origin, Ids
          <6>3. ASSUME NEW s \in rows, s.id = w.id, SameLists(w, s)
                PROVE  Origin(a, q)
            BY <4>2, <4>4, <6>3 DEF Origin, SameLists
          <6> QED
            BY <3>2, <6>1, <6>2, <6>3 DEF Origin
        <5> QED
          BY <3>1, <4>1, <4>2, <5>1 DEF Ids
      <4> QED
        BY <4>3, <4>4
    <3> QED
      BY <3>3, <3>4
  <2> QED
    BY <2>1, <2>2
<1>10. UpsertByKey(W) = R
  BY DEF UpsertByKey, R, Rest, Put, Old
<1> QED
  BY <1>6, <1>7, <1>8, <1>9, <1>10

\* Overwriting by uuid.
LEMMA ByUuid ==
    ASSUME FieldsInv, NEW a \in Analyzer, pc[a] = "commit", ~KeyTaken(held[a])
    PROVE  LET R == UpsertById(held[a])
           IN /\ R \subseteq Row /\ Distinct(R) /\ Ids(rows) \subseteq Ids(R)
              /\ \A q \in R : /\ Origin(a, q) /\ q.classes \cap q.false = {}
                              /\ q.id # None => q.id \in Ids(rows) \cup Ids(held[a])
<1>0. /\ a \in Actor /\ Memory(a) /\ held[a] \subseteq Row /\ rows \subseteq Row
      /\ Unique(rows) /\ None \notin Ids(rows) /\ \A r \in rows : r.classes \cap r.false = {}
  BY DEF FieldsInv, MemoryInv, Actor, TypeOK, Decided
<1>1. UpsertById(held[a]) \subseteq rows \cup held[a]
  BY DEF UpsertById
<1>2. Distinct(UpsertById(held[a]))
  BY <1>0 DEF UpsertById, Distinct, Unique, Memory, HeldUnique, KeyTaken, Ids
<1>3. Ids(rows) \subseteq Ids(UpsertById(held[a]))
  BY DEF UpsertById, Ids
<1>4. ASSUME NEW q \in rows \cup held[a]
      PROVE  Origin(a, q) /\ q.classes \cap q.false = {} /\ q.id \in Ids(rows) \cup Ids(held[a])
  BY <1>0, HeldOrigin DEF Origin, Memory, Ids
<1> QED
  BY <1>0, <1>1, <1>2, <1>3, <1>4

\* The database numbers the new rows.
LEMMA NumberedRows ==
    ASSUME NEW R \in SUBSET Row, Distinct(R), Numberings(R) # {},
           \A q \in R : q.id # None => q.id \notin Fresh
    PROVE  /\ Numbered(R) \subseteq Row /\ Unique(Numbered(R)) /\ None \notin Ids(Numbered(R))
           /\ \A q \in R : q.id # None => q \in Numbered(R)
           /\ \A q \in Numbered(R) :
                \/ q \in R /\ q.id # None
                \/ \E r \in R : /\ r.id = None /\ q.id \in Fresh
                               /\ q.key = r.key /\ SameLists(q, r)
<1> DEFINE f == CHOOSE f \in Numberings(R) : TRUE
           Num(r) == IF r.id = None THEN [r EXCEPT !.id = f[r]] ELSE r
           new == {r \in R : r.id = None}
<1>1. f \in Numberings(R)
  OBVIOUS
<1>2. f \in [new -> Fresh] /\ \A r, s \in new : f[r] = f[s] => r = s
  BY <1>1 DEF Numberings
<1> HIDE DEF f
<1>3. Fresh \subseteq Id
  BY DEF Fresh
<1>4. ASSUME NEW r \in R, r.id = None
      PROVE  /\ Num(r) \in Row /\ Num(r).id = f[r] /\ Num(r).id \in Fresh
             /\ Num(r).key = r.key /\ SameLists(Num(r), r)
  <2>1. f[r] \in Fresh
    BY <1>2, <1>4
  <2>2. Num(r) = [r EXCEPT !.id = f[r]] /\ f[r] \in Id \cup {None} /\ r \in Row
    BY <1>3, <1>4, <2>1
  <2> HIDE DEF Num
  <2> QED
    BY <2>1, <2>2, RowId
<1>5. ASSUME NEW r \in R, r.id # None  PROVE Num(r) = r
  BY <1>5
<1> HIDE DEF Num
<1>6. Numbered(R) = {Num(r) : r \in R}
  BY DEF Numbered, Num, f
<1>7. ASSUME NEW r \in R, NEW s \in R,
             Num(r).id = Num(s).id \/ Num(r).key = Num(s).key
      PROVE  r = s
  <2>1. CASE r.id = None /\ s.id = None
    BY <1>2, <1>4, <1>7, <2>1 DEF Distinct
  <2>2. CASE r.id = None /\ s.id # None
    BY <1>4, <1>5, <1>7, <2>2 DEF Distinct
  <2>3. CASE r.id # None /\ s.id = None
    BY <1>4, <1>5, <1>7, <2>3 DEF Distinct
  <2>4. CASE r.id # None /\ s.id # None
    BY <1>5, <1>7, <2>4 DEF Distinct
  <2> QED
    BY <2>1, <2>2, <2>3, <2>4
<1>8. Unique(Numbered(R))
  <2> SUFFICES ASSUME NEW p \in Numbered(R), NEW q \in Numbered(R),
                      p.id = q.id \/ p.key = q.key
               PROVE  p = q
    BY DEF Unique
  <2>1. PICK r \in R : p = Num(r)
    BY <1>6
  <2>2. PICK s \in R : q = Num(s)
    BY <1>6
  <2> QED
    BY <1>7, <2>1, <2>2
<1>9. ASSUME NEW q \in Numbered(R)
      PROVE  /\ q \in Row /\ q.id # None
             /\ \/ q \in R /\ q.id # None
                \/ \E r \in R : /\ r.id = None /\ q.id \in Fresh
                               /\ q.key = r.key /\ SameLists(q, r)
  <2>1. PICK r \in R : q = Num(r)
    BY <1>6
  <2>2. CASE r.id = None
    BY <1>3, <1>4, <2>1, <2>2, SetsAssumption
  <2>3. CASE r.id # None
    BY <1>5, <2>1, <2>3
  <2> QED
    BY <2>2, <2>3
<1> QED
  BY <1>5, <1>6, <1>8, <1>9 DEF Ids

\* A row that is not outdated is a new one without classes, or one of before
\* that got classes of the config at most, and whose decisions hold.
Traced(q) ==
    \/ q.id \notin Ids(rows) \cup removed /\ q.classes = {} /\ q.false = {}
    \/ \E r \in rows : /\ r.id = q.id /\ r.false \subseteq q.false
                       /\ q.classes \subseteq r.classes \cup config

\* What analyzers and detections make of the table.
Extends(R) ==
    /\ R \subseteq Row /\ Unique(R) /\ None \notin Ids(R) /\ Ids(rows) \subseteq Ids(R)
    /\ \A q \in R : q.classes \cap q.false = {}
    /\ \A q \in R : q.id \in outdated' \/ Traced(q)

LEMMA ExtendsKeeps ==
    ASSUME FieldsInv, NEW x \in Actor, NEW R, NEW C, Table(x, R, C), Extends(R),
           UNCHANGED <<config, ruledOut, removed, dropped, named>>,
           \A s \in Save : UNCHANGED <<held[s], known[s], pc[s]>>
    PROVE  Decided' /\ Cleaned'
<1>0. Decided /\ Cleaned /\ rows' = R /\ outdated \subseteq outdated'
  BY DEF FieldsInv, Table
<1>1. ASSUME NEW q \in R, q.id \notin outdated'
      PROVE  /\ \A c \in Class : <<q.id, c>> \in ruledOut => c \in q.false
             /\ q.id \notin removed /\ NamedOnly(q, dropped)
             /\ \A s \in Save : pc[s] = "write" /\ q.id \notin Ids(held[s]) =>
                    NamedOnly(q, known[s])
  <2>1. CASE q.id \notin Ids(rows) \cup removed /\ q.classes = {} /\ q.false = {}
    BY <1>0, <2>1 DEF Decided, NamedOnly
  <2>2. ASSUME NEW r \in rows, r.id = q.id, r.false \subseteq q.false,
               q.classes \subseteq r.classes \cup config
        PROVE  /\ \A c \in Class : <<q.id, c>> \in ruledOut => c \in q.false
               /\ q.id \notin removed /\ NamedOnly(q, dropped)
               /\ \A s \in Save : pc[s] = "write" /\ q.id \notin Ids(held[s]) =>
                    NamedOnly(q, known[s])
    <3>1. r.id \notin outdated
      BY <1>0, <1>1, <2>2
    <3>2. \A c \in Class : <<q.id, c>> \in ruledOut => c \in q.false
      BY <1>0, <2>2, <3>1 DEF Decided
    <3>3. q.id \notin removed
      BY <1>0, <2>2, <3>1 DEF Decided, RemovedStaysRemoved, Ids
    <3>4. NamedOnly(q, dropped)
      BY <1>0, <2>2, <3>1 DEF Cleaned, DroppedStaysDropped, NamedOnly
    <3>5. ASSUME NEW s \in Save, pc[s] = "write", q.id \notin Ids(held[s])
          PROVE  NamedOnly(q, known[s])
      BY <1>0, <2>2, <3>1, <3>5 DEF Cleaned, NamedOnly
    <3> QED
      BY <3>2, <3>3, <3>4, <3>5
  <2> QED
    BY <1>1, <2>1, <2>2 DEF Extends, Traced
<1>2. Decided'
  BY <1>0, <1>1 DEF Decided, RemovedStaysRemoved, Ids, Extends
<1>3. Cleaned'
  BY <1>0, <1>1 DEF Cleaned, DroppedStaysDropped, NamedOnly, Ids
<1> QED
  BY <1>2, <1>3

\* The table after a commit.
LEMMA CommitRows ==
    ASSUME FieldsInv, NEW a \in Analyzer, Commit(a)
    PROVE  LET U == Upserted(a)
               R == Numbered(U)
           IN /\ pc[a] = "commit" /\ Table(a, R, config) /\ a \in Actor
              /\ Ids(rows) \subseteq Ids(U)
              /\ \A q \in U : /\ Origin(a, q) /\ q.classes \cap q.false = {}
                              /\ q.id # None => q.id \in Ids(rows) \cup Ids(held[a])
              /\ R \subseteq Row /\ Unique(R) /\ None \notin Ids(R)
              /\ \A q \in U : q.id # None => q \in R
              /\ \A q \in R : \/ q \in U /\ q.id # None
                              \/ \E r \in U : /\ r.id = None /\ q.id \in Fresh
                                             /\ q.key = r.key /\ SameLists(q, r)
<1> DEFINE U == Upserted(a)
           R == Numbered(U)
<1>0. /\ pc[a] = "commit" /\ Numberings(U) # {} /\ Table(a, R, config)
      /\ ~(SecondTry(held[a]) /\ KeyTaken(held[a])) /\ a \in Actor
  BY DEF Commit, Upserted, Fails, At, Actor
<1>1. /\ U \subseteq Row /\ Distinct(U) /\ Ids(rows) \subseteq Ids(U)
      /\ \A q \in U : /\ Origin(a, q) /\ q.classes \cap q.false = {}
                      /\ q.id # None => q.id \in Ids(rows) \cup Ids(held[a])
  BY <1>0, ByKey, ByUuid DEF Upserted
<1>2. \A q \in U : q.id # None => q.id \notin Fresh
  BY <1>0, <1>1 DEF Fresh
<1> HIDE DEF U
<1>3. /\ R \subseteq Row /\ Unique(R) /\ None \notin Ids(R)
      /\ \A q \in U : q.id # None => q \in R
      /\ \A q \in R : \/ q \in U /\ q.id # None
                      \/ \E r \in U : /\ r.id = None /\ q.id \in Fresh
                                     /\ q.key = r.key /\ SameLists(q, r)
  BY <1>0, <1>1, <1>2, NumberedRows
<1> HIDE DEF R
<1> QED
  BY <1>0, <1>1, <1>3 DEF R, U

LEMMA CommitExtends ==
    ASSUME FieldsInv, NEW a \in Analyzer, Commit(a)
    PROVE  LET R == Numbered(Upserted(a)) IN Table(a, R, config) /\ Extends(R)
<1> DEFINE U == Upserted(a)
           R == Numbered(U)
<1>0. /\ Table(a, R, config) /\ a \in Actor
  BY CommitRows
<1>1. /\ Ids(rows) \subseteq Ids(U)
      /\ \A q \in U : /\ Origin(a, q) /\ q.classes \cap q.false = {}
                      /\ q.id # None => q.id \in Ids(rows) \cup Ids(held[a])
  BY CommitRows
<1>3. /\ R \subseteq Row /\ Unique(R) /\ None \notin Ids(R)
      /\ \A q \in U : q.id # None => q \in R
      /\ \A q \in R : \/ q \in U /\ q.id # None
                      \/ \E r \in U : /\ r.id = None /\ q.id \in Fresh
                                     /\ q.key = r.key /\ SameLists(q, r)
  BY CommitRows
<1> HIDE DEF U, R
<1>4. None \notin Ids(rows)
  BY DEF FieldsInv, TypeOK
<1>5. Ids(rows) \subseteq Ids(R)
  BY <1>1, <1>3, <1>4 DEF Ids
<1>6. ASSUME NEW q \in R
      PROVE  q.classes \cap q.false = {} /\ (q.id \in outdated' \/ Traced(q))
  <2>0. \A r \in rows : r.classes \cap r.false = {}
    BY DEF FieldsInv, Decided
  <2>1. CASE q \in U /\ q.id # None
    <3>1. Origin(a, q) /\ q.classes \cap q.false = {}
      BY <1>1, <2>1
    <3>2. CASE q \in rows
      BY <3>1, <3>2 DEF Traced
    <3>3. CASE q.id \in behind[a]
      BY <1>0, <3>1, <3>3, Overwritten DEF Traced
    <3>4. ASSUME NEW r \in rows, r.id = q.id, SameLists(q, r)
          PROVE  Traced(q)
      BY <3>4 DEF Traced, SameLists
    <3> QED
      BY <2>1, <3>1, <3>2, <3>3, <3>4 DEF Origin
  <2>2. ASSUME NEW r \in U, r.id = None, q.id \in Fresh, SameLists(q, r)
        PROVE  q.classes \cap q.false = {} /\ (q.id \in outdated' \/ Traced(q))
    <3>1. q.id \notin Ids(rows) \cup removed
      BY <2>2 DEF Fresh
    <3>2. Origin(a, r) /\ r.classes \cap r.false = {}
      BY <1>1
    <3>3. CASE r.classes = {} /\ r.false = {}
      BY <2>2, <3>1, <3>3 DEF Traced, SameLists
    <3>4. CASE r.id \in behind[a]
      BY <2>2, <3>4, SetsAssumption DEF FieldsInv, TypeOK, Actor
    <3>5. ~ \E s \in rows : s.id = r.id
      BY <1>4, <2>2 DEF Ids
    <3> QED
      BY <3>2, <3>3, <3>4, <3>5 DEF Origin
  <2> QED
    BY <1>3, <2>1, <2>2
<1> QED
  BY <1>0, <1>3, <1>5, <1>6 DEF Extends, R, U

(***************************************************************************)
(* What the others write                                                   *)
(***************************************************************************)

\* Facts about the rows and the memory of an actor that the lemmas below use.
LEMMA Facts ==
    ASSUME FieldsInv, NEW x \in Actor
    PROVE  /\ rows \subseteq Row /\ Unique(rows) /\ None \notin Ids(rows)
           /\ held[x] \subseteq Row /\ known[x] \subseteq Class /\ Memory(x)
           /\ \A r \in rows : r.classes \cap r.false = {}
BY DEF FieldsInv, TypeOK, MemoryInv, Decided

\* A row saved in place of one with its uuid.
LEMMA SavedRows ==
    ASSUME FieldsInv, NEW s \in Row, s.id # None, KeyFree(s)
    PROVE  /\ Saved(s) \subseteq Row /\ Unique(Saved(s)) /\ None \notin Ids(Saved(s))
           /\ Ids(rows) \subseteq Ids(Saved(s)) /\ s \in Saved(s)
           /\ \A q \in Saved(s) : q = s \/ (q \in rows /\ q.id # s.id)
           /\ \A q \in rows : q.id # s.id => q \in Saved(s)
BY DEF FieldsInv, TypeOK, Saved, KeyFree, Unique, Ids

\* A detection that goes on after a row: it extends the table, and what it
\* remembers stays true.
LEMMA DetectExtends ==
    ASSUME FieldsInv, NEW j \in Job, Detect(j), pc'[j] = "detect"
    PROVE  \E R : Table(j, R, known[j]) /\ Extends(R) /\ Memory(j)'
<1> DEFINE A(r, D) == AddedTo(r, D)
           S(r, D) == [r EXCEPT !.classes = @ \cup A(r, D), !.identified = @ \cup A(r, D)]
<1>0. /\ j \in Actor /\ j \notin Analyzer /\ j \notin Request /\ j \notin Save
      /\ pc[j] = "detect"
  BY ActorAssumption DEF Actor, Detect, At
<1>1. pc' = [pc EXCEPT ![j] = "detect"] \/ pc' = [pc EXCEPT ![j] = "done"]
  BY DEF Detect, Goto
<1>2. pc'[j] # "done"
  OBVIOUS
<1>3. PICK r \in held[j], D \in SUBSET Finds(j) :
        /\ A(r, D) = {} \/ KeyFree(S(r, D))
        /\ Table(j, IF A(r, D) = {} THEN rows ELSE Saved(S(r, D)), known[j])
        /\ held' = [held EXCEPT ![j] = (@ \ {r}) \cup {S(r, D)}]
  BY <1>0, <1>2 DEF Detect, Goto, FieldsInv, TypeOK
<1> DEFINE s == S(r, D)
           R == IF A(r, D) = {} THEN rows ELSE Saved(s)
<1>4. /\ rows \subseteq Row /\ Unique(rows) /\ None \notin Ids(rows) /\ held[j] \subseteq Row
      /\ known[j] \subseteq Class /\ Memory(j) /\ \A q \in rows : q.classes \cap q.false = {}
  BY <1>0, Facts
<1>5. A(r, D) \subseteq known[j] /\ A(r, D) \cap r.false = {}
  BY DEF AddedTo, Finds
<1>6. /\ s \in Row /\ s.id = r.id /\ s.key = r.key /\ s.false = r.false
      /\ s.classes = r.classes \cup A(r, D)
  BY <1>4, <1>5 DEF Row
<1>7. r.id # None /\ r.classes \cap r.false = {}
  BY <1>0, <1>4 DEF Memory, HeldCurrent
<1>8. r.id \in behind[j] \/ \E q \in rows : q.id = r.id /\ SameLists(r, q)
  BY <1>0, <1>4, <1>7 DEF Memory, HeldCurrent, Current
<1> HIDE DEF S, A
<1>9. Table(j, R, known[j])
  BY <1>3
<1>10. A(r, D) # {} =>
         /\ R \subseteq Row /\ Unique(R) /\ None \notin Ids(R)
         /\ Ids(rows) \subseteq Ids(R) /\ s \in R
         /\ \A q \in R : q = s \/ (q \in rows /\ q.id # s.id)
         /\ \A q \in rows : q.id # s.id => q \in R
  BY <1>3, <1>6, <1>7, SavedRows
<1>11. A(r, D) = {} => R = rows
  OBVIOUS
<1> HIDE DEF R
<1>12. Extends(R)
  <2>1. ASSUME NEW q \in R
        PROVE  q.classes \cap q.false = {} /\ (q.id \in outdated' \/ Traced(q))
    <3>1. CASE q \in rows
      BY <1>4, <3>1 DEF Traced
    <3>2. CASE q \notin rows
      <4>1. q = s /\ A(r, D) # {}
        BY <1>10, <1>11, <3>2
      <4>2. q.classes \cap q.false = {}
        BY <1>5, <1>6, <1>7, <4>1
      <4>3. CASE r.id \in behind[j]
        BY <1>0, <1>6, <1>9, <3>2, <4>1, <4>2, <4>3, Overwritten
      <4>4. CASE known[j] # config
        BY <1>9, <3>2, <4>2, <4>4 DEF Table, Ids
      <4>5. CASE known[j] = config /\ r.id \notin behind[j]
        BY <1>5, <1>6, <1>8, <4>1, <4>2, <4>5 DEF Traced, SameLists
      <4> QED
        BY <4>3, <4>4, <4>5
    <3> QED
      BY <3>1, <3>2
  <2> QED
    BY <1>4, <1>10, <1>11, <2>1 DEF Extends
<1>13. Memory(j)'
  <2>0. /\ rows' = R /\ held'[j] = (held[j] \ {r}) \cup {s} /\ behind'[j] = behind[j]
        /\ pc'[j] = "detect"
    BY <1>0, <1>3, <1>9 DEF Table, FieldsInv, TypeOK, Holding, S
  <2>1. HeldUnique(j)'
    BY <1>4, <1>6, <2>0 DEF Memory, HeldUnique
  <2>2. ASSUME NEW w \in held'[j]
        PROVE  /\ w.id # None /\ w.classes \cap w.false = {}
               /\ w.id \in behind[j] \/ \E q \in R : q.id = w.id /\ SameLists(w, q)
    <3>1. CASE w = s
      <4>1. w.id # None /\ w.classes \cap w.false = {}
        BY <1>5, <1>6, <1>7, <3>1
      <4>2. CASE A(r, D) = {}
        BY <1>6, <1>8, <1>11, <3>1, <4>1, <4>2 DEF SameLists
      <4>3. CASE A(r, D) # {}
        BY <1>10, <3>1, <4>1, <4>3 DEF SameLists
      <4> QED
        BY <4>2, <4>3
    <3>2. CASE w # s
      <4>1. w \in held[j] /\ w # r
        BY <2>0, <3>2
      <4>2. w.id # None /\ w.classes \cap w.false = {}
        BY <1>0, <1>4, <4>1 DEF Memory, HeldCurrent
      <4>3. w.id # r.id
        BY <1>4, <4>1, <4>2 DEF Memory, HeldUnique
      <4>4. w.id \in behind[j] \/ \E q \in rows : q.id = w.id /\ SameLists(w, q)
        BY <1>0, <1>4, <4>1, <4>2 DEF Memory, HeldCurrent, Current
      <4> QED
        BY <1>6, <1>10, <1>11, <4>2, <4>3, <4>4
    <3> QED
      BY <3>1, <3>2
  <2>3. HeldCurrent(j)'
    BY <2>0, <2>2 DEF HeldCurrent, Current, SameLists
  <2> QED
    BY <2>0, <2>1, <2>2, <2>3 DEF Memory, HeldKeys, Holding, Analyzing
<1> QED
  BY <1>9, <1>12, <1>13

\* What a request writes, a decision of a user included.
LEMMA SaveRowKeeps ==
    ASSUME FieldsInv, NEW u \in Request, SaveRow(u), pc'[u] = "risk"
    PROVE  /\ \E R \in SUBSET Row : /\ Table(u, R, config)
                                    /\ Unique(R) /\ None \notin Ids(R)
           /\ Decided' /\ Cleaned'
<1>0. /\ u \in Actor /\ u \notin Analyzer /\ u \notin Save /\ pc[u] = "write"
      /\ \A s \in Save : s \in Actor /\ s # u
  BY ActorAssumption DEF Actor, SaveRow, At
<1>1. pc' = [pc EXCEPT ![u] = "risk"] \/ pc' = [pc EXCEPT ![u] = "done"]
  BY DEF SaveRow, Goto
<1>2. PICK w \in held[u] : /\ KeyFree(w)
                           /\ Table(u, Saved(w), config)
                           /\ ruledOut' = {p \in ruledOut : p[1] # w.id}
                                             \cup {<<w.id, c>> : c \in w.false}
                           /\ named' = {p \in named : p[1] # w.id}
                                          \cup {<<w.id, c>> : c \in w.classes \ config}
  BY <1>0 DEF SaveRow, Goto, FieldsInv, TypeOK
<1>3. /\ rows \subseteq Row /\ Unique(rows) /\ None \notin Ids(rows) /\ held[u] \subseteq Row
      /\ Memory(u) /\ \A r \in rows : r.classes \cap r.false = {}
  BY <1>0, Facts
<1>4. w \in Row /\ w.id # None /\ w.classes \cap w.false = {}
  BY <1>0, <1>3 DEF Memory, HeldCurrent
<1>5. w.id \in behind[u] \/ w.id \in Ids(rows)
  BY <1>0, <1>3, <1>4 DEF Memory, HeldCurrent, Ids
<1>6. /\ Saved(w) \subseteq Row /\ Unique(Saved(w)) /\ None \notin Ids(Saved(w))
      /\ Ids(rows) \subseteq Ids(Saved(w)) /\ w \in Saved(w)
      /\ \A q \in Saved(w) : q = w \/ (q \in rows /\ q.id # w.id)
  BY <1>2, <1>4, SavedRows
<1>7. rows' = Saved(w) /\ outdated \subseteq outdated'
  BY <1>2 DEF Table
<1>8. w \in rows \/ w.id \in outdated' \/ w.id \in Ids(rows)
  BY <1>0, <1>2, <1>5, <1>6, Overwritten
<1>9. UNCHANGED <<config, removed, dropped>>
  BY DEF SaveRow
<1>10. \A s \in Save : UNCHANGED <<held[s], known[s], pc[s]>>
  BY <1>0, <1>1 DEF SaveRow, Forget, FieldsInv, TypeOK
<1>11. Decided /\ Cleaned
  BY DEF FieldsInv
<1> HIDE DEF Saved
<1>12. Decided'
  <2>1. ASSUME NEW p \in ruledOut'  PROVE p[1] \in Ids(Saved(w)) \cup removed
    <3>1. CASE p \in ruledOut
      BY <1>6, <1>11, <3>1 DEF Decided
    <3>2. CASE p \notin ruledOut
      <4>1. p[1] = w.id
        BY <1>2, <2>1, <3>2
      <4> QED
        BY <1>6, <4>1 DEF Ids
    <3> QED
      BY <3>1, <3>2
  <2>2. ASSUME NEW q \in Saved(w), q.id \notin outdated', NEW c \in Class,
               <<q.id, c>> \in ruledOut'
        PROVE  c \in q.false
    BY <1>2, <1>6, <1>7, <1>11, <2>2 DEF Decided
  <2>3. Ids(Saved(w)) \cap removed \subseteq outdated'
    BY <1>6, <1>7, <1>8, <1>11 DEF Decided, RemovedStaysRemoved, Ids
  <2> QED
    BY <1>3, <1>4, <1>6, <1>7, <1>9, <2>1, <2>2, <2>3 DEF Decided, RemovedStaysRemoved
<1>13. Cleaned'
  <2>1. ASSUME NEW q \in Saved(w), q.id \notin outdated'
        PROVE  /\ NamedOnly(q, dropped)'
               /\ \A s \in Save : pc[s] = "write" /\ q.id \notin Ids(held[s]) =>
                      \A c \in q.classes \cap known[s] : <<q.id, c>> \in named'
    <3>1. CASE q = w
      <4>1. \A c \in w.classes : c \notin config => <<w.id, c>> \in named'
        BY <1>2
      <4> QED
        BY <1>9, <1>11, <3>1, <4>1 DEF Cleaned, NamedOnly
    <3>2. CASE q \in rows /\ q.id # w.id
      <4>1. \A c : <<q.id, c>> \in named => <<q.id, c>> \in named'
        BY <1>2, <3>2
      <4>2. NamedOnly(q, dropped)
        BY <1>7, <1>11, <2>1, <3>2 DEF Cleaned, DroppedStaysDropped
      <4>3. \A s \in Save : pc[s] = "write" /\ q.id \notin Ids(held[s]) => NamedOnly(q, known[s])
        BY <1>7, <1>11, <2>1, <3>2 DEF Cleaned
      <4> QED
        BY <1>9, <4>1, <4>2, <4>3 DEF NamedOnly
    <3> QED
      BY <1>6, <3>1, <3>2
  <2> QED
    BY <1>7, <1>9, <1>10, <1>11, <2>1 DEF Cleaned, DroppedStaysDropped, NamedOnly
<1> QED
  BY <1>2, <1>6, <1>12, <1>13

\* What takes rows out of the table, and the clearing of all classes.
LEMMA Removes ==
    ASSUME FieldsInv, NEW u \in Request,
           DeleteRow(u) \/ DeleteAll(u) \/ ClearAll(u)
    PROVE  /\ \E R \in SUBSET Row : /\ Table(u, R, config)
                                    /\ Unique(R) /\ None \notin Ids(R)
           /\ Decided' /\ Cleaned'
<1>0. /\ u \in Actor /\ \A s \in Save : s \in Actor /\ s # u
  BY ActorAssumption DEF Actor
<1>1. rows \subseteq Row /\ Unique(rows) /\ None \notin Ids(rows) /\ Decided /\ Cleaned
  BY DEF FieldsInv, TypeOK
<1>2. /\ UNCHANGED <<config, dropped>>
      /\ \A s \in Save : UNCHANGED <<held[s], known[s], pc[s]>>
  BY <1>0 DEF DeleteRow, DeleteAll, ClearAll, Forget, Goto, memory, FieldsInv, TypeOK
<1>3. CASE DeleteRow(u)
  <2> DEFINE R == {r \in rows : r.id \notin Ids(held[u])}
  <2>1. /\ Table(u, R, config) /\ rows' = R /\ outdated \subseteq outdated'
        /\ removed' = removed \cup Ids(held[u]) /\ ruledOut' = ruledOut /\ named' = named
    BY <1>3 DEF DeleteRow, Table
  <2>2. R \subseteq Row /\ Unique(R) /\ None \notin Ids(R)
    BY <1>1 DEF Unique, Ids
  <2>3. Decided'
    <3>1. \A p \in ruledOut : p[1] \in Ids(R) \cup removed'
      BY <1>1, <2>1 DEF Decided, Ids
    <3>2. Ids(R) \cap removed' \subseteq outdated'
      BY <1>1, <2>1 DEF Decided, RemovedStaysRemoved, Ids
    <3> QED
      BY <1>1, <2>1, <3>1, <3>2 DEF Decided, RemovedStaysRemoved
  <2>4. Cleaned'
    BY <1>1, <1>2, <2>1 DEF Cleaned, DroppedStaysDropped, NamedOnly
  <2> QED
    BY <2>1, <2>2, <2>3, <2>4
<1>4. CASE DeleteAll(u)
  <2>1. /\ Table(u, {}, config) /\ rows' = {} /\ ruledOut' = ruledOut
        /\ removed' = removed \cup Ids(rows)
    BY <1>4 DEF DeleteAll, Table
  <2>2. Ids({}) = {}
    BY DEF Ids
  <2>3. Decided'
    BY <1>1, <2>1, <2>2 DEF Decided, RemovedStaysRemoved
  <2>4. Cleaned'
    BY <1>1, <1>2, <2>1 DEF Cleaned, DroppedStaysDropped, NamedOnly
  <2> QED
    BY <2>1, <2>2, <2>3, <2>4 DEF Unique
<1>5. CASE ClearAll(u)
  <2> DEFINE Clear(r) == [r EXCEPT !.classes = {}, !.identified = {}, !.false = {}]
             R == {Clear(r) : r \in rows}
  <2>1. /\ Table(u, R, config) /\ rows' = R /\ outdated \subseteq outdated'
        /\ removed' = removed /\ ruledOut' = {}
    BY <1>5 DEF ClearAll, Table
  <2>2. ASSUME NEW r \in rows
        PROVE  /\ Clear(r) \in Row /\ Clear(r).id = r.id /\ Clear(r).key = r.key
               /\ Clear(r).classes = {} /\ Clear(r).false = {}
    BY <1>1 DEF Row
  <2> HIDE DEF Clear
  <2>3. R \subseteq Row /\ Unique(R) /\ Ids(R) = Ids(rows)
    BY <1>1, <2>2 DEF Unique, Ids
  <2>4. \A q \in R : q.classes = {} /\ q.false = {}
    BY <2>2
  <2> HIDE DEF R
  <2>5. Decided'
    BY <1>1, <2>1, <2>3, <2>4 DEF Decided, RemovedStaysRemoved
  <2>6. Cleaned'
    BY <1>1, <1>2, <2>1, <2>4 DEF Cleaned, DroppedStaysDropped, NamedOnly
  <2> QED
    BY <1>1, <2>1, <2>3, <2>5, <2>6
<1> QED
  BY <1>3, <1>4, <1>5

\* The cleanup after a config save.
LEMMA CleanUpKeeps ==
    ASSUME FieldsInv, NEW s \in Save, CleanUp(s), Ids(held[s]) \subseteq Ids(rows)
    PROVE  /\ \E R \in SUBSET Row : /\ Table(s, R, config)
                                    /\ Unique(R) /\ None \notin Ids(R)
           /\ Decided' /\ Cleaned'
<1> DEFINE D == known[s]
           Now(w) == CHOOSE r \in rows : r.id = w.id
           Put(w) == [w EXCEPT !.key = Now(w).key]
           Rest == {r \in rows : r.id \notin Ids(held[s])}
           R == Rest \cup {Put(w) : w \in held[s]}
<1>0. s \in Actor /\ s \notin Analyzer /\ s \notin Request /\ pc[s] = "write"
  BY ActorAssumption DEF Actor, CleanUp, At
<1>1. /\ rows \subseteq Row /\ Unique(rows) /\ None \notin Ids(rows) /\ held[s] \subseteq Row
      /\ Memory(s) /\ \A r \in rows : r.classes \cap r.false = {}
  BY <1>0, Facts
<1>2. Decided /\ Cleaned
  BY DEF FieldsInv
<1>3. /\ Table(s, R, config) /\ rows' = R /\ outdated \subseteq outdated'
      /\ ruledOut' = {p \in ruledOut : p[2] \notin D}
      /\ named' = {p \in named : p[1] \in Ids(held[s]) => p[2] \notin D}
      /\ dropped' = dropped \cup D /\ UNCHANGED <<config, removed>>
  BY DEF CleanUp, Table
<1>4. ASSUME NEW w \in held[s]
      PROVE  /\ Put(w) \in Row /\ Put(w).id = w.id /\ SameLists(Put(w), w)
             /\ w.id \in Ids(rows) /\ Now(w) \in rows /\ Now(w).id = w.id
             /\ Put(w).key = Now(w).key
  <2>1. w.id \in Ids(rows)
    BY DEF Ids
  <2>2. Now(w) \in rows /\ Now(w).id = w.id
    BY <2>1 DEF Ids
  <2>3. Now(w).key \in Key /\ w \in Row
    BY <1>1, <2>2, RowFields
  <2> HIDE DEF Now
  <2> QED
    BY <2>1, <2>2, <2>3, RowKey
<1> HIDE DEF Put, Now, Rest
<1>5. R \subseteq Row /\ None \notin Ids(R)
  BY <1>1, <1>4 DEF Rest, Ids
<1>6. Unique(R)
  <2> SUFFICES ASSUME NEW p \in R, NEW q \in R, p.id = q.id \/ p.key = q.key
               PROVE  p = q
    BY DEF Unique
  <2>1. CASE p \in Rest /\ q \in Rest
    BY <1>1, <2>1 DEF Rest, Unique
  <2>2. ASSUME NEW w \in held[s], NEW r \in Rest, r.id = Put(w).id \/ r.key = Put(w).key
        PROVE  FALSE
    BY <1>1, <1>4, <2>2 DEF Rest, Unique, Ids
  <2>3. ASSUME NEW v \in held[s], NEW w \in held[s],
               Put(v).id = Put(w).id \/ Put(v).key = Put(w).key
        PROVE  v = w
    <3>1. Now(v).id = Now(w).id \/ Now(v).key = Now(w).key
      BY <1>4, <2>3
    <3>2. v.id = w.id /\ v.id # None
      BY <1>1, <1>4, <3>1 DEF Unique
    <3> QED
      BY <1>1, <3>2 DEF Memory, HeldUnique
  <2> QED
    BY <2>1, <2>2, <2>3
<1>7. Ids(R) = Ids(rows)
  <2>1. ASSUME NEW q \in R  PROVE q.id \in Ids(rows)
    BY <1>4, <2>1 DEF Rest, Ids
  <2>2. ASSUME NEW r \in rows  PROVE r.id \in Ids(R)
    <3>1. CASE r \in Rest
      BY <3>1 DEF Ids
    <3>2. CASE r \notin Rest
      BY <1>4, <3>2 DEF Rest, Ids
    <3> QED
      BY <3>1, <3>2
  <2> QED
    BY <2>1, <2>2 DEF Ids
\* Every row is as it was, those that were read without the dropped classes.
<1>8. ASSUME NEW q \in R, q.id \notin outdated'
      PROVE  /\ q.id \in Ids(held[s]) => q.classes \cap D = {}
             /\ \E r \in rows : /\ r.id = q.id /\ q.classes \subseteq r.classes
                                /\ r.false \ D \subseteq q.false
  <2>1. CASE q \in Rest
    BY <2>1 DEF Rest
  <2>2. ASSUME NEW w \in held[s], q = Put(w)
        PROVE  /\ q.id \in Ids(held[s]) => q.classes \cap D = {}
               /\ \E r \in rows : /\ r.id = q.id /\ q.classes \subseteq r.classes
                                  /\ r.false \ D \subseteq q.false
    <3>1. q.id = w.id /\ SameLists(q, w)
      BY <1>4, <2>2
    <3>2. q.classes \cap D = {}
      BY <1>2, <3>1 DEF Cleaned, SameLists
    <3>3. CASE q \in rows
      BY <3>2, <3>3
    <3>4. CASE q \notin rows
      <4>1. w.id \notin behind[s]
        BY <1>0, <1>3, <1>8, <3>1, <3>4, Overwritten
      <4>2. PICK r \in rows : r.id = w.id /\ w.classes = r.classes \ D /\ w.false = r.false \ D
        BY <1>0, <1>1, <4>1 DEF Memory, HeldCurrent, Current
      <4> QED
        BY <3>1, <3>2, <4>2 DEF SameLists
    <3> QED
      BY <3>3, <3>4
  <2> QED
    BY <2>1, <2>2
<1>9. \A q \in R : q.classes \cap q.false = {}
  BY <1>1, <1>4 DEF Rest, Memory, SameLists
<1> HIDE DEF R
<1>10. Decided'
  <2>1. ASSUME NEW q \in R, q.id \notin outdated', NEW c \in Class, <<q.id, c>> \in ruledOut'
        PROVE  c \in q.false
    <3>1. <<q.id, c>> \in ruledOut /\ c \notin D
      BY <1>3, <2>1
    <3>2. PICK r \in rows : r.id = q.id /\ r.false \ D \subseteq q.false
      BY <1>8, <2>1
    <3> QED
      BY <1>2, <1>3, <2>1, <3>1, <3>2 DEF Decided
  <2> QED
    BY <1>2, <1>3, <1>7, <1>9, <2>1 DEF Decided, RemovedStaysRemoved
<1>11. Cleaned'
  <2>1. ASSUME NEW x \in Save, x # s
        PROVE  x \in Actor /\ UNCHANGED <<held[x], known[x], pc[x]>>
    BY <1>0, <2>1 DEF CleanUp, Forget, Goto, FieldsInv, TypeOK, Actor
  <2>2. pc'[s] = "done" /\ known'[s] = {} /\ held'[s] = {}
    BY <1>0 DEF CleanUp, Forget, Goto, FieldsInv, TypeOK
  <2>3. \A x \in Save : /\ known'[x] \cap config = {}
                        /\ \A w \in held'[x] : w.classes \cap known'[x] = {}
    BY <1>2, <2>1, <2>2 DEF Cleaned
  <2>4. dropped' \cap config = {}
    BY <1>2, <1>3 DEF Cleaned
  <2>5. ASSUME NEW q \in R, q.id \notin outdated'
        PROVE  /\ NamedOnly(q, dropped)'
               /\ \A x \in Save : pc'[x] = "write" /\ q.id \notin Ids(held'[x]) =>
                      NamedOnly(q, known[x])'
    <3>1. PICK r \in rows : r.id = q.id /\ q.classes \subseteq r.classes
      BY <1>8, <2>5
    <3>2. r.id \notin outdated
      BY <1>3, <2>5, <3>1
    <3>3. ASSUME NEW c \in q.classes, <<q.id, c>> \in named  PROVE <<q.id, c>> \in named'
      BY <1>3, <1>8, <2>5, <3>3
    <3>4. ASSUME NEW c \in q.classes, c \in dropped \cup D  PROVE <<q.id, c>> \in named
      <4>1. CASE c \in dropped
        BY <1>2, <3>1, <3>2, <4>1 DEF Cleaned, DroppedStaysDropped, NamedOnly
      <4>2. CASE c \in D
        BY <1>0, <1>2, <1>8, <2>5, <3>1, <3>2, <4>2 DEF Cleaned, NamedOnly
      <4> QED
        BY <3>4, <4>1, <4>2
    <3>5. ASSUME NEW x \in Save, pc'[x] = "write", q.id \notin Ids(held'[x]),
                 NEW c \in q.classes, c \in known'[x]
          PROVE  <<q.id, c>> \in named
      BY <1>2, <2>1, <2>2, <3>1, <3>2, <3>5 DEF Cleaned, NamedOnly
    <3> QED
      BY <1>3, <3>3, <3>4, <3>5 DEF NamedOnly
  <2> QED
    BY <1>3, <2>3, <2>4, <2>5 DEF Cleaned, DroppedStaysDropped
<1> QED
  BY <1>3, <1>5, <1>6, <1>10, <1>11

(***************************************************************************)
(* Types                                                                   *)
(***************************************************************************)

LEMMA TableType ==
    ASSUME TypeOK, NEW x \in Actor, NEW R \in SUBSET Row, NEW C, Table(x, R, C),
           Unique(R), None \notin Ids(R)
    PROVE  /\ rows' \subseteq Row /\ Unique(rows)' /\ None \notin Ids(rows)'
           /\ behind' \in [Actor -> SUBSET Id] /\ outdated' \subseteq Id
<1>1. rows' = R
  BY DEF Table
<1>2. Ids(R \ rows) \subseteq Id /\ Ids(rows \ R) \subseteq Id
  BY RowFields DEF Ids, TypeOK
<1> QED
  BY <1>1, <1>2 DEF Table, TypeOK, Unique, Ids

LEMMA ForgetType == ASSUME TypeOK, NEW x \in Actor, Forget(x)
    PROVE  /\ held' \in [Actor -> SUBSET Row] /\ todo' \in [Actor -> SUBSET Id]
           /\ known' \in [Actor -> SUBSET Class]
           /\ prev' \in [Actor -> RiskScore] /\ next' \in [Actor -> RiskScore]
BY DEF Forget, TypeOK, RiskScore

LEMMA TakeType == ASSUME TypeOK, NEW x \in Actor, NEW R \in SUBSET Row, Take(x, R)
    PROVE  held' \in [Actor -> SUBSET Row] /\ behind' \in [Actor -> SUBSET Id]
BY DEF Take, TypeOK

LEMMA RowIds == ASSUME TypeOK  PROVE Ids(rows) \subseteq Id
BY RowFields DEF TypeOK, Ids

\* What an analyzer finds in the table for the keys of a trace.
LEMMA FoundRows ==
    ASSUME TypeOK, NEW K \in Traces, NEW q \in Found(K)
    PROVE  \E k \in K : \E r \in rows :
              /\ q = [r EXCEPT !.key = k] /\ FieldOf(k) # {}
              /\ q \in Row /\ q.id = r.id /\ q.key = k /\ SameLists(q, r)
              /\ r.key = k \/ (r.key = NullKey[k] /\ \A s \in rows : s.key # k)
<1>1. PICK k \in K : q \in {[r EXCEPT !.key = k] : r \in FieldOf(k)}
  BY DEF Found
<1>2. PICK r \in FieldOf(k) : q = [r EXCEPT !.key = k]
  BY <1>1
<1>3. /\ r \in rows
      /\ r.key = k \/ (r.key = NullKey[k] /\ \A s \in rows : s.key # k)
  BY <1>2 DEF FieldOf
<1>4. r \in Row /\ k \in Key
  BY <1>3, KeyAssumption DEF TypeOK
<1> QED
  BY <1>2, <1>3, <1>4, RowKey

LEMMA TypeStep == ASSUME FieldsInv, [Next]_vars  PROVE TypeOK'
<1>0. TypeOK
  BY DEF FieldsInv
<1>1. CASE UNCHANGED vars
  BY <1>0, <1>1 DEF vars, memory, history, TypeOK, Unique, Ids
<1>2. ASSUME NEW x \in Analyzer \cup Job,
             (x \in Analyzer /\ ReadEndpoint(x)) \/ (x \in Job /\ StartDetection(x))
      PROVE  TypeOK'
  BY <1>0, <1>2 DEF ReadEndpoint, StartDetection, Goto, history, TypeOK, Unique, Ids, Actor
<1>3. ASSUME NEW a \in Analyzer, ReadFields(a)  PROVE TypeOK'
  <2>1. a \in Actor
    BY DEF Actor
  <2>2. PICK K \in Traces : \E N \in SUBSET {k \in K : FieldOf(k) = {}} :
             \E U \in SUBSET Found(K) : Take(a, U \cup {New(k) : k \in N})
    BY <1>3 DEF ReadFields
  <2>3. PICK N \in SUBSET K, U \in SUBSET Found(K) : Take(a, U \cup {New(k) : k \in N})
    BY <2>2
  <2>4. Found(K) \subseteq Row
    BY <1>0, FoundRows
  <2>5. {New(k) : k \in N} \subseteq Row
    BY NewRow, KeyAssumption
  <2>6. held' \in [Actor -> SUBSET Row] /\ behind' \in [Actor -> SUBSET Id]
    BY <1>0, <2>1, <2>3, <2>4, <2>5, TakeType
  <2>7. ClassesOf(rows) \subseteq Class
    BY <1>0, RowFields DEF ClassesOf, TypeOK
  <2> QED
    BY <1>0, <1>3, <2>1, <2>6, <2>7 DEF ReadFields, Goto, TypeOK, Unique, Ids
<1>4. ASSUME NEW a \in Analyzer, Commit(a)  PROVE TypeOK'
  <2>1. a \in Actor
    BY DEF Actor
  <2>2. risk' \in RiskScore
    BY <1>0, <1>4, <2>1 DEF Commit, TypeOK
  <2>3. /\ rows' \subseteq Row /\ Unique(rows)' /\ None \notin Ids(rows)'
        /\ behind' \in [Actor -> SUBSET Id] /\ outdated' \subseteq Id
    BY <1>0, <1>4, <2>1, CommitExtends, TableType DEF Extends
  <2> QED
    BY <1>0, <1>4, <2>1, <2>2, <2>3, ForgetType DEF Commit, Goto, TypeOK
<1>5. ASSUME NEW x \in Analyzer \cup Job, FailCommit(x) \/ NextTrace(x) \/ TooFewTraces(x)
      PROVE  TypeOK'
  <2>1. x \in Actor
    BY DEF Actor
  <2> QED
    BY <1>0, <1>5, <2>1, ForgetType
       DEF FailCommit, NextTrace, TooFewTraces, Goto, memory, history, TypeOK, Unique, Ids
<1>6. ASSUME NEW j \in Job, ReadForDetection(j)  PROVE TypeOK'
  <2>1. j \in Actor
    BY DEF Actor
  <2>2. held' \in [Actor -> SUBSET Row] /\ behind' \in [Actor -> SUBSET Id]
    BY <1>0, <1>6, <2>1, TakeType DEF ReadForDetection, TypeOK
  <2> QED
    BY <1>0, <1>6, <2>1, <2>2, RowIds DEF ReadForDetection, Goto, TypeOK, Unique, Ids
<1>7. ASSUME NEW j \in Job, Detect(j)  PROVE TypeOK'
  <2>1. j \in Actor /\ pc[j] = "detect"
    BY <1>7 DEF Actor, Detect, At
  <2>2. /\ pc' \in [Actor -> {"idle", "fields", "classes", "commit", "failed", "detect",
                              "write", "delete", "risk", "set", "done"}]
        /\ pc'[j] \in {"detect", "done"}
    BY <1>0, <1>7, <2>1 DEF Detect, Goto, TypeOK
  <2>3. /\ rows' \subseteq Row /\ Unique(rows)' /\ None \notin Ids(rows)'
        /\ behind' \in [Actor -> SUBSET Id] /\ outdated' \subseteq Id
    <3>1. CASE pc'[j] = "detect"
      BY <1>0, <1>7, <2>1, <3>1, DetectExtends, TableType DEF Extends
    <3>2. CASE pc'[j] = "done"
      <4>1. UNCHANGED <<rows, behind, outdated>>
        BY <1>0, <1>7, <2>1, <3>2 DEF Detect, Goto, TypeOK
      <4> QED
        BY <1>0, <4>1 DEF TypeOK, Unique, Ids
    <3> QED
      BY <2>2, <3>1, <3>2
  <2>4. /\ held' \in [Actor -> SUBSET Row] /\ todo' \in [Actor -> SUBSET Id]
        /\ known' \in [Actor -> SUBSET Class]
        /\ prev' \in [Actor -> RiskScore] /\ next' \in [Actor -> RiskScore]
    <3>1. CASE Forget(j)
      BY <1>0, <2>1, <3>1, ForgetType
    <3>2. CASE ~Forget(j)
      <4>1. PICK r \in held[j], D \in SUBSET Finds(j) :
              LET A == AddedTo(r, D)
                  s == [r EXCEPT !.classes = @ \cup A, !.identified = @ \cup A]
              IN /\ todo' = [todo EXCEPT ![j] = @ \ {r.id}]
                 /\ held' = [held EXCEPT ![j] = (@ \ {r}) \cup {s}]
                 /\ UNCHANGED <<known, prev, next>>
        BY <1>7, <3>2 DEF Detect
      <4> DEFINE A == AddedTo(r, D)
                 s == [r EXCEPT !.classes = @ \cup A, !.identified = @ \cup A]
      <4>2. A \subseteq Class /\ r \in Row
        BY <1>0, <2>1 DEF AddedTo, Finds, TypeOK
      <4>3. s \in Row
        BY <4>2 DEF Row
      <4> HIDE DEF s
      <4>4. held' = [held EXCEPT ![j] = (@ \ {r}) \cup {s}]
        BY <4>1 DEF s
      <4> QED
        BY <1>0, <2>1, <4>1, <4>3, <4>4 DEF TypeOK
    <3> QED
      BY <3>1, <3>2
  <2> QED
    BY <1>0, <1>7, <2>2, <2>3, <2>4 DEF Detect, TypeOK
<1>8. ASSUME NEW j \in Job, EndDetection(j)  PROVE TypeOK'
  <2>1. j \in Actor /\ known[j] \subseteq Class
    BY <1>0 DEF Actor, TypeOK
  <2>2. RiskOf(held[j], known[j]) \in RiskScore
    BY <2>1, RiskType
  <2>3. risk' \in RiskScore
    BY <1>0, <1>8, <2>2 DEF EndDetection, TypeOK
  <2> QED
    BY <1>0, <1>8, <2>1, <2>3, ForgetType DEF EndDetection, Goto, history, TypeOK, Unique, Ids
<1>9. ASSUME NEW u \in Request, ReadRow(u)  PROVE TypeOK'
  <2>1. u \in Actor
    BY DEF Actor
  <2>2. held' \in [Actor -> SUBSET Row] /\ behind' \in [Actor -> SUBSET Id]
    <3>1. ASSUME NEW r \in rows, NEW S \in SUBSET Class,
                 Take(u, {[r EXCEPT !.classes = S, !.false = r.identified \ S]})
          PROVE  held' \in [Actor -> SUBSET Row] /\ behind' \in [Actor -> SUBSET Id]
      <4>1. r \in Row /\ S \subseteq Class /\ r.identified \ S \subseteq Class
        BY <1>0, RowFields DEF TypeOK
      <4>2. [r EXCEPT !.classes = S, !.false = r.identified \ S] \in Row
        BY <4>1, RowLists
      <4> QED
        BY <1>0, <2>1, <3>1, <4>2, TakeType
    <3>2. ASSUME NEW r \in rows, Take(u, {r})
          PROVE  held' \in [Actor -> SUBSET Row] /\ behind' \in [Actor -> SUBSET Id]
      BY <1>0, <2>1, <3>2, TakeType DEF TypeOK
    <3> QED
      BY <1>9, <3>1, <3>2 DEF ReadRow
  <2>3. known' \in [Actor -> SUBSET Class]
    BY <1>0, <1>9, <2>1 DEF ReadRow, TypeOK
  <2>4. pc' \in [Actor -> {"idle", "fields", "classes", "commit", "failed", "detect",
                           "write", "delete", "risk", "set", "done"}]
    BY <1>0, <1>9, <2>1 DEF ReadRow, Goto, TypeOK
  <2> QED
    BY <1>0, <1>9, <2>2, <2>3, <2>4 DEF ReadRow, TypeOK, Unique, Ids
<1>10. ASSUME NEW u \in Request, SaveRow(u)  PROVE TypeOK'
  <2>1. u \in Actor /\ held[u] \subseteq Row
    BY <1>0 DEF Actor, TypeOK
  <2>2. PICK r \in held[u] :
          \/ /\ Goto(u, "risk")
             /\ ruledOut' = {p \in ruledOut : p[1] # r.id} \cup {<<r.id, c>> : c \in r.false}
             /\ named' = {p \in named : p[1] # r.id}
                            \cup {<<r.id, c>> : c \in r.classes \ config}
          \/ Goto(u, "done") /\ UNCHANGED <<rows, behind, outdated, ruledOut, named>>
    BY <1>10 DEF SaveRow
  <2>3. /\ pc' \in [Actor -> {"idle", "fields", "classes", "commit", "failed", "detect",
                              "write", "delete", "risk", "set", "done"}]
        /\ pc'[u] \in {"risk", "done"}
    BY <1>0, <2>1, <2>2 DEF Goto, TypeOK
  <2>4. /\ rows' \subseteq Row /\ Unique(rows)' /\ None \notin Ids(rows)'
        /\ behind' \in [Actor -> SUBSET Id] /\ outdated' \subseteq Id
    <3>1. CASE pc'[u] = "risk"
      BY <1>0, <1>10, <2>1, <3>1, SaveRowKeeps, TableType
    <3>2. CASE pc'[u] = "done"
      <4>1. UNCHANGED <<rows, behind, outdated>>
        BY <1>0, <2>1, <2>2, <3>2 DEF Goto, TypeOK
      <4> QED
        BY <1>0, <4>1 DEF TypeOK, Unique, Ids
    <3> QED
      BY <2>3, <3>1, <3>2
  <2>5. ruledOut' \subseteq Id \X Class /\ named' \subseteq Id \X Class
    <3>1. r \in Row /\ r.id # None
      BY <2>1, Facts, ActorAssumption DEF Memory, HeldCurrent, Actor
    <3>2. r.id \in Id /\ r.false \subseteq Class /\ r.classes \subseteq Class
      BY <3>1, RowFields
    <3> QED
      BY <1>0, <2>2, <3>2 DEF TypeOK
  <2> QED
    BY <1>0, <1>10, <2>1, <2>3, <2>4, <2>5, ForgetType DEF SaveRow, TypeOK
<1>11. ASSUME NEW u \in Request, DeleteRow(u) \/ DeleteAll(u) \/ ClearAll(u)  PROVE TypeOK'
  <2>1. u \in Actor
    BY DEF Actor
  <2>2. /\ rows' \subseteq Row /\ Unique(rows)' /\ None \notin Ids(rows)'
        /\ behind' \in [Actor -> SUBSET Id] /\ outdated' \subseteq Id
    BY <1>0, <1>11, <2>1, Removes, TableType
  <2>3. \A w \in held[u] : w.id \in Id
    BY <2>1, Facts, RowFields, ActorAssumption DEF Memory, HeldCurrent, Actor
  <2>4. removed' \subseteq Id
    <3>1. Ids(held[u]) \subseteq Id /\ Ids(rows) \subseteq Id /\ removed \subseteq Id
      BY <1>0, <2>3, RowIds DEF TypeOK, Ids
    <3> QED
      BY <1>11, <3>1 DEF DeleteRow, DeleteAll, ClearAll
  <2>5. /\ held' \in [Actor -> SUBSET Row] /\ todo' \in [Actor -> SUBSET Id]
        /\ known' \in [Actor -> SUBSET Class]
        /\ prev' \in [Actor -> RiskScore] /\ next' \in [Actor -> RiskScore]
    <3>1. CASE Forget(u)
      BY <1>0, <2>1, <3>1, ForgetType
    <3>2. CASE UNCHANGED memory
      BY <1>0, <3>2 DEF memory, TypeOK
    <3> QED
      BY <1>11, <3>1, <3>2 DEF DeleteRow, DeleteAll, ClearAll
  <2>6. pc' \in [Actor -> {"idle", "fields", "classes", "commit", "failed", "detect",
                           "write", "delete", "risk", "set", "done"}]
    BY <1>0, <1>11, <2>1 DEF DeleteRow, DeleteAll, ClearAll, Goto, TypeOK
  <2>7. risk' \in RiskScore /\ ruledOut' \subseteq Id \X Class /\ named' \subseteq Id \X Class
    <3>1. CASE UNCHANGED <<risk, ruledOut, named>>
      BY <1>0, <3>1 DEF TypeOK
    <3>2. CASE risk' = 0 /\ ruledOut' = {} /\ named' = {}
      BY <3>2 DEF RiskScore
    <3> QED
      BY <1>11, <3>1, <3>2 DEF DeleteRow, DeleteAll, ClearAll
  <2> QED
    BY <1>0, <1>11, <2>2, <2>4, <2>5, <2>6, <2>7 DEF DeleteRow, DeleteAll, ClearAll, TypeOK
<1>12. ASSUME NEW u \in Request, ReadRisk(u)  PROVE TypeOK'
  <2>1. u \in Actor
    BY DEF Actor
  <2>2. PICK C \in cached : next' = [next EXCEPT ![u] = RiskOf(rows, C)]
    BY <1>12 DEF ReadRisk
  <2>3. RiskOf(rows, C) \in RiskScore
    BY <1>0, RiskType DEF TypeOK
  <2> QED
    BY <1>0, <1>12, <2>1, <2>2, <2>3 DEF ReadRisk, Goto, history, TypeOK, Unique, Ids
<1>13. ASSUME NEW u \in Request, SetRisk(u)  PROVE TypeOK'
  <2>1. u \in Actor
    BY DEF Actor
  <2> QED
    BY <1>0, <1>13, <2>1, ForgetType DEF SetRisk, Goto, history, TypeOK, Unique, Ids
<1>14. ASSUME NEW s \in Save, SaveConfig(s)  PROVE TypeOK'
  <2>1. s \in Actor
    BY DEF Actor
  <2> QED
    BY <1>0, <1>14, <2>1 DEF SaveConfig, Goto, history, TypeOK, Unique, Ids
<1>15. ASSUME NEW s \in Save, ReadDropped(s)  PROVE TypeOK'
  <2> DEFINE D == known[s]
             W == {[r EXCEPT !.classes = @ \ D, !.identified = @ \ D, !.false = @ \ D] :
                     r \in {q \in rows : q.classes \cap D # {}}}
  <2>1. s \in Actor
    BY DEF Actor
  <2>2. W \subseteq Row
    <3> SUFFICES ASSUME NEW r \in rows
                 PROVE  [r EXCEPT !.classes = @ \ D, !.identified = @ \ D,
                                  !.false = @ \ D] \in Row
      OBVIOUS
    <3>1. r \in Row /\ r.classes \ D \subseteq Class /\ r.identified \ D \subseteq Class
          /\ r.false \ D \subseteq Class
      BY <1>0, RowFields DEF TypeOK
    <3> QED
      BY <3>1, RowLists
  <2>3. Take(s, W)
    BY <1>15 DEF ReadDropped
  <2> HIDE DEF W
  <2> QED
    BY <1>0, <1>15, <2>1, <2>2, <2>3, TakeType DEF ReadDropped, Goto, TypeOK, Unique, Ids
<1>16. ASSUME NEW s \in Save, CleanUp(s)  PROVE TypeOK'
  <2>1. s \in Actor
    BY DEF Actor
  <2>2. /\ rows' \subseteq Row /\ Unique(rows)' /\ None \notin Ids(rows)'
        /\ behind' \in [Actor -> SUBSET Id] /\ outdated' \subseteq Id
    <3>1. CASE Ids(held[s]) \subseteq Ids(rows)
      BY <1>0, <1>16, <2>1, <3>1, CleanUpKeeps, TableType
    <3>2. CASE ~(Ids(held[s]) \subseteq Ids(rows))
      BY <1>0, <1>16, <3>2 DEF CleanUp, TypeOK, Unique, Ids
    <3> QED
      BY <3>1, <3>2
  <2>3. /\ ruledOut' \subseteq Id \X Class /\ dropped' \subseteq Class
        /\ named' \subseteq Id \X Class
        /\ cached' \subseteq SUBSET Class /\ config' \in cached' /\ config' \subseteq Class
    BY <1>0, <1>16, <2>1 DEF CleanUp, TypeOK
  <2> QED
    BY <1>0, <1>16, <2>1, <2>2, <2>3, ForgetType DEF CleanUp, Goto, TypeOK
<1>17. CASE Expire
  BY <1>0, <1>17 DEF Expire, memory, history, TypeOK, Unique, Ids
<1>18. ASSUME NEW a \in Analyzer, LookUp(a)  PROVE TypeOK'
  <2>1. a \in Actor
    BY DEF Actor
  <2>2. PICK C \in cached : next' = [next EXCEPT ![a] = Highest(C \cap known[a])]
    BY <1>18 DEF LookUp
  <2>3. Highest(C \cap known[a]) \in RiskScore
    BY <1>0, <2>1, HighestType DEF TypeOK
  <2> QED
    BY <1>0, <1>18, <2>1, <2>2, <2>3 DEF LookUp, Goto, history, TypeOK, Unique, Ids
<1> QED
  BY <1>1, <1>2, <1>3, <1>4, <1>5, <1>6, <1>7, <1>8, <1>9, <1>10, <1>11, <1>12, <1>13,
     <1>14, <1>15, <1>16, <1>17, <1>18
     DEF Next, AnalyzerStep, JobStep, RequestStep, SaveStep

(***************************************************************************)
(* What actors remember                                                    *)
(***************************************************************************)

LEMMA Undisturbed ==
    ASSUME NEW y \in Actor, Memory(y), rows' = rows, held'[y] = held[y],
           known'[y] = known[y], pc'[y] = pc[y], behind'[y] = behind[y]
    PROVE  Memory(y)'
<1>1. \A r, w : Current(y, w, r)' <=> Current(y, w, r)
  BY DEF Current, SameLists
<1> QED
  BY <1>1 DEF Memory, HeldUnique, HeldCurrent, HeldKeys

LEMMA NothingHeld ==
    ASSUME NEW x \in Actor, held'[x] = {}, pc'[x] \notin Holding
    PROVE  Memory(x)'
BY DEF Memory, HeldUnique, HeldCurrent, HeldKeys, Holding, Analyzing

\* What an analyzer reads.
LEMMA ReadFieldsMemory ==
    ASSUME FieldsInv, NEW a \in Analyzer, ReadFields(a)  PROVE Memory(a)'
<1>0. /\ a \in Actor /\ TypeOK /\ Unique(rows) /\ None \notin Ids(rows)
      /\ \A r \in rows : r.classes \cap r.false = {}
  BY DEF FieldsInv, TypeOK, Actor, Decided
<1>1. pc'[a] = "classes" /\ rows' = rows
  BY <1>0 DEF ReadFields, Goto, TypeOK
<1>2. PICK K \in Traces : \E N \in SUBSET {k \in K : FieldOf(k) = {}} :
           \E U \in SUBSET Found(K) : Take(a, U \cup {New(k) : k \in N})
  BY DEF ReadFields
<1>3. PICK N \in SUBSET {k \in K : FieldOf(k) = {}}, U \in SUBSET Found(K) :
           Take(a, U \cup {New(k) : k \in N})
  BY <1>2
<1> DEFINE H == U \cup {New(k) : k \in N}
<1>4. held'[a] = H /\ behind'[a] = {}
  BY <1>0, <1>3 DEF Take, TypeOK
<1>5. ASSUME NEW q \in U
      PROVE  \E k \in K : \E r \in rows :
              /\ q = [r EXCEPT !.key = k] /\ FieldOf(k) # {}
              /\ q \in Row /\ q.id = r.id /\ q.key = k /\ SameLists(q, r)
              /\ r.key = k \/ (r.key = NullKey[k] /\ \A s \in rows : s.key # k)
  BY <1>0, FoundRows
<1>6. ASSUME NEW q \in {New(k) : k \in N}
      PROVE  \E k \in K : /\ q = New(k) /\ FieldOf(k) = {} /\ q.id = None /\ q.key = k
                          /\ q.classes = {} /\ q.false = {}
                          /\ \A s \in rows : s.key # k
  <2>1. PICK k \in N : q = New(k)
    BY <1>6
  <2>2. k \in K /\ k \in Key /\ FieldOf(k) = {}
    BY KeyAssumption
  <2>3. \A s \in rows : s.key # k
    BY <2>2 DEF FieldOf
  <2> QED
    BY <2>1, <2>2, <2>3, NewRow
<1> HIDE DEF H
<1>7. ASSUME NEW v \in H, NEW w \in H, v.key = w.key \/ (v.id = w.id /\ v.id # None)
      PROVE  v = w
  <2>1. CASE v \in U /\ w \in U
    <3>1. PICK k \in K, r \in rows :
              /\ v = [r EXCEPT !.key = k] /\ v.id = r.id /\ v.key = k
              /\ r.key = k \/ (r.key = NullKey[k] /\ \A s \in rows : s.key # k)
      BY <1>5, <2>1
    <3>2. PICK l \in K, s \in rows :
              /\ w = [s EXCEPT !.key = l] /\ w.id = s.id /\ w.key = l
              /\ s.key = l \/ (s.key = NullKey[l] /\ \A q \in rows : q.key # l)
      BY <1>5, <2>1
    <3>3. k \in Key /\ l \in Key
      BY KeyAssumption
    <3>4. NullKey[r.key] = NullKey[k] /\ NullKey[s.key] = NullKey[l]
      BY <3>1, <3>2, <3>3, KeyAssumption
    <3>5. CASE v.key = w.key
      <4>1. k = l /\ r.key = s.key
        BY <3>1, <3>2, <3>5
      <4>2. r = s
        BY <1>0, <4>1 DEF Unique
      <4> QED
        BY <3>1, <3>2, <4>1, <4>2
    <3>6. CASE v.id = w.id
      <4>1. r = s
        BY <1>0, <3>1, <3>2, <3>6 DEF Unique
      <4>2. k = l
        BY <3>4, <4>1, KeyAssumption
      <4> QED
        BY <3>1, <3>2, <4>1, <4>2
    <3> QED
      BY <1>7, <3>5, <3>6
  <2>2. ASSUME NEW p \in U, NEW q \in {New(k) : k \in N}
        PROVE  p.key # q.key /\ p.id # q.id
    <3>1. PICK r \in rows : p.id = r.id /\ FieldOf(p.key) # {}
      BY <1>5
    <3>2. q.id = None /\ FieldOf(q.key) = {}
      BY <1>6
    <3>3. p.id # None
      BY <1>0, <3>1 DEF Ids
    <3> QED
      BY <3>1, <3>2, <3>3
  <2>3. CASE v \in {New(k) : k \in N} /\ w \in {New(k) : k \in N}
    <3>1. v = New(v.key) /\ v.id = None
      BY <1>6, <2>3
    <3>2. w = New(w.key)
      BY <1>6, <2>3
    <3> QED
      BY <1>7, <3>1, <3>2
  <2> QED
    BY <1>7, <2>1, <2>2, <2>3 DEF H
<1>8. ASSUME NEW w \in H
      PROVE  /\ w.classes \cap w.false = {}
             /\ IF w.id = None THEN w.classes = {} /\ w.false = {}
                ELSE \E r \in rows : r.id = w.id /\ SameLists(w, r)
             /\ \A r \in rows : r.key = w.key => r.id = w.id
  <2>1. CASE w \in U
    <3>1. PICK k \in K, r \in rows :
              /\ w.id = r.id /\ w.key = k /\ SameLists(w, r)
              /\ r.key = k \/ (r.key = NullKey[k] /\ \A s \in rows : s.key # k)
      BY <1>5, <2>1
    <3>2. w.id # None
      BY <1>0, <3>1 DEF Ids
    <3>3. \A s \in rows : s.key = w.key => s.id = w.id
      BY <1>0, <3>1 DEF Unique
    <3> QED
      BY <1>0, <3>1, <3>2, <3>3 DEF SameLists
  <2>2. CASE w \in {New(k) : k \in N}
    BY <1>6, <2>2
  <2> QED
    BY <2>1, <2>2 DEF H
<1>9. HeldCurrent(a)'
  BY <1>1, <1>4, <1>8 DEF HeldCurrent, Current, SameLists
<1> QED
  BY <1>1, <1>4, <1>7, <1>8, <1>9 DEF Memory, HeldUnique, HeldKeys, Holding, Analyzing

\* What a detection, a request and a cleanup read.
LEMMA ReadsMemory ==
    ASSUME FieldsInv, NEW x \in Actor,
           (x \in Job /\ ReadForDetection(x)) \/ (x \in Request /\ ReadRow(x))
              \/ (x \in Save /\ ReadDropped(x))
    PROVE  Memory(x)'
<1>0. /\ TypeOK /\ rows \subseteq Row /\ Unique(rows) /\ None \notin Ids(rows)
      /\ \A r \in rows : r.classes \cap r.false = {}
  BY DEF FieldsInv, TypeOK, Decided
<1>1. rows' = rows
  BY DEF ReadForDetection, ReadRow, ReadDropped
<1>2. CASE x \in Job /\ ReadForDetection(x)
  <2>1. pc'[x] = "detect" /\ held'[x] = rows /\ behind'[x] = {}
    BY <1>0, <1>2 DEF ReadForDetection, Goto, Take, TypeOK
  <2>2. HeldCurrent(x)'
    BY <1>0, <1>1, <2>1 DEF HeldCurrent, Current, SameLists, Ids
  <2> QED
    BY <1>0, <1>1, <2>1, <2>2 DEF Memory, HeldUnique, HeldKeys, Holding, Analyzing, Unique
<1>3. ASSUME x \in Request, ReadRow(x)  PROVE Memory(x)'
  <2>2. ASSUME NEW r \in rows, NEW S \in SUBSET Class, Goto(x, "write"),
               Take(x, {[r EXCEPT !.classes = S, !.false = r.identified \ S]})
        PROVE  Memory(x)'
    <3> DEFINE w == [r EXCEPT !.classes = S, !.false = r.identified \ S]
    <3>1. r \in Row /\ S \subseteq Class /\ r.identified \ S \subseteq Class
      BY <1>0, RowFields DEF TypeOK
    <3>2. w.id = r.id /\ w.classes = S /\ w.false = r.identified \ S
      BY <3>1 DEF Row
    <3>3. pc'[x] = "write" /\ held'[x] = {w} /\ behind'[x] = {}
      BY <1>0, <2>2 DEF Goto, Take, TypeOK
    <3> HIDE DEF w
    <3>4. w.id # None
      BY <1>0, <3>2 DEF Ids
    <3>5. x \notin Save
      BY <1>3, ActorAssumption
    <3>6. Current(x, w, r)'
      BY <1>3, <3>3, <3>5 DEF Current
    <3>7. HeldCurrent(x)'
      BY <1>1, <3>2, <3>3, <3>4, <3>6 DEF HeldCurrent
    <3> QED
      BY <3>2, <3>3, <3>7 DEF Memory, HeldUnique, HeldKeys, Holding, Analyzing
  <2>3. ASSUME NEW r \in rows, Goto(x, "delete"), Take(x, {r})  PROVE Memory(x)'
    <3>1. pc'[x] = "delete" /\ held'[x] = {r} /\ behind'[x] = {}
      BY <1>0, <2>3 DEF Goto, Take, TypeOK
    <3>2. HeldCurrent(x)'
      BY <1>0, <1>1, <3>1 DEF HeldCurrent, Current, SameLists, Ids
    <3> QED
      BY <1>0, <3>1, <3>2 DEF Memory, HeldUnique, HeldKeys, Holding, Analyzing
  <2> QED
    BY <1>3, <2>2, <2>3 DEF ReadRow
<1>4. ASSUME x \in Save, ReadDropped(x)  PROVE Memory(x)'
  <2> DEFINE D == known[x]
             Cut(r) == [r EXCEPT !.classes = @ \ D, !.identified = @ \ D, !.false = @ \ D]
             Q == {q \in rows : q.classes \cap D # {}}
  <2>1. ASSUME NEW r \in rows
        PROVE  /\ Cut(r).id = r.id /\ Cut(r).key = r.key
               /\ Cut(r).classes = r.classes \ D /\ Cut(r).false = r.false \ D
    <3>1. r \in Row /\ r.classes \ D \subseteq Class /\ r.identified \ D \subseteq Class
          /\ r.false \ D \subseteq Class
      BY <1>0, RowFields
    <3> QED
      BY <3>1 DEF Row
  <2>2. pc'[x] = "write" /\ held'[x] = {Cut(r) : r \in Q} /\ behind'[x] = {} /\ known'[x] = D
    BY <1>0, <1>4 DEF ReadDropped, Goto, Take, TypeOK
  <2> HIDE DEF Cut
  <2>3. ASSUME NEW w \in held'[x]
        PROVE  \E r \in rows : /\ w = Cut(r) /\ w.id = r.id /\ w.key = r.key
                               /\ w.classes = r.classes \ D /\ w.false = r.false \ D
    BY <2>1, <2>2
  <2> HIDE DEF D, Q
  <2>4. x \notin Request
    BY <1>4, ActorAssumption
  <2>5. HeldCurrent(x)'
    BY <1>0, <1>1, <1>4, <2>2, <2>3, <2>4 DEF HeldCurrent, Current, Ids
  <2>6. HeldUnique(x)'
    BY <1>0, <2>3 DEF HeldUnique, Unique
  <2>7. \A w \in held'[x] : w.classes \cap w.false = {}
    BY <1>0, <2>3
  <2> QED
    BY <2>2, <2>5, <2>6, <2>7 DEF Memory, HeldKeys, Holding, Analyzing
<1> QED
  BY <1>2, <1>3, <1>4

LEMMA MemoryStep == ASSUME FieldsInv, [Next]_vars  PROVE MemoryInv'
<1>0. TypeOK /\ \A y \in Actor : Memory(y)
  BY DEF FieldsInv, MemoryInv
<1> SUFFICES ASSUME NEW y \in Actor  PROVE Memory(y)'
  BY DEF MemoryInv
<1>1. CASE UNCHANGED vars \/ Expire
  BY <1>0, <1>1, Undisturbed DEF vars, memory, history, Expire
\* Steps that write rows.
<1>2. ASSUME NEW x \in Actor, NEW R \in SUBSET Row, NEW C, Table(x, R, C),
             \A z \in Actor \ {x} : UNCHANGED <<held[z], known[z], pc[z]>>,
             Memory(x)'
      PROVE  Memory(y)'
  BY <1>2, OthersRemember
\* Steps that do not.
<1>3. ASSUME NEW x \in Actor, rows' = rows,
             \A z \in Actor \ {x} : UNCHANGED <<held[z], known[z], pc[z], behind[z]>>,
             Memory(x)'
      PROVE  Memory(y)'
  BY <1>0, <1>3, Undisturbed
<1>4. ASSUME NEW x \in Analyzer \cup Job, ReadEndpoint(x) \/ StartDetection(x)
      PROVE  Memory(y)'
  <2>1. x \in Actor /\ held[x] = {}
    BY <1>0, <1>4 DEF Actor, ReadEndpoint, StartDetection, At, Memory, Holding
  <2>2. Memory(x)'
    BY <1>0, <1>4, <2>1, NothingHeld DEF ReadEndpoint, StartDetection, Goto, Holding, TypeOK
  <2> QED
    BY <1>0, <1>3, <1>4, <2>1, <2>2 DEF ReadEndpoint, StartDetection, Goto, history, TypeOK
<1>5. ASSUME NEW a \in Analyzer, ReadFields(a)  PROVE Memory(y)'
  <2>1. a \in Actor
    BY DEF Actor
  <2>2. Memory(a)'
    BY <1>5, ReadFieldsMemory
  <2>3. \A z \in Actor \ {a} : held'[z] = held[z] /\ behind'[z] = behind[z]
    BY <1>0, <1>5 DEF ReadFields, Take, TypeOK
  <2> QED
    BY <1>0, <1>3, <1>5, <2>1, <2>2, <2>3 DEF ReadFields, Goto, TypeOK
<1>6. ASSUME NEW a \in Analyzer, Commit(a)  PROVE Memory(y)'
  <2>1. a \in Actor
    BY DEF Actor
  <2>2. Memory(a)'
    BY <1>0, <1>6, <2>1, Forgotten DEF Commit, Goto, Holding, TypeOK
  <2>3. \E R \in SUBSET Row : Table(a, R, config)
    BY <1>6, CommitExtends DEF Extends
  <2> QED
    BY <1>0, <1>2, <1>6, <2>1, <2>2, <2>3 DEF Commit, Forget, Goto, TypeOK
<1>7. ASSUME NEW x \in Analyzer \cup Job,
             FailCommit(x) \/ TooFewTraces(x) \/ (x \in Job /\ EndDetection(x))
      PROVE  Memory(y)'
  <2>1. x \in Actor
    BY DEF Actor
  <2>2. Memory(x)'
    BY <1>0, <1>7, <2>1, Forgotten
       DEF FailCommit, TooFewTraces, EndDetection, Goto, Holding, TypeOK
  <2> QED
    BY <1>0, <1>3, <1>7, <2>1, <2>2
       DEF FailCommit, TooFewTraces, EndDetection, Forget, Goto, history, TypeOK
<1>8. ASSUME NEW a \in Analyzer, NextTrace(a)  PROVE Memory(y)'
  <2>1. a \in Actor /\ held[a] = {}
    BY <1>0, <1>8 DEF Actor, NextTrace, At, Memory, Holding
  <2>2. Memory(a)'
    BY <1>0, <1>8, <2>1, NothingHeld DEF NextTrace, Goto, Holding, TypeOK, memory
  <2> QED
    BY <1>0, <1>3, <1>8, <2>1, <2>2 DEF NextTrace, Goto, history, memory, TypeOK
<1>9. ASSUME NEW x \in Actor,
             (x \in Job /\ ReadForDetection(x)) \/ (x \in Request /\ ReadRow(x))
                \/ (x \in Save /\ ReadDropped(x))
      PROVE  Memory(y)'
  <2>1. Memory(x)'
    BY <1>9, ReadsMemory
  <2>2. rows' = rows /\ \A z \in Actor \ {x} : UNCHANGED <<held[z], known[z], pc[z], behind[z]>>
    BY <1>0, <1>9 DEF ReadForDetection, ReadRow, ReadDropped, Take, Goto, TypeOK
  <2> QED
    BY <1>3, <2>1, <2>2
<1>10. ASSUME NEW j \in Job, Detect(j)  PROVE Memory(y)'
  <2>1. j \in Actor /\ pc'[j] \in {"detect", "done"}
    BY <1>0, <1>10 DEF Actor, Detect, Goto, TypeOK
  <2>2. \A z \in Actor \ {j} : UNCHANGED <<held[z], known[z], pc[z]>>
    BY <1>0, <1>10 DEF Detect, Forget, Goto, TypeOK
  <2>3. CASE pc'[j] = "detect"
    <3>1. PICK R : Table(j, R, known[j]) /\ Extends(R) /\ Memory(j)'
      BY <1>10, <2>3, DetectExtends
    <3> QED
      BY <1>2, <2>1, <2>2, <3>1 DEF Extends
  <2>4. CASE pc'[j] = "done"
    <3>1. Forget(j) /\ UNCHANGED <<rows, behind>>
      BY <1>0, <1>10, <2>1, <2>4 DEF Detect, Goto, TypeOK
    <3>2. Memory(j)'
      BY <1>0, <2>1, <2>4, <3>1, Forgotten DEF Holding
    <3> QED
      BY <1>3, <2>1, <2>2, <3>1, <3>2
  <2> QED
    BY <2>1, <2>3, <2>4
<1>11. ASSUME NEW u \in Request, SaveRow(u)  PROVE Memory(y)'
  <2>1. u \in Actor /\ pc'[u] \in {"risk", "done"}
    BY <1>0, <1>11 DEF Actor, SaveRow, Goto, TypeOK
  <2>2. \A z \in Actor \ {u} : UNCHANGED <<held[z], known[z], pc[z]>>
    BY <1>0, <1>11 DEF SaveRow, Forget, Goto, TypeOK
  <2>3. Memory(u)'
    BY <1>0, <1>11, <2>1, Forgotten DEF SaveRow, Holding
  <2>4. CASE pc'[u] = "risk"
    BY <1>2, <1>11, <2>1, <2>2, <2>3, <2>4, SaveRowKeeps
  <2>5. CASE pc'[u] = "done"
    <3>1. UNCHANGED <<rows, behind>>
      BY <1>0, <1>11, <2>1, <2>5 DEF SaveRow, Goto, TypeOK
    <3> QED
      BY <1>3, <2>1, <2>2, <2>3, <3>1
  <2> QED
    BY <2>1, <2>4, <2>5
<1>12. ASSUME NEW u \in Request, DeleteRow(u) \/ DeleteAll(u) \/ ClearAll(u)
       PROVE  Memory(y)'
  <2>1. u \in Actor /\ pc'[u] \notin Holding
    BY <1>0, <1>12 DEF Actor, DeleteRow, DeleteAll, ClearAll, Goto, Holding, TypeOK
  <2>2. held'[u] = {}
    <3>1. CASE DeleteRow(u)
      BY <1>0, <2>1, <3>1 DEF DeleteRow, Forget, TypeOK
    <3>2. CASE DeleteAll(u) \/ ClearAll(u)
      BY <1>0, <2>1, <3>2 DEF DeleteAll, ClearAll, At, Memory, Holding, memory
    <3> QED
      BY <1>12, <3>1, <3>2
  <2>3. \A z \in Actor \ {u} : UNCHANGED <<held[z], known[z], pc[z]>>
    BY <1>0, <1>12 DEF DeleteRow, DeleteAll, ClearAll, Forget, Goto, memory, TypeOK
  <2> QED
    BY <1>2, <1>12, <2>1, <2>2, <2>3, NothingHeld, Removes
<1>13. ASSUME NEW u \in Request, ReadRisk(u) \/ SetRisk(u)  PROVE Memory(y)'
  <2>1. u \in Actor /\ held[u] = {}
    BY <1>0, <1>13 DEF Actor, ReadRisk, SetRisk, At, Memory, Holding
  <2>2. held'[u] = {} /\ pc'[u] \notin Holding
    BY <1>0, <1>13, <2>1 DEF ReadRisk, SetRisk, Forget, Goto, Holding, TypeOK
  <2>3. rows' = rows /\ \A z \in Actor \ {u} : UNCHANGED <<held[z], known[z], pc[z], behind[z]>>
    BY <1>0, <1>13 DEF ReadRisk, SetRisk, Forget, Goto, history, TypeOK
  <2> QED
    BY <1>3, <2>1, <2>2, <2>3, NothingHeld
<1>14. ASSUME NEW s \in Save, SaveConfig(s)  PROVE Memory(y)'
  <2>1. s \in Actor /\ held[s] = {}
    BY <1>0, <1>14 DEF Actor, SaveConfig, At, Memory, Holding
  <2>2. held'[s] = {} /\ pc'[s] \notin Holding
    BY <1>0, <1>14, <2>1 DEF SaveConfig, Goto, Holding, TypeOK
  <2>3. rows' = rows /\ \A z \in Actor \ {s} : UNCHANGED <<held[z], known[z], pc[z], behind[z]>>
    BY <1>0, <1>14 DEF SaveConfig, Goto, history, TypeOK
  <2> QED
    BY <1>3, <2>1, <2>2, <2>3, NothingHeld
<1>15. ASSUME NEW s \in Save, CleanUp(s)  PROVE Memory(y)'
  <2>1. s \in Actor
    BY DEF Actor
  <2>2. Memory(s)'
    BY <1>0, <1>15, <2>1, Forgotten DEF CleanUp, Goto, Holding, TypeOK
  <2>3. \A z \in Actor \ {s} : UNCHANGED <<held[z], known[z], pc[z]>>
    BY <1>0, <1>15 DEF CleanUp, Forget, Goto, TypeOK
  <2>4. CASE Ids(held[s]) \subseteq Ids(rows)
    BY <1>2, <1>15, <2>1, <2>2, <2>3, <2>4, CleanUpKeeps
  <2>5. CASE ~(Ids(held[s]) \subseteq Ids(rows))
    BY <1>3, <1>15, <2>1, <2>2, <2>3, <2>5 DEF CleanUp
  <2> QED
    BY <2>4, <2>5
<1>16. ASSUME NEW a \in Analyzer, LookUp(a)  PROVE Memory(y)'
  <2>1. a \in Actor /\ pc[a] = "classes" /\ Memory(a)
    BY <1>0, <1>16 DEF Actor, LookUp, At
  <2>2. /\ UNCHANGED <<rows, held, behind>> /\ pc'[a] = "commit"
        /\ \A z \in Actor \ {a} : UNCHANGED <<known[z], pc[z]>>
    BY <1>0, <1>16, <2>1 DEF LookUp, Goto, history, TypeOK
  <2>3. \A w, r : Current(a, w, r)' <=> Current(a, w, r)
    BY <2>1, <2>2 DEF Current, SameLists
  <2>4. HeldUnique(a)' /\ HeldCurrent(a)' /\ HeldKeys(a)'
    BY <2>1, <2>2, <2>3 DEF Memory, HeldUnique, HeldCurrent, HeldKeys, Analyzing
  <2>5. Memory(a)'
    BY <2>1, <2>2, <2>4 DEF Memory, Holding
  <2> QED
    BY <1>3, <2>1, <2>2, <2>5
<1>17. \A x : x \in Analyzer \cup Job \cup Request \cup Save => x \in Actor
  BY DEF Actor
<1> QED
  BY <1>1, <1>4, <1>5, <1>6, <1>7, <1>8, <1>9, <1>10, <1>11, <1>12, <1>13, <1>14, <1>15,
     <1>16, <1>17
     DEF Next, AnalyzerStep, JobStep, RequestStep, SaveStep

(***************************************************************************)
(* Decisions and cleanups                                                  *)
(***************************************************************************)

LEMMA DecisionsStep == ASSUME FieldsInv, [Next]_vars  PROVE Decided' /\ Cleaned'
<1>0. TypeOK /\ Decided /\ Cleaned /\ \A x \in Actor : Memory(x)
  BY DEF FieldsInv, MemoryInv
\* Steps that leave the table, the config and the saves alone.
<1>1. ASSUME UNCHANGED <<rows, config, outdated, ruledOut, removed, dropped, named>>,
             \A s \in Save : UNCHANGED <<held[s], known[s], pc[s]>>
      PROVE  Decided' /\ Cleaned'
  BY <1>0, <1>1 DEF Decided, Cleaned, RemovedStaysRemoved, DroppedStaysDropped, NamedOnly
<1>2. \A s \in Save : s \in Actor /\ s \notin Analyzer \cup Job \cup Request
  BY ActorAssumption DEF Actor
<1>3. CASE UNCHANGED vars \/ Expire
  BY <1>1, <1>3 DEF vars, memory, history, Expire
<1>4. ASSUME NEW x \in Analyzer \cup Job,
             ReadEndpoint(x) \/ StartDetection(x) \/ LookUp(x)
      PROVE  Decided' /\ Cleaned'
  BY <1>0, <1>1, <1>2, <1>4 DEF ReadEndpoint, StartDetection, LookUp, Goto, history, TypeOK
<1>5. ASSUME NEW a \in Analyzer, ReadFields(a)  PROVE Decided' /\ Cleaned'
  <2>1. \A s \in Save : held'[s] = held[s]
    BY <1>0, <1>2, <1>5 DEF ReadFields, Take, TypeOK
  <2> QED
    BY <1>0, <1>1, <1>2, <1>5, <2>1 DEF ReadFields, Goto, TypeOK
<1>6. ASSUME NEW a \in Analyzer, Commit(a)  PROVE Decided' /\ Cleaned'
  <2>1. a \in Actor
    BY DEF Actor
  <2>2. \A s \in Save : UNCHANGED <<held[s], known[s], pc[s]>>
    BY <1>0, <1>2, <1>6 DEF Commit, Forget, Goto, TypeOK
  <2>3. UNCHANGED <<config, ruledOut, removed, dropped, named>>
    BY <1>6 DEF Commit
  <2> QED
    BY <1>6, <2>1, <2>2, <2>3, CommitExtends, ExtendsKeeps
<1>7. ASSUME NEW x \in Analyzer \cup Job,
             FailCommit(x) \/ NextTrace(x) \/ TooFewTraces(x) \/ EndDetection(x)
                \/ ReadForDetection(x)
      PROVE  Decided' /\ Cleaned'
  BY <1>0, <1>1, <1>2, <1>7
     DEF FailCommit, NextTrace, TooFewTraces, EndDetection, ReadForDetection, Take, Forget,
         Goto, history, memory, TypeOK
<1>8. ASSUME NEW j \in Job, Detect(j)  PROVE Decided' /\ Cleaned'
  <2>1. j \in Actor /\ pc'[j] \in {"detect", "done"}
    BY <1>0, <1>8 DEF Actor, Detect, Goto, TypeOK
  <2>2. \A s \in Save : UNCHANGED <<held[s], known[s], pc[s]>>
    BY <1>0, <1>2, <1>8 DEF Detect, Forget, Goto, TypeOK
  <2>3. UNCHANGED <<config, ruledOut, removed, dropped, named>>
    BY <1>8 DEF Detect
  <2>4. CASE pc'[j] = "detect"
    <3>1. PICK R : Table(j, R, known[j]) /\ Extends(R)
      BY <1>8, <2>4, DetectExtends
    <3> QED
      BY <2>1, <2>2, <2>3, <3>1, ExtendsKeeps
  <2>5. CASE pc'[j] = "done"
    <3>1. UNCHANGED <<rows, outdated>>
      BY <1>0, <1>8, <2>1, <2>5 DEF Detect, Goto, TypeOK
    <3> QED
      BY <1>1, <2>2, <2>3, <3>1
  <2> QED
    BY <2>1, <2>4, <2>5
<1>9. ASSUME NEW u \in Request, ReadRow(u) \/ ReadRisk(u) \/ SetRisk(u)
      PROVE  Decided' /\ Cleaned'
  <2>1. \A s \in Save : UNCHANGED <<held[s], known[s], pc[s]>>
    <3>1. \A s \in Save : s # u /\ s \in Actor /\ u \in Actor
      BY ActorAssumption DEF Actor
    <3>2. CASE ReadRow(u)
      <4>1. /\ \E T : Take(u, T)
            /\ Goto(u, "write") \/ Goto(u, "delete")
            /\ known' = known
        BY <3>2, Zenon DEF ReadRow
      <4> QED
        BY <1>0, <3>1, <4>1 DEF Take, Goto, TypeOK
    <3>3. CASE ReadRisk(u)
      BY <1>0, <3>1, <3>3 DEF ReadRisk, Forget, Goto, TypeOK
    <3>4. CASE SetRisk(u)
      BY <1>0, <3>1, <3>4 DEF SetRisk, Forget, Goto, TypeOK
    <3> QED
      BY <1>9, <3>2, <3>3, <3>4
  <2>2. UNCHANGED <<rows, config, outdated, ruledOut, removed, dropped, named>>
    BY <1>9, Zenon DEF ReadRow, ReadRisk, SetRisk, history
  <2> QED
    BY <1>1, <2>1, <2>2
<1>10. ASSUME NEW u \in Request, SaveRow(u)  PROVE Decided' /\ Cleaned'
  <2>1. u \in Actor /\ pc'[u] \in {"risk", "done"}
    BY <1>0, <1>10 DEF Actor, SaveRow, Goto, TypeOK
  <2>2. CASE pc'[u] = "risk"
    BY <1>10, <2>2, SaveRowKeeps
  <2>3. CASE pc'[u] = "done"
    <3>1. UNCHANGED <<rows, outdated, ruledOut, named>>
      BY <1>0, <1>10, <2>1, <2>3 DEF SaveRow, Goto, TypeOK
    <3>2. \A s \in Save : UNCHANGED <<held[s], known[s], pc[s]>>
      BY <1>0, <1>2, <1>10 DEF SaveRow, Forget, Goto, TypeOK
    <3> QED
      BY <1>1, <1>10, <3>1, <3>2 DEF SaveRow
  <2> QED
    BY <2>1, <2>2, <2>3
<1>11. ASSUME NEW u \in Request, DeleteRow(u) \/ DeleteAll(u) \/ ClearAll(u)
       PROVE  Decided' /\ Cleaned'
  BY <1>11, Removes
<1>12. ASSUME NEW s \in Save, SaveConfig(s)  PROVE Decided' /\ Cleaned'
  <2>1. PICK D \in SUBSET config : config' = config \ D /\ known' = [known EXCEPT ![s] = D]
    BY <1>12 DEF SaveConfig
  <2>2. held[s] = {} /\ pc'[s] = "fields"
    BY <1>0, <1>2, <1>12 DEF SaveConfig, At, Goto, Memory, Holding, TypeOK
  <2>3. UNCHANGED <<rows, held, outdated, ruledOut, removed, dropped, named>>
    BY <1>12 DEF SaveConfig, history
  <2>4. known'[s] = D /\ \A x \in Save : x # s => known'[x] = known[x] /\ pc'[x] = pc[x]
    BY <1>0, <1>2, <1>12, <2>1 DEF SaveConfig, Goto, TypeOK
  <2>5. Decided'
    BY <1>0, <2>3 DEF Decided, RemovedStaysRemoved
  <2>6. \A x \in Save : /\ known'[x] \cap config' = {}
                        /\ \A w \in held[x] : w.classes \cap known'[x] = {}
    BY <1>0, <2>1, <2>2, <2>4 DEF Cleaned
  <2> QED
    BY <1>0, <2>1, <2>2, <2>3, <2>4, <2>5, <2>6 DEF Cleaned, DroppedStaysDropped, NamedOnly
<1>13. ASSUME NEW s \in Save, ReadDropped(s)  PROVE Decided' /\ Cleaned'
  <2> DEFINE D == known[s]
             Cut(r) == [r EXCEPT !.classes = @ \ D, !.identified = @ \ D, !.false = @ \ D]
             Q == {q \in rows : q.classes \cap D # {}}
  <2>1. held'[s] = {Cut(r) : r \in Q} /\ pc'[s] = "write"
    BY <1>0, <1>2, <1>13 DEF ReadDropped, Take, Goto, TypeOK
  <2>2. ASSUME NEW r \in rows  PROVE Cut(r).id = r.id /\ Cut(r).classes = r.classes \ D
    <3>1. r \in Row
      BY <1>0 DEF TypeOK
    <3> QED
      BY <3>1 DEF Row
  <2> HIDE DEF Cut
  <2>3. \A w \in held'[s] : w.classes \cap D = {}
    BY <2>1, <2>2
  <2>4. \A r \in rows : r.id \notin Ids(held'[s]) => r.classes \cap D = {}
    BY <2>1, <2>2 DEF Ids
  <2>5. \A x \in Save : x # s => UNCHANGED <<held[x], pc[x]>>
    BY <1>0, <1>2, <1>13 DEF ReadDropped, Take, Goto, TypeOK
  <2>6. UNCHANGED <<rows, config, known, outdated, ruledOut, removed, dropped, named>>
    BY <1>13 DEF ReadDropped
  <2>7. Decided'
    BY <1>0, <2>6 DEF Decided, RemovedStaysRemoved
  <2> QED
    BY <1>0, <2>3, <2>4, <2>5, <2>6, <2>7 DEF Cleaned, DroppedStaysDropped, NamedOnly
<1>14. ASSUME NEW s \in Save, CleanUp(s)  PROVE Decided' /\ Cleaned'
  <2>1. CASE Ids(held[s]) \subseteq Ids(rows)
    BY <1>14, <2>1, CleanUpKeeps
  <2>2. CASE ~(Ids(held[s]) \subseteq Ids(rows))
    <3>1. UNCHANGED <<rows, config, outdated, ruledOut, removed, dropped, named>>
      BY <1>14, <2>2 DEF CleanUp
    <3>2. held'[s] = {} /\ known'[s] = {} /\ pc'[s] = "done"
      BY <1>0, <1>2, <1>14 DEF CleanUp, Forget, Goto, TypeOK
    <3>3. \A x \in Save : x # s => UNCHANGED <<held[x], known[x], pc[x]>>
      BY <1>0, <1>2, <1>14 DEF CleanUp, Forget, Goto, TypeOK
    <3>4. Decided'
      BY <1>0, <3>1 DEF Decided, RemovedStaysRemoved
    <3> QED
      BY <1>0, <3>1, <3>2, <3>3, <3>4 DEF Cleaned, DroppedStaysDropped, NamedOnly
  <2> QED
    BY <2>1, <2>2
<1> QED
  BY <1>3, <1>4, <1>5, <1>6, <1>7, <1>8, <1>9, <1>10, <1>11, <1>12, <1>13, <1>14
     DEF Next, AnalyzerStep, JobStep, RequestStep, SaveStep

LEMMA FieldsInvariant == Spec => []FieldsInv
<1>1. ASSUME FieldsInv, [Next]_vars  PROVE FieldsInv'
  BY <1>1, TypeStep, MemoryStep, DecisionsStep DEF FieldsInv
<1> QED
  BY FieldsInvInit, <1>1, PTL DEF Spec

(***************************************************************************)
(* The limit                                                               *)
(***************************************************************************)

Kept == {r \in rows : r.id \notin outdated}
NewRows(a) == {w \in held[a] : w.id = None}

\* What an analyzer is about to add fits in, if nobody wrote since it counted.
RoomLeft(a) ==
    pc[a] \in Analyzing /\ behind[a] = {} =>
        NewRows(a) = {} \/ Cardinality(rows) + Cardinality(NewRows(a)) <= Limit

LimitInv == LimitKept /\ \A a \in Analyzer : RoomLeft(a)

LEMMA NotMore ==
    ASSUME NEW S, NEW T, IsFiniteSet(T), NEW f \in [S -> T],
           \A x, y \in S : f[x] = f[y] => x = y
    PROVE  IsFiniteSet(S) /\ Cardinality(S) <= Cardinality(T)
<1>1. f \in Injection(S, T)
  BY DEF Injection, IsInjective
<1> QED
  BY <1>1, FS_Injection

LEMMA FewerIds ==
    ASSUME NEW S, NEW T, IsFiniteSet(T), Unique(S),
           \A q \in S : \E r \in T : r.id = q.id
    PROVE  IsFiniteSet(S) /\ Cardinality(S) <= Cardinality(T)
<1> DEFINE f == [q \in S |-> CHOOSE r \in T : r.id = q.id]
<1>1. \A q \in S : f[q] \in T /\ f[q].id = q.id
  OBVIOUS
<1>2. f \in [S -> T]
  BY <1>1
<1>3. \A p, q \in S : f[p] = f[q] => p = q
  BY <1>1 DEF Unique
<1> HIDE DEF f
<1> QED
  BY <1>2, <1>3, NotMore

LEMMA FewerKeys ==
    ASSUME NEW S, NEW T, IsFiniteSet(T), Unique(S),
           \A q \in S : \E r \in T : r.key = q.key
    PROVE  IsFiniteSet(S) /\ Cardinality(S) <= Cardinality(T)
<1> DEFINE f == [q \in S |-> CHOOSE r \in T : r.key = q.key]
<1>1. \A q \in S : f[q] \in T /\ f[q].key = q.key
  OBVIOUS
<1>2. f \in [S -> T]
  BY <1>1
<1>3. \A p, q \in S : f[p] = f[q] => p = q
  BY <1>1 DEF Unique
<1> HIDE DEF f
<1> QED
  BY <1>2, <1>3, NotMore

LEMMA FiniteRows ==
    ASSUME TypeOK  PROVE IsFiniteSet(rows) /\ Cardinality(rows) \in Nat
<1> DEFINE f == [r \in rows |-> r.key]
<1>1. f \in [rows -> Key]
  BY DEF TypeOK, Row
<1>2. \A p, q \in rows : f[p] = f[q] => p = q
  BY DEF TypeOK, Unique
<1> HIDE DEF f
<1>3. IsFiniteSet(rows)
  BY <1>1, <1>2, NotMore, SetsAssumption
<1> QED
  BY <1>3, FS_CardinalityType

LEMMA FiniteNew ==
    ASSUME FieldsInv, NEW a \in Analyzer
    PROVE  IsFiniteSet(NewRows(a)) /\ Cardinality(NewRows(a)) \in Nat
<1> DEFINE f == [w \in NewRows(a) |-> w.key]
<1>0. /\ a \in Actor /\ held[a] \subseteq Row
      /\ \A v, w \in held[a] : v.key = w.key => v = w
  BY DEF FieldsInv, MemoryInv, Memory, HeldUnique, TypeOK, Actor
<1>1. f \in [NewRows(a) -> Key]
  BY <1>0 DEF NewRows, Row
<1>2. \A p, q \in NewRows(a) : f[p] = f[q] => p = q
  BY <1>0 DEF NewRows
<1> HIDE DEF f
<1>3. IsFiniteSet(NewRows(a))
  BY <1>1, <1>2, NotMore, SetsAssumption
<1> QED
  BY <1>3, FS_CardinalityType

\* Rows that were there, or that others wrote since they were read, do not
\* count in addition; nor do new ones of an actor that others overtook.
LEMMA KeptShrinks ==
    ASSUME FieldsInv, TypeOK', LimitKept, NEW x \in Actor, NEW R, NEW C, Table(x, R, C),
           behind[x] # {} \/ \A q \in R : q.id \in Ids(rows) \cup behind[x]
    PROVE  LimitKept'
<1>1. IsFiniteSet(Kept) /\ Cardinality(Kept) \in Nat
  <2>1. IsFiniteSet(rows)
    BY FiniteRows DEF FieldsInv
  <2>2. Kept \in SUBSET rows
    BY DEF Kept
  <2> QED
    BY <2>1, <2>2, FS_Subset, FS_CardinalityType
<1>2. ASSUME NEW q \in Kept'  PROVE \E r \in Kept : r.id = q.id
  <2>1. q \in R /\ q.id \notin outdated'
    BY DEF Kept, Table
  <2>2. q.id \notin outdated
    BY <2>1, MoreOutdated
  <2>3. q.id \in Ids(rows)
    <3>1. q \in rows \/ q.id \in Ids(R \ rows)
      BY <2>1 DEF Ids
    <3>2. CASE q \in rows
      BY <3>2 DEF Ids
    <3>3. CASE q.id \in Ids(R \ rows) /\ q.id \in behind[x]
      BY <2>1, <3>3 DEF Table
    <3>4. CASE q.id \in Ids(R \ rows) /\ behind[x] # {}
      BY <2>1, <3>4 DEF Table
    <3> QED
      BY <2>1, <3>1, <3>2, <3>3, <3>4
  <2> QED
    BY <2>2, <2>3 DEF Kept, Ids
<1>3. Unique(Kept')
  BY DEF Kept, TypeOK, Unique
<1>4. IsFiniteSet(Kept') /\ Cardinality(Kept') <= Cardinality(Kept)
  BY <1>1, <1>2, <1>3, FewerIds
<1>5. Cardinality(Kept') \in Nat
  BY <1>4, FS_CardinalityType
<1>6. Cardinality(Kept) <= Limit
  BY DEF LimitKept, Kept
<1>7. Cardinality(Kept') <= Limit
  BY <1>1, <1>4, <1>5, <1>6, SetsAssumption
<1> QED
  BY <1>7 DEF LimitKept, Kept

\* What others write is noticed; who is not overtaken still has its room.
LEMMA OthersRoom ==
    ASSUME FieldsInv, NEW x \in Actor, NEW R, NEW C, Table(x, R, C),
           NEW a \in Analyzer, a # x, RoomLeft(a), UNCHANGED <<held[a], pc[a]>>
    PROVE  RoomLeft(a)'
<1> SUFFICES ASSUME pc[a] \in Analyzing, behind'[a] = {}
             PROVE  behind[a] = {} /\ rows' = rows
  BY DEF RoomLeft, NewRows
<1>1. a \in Actor /\ pc'[a] \in Holding
  BY DEF Actor, Holding, Analyzing
<1>2. behind'[a] = behind[a] \cup Ids(R \ rows) \cup Ids(rows \ R)
  BY <1>1 DEF Table
<1>3. R \ rows = {} /\ rows \ R = {}
  BY <1>2 DEF Ids
<1> QED
  BY <1>2, <1>3 DEF Table

LEMMA CommitLimit ==
    ASSUME FieldsInv, TypeOK', LimitKept, NEW a \in Analyzer, RoomLeft(a), Commit(a)
    PROVE  LimitKept'
<1> DEFINE U == Upserted(a)
           R == Numbered(U)
           N == NewRows(a)
<1>1. /\ pc[a] = "commit" /\ Table(a, R, config) /\ a \in Actor /\ Unique(R)
      /\ \A q \in U : q.id # None => q.id \in Ids(rows) \cup Ids(held[a])
      /\ \A q \in R : \/ q \in U /\ q.id # None
                      \/ \E r \in U : r.id = None /\ q.key = r.key
  BY CommitRows
<1>2. \A q \in U : q.id = None => q \in N
  <2>1. None \notin Ids(rows)
    BY DEF FieldsInv, TypeOK
  <2>2. CASE SecondTry(held[a])
    BY <2>1, <2>2 DEF Upserted, UpsertById, NewRows, Ids
  <2>3. CASE ~SecondTry(held[a])
    <3>1. ASSUME NEW w \in held[a], \E r \in rows : r.key = w.key
          PROVE  [w EXCEPT !.id = (CHOOSE r \in rows : r.key = w.key).id].id # None
      <4>1. PICK r \in rows : r = CHOOSE s \in rows : s.key = w.key
        BY <3>1
      <4>2. r.id \in Id \cup {None} /\ r.id # None
        BY <2>1 DEF Ids, FieldsInv, TypeOK, Row
      <4>3. w \in Row
        BY <1>1 DEF FieldsInv, TypeOK
      <4> QED
        BY <4>1, <4>2, <4>3, RowId
    <3> QED
      BY <2>1, <2>3, <3>1 DEF Upserted, UpsertByKey, NewRows, Ids
  <2> QED
    BY <2>2, <2>3
<1>3. CASE behind[a] # {}
  BY <1>1, <1>3, KeptShrinks
<1> HIDE DEF U, R
<1>4. CASE behind[a] = {}
  <2>1. \A w \in held[a] : w.id # None => w.id \in Ids(rows)
    BY <1>1, <1>4 DEF FieldsInv, MemoryInv, Memory, HeldCurrent, Ids
  <2>2. \A q \in U : q.id # None => q.id \in Ids(rows)
    BY <1>1, <2>1 DEF Ids
  <2>3. CASE N = {}
    <3>1. \A q \in R : q.id \in Ids(rows)
      BY <1>1, <1>2, <2>2, <2>3
    <3> QED
      BY <1>1, <3>1, KeptShrinks
  <2>4. CASE Cardinality(rows) + Cardinality(N) <= Limit
    <3> DEFINE Old == {q \in R : q.id \in Ids(rows)}
               Add == R \ Old
    <3>1. IsFiniteSet(rows) /\ Cardinality(rows) \in Nat
      BY FiniteRows DEF FieldsInv
    <3>2. IsFiniteSet(N) /\ Cardinality(N) \in Nat
      BY FiniteNew
    <3>3. Unique(Old) /\ Unique(Add)
      BY <1>1 DEF Unique
    <3>4. \A q \in Old : \E r \in rows : r.id = q.id
      BY DEF Ids
    <3>5. \A q \in Add : \E r \in N : r.key = q.key
      BY <1>1, <1>2, <2>2
    <3> HIDE DEF N
    <3>6. IsFiniteSet(Old) /\ Cardinality(Old) <= Cardinality(rows)
      BY <3>1, <3>3, <3>4, FewerIds
    <3>7. IsFiniteSet(Add) /\ Cardinality(Add) <= Cardinality(N)
      BY <3>2, <3>3, <3>5, FewerKeys
    <3>8. R = Old \cup Add /\ Old \cap Add = {}
      OBVIOUS
    <3> HIDE DEF Old, Add
    <3>9. /\ IsFiniteSet(R) /\ Cardinality(R) = Cardinality(Old) + Cardinality(Add)
          /\ Cardinality(Old) \in Nat /\ Cardinality(Add) \in Nat
      <4>1. /\ IsFiniteSet(Old \cup Add)
            /\ Cardinality(Old \cup Add)
                 = Cardinality(Old) + Cardinality(Add) - Cardinality(Old \cap Add)
        BY <3>6, <3>7, FS_Union
      <4>2. Cardinality(Old) \in Nat /\ Cardinality(Add) \in Nat
        BY <3>6, <3>7, FS_CardinalityType
      <4>3. Cardinality(Old \cap Add) = 0
        BY <3>8, FS_EmptySet
      <4> QED
        BY <3>8, <4>1, <4>2, <4>3
    <3>10. Cardinality(R) <= Limit /\ Cardinality(R) \in Nat
      BY <2>4, <3>1, <3>2, <3>6, <3>7, <3>9, SetsAssumption
    <3>11. rows' = R
      BY <1>1 DEF Table
    <3>12. Kept' \in SUBSET R
      BY <3>11 DEF Kept
    <3>13. Cardinality(Kept') <= Cardinality(R) /\ Cardinality(Kept') \in Nat
      BY <3>9, <3>12, FS_Subset, FS_CardinalityType
    <3>14. Cardinality(Kept') <= Limit
      BY <3>10, <3>13, SetsAssumption
    <3> QED
      BY <3>14 DEF LimitKept, Kept
  <2> QED
    BY <1>1, <1>4, <2>3, <2>4 DEF RoomLeft, Analyzing
<1> QED
  BY <1>3, <1>4

LEMMA ReadFieldsRoom ==
    ASSUME FieldsInv, NEW a \in Analyzer, ReadFields(a)  PROVE RoomLeft(a)'
<1>0. TypeOK /\ a \in Actor /\ None \notin Ids(rows)
  BY DEF FieldsInv, TypeOK, Actor
<1>1. PICK K \in Traces : \E N \in SUBSET {k \in K : FieldOf(k) = {}}, U \in SUBSET Found(K) :
        /\ Cardinality(N) = Room({k \in K : FieldOf(k) = {}})
        /\ Take(a, U \cup {New(k) : k \in N})
  BY DEF ReadFields
<1> DEFINE missing == {k \in K : FieldOf(k) = {}}
<1>2. PICK N \in SUBSET missing, U \in SUBSET Found(K) :
        Cardinality(N) = Room(missing) /\ Take(a, U \cup {New(k) : k \in N})
  BY <1>1
<1>3. rows' = rows /\ held'[a] = U \cup {New(k) : k \in N}
  BY <1>0, <1>2 DEF ReadFields, Take, TypeOK
<1>4. \A q \in U : q.id # None
  BY <1>0, FoundRows DEF Ids
<1>5. N \subseteq Key /\ IsFiniteSet(missing) /\ IsFiniteSet(N)
  <2>1. K \subseteq Key
    BY KeyAssumption
  <2>2. missing \in SUBSET Key /\ N \in SUBSET Key
    BY <2>1
  <2> QED
    BY <2>2, SetsAssumption, FS_Subset
<1>6. NewRows(a)' = {New(k) : k \in N}
  BY <1>3, <1>4, <1>5, NewRow DEF NewRows
<1>7. IsFiniteSet(NewRows(a)') /\ Cardinality(NewRows(a)') <= Cardinality(N)
  <2> DEFINE f == [w \in NewRows(a)' |-> w.key]
  <2>1. f \in [NewRows(a)' -> N]
    BY <1>5, <1>6, NewRow
  <2>2. \A p, q \in NewRows(a)' : f[p] = f[q] => p = q
    BY <1>5, <1>6, NewRow
  <2> HIDE DEF f
  <2> QED
    BY <1>5, <2>1, <2>2, NotMore
<1>8. Cardinality(rows) \in Nat /\ Cardinality(missing) \in Nat /\ Cardinality(N) \in Nat
      /\ Cardinality(NewRows(a)') \in Nat
  BY <1>0, <1>5, <1>7, FiniteRows, FS_CardinalityType
<1> HIDE DEF missing
<1>9. Cardinality(N) <= IF Cardinality(rows) < Limit THEN Limit - Cardinality(rows) ELSE 0
  <2> DEFINE m == Cardinality(missing)
             left == IF Cardinality(rows) < Limit THEN Limit - Cardinality(rows) ELSE 0
  <2>1. m \in Nat /\ left \in Nat
    BY <1>8, SetsAssumption
  <2>2. Cardinality(N) = Min({m, left})
    BY <1>2 DEF Room
  <2> HIDE DEF m, left
  <2>3. \E x \in {m, left} : \A y \in {m, left} : x <= y
    BY <2>1
  <2>4. Min({m, left}) <= left
    BY <2>3 DEF Min
  <2> QED
    BY <2>2, <2>4 DEF left
<1>10. CASE Cardinality(rows) < Limit
  <2>1. Cardinality(rows) + Cardinality(NewRows(a)') <= Limit
    BY <1>7, <1>8, <1>9, <1>10, SetsAssumption
  <2> QED
    BY <1>3, <2>1 DEF RoomLeft
<1>11. CASE ~(Cardinality(rows) < Limit)
  <2>1. Cardinality(N) = 0
    BY <1>8, <1>9, <1>11
  <2>2. N = {}
    BY <1>5, <2>1, FS_EmptySet
  <2> QED
    BY <1>6, <2>2 DEF RoomLeft
<1> QED
  BY <1>10, <1>11

LEMMA LimitInit == Init => LimitInv
<1> SUFFICES ASSUME Init  PROVE LimitInv
  OBVIOUS
<1>1. {r \in rows : r.id \notin outdated} = Earlier
  BY DEF Init
<1>2. \A a \in Analyzer : pc[a] = "idle"
  BY DEF Init, Actor
<1> QED
  BY <1>1, <1>2, EarlierAssumption DEF LimitInv, LimitKept, RoomLeft, Analyzing

LEMMA LimitStep ==
    ASSUME FieldsInv, LimitInv, [Next]_vars  PROVE LimitInv'
<1>0. TypeOK /\ TypeOK' /\ \A y \in Actor : Memory(y)
  BY TypeStep DEF FieldsInv, MemoryInv
\* Steps that write no row.
<1>1. ASSUME rows' = rows, outdated' = outdated, NEW x,
             \A a \in Analyzer : a # x => UNCHANGED <<held[a], pc[a], behind[a]>>,
             x \in Analyzer => RoomLeft(x)'
      PROVE  LimitInv'
  <2>1. LimitKept'
    BY <1>1 DEF LimitInv, LimitKept
  <2>2. ASSUME NEW a \in Analyzer, a # x  PROVE RoomLeft(a)'
    BY <1>1, <2>2 DEF LimitInv, RoomLeft, NewRows
  <2> QED
    BY <1>1, <2>1, <2>2 DEF LimitInv
\* Steps that do.
<1>2. ASSUME NEW x \in Actor, NEW R, NEW C, Table(x, R, C), LimitKept',
             \A a \in Analyzer : a # x => UNCHANGED <<held[a], pc[a]>>,
             x \in Analyzer => pc'[x] \notin Analyzing
      PROVE  LimitInv'
  <2>1. ASSUME NEW a \in Analyzer, a # x  PROVE RoomLeft(a)'
    BY <1>2, <2>1, OthersRoom DEF LimitInv
  <2>2. ASSUME x \in Analyzer  PROVE RoomLeft(x)'
    BY <1>2, <2>2 DEF RoomLeft
  <2> QED
    BY <1>2, <2>1, <2>2 DEF LimitInv
<1>3. CASE UNCHANGED vars \/ Expire
  <2>1. UNCHANGED <<rows, outdated, held, pc, behind>>
    BY <1>3 DEF vars, memory, history, Expire
  <2> QED
    BY <2>1 DEF LimitInv, LimitKept, RoomLeft, NewRows
<1>4. ASSUME NEW a \in Analyzer, ReadFields(a)  PROVE LimitInv'
  <2>1. \A z \in Analyzer : z # a => UNCHANGED <<held[z], pc[z], behind[z]>>
    BY <1>0, <1>4 DEF ReadFields, Take, Goto, TypeOK, Actor
  <2> QED
    BY <1>1, <1>4, <2>1, ReadFieldsRoom DEF ReadFields
<1>5. ASSUME NEW x \in Actor,
             \/ (x \in Analyzer /\ (ReadEndpoint(x) \/ FailCommit(x) \/ NextTrace(x)))
             \/ (x \in Job /\ (StartDetection(x) \/ TooFewTraces(x) \/ ReadForDetection(x) \/ EndDetection(x)))
             \/ (x \in Request /\ (ReadRow(x) \/ ReadRisk(x) \/ SetRisk(x)))
             \/ (x \in Save /\ (SaveConfig(x) \/ ReadDropped(x)))
      PROVE  LimitInv'
  <2>1. rows' = rows /\ outdated' = outdated
    BY <1>5 DEF ReadEndpoint, StartDetection, FailCommit, NextTrace, TooFewTraces, ReadForDetection,
                EndDetection, ReadRow, ReadRisk, SetRisk, SaveConfig, ReadDropped, history
  <2>2. \E p \in {"fields", "failed", "idle", "done", "detect", "write", "delete", "set"} :
            Goto(x, p)
    BY <1>5 DEF ReadEndpoint, StartDetection, FailCommit, NextTrace, TooFewTraces, ReadForDetection,
                EndDetection, ReadRow, ReadRisk, SetRisk, SaveConfig, ReadDropped
  <2>3. \A a \in Analyzer : a # x => UNCHANGED <<held[a], behind[a]>>
    BY <1>0, <1>5 DEF ReadEndpoint, StartDetection, FailCommit, NextTrace, TooFewTraces, ReadForDetection,
                EndDetection, ReadRow, ReadRisk, SetRisk, SaveConfig, ReadDropped,
                Forget, Take, memory, history, TypeOK, Actor
  <2>4. \A a \in Analyzer : a # x => pc'[a] = pc[a]
    BY <1>0, <2>2 DEF Goto, TypeOK, Actor
  <2>5. pc'[x] \notin Analyzing
    BY <1>0, <2>2 DEF Goto, TypeOK, Analyzing
  <2> QED
    BY <1>1, <2>1, <2>3, <2>4, <2>5 DEF RoomLeft
<1>6. ASSUME NEW a \in Analyzer, Commit(a)  PROVE LimitInv'
  <2>1. a \in Actor /\ pc'[a] \notin Analyzing
    BY <1>0, <1>6 DEF Commit, Goto, TypeOK, Actor, Analyzing
  <2>2. LimitKept'
    BY <1>0, <1>6, CommitLimit DEF LimitInv
  <2>3. \A z \in Analyzer : z # a => UNCHANGED <<held[z], pc[z]>>
    BY <1>0, <1>6 DEF Commit, Forget, Goto, TypeOK, Actor
  <2>4. \E R : Table(a, R, config)
    BY <1>6 DEF Commit
  <2> QED
    BY <1>2, <2>1, <2>2, <2>3, <2>4
\* Others than analyzers write no row that was not there or written meanwhile.
<1>7. ASSUME NEW x \in Actor \ Analyzer, NEW R, NEW C, Table(x, R, C),
             \A a \in Analyzer : UNCHANGED <<held[a], pc[a]>>,
             behind[x] # {} \/ \A q \in R : q.id \in Ids(rows) \cup behind[x]
      PROVE  LimitInv'
  <2>1. LimitKept'
    BY <1>0, <1>7, KeptShrinks DEF LimitInv
  <2> QED
    BY <1>2, <1>7, <2>1
<1>8. ASSUME NEW x \in Job \cup Request, NEW w \in held[x], NEW s, s.id = w.id
      PROVE  \A q \in Saved(s) : q.id \in Ids(rows) \cup behind[x]
  <2>1. x \in Actor /\ x \notin Analyzer
    BY ActorAssumption DEF Actor
  <2>2. w.id \in Ids(rows) \cup behind[x]
    BY <1>0, <1>8, <2>1 DEF Memory, HeldCurrent, Ids
  <2> QED
    BY <1>8, <2>2 DEF Saved, Ids
<1>9. ASSUME NEW j \in Job, Detect(j)  PROVE LimitInv'
  <2>1. j \in Actor /\ j \notin Analyzer /\ held[j] \subseteq Row
    BY <1>0, ActorAssumption DEF TypeOK, Actor
  <2>2. \A a \in Analyzer : UNCHANGED <<held[a], pc[a]>>
    BY <1>0, <1>9, <2>1 DEF Detect, Forget, Goto, TypeOK, Actor
  <2>3. PICK r \in held[j], D \in SUBSET Finds(j) :
          LET A == AddedTo(r, D)
              s == [r EXCEPT !.classes = @ \cup A, !.identified = @ \cup A]
          IN \/ Table(j, IF A = {} THEN rows ELSE Saved(s), known[j])
             \/ UNCHANGED <<rows, behind, outdated>>
    BY <1>9 DEF Detect
  <2> DEFINE A == AddedTo(r, D)
             s == [r EXCEPT !.classes = @ \cup A, !.identified = @ \cup A]
  <2>4. s.id = r.id
    BY <2>1 DEF Row
  <2>5. CASE UNCHANGED <<rows, behind, outdated>>
    BY <1>1, <2>1, <2>2, <2>5
  <2>6. CASE Table(j, rows, known[j])
    BY <1>7, <2>1, <2>2, <2>6 DEF Ids
  <2>7. CASE Table(j, Saved(s), known[j])
    <3>1. \A q \in Saved(s) : q.id \in Ids(rows) \cup behind[j]
      BY <1>8, <2>4
    <3> HIDE DEF s
    <3> QED
      BY <1>7, <2>1, <2>2, <2>7, <3>1
  <2> QED
    BY <2>3, <2>5, <2>6, <2>7
<1>10. ASSUME NEW u \in Request, SaveRow(u)  PROVE LimitInv'
  <2>1. u \in Actor /\ u \notin Analyzer
    BY ActorAssumption DEF Actor
  <2>2. \A a \in Analyzer : UNCHANGED <<held[a], pc[a]>>
    BY <1>0, <1>10, <2>1 DEF SaveRow, Forget, Goto, TypeOK, Actor
  <2>3. PICK r \in held[u] :
          Table(u, Saved(r), config) \/ UNCHANGED <<rows, behind, outdated>>
    BY <1>10 DEF SaveRow
  <2>4. CASE UNCHANGED <<rows, behind, outdated>>
    BY <1>1, <2>1, <2>2, <2>4
  <2>5. CASE Table(u, Saved(r), config)
    <3>1. \A q \in Saved(r) : q.id \in Ids(rows) \cup behind[u]
      BY <1>8
    <3> QED
      BY <1>7, <2>1, <2>2, <2>5, <3>1
  <2> QED
    BY <2>3, <2>4, <2>5
<1>11. ASSUME NEW u \in Request, DeleteRow(u) \/ DeleteAll(u) \/ ClearAll(u)
       PROVE  LimitInv'
  <2>1. u \in Actor /\ u \notin Analyzer
    BY ActorAssumption DEF Actor
  <2>2. \A a \in Analyzer : UNCHANGED <<held[a], pc[a]>>
    BY <1>0, <1>11, <2>1
       DEF DeleteRow, DeleteAll, ClearAll, Forget, Goto, memory, TypeOK, Actor
  <2>3. PICK R : Table(u, R, config) /\ \A q \in R : q.id \in Ids(rows)
    <3>1. CASE DeleteRow(u)
      BY <3>1 DEF DeleteRow, Ids
    <3>2. CASE DeleteAll(u)
      BY <3>2 DEF DeleteAll
    <3>3. CASE ClearAll(u)
      <4> DEFINE cleared(r) == [r EXCEPT !.classes = {}, !.identified = {}, !.false = {}]
      <4>1. \A r \in rows : cleared(r).id = r.id
        BY <1>0 DEF TypeOK, Row
      <4>2. Table(u, {cleared(r) : r \in rows}, config)
        BY <3>3 DEF ClearAll
      <4> HIDE DEF cleared
      <4>3. \A q \in {cleared(r) : r \in rows} : q.id \in Ids(rows)
        BY <4>1 DEF Ids
      <4> QED
        BY <4>2, <4>3
    <3> QED
      BY <1>11, <3>1, <3>2, <3>3
  <2> QED
    BY <1>7, <2>1, <2>2, <2>3
<1>12. ASSUME NEW s \in Save, CleanUp(s)  PROVE LimitInv'
  <2>1. s \in Actor /\ s \notin Analyzer /\ held[s] \subseteq Row
    BY <1>0, ActorAssumption DEF TypeOK, Actor
  <2>2. \A a \in Analyzer : UNCHANGED <<held[a], pc[a]>>
    BY <1>0, <1>12, <2>1 DEF CleanUp, Forget, Goto, TypeOK, Actor
  <2>3. CASE Ids(held[s]) \subseteq Ids(rows)
    <3> DEFINE R == {r \in rows : r.id \notin Ids(held[s])}
                      \cup {[w EXCEPT !.key = (CHOOSE r \in rows : r.id = w.id).key] :
                              w \in held[s]}
    <3>1. Table(s, R, config)
      BY <1>12, <2>3 DEF CleanUp
    <3>2. \A w \in held[s] :
            [w EXCEPT !.key = (CHOOSE r \in rows : r.id = w.id).key].id \in Ids(rows)
      BY <2>1, <2>3 DEF Row, Ids
    <3>3. \A q \in R : q.id \in Ids(rows)
      BY <3>2 DEF Ids
    <3> HIDE DEF R
    <3> QED
      BY <1>7, <2>1, <2>2, <3>1, <3>3
  <2>4. CASE ~(Ids(held[s]) \subseteq Ids(rows))
    <3>1. UNCHANGED <<rows, behind, outdated>>
      BY <1>12, <2>4 DEF CleanUp
    <3> QED
      BY <1>1, <2>1, <2>2, <3>1
  <2> QED
    BY <2>3, <2>4
<1>13. ASSUME NEW a \in Analyzer, LookUp(a)  PROVE LimitInv'
  <2>1. a \in Actor /\ pc[a] = "classes" /\ UNCHANGED <<rows, outdated, held, behind>>
    BY <1>13 DEF LookUp, At, history, Actor
  <2>2. \A z \in Analyzer : z # a => pc'[z] = pc[z]
    BY <1>0, <1>13 DEF LookUp, Goto, TypeOK, Actor
  <2>3. RoomLeft(a)'
    BY <2>1 DEF LimitInv, RoomLeft, NewRows, Analyzing
  <2> QED
    BY <1>1, <2>1, <2>2, <2>3
<1>14. \A x : x \in Analyzer \cup Job \cup Request \cup Save => x \in Actor
  BY DEF Actor
<1> QED
  BY <1>3, <1>4, <1>5, <1>6, <1>9, <1>10, <1>11, <1>12, <1>13, <1>14
     DEF Next, AnalyzerStep, JobStep, RequestStep, SaveStep

(***************************************************************************)
(* The theorems                                                            *)
(***************************************************************************)

\* Every reachable state has the types of TypeOK, and the table never has two
\* rows of one uuid or of one key.
THEOREM TypeCorrect == Spec => []TypeOK
<1>1. FieldsInv => TypeOK
  BY DEF FieldsInv
<1> QED
  BY <1>1, FieldsInvariant, PTL

\* What users decided about a row comes back only with a row that was written
\* from outdated knowledge.
THEOREM UsersDecide == Spec => []DecisionsHold
<1>1. ASSUME FieldsInv  PROVE DecisionsHold
  <2>1. ASSUME NEW r \in rows, r.id \notin outdated, NEW c \in r.classes
        PROVE  <<r.id, c>> \notin ruledOut
    <3>1. c \in Class /\ c \notin r.false
      BY <1>1, <2>1, RowFields DEF FieldsInv, TypeOK, Decided
    <3> QED
      BY <1>1, <2>1, <3>1 DEF FieldsInv, Decided
  <2> QED
    BY <1>1, <2>1 DEF FieldsInv, Decided, DecisionsHold, RuledOutStaysOut
<1> QED
  BY <1>1, FieldsInvariant, PTL

\* A class that a config save has cleaned up comes back only with a row that was
\* written from outdated knowledge, or into a row that a user named it for.
THEOREM CleanupsLast == Spec => []DroppedStaysDropped
<1>1. FieldsInv => DroppedStaysDropped
  BY DEF FieldsInv, Cleaned
<1> QED
  BY <1>1, FieldsInvariant, PTL

\* An endpoint gets more rows than the limit only through rows that analyzers
\* added where others had written since they counted.
THEOREM LimitIsKept == Spec => []LimitKept
<1>1. ASSUME FieldsInv, LimitInv, [Next]_vars  PROVE LimitInv'
  BY <1>1, LimitStep
<1>2. LimitInv => LimitKept
  BY DEF LimitInv
<1> QED
  BY LimitInit, <1>1, <1>2, FieldsInvariant, PTL DEF Spec

\* An analysis fails on the unique keys only if others wrote rows since the
\* analyzer read them.
THEOREM FailuresComeFromOverlap == Spec => FailureNeedsOverlap
<1>1. ASSUME FieldsInv, [Next]_vars, NEW a \in Analyzer, pc'[a] = "failed", pc[a] # "failed"
      PROVE  behind[a] # {}
  <2>0. a \in Actor /\ TypeOK /\ Memory(a) /\ None \notin Ids(rows)
    BY <1>1 DEF FieldsInv, MemoryInv, TypeOK, Actor
  <2>1. FailCommit(a)
    <3>1. ~UNCHANGED vars /\ ~Expire
      BY <1>1 DEF vars, Expire
    <3>2. ASSUME NEW x \in Actor,
                 \/ ReadEndpoint(x) \/ ReadFields(x) \/ LookUp(x) \/ Commit(x)
                 \/ NextTrace(x) \/ StartDetection(x) \/ TooFewTraces(x) \/ ReadForDetection(x) \/ EndDetection(x)
                 \/ SaveRow(x) \/ DeleteRow(x) \/ ReadRisk(x) \/ SetRisk(x) \/ ReadRow(x)
                 \/ DeleteAll(x) \/ ClearAll(x) \/ SaveConfig(x) \/ ReadDropped(x)
                 \/ CleanUp(x) \/ Detect(x)
          PROVE  FALSE
      <4>1. \E p \in {"fields", "classes", "commit", "idle", "done", "detect", "risk", "set", "write",
                      "delete"} : Goto(x, p)
        BY <3>2 DEF ReadEndpoint, ReadFields, LookUp, Commit, NextTrace, StartDetection, TooFewTraces,
               ReadForDetection, EndDetection, SaveRow, DeleteRow, ReadRisk, SetRisk, ReadRow,
               DeleteAll, ClearAll, SaveConfig, ReadDropped, CleanUp, Detect
      <4> QED
        BY <1>1, <2>0, <4>1 DEF Goto, TypeOK
    <3>3. ASSUME NEW x \in Analyzer, FailCommit(x), x # a  PROVE FALSE
      BY <1>1, <2>0, <3>3 DEF FailCommit, Goto, TypeOK
    <3>4. \A x : x \in Analyzer \cup Job \cup Request \cup Save => x \in Actor
      BY DEF Actor
    <3> QED
      BY <1>1, <3>1, <3>2, <3>3, <3>4 DEF Next, AnalyzerStep, JobStep, RequestStep, SaveStep
  <2>2. PICK w \in held[a], r \in rows : r.key = w.key /\ r.id \notin Ids(held[a])
    BY <2>1 DEF FailCommit, Fails, KeyTaken
  <2>3. r.id # w.id
    BY <2>2 DEF Ids
  <2> QED
    BY <2>0, <2>1, <2>2, <2>3 DEF FailCommit, At, Memory, HeldKeys, Analyzing
<1>2. FieldsInv /\ [Next]_vars =>
        \A a \in Analyzer : pc'[a] = "failed" => behind[a] # {} \/ pc[a] = "failed"
  BY <1>1
<1> QED
  BY <1>2, FieldsInvariant, PTL DEF Spec, FailureNeedsOverlap
=============================================================================
