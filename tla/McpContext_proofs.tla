--------------------------- MODULE McpContext_proofs ---------------------------
(* Theorems about McpContext, for every number of clients and threads and every *)
(* setting and request.                                                         *)
EXTENDS McpContext, FiniteSetTheorems, TLAPS

\* The locations of a request at each source, and the sources dealt with before it.
At(source) ==
  CASE source = "status"    -> {"status", "snapshot"}
    [] source = "catalog"   -> {"to_catalog", "catalog"}
    [] source = "ephemeris" -> {"to_ephemeris", "computing"}
    [] source = "weather"   -> {"to_weather", "weather"}

Before(source) ==
  CASE source = "status"    -> {}
    [] source = "catalog"   -> {"status"}
    [] source = "ephemeris" -> {"status", "catalog"}
    [] source = "weather"   -> {"status", "catalog", "ephemeris"}

SourcesOf(w) == {w[i].source : i \in DOMAIN w}

\* The part of the state that is about one request: its location p, its parameters r,
\* what it found (f), its warnings w and its code k.

\* On its way it has dealt with the sources before, as far as it was asked to.
UnderWay(p, r, f, w, k) ==
  \A source \in Sources : p \in At(source) =>
    /\ k = "none"
    /\ r.kind \in {"context", source}
    /\ f \cup SourcesOf(w) = Asked(r) \cap Before(source)
    /\ p \in {"snapshot", "catalog", "computing", "weather"} => source \in Asked(r)
    /\ p = "weather" => r.weather = "yes"

\* No source is dealt with twice.
Once(f, w) == f \cap SourcesOf(w) = {} /\ Len(w) = Cardinality(SourcesOf(w))

\* What a reply has dealt with.
Complete(r, f, w, k) ==
  IF k = "500"
    THEN f \cup SourcesOf(w) = Asked(r) \ {"weather"} /\ r.weather = "yes"
    ELSE /\ f \cup SourcesOf(w) = Asked(r)
         /\ r.kind # "context" => (k = "200" <=> f # {})

Replied(p, r, f, w, k) == k # "none" => p = "idle" /\ Complete(r, f, w, k)

Dealt(p, r, f, w, k) == UnderWay(p, r, f, w, k) /\ Once(f, w) /\ Replied(p, r, f, w, k)

DealtInv == \A c \in Clients : Dealt(pc[c], request[c], found[c], warnings[c], code[c])

\* The types without the bound on the warnings, which follows from Once.
Types ==
  /\ config \in AllConfigs
  /\ pc \in [Clients -> {"idle"} \cup Synchronous \cup Awaiting]
  /\ request \in [Clients -> AllRequests]
  /\ found \in [Clients -> SUBSET Sources]
  /\ warnings \in [Clients -> Seq([source : Sources, why : Reasons])]
  /\ code \in [Clients -> {"none", "200", "500"} \cup {HttpCode[why] : why \in DOMAIN HttpCode}]

Job == [for : Clients \cup {None}, kind : {"snapshot", "lookup"}]
PoolTypes == pool \in Seq(Job) /\ answer \in [Clients -> {None, "ok", "unresolved"}]

\* A client has at most one job, and one exactly while it waits for its answer; it is
\* of the kind it waits for.  What nobody waits for is a lookup that runs.
HasJob(c) == \E i \in DOMAIN pool : pool[i].for = c
PoolInv ==
  /\ \A i, j \in DOMAIN pool : pool[i].for = pool[j].for /\ pool[i].for # None => i = j
  /\ \A i \in DOMAIN pool : i > Workers => pool[i].for # None
  /\ \A i \in DOMAIN pool : pool[i].for = None => pool[i].kind = "lookup"
  /\ \A c \in Clients :
       IF pc[c] \in {"snapshot", "catalog"}
         THEN HasJob(c) <=> answer[c] = None
         ELSE ~HasJob(c) /\ answer[c] = None
  /\ \A i \in DOMAIN pool : \A c \in Clients :
       pool[i].for = c => (pool[i].kind = "snapshot" <=> pc[c] = "snapshot")

-----------------------------------------------------------------------------
(* Removing a job from the pool. *)

\* Where the i-th job was before the k-th left.
Was(k, i) == IF i < k THEN i ELSE i + 1

LEMMA RemovedAt ==
  ASSUME PoolTypes, NEW k \in DOMAIN pool
  PROVE  /\ RemoveAt(pool, k) \in Seq(Job) /\ Len(RemoveAt(pool, k)) = Len(pool) - 1
         /\ \A i \in 1..(Len(pool) - 1) :
              Was(k, i) \in (1..Len(pool)) \ {k} /\ RemoveAt(pool, k)[i] = pool[Was(k, i)]
<1> DEFINE front == SubSeq(pool, 1, k - 1)
           rest == SubSeq(pool, k + 1, Len(pool))
<1>0. /\ Len(pool) \in Nat /\ k \in Nat /\ k >= 1 /\ k <= Len(pool)
      /\ pool \in Seq(Job)
  BY DEF PoolTypes
<1>1. /\ front \in Seq(Job) /\ Len(front) = k - 1
      /\ \A i \in 1..(k - 1) : front[i] = pool[i]
  BY <1>0
<1>2. /\ rest \in Seq(Job) /\ Len(rest) = Len(pool) - k
      /\ \A i \in 1..(Len(pool) - k) : rest[i] = pool[k + i]
  BY <1>0
<1> HIDE DEF front, rest
<1>3. /\ front \o rest \in Seq(Job) /\ Len(front \o rest) = Len(pool) - 1
      /\ \A i \in 1..(k - 1) : (front \o rest)[i] = front[i]
      /\ \A i \in k..(Len(pool) - 1) : (front \o rest)[i] = rest[i - (k - 1)]
  <2>1. /\ front \o rest \in Seq(Job) /\ Len(front \o rest) = Len(front) + Len(rest)
        /\ \A i \in 1..Len(front) : (front \o rest)[i] = front[i]
        /\ \A i \in (Len(front) + 1)..(Len(front) + Len(rest)) :
             (front \o rest)[i] = rest[i - Len(front)]
    <3>1. front \in Seq(Job) /\ rest \in Seq(Job)
      BY <1>1, <1>2
    <3> QED
      BY <3>1
  <2>2. Len(front) = k - 1 /\ Len(rest) = Len(pool) - k
    BY <1>1, <1>2
  <2>3. Len(front \o rest) = Len(pool) - 1
    BY <1>0, <2>1, <2>2
  <2>4. \A i \in 1..(k - 1) : (front \o rest)[i] = front[i]
    BY <1>0, <2>1, <2>2
  <2>5. ASSUME NEW i \in k..(Len(pool) - 1) PROVE (front \o rest)[i] = rest[i - (k - 1)]
    <3>1. i \in (Len(front) + 1)..(Len(front) + Len(rest)) /\ i - Len(front) = i - (k - 1)
      BY <1>0, <2>2
    <3> QED
      BY <2>1, <3>1
  <2> QED
    BY <2>1, <2>3, <2>4, <2>5
<1>4. ASSUME NEW i \in 1..(Len(pool) - 1)
      PROVE  Was(k, i) \in (1..Len(pool)) \ {k} /\ (front \o rest)[i] = pool[Was(k, i)]
  <2>1. CASE i < k
    BY <1>0, <1>1, <1>3, <2>1 DEF Was
  <2>2. CASE i >= k
    <3>1. i \in k..(Len(pool) - 1) /\ i - (k - 1) \in 1..(Len(pool) - k) /\ k + (i - (k - 1)) = i + 1
      BY <1>0, <2>2
    <3>2. (front \o rest)[i] = rest[i - (k - 1)] /\ rest[i - (k - 1)] = pool[i + 1]
      BY <1>2, <1>3, <3>1
    <3>3. Was(k, i) = i + 1
      BY <1>0, <2>2 DEF Was
    <3> QED
      BY <1>0, <3>1, <3>2, <3>3
  <2>3. i < k \/ i >= k
    BY <1>0
  <2> QED
    BY <2>1, <2>2, <2>3, Zenon
<1>5. RemoveAt(pool, k) = front \o rest
  BY DEF RemoveAt, front, rest
<1> QED
  BY <1>3, <1>4, <1>5

\* The jobs that are left, and whose they are.
LEMMA JobRemoved ==
  ASSUME PoolTypes, PoolInv, NEW k \in DOMAIN pool, pool' = RemoveAt(pool, k)
  PROVE  /\ pool' \in Seq(Job)
         /\ \A i, j \in DOMAIN pool' : pool'[i].for = pool'[j].for /\ pool'[i].for # None => i = j
         /\ \A i \in DOMAIN pool' : i > Workers => pool'[i].for # None
         /\ \A i \in DOMAIN pool' : \E j \in DOMAIN pool : pool'[i] = pool[j]
         /\ \A c \in Clients : HasJob(c)' <=> HasJob(c) /\ pool[k].for # c
<1>0. /\ pool \in Seq(Job) /\ DOMAIN pool = 1..Len(pool) /\ Len(pool) \in Nat
      /\ None \notin Clients /\ Workers \in Nat
  BY ContextAssumption DEF PoolTypes
<1>1. /\ pool' \in Seq(Job) /\ Len(pool') = Len(pool) - 1
      /\ \A i \in 1..(Len(pool) - 1) :
           Was(k, i) \in (1..Len(pool)) \ {k} /\ pool'[i] = pool[Was(k, i)]
  <2>1. /\ RemoveAt(pool, k) \in Seq(Job) /\ Len(RemoveAt(pool, k)) = Len(pool) - 1
        /\ \A i \in 1..(Len(pool) - 1) :
             Was(k, i) \in (1..Len(pool)) \ {k} /\ RemoveAt(pool, k)[i] = pool[Was(k, i)]
    BY RemovedAt
  <2> QED
    BY <2>1
<1>2. DOMAIN pool' = 1..(Len(pool) - 1)
  BY <1>1
<1>3. ASSUME NEW i \in DOMAIN pool', NEW j \in DOMAIN pool',
             pool'[i].for = pool'[j].for, pool'[i].for # None
      PROVE  i = j
  <2>1. Was(k, i) = Was(k, j)
    BY <1>0, <1>1, <1>2, <1>3 DEF PoolInv
  <2> QED
    BY <1>0, <1>2, <2>1 DEF Was
<1>4. ASSUME NEW i \in DOMAIN pool', i > Workers PROVE pool'[i].for # None
  <2>1. Was(k, i) > Workers /\ Was(k, i) \in DOMAIN pool
    BY <1>0, <1>1, <1>2, <1>4 DEF Was
  <2> QED
    BY <1>1, <1>2, <2>1 DEF PoolInv
<1>5. \A i \in DOMAIN pool' : \E j \in DOMAIN pool : pool'[i] = pool[j]
  BY <1>0, <1>1, <1>2
<1>6. ASSUME NEW c \in Clients PROVE HasJob(c)' <=> HasJob(c) /\ pool[k].for # c
  <2>1. ASSUME NEW i \in DOMAIN pool', pool'[i].for = c PROVE HasJob(c) /\ pool[k].for # c
    <3>1. Was(k, i) \in DOMAIN pool /\ Was(k, i) # k /\ pool[Was(k, i)].for = c
      BY <1>0, <1>1, <1>2, <2>1
    <3> QED
      BY <1>0, <3>1 DEF HasJob, PoolInv
  <2>2. ASSUME NEW j \in DOMAIN pool, pool[j].for = c, pool[k].for # c PROVE HasJob(c)'
    <3> DEFINE i == IF j < k THEN j ELSE j - 1
    <3>1. j # k
      BY <2>2
    <3>2. i \in 1..(Len(pool) - 1) /\ Was(k, i) = j
      BY <1>0, <3>1 DEF Was
    <3>3. i \in DOMAIN pool' /\ pool'[i].for = c
      BY <1>1, <1>2, <2>2, <3>2
    <3> QED
      BY <3>3 DEF HasJob
  <2> QED
    BY <2>1, <2>2 DEF HasJob
<1> QED
  BY <1>1, <1>3, <1>4, <1>5, <1>6

-----------------------------------------------------------------------------
(* The pool, by what a step does with it. *)

InPool == {"snapshot", "catalog"}

\* A step of one request.
OneMoves(c) == \A d \in Clients \ {c} : pc'[d] = pc[d]

LEMMA PoolLeft ==
  ASSUME PoolTypes, PoolInv, NoPool, NEW c \in Clients, OneMoves(c),
         pc[c] \notin InPool, pc'[c] \notin InPool
  PROVE  PoolTypes' /\ PoolInv'
<1>1. UNCHANGED <<pool, answer>> /\ \A d \in Clients : HasJob(d)' <=> HasJob(d)
  BY DEF NoPool, HasJob
<1>2. \A i \in DOMAIN pool : pool[i].for # c
  BY DEF PoolInv, HasJob, InPool
<1>3. \A i \in DOMAIN pool : \A d \in Clients :
        pool[i].for = d => (pool[i].kind = "snapshot" <=> pc'[d] = "snapshot")
  BY <1>2 DEF PoolInv, OneMoves
<1>4. \A d \in Clients :
        IF pc'[d] \in InPool THEN HasJob(d) <=> answer[d] = None
                             ELSE ~HasJob(d) /\ answer[d] = None
  BY DEF PoolInv, OneMoves, InPool
<1>5. PoolTypes'
  BY <1>1 DEF PoolTypes
<1> QED
  BY <1>1, <1>3, <1>4, <1>5 DEF PoolInv, InPool

LEMMA PoolSubmitted ==
  ASSUME PoolTypes, PoolInv, NEW c \in Clients, NEW kind \in {"snapshot", "lookup"},
         Submits(c, kind), OneMoves(c), pc[c] \notin InPool, pc'[c] \in InPool,
         kind = "snapshot" <=> pc'[c] = "snapshot"
  PROVE  PoolTypes' /\ PoolInv'
<1>0. None \notin Clients /\ ~HasJob(c) /\ answer[c] = None /\ answer' = answer
  BY ContextAssumption DEF PoolInv, InPool, Submits
<1> DEFINE job == [for |-> c, kind |-> kind]
<1>1. job \in Job /\ job.for = c /\ job.kind = kind
  BY DEF Job
<1> HIDE DEF job
<1>2. /\ pool \in Seq(Job) /\ Len(pool) \in Nat /\ DOMAIN pool = 1..Len(pool)
      /\ pool' = Append(pool, job)
  BY DEF PoolTypes, Submits, job
<1>3. /\ pool' \in Seq(Job) /\ DOMAIN pool' = 1..(Len(pool) + 1)
      /\ \A i \in 1..Len(pool) : pool'[i] = pool[i]
      /\ pool'[Len(pool) + 1] = job
  BY <1>1, <1>2
<1>4. \A i \in DOMAIN pool' :
        \/ i \in DOMAIN pool /\ pool'[i] = pool[i]
        \/ i = Len(pool) + 1 /\ pool'[i] = job
  BY <1>2, <1>3
<1>5. \A i \in DOMAIN pool : pool[i].for # c
  BY <1>0 DEF HasJob
<1>6. \A i, j \in DOMAIN pool' : pool'[i].for = pool'[j].for /\ pool'[i].for # None => i = j
  BY <1>1, <1>4, <1>5 DEF PoolInv
<1>7. /\ \A i \in DOMAIN pool' : i > Workers => pool'[i].for # None
      /\ \A i \in DOMAIN pool' : pool'[i].for = None => pool'[i].kind = "lookup"
  BY <1>0, <1>1, <1>4 DEF PoolInv
<1>8. HasJob(c)' /\ \A d \in Clients \ {c} : HasJob(d)' <=> HasJob(d)
  <2>1. HasJob(c)'
    <3>1. Len(pool) + 1 \in DOMAIN pool'
      BY <1>2, <1>3
    <3> QED
      BY <1>1, <1>3, <3>1 DEF HasJob
  <2>2. ASSUME NEW d \in Clients \ {c} PROVE HasJob(d)' <=> HasJob(d)
    <3>1. \A i \in DOMAIN pool : i \in DOMAIN pool'
      BY <1>2, <1>3
    <3> QED
      BY <1>1, <1>2, <1>3, <1>4, <3>1 DEF HasJob
  <2> QED
    BY <2>1, <2>2
<1>9. \A d \in Clients :
        IF pc'[d] \in InPool THEN HasJob(d)' <=> answer'[d] = None
                             ELSE ~HasJob(d)' /\ answer'[d] = None
  BY <1>0, <1>8 DEF PoolInv, OneMoves, InPool
<1>10. \A i \in DOMAIN pool' : \A d \in Clients :
         pool'[i].for = d => (pool'[i].kind = "snapshot" <=> pc'[d] = "snapshot")
  BY <1>1, <1>4, <1>5 DEF PoolInv, OneMoves
<1>11. PoolTypes'
  BY <1>0, <1>3 DEF PoolTypes
<1> QED
  BY <1>6, <1>7, <1>9, <1>10, <1>11 DEF PoolInv, InPool

\* A request takes its answer up.
LEMMA PoolCollected ==
  ASSUME PoolTypes, PoolInv, NEW c \in Clients, Collects(c), OneMoves(c),
         pc[c] \in InPool, answer[c] # None, pc'[c] \notin InPool
  PROVE  PoolTypes' /\ PoolInv'
<1>1. /\ pool' = pool /\ answer'[c] = None /\ \A d \in Clients \ {c} : answer'[d] = answer[d]
      /\ answer' \in [Clients -> {None, "ok", "unresolved"}]
  BY DEF PoolTypes, Collects
<1>2. ~HasJob(c) /\ \A d \in Clients : HasJob(d)' <=> HasJob(d)
  BY <1>1 DEF PoolInv, InPool, HasJob
<1>3. \A i \in DOMAIN pool : pool[i].for # c
  BY <1>2 DEF HasJob
<1>4. \A i \in DOMAIN pool : \A d \in Clients :
        pool[i].for = d => (pool[i].kind = "snapshot" <=> pc'[d] = "snapshot")
  BY <1>3 DEF PoolInv, OneMoves
<1>5. \A d \in Clients :
        IF pc'[d] \in InPool THEN HasJob(d) <=> answer'[d] = None
                             ELSE ~HasJob(d) /\ answer'[d] = None
  BY <1>1, <1>2 DEF PoolInv, OneMoves, InPool
<1>6. PoolTypes'
  BY <1>1 DEF PoolTypes
<1> QED
  BY <1>1, <1>2, <1>4, <1>5, <1>6 DEF PoolInv, InPool

\* A lookup that is given up leaves the queue, or its thread to nobody.
LEMMA PoolGivenUp ==
  ASSUME PoolTypes, PoolInv, NEW c \in Clients, OneMoves(c), pc[c] = "catalog",
         pc'[c] \notin InPool, pool' = GivenUp(c), answer' = [answer EXCEPT ![c] = None]
  PROVE  PoolTypes' /\ PoolInv'
<1>0. /\ pool \in Seq(Job) /\ Len(pool) \in Nat /\ DOMAIN pool = 1..Len(pool)
      /\ None \notin Clients /\ Workers \in Nat
  BY ContextAssumption DEF PoolTypes
<1>1. /\ answer'[c] = None /\ \A d \in Clients \ {c} : answer'[d] = answer[d]
      /\ answer' \in [Clients -> {None, "ok", "unresolved"}]
  BY DEF PoolTypes
<1> DEFINE Queued(i) == i > Workers /\ pool[i].for = c
<1> SUFFICES
      /\ pool' \in Seq(Job)
      /\ \A i, j \in DOMAIN pool' : pool'[i].for = pool'[j].for /\ pool'[i].for # None => i = j
      /\ \A i \in DOMAIN pool' : i > Workers => pool'[i].for # None
      /\ \A i \in DOMAIN pool' : pool'[i].for = None => pool'[i].kind = "lookup"
      /\ ~HasJob(c)' /\ \A d \in Clients \ {c} : HasJob(d)' <=> HasJob(d)
      /\ \A i \in DOMAIN pool' : \A d \in Clients \ {c} :
           pool'[i].for = d => (pool'[i].kind = "snapshot" <=> pc[d] = "snapshot")
  <2>1. PoolTypes'
    BY <1>1 DEF PoolTypes
  <2>2. \A d \in Clients :
          IF pc'[d] \in InPool THEN HasJob(d)' <=> answer'[d] = None
                               ELSE ~HasJob(d)' /\ answer'[d] = None
    BY <1>1 DEF PoolInv, OneMoves, InPool
  <2>3. \A i \in DOMAIN pool' : \A d \in Clients :
          pool'[i].for = d => (pool'[i].kind = "snapshot" <=> pc'[d] = "snapshot")
    BY DEF OneMoves, HasJob
  <2> QED
    BY <2>1, <2>2, <2>3 DEF PoolInv, InPool
<1>2. CASE \E i \in DOMAIN pool : Queued(i)
  <2> DEFINE k == CHOOSE i \in DOMAIN pool : Queued(i)
  <2>1. k \in DOMAIN pool /\ Queued(k)
    BY <1>2
  <2>2. pool' = RemoveAt(pool, k)
    BY <1>2 DEF GivenUp
  <2> HIDE DEF k
  <2>3. /\ pool' \in Seq(Job)
        /\ \A i, j \in DOMAIN pool' : pool'[i].for = pool'[j].for /\ pool'[i].for # None => i = j
        /\ \A i \in DOMAIN pool' : i > Workers => pool'[i].for # None
        /\ \A i \in DOMAIN pool' : \E j \in DOMAIN pool : pool'[i] = pool[j]
        /\ \A d \in Clients : HasJob(d)' <=> HasJob(d) /\ pool[k].for # d
    BY <2>1, <2>2, JobRemoved
  <2> QED
    BY <2>1, <2>3 DEF PoolInv
<1>3. CASE ~ \E i \in DOMAIN pool : Queued(i)
  <2>1. pool' = [i \in DOMAIN pool |-> IF pool[i].for = c THEN [pool[i] EXCEPT !.for = None]
                                       ELSE pool[i]]
    BY <1>3 DEF GivenUp, GivenUpLater
  <2>2. \A i \in DOMAIN pool : pool[i] \in Job
    BY <1>0
  <2>3. \A i \in DOMAIN pool : pool[i].for = c =>
          /\ [pool[i] EXCEPT !.for = None] \in Job
          /\ [pool[i] EXCEPT !.for = None].for = None
          /\ [pool[i] EXCEPT !.for = None].kind = "lookup"
    <3> SUFFICES ASSUME NEW i \in DOMAIN pool, pool[i].for = c
                 PROVE  /\ [pool[i] EXCEPT !.for = None] \in Job
                        /\ [pool[i] EXCEPT !.for = None].for = None
                        /\ [pool[i] EXCEPT !.for = None].kind = "lookup"
      OBVIOUS
    <3>1. pool[i].kind # "snapshot"
      BY DEF PoolInv
    <3>2. pool[i] \in Job
      BY <2>2
    <3> QED
      BY <3>1, <3>2 DEF Job
  <2>4. /\ DOMAIN pool' = DOMAIN pool
        /\ \A i \in DOMAIN pool : pool'[i] \in Job
        /\ \A i \in DOMAIN pool : pool[i].for = c => pool'[i].for = None /\ pool'[i].kind = "lookup"
        /\ \A i \in DOMAIN pool : pool[i].for # c => pool'[i] = pool[i]
    BY <2>1, <2>2, <2>3
  <2>5. pool' \in Seq(Job)
    BY <1>0, <2>1, <2>4
  <2>6. \A i, j \in DOMAIN pool' : pool'[i].for = pool'[j].for /\ pool'[i].for # None => i = j
    BY <2>4 DEF PoolInv
  <2>7. \A i \in DOMAIN pool' : i > Workers => pool'[i].for # None
    BY <1>3, <2>4 DEF PoolInv
  <2>8. ~HasJob(c)' /\ \A d \in Clients \ {c} : HasJob(d)' <=> HasJob(d)
    BY <1>0, <2>4 DEF HasJob
  <2>9. \A i \in DOMAIN pool' : pool'[i].for = None => pool'[i].kind = "lookup"
    BY <2>4 DEF PoolInv
  <2>10. \A i \in DOMAIN pool' : \A d \in Clients \ {c} :
           pool'[i].for = d => (pool'[i].kind = "snapshot" <=> pc[d] = "snapshot")
    BY <1>0, <2>4 DEF PoolInv
  <2> QED
    BY <2>5, <2>6, <2>7, <2>8, <2>9, <2>10
<1> QED
  BY <1>2, <1>3

\* A thread ends its job: its result goes to whoever waits for it.
LEMMA PoolEnds ==
  ASSUME PoolTypes, PoolInv, NEW k \in 1..Workers, ThreadEnds(k)
  PROVE  PoolTypes' /\ PoolInv'
<1>0. None \notin Clients /\ None \notin {"ok", "unresolved"} /\ pc' = pc
  BY ContextAssumption DEF ThreadEnds
<1>1. k \in DOMAIN pool /\ pool' = RemoveAt(pool, k) /\ pool[k] \in Job
  BY DEF ThreadEnds, PoolTypes
<1>2. PICK result \in {"ok", "unresolved"} :
        answer' = [c \in Clients |-> IF c = pool[k].for THEN result ELSE answer[c]]
  BY <1>1 DEF ThreadEnds, Results, Job
<1>3. /\ pool' \in Seq(Job)
      /\ \A i, j \in DOMAIN pool' : pool'[i].for = pool'[j].for /\ pool'[i].for # None => i = j
      /\ \A i \in DOMAIN pool' : i > Workers => pool'[i].for # None
      /\ \A i \in DOMAIN pool' : \E j \in DOMAIN pool : pool'[i] = pool[j]
      /\ \A c \in Clients : HasJob(c)' <=> HasJob(c) /\ pool[k].for # c
  BY <1>1, JobRemoved
<1>4. answer' \in [Clients -> {None, "ok", "unresolved"}]
  BY <1>2 DEF PoolTypes
<1>5. \A c \in Clients :
        IF pc[c] \in InPool THEN HasJob(c)' <=> answer'[c] = None
                            ELSE ~HasJob(c)' /\ answer'[c] = None
  BY <1>0, <1>1, <1>2, <1>3 DEF PoolInv, InPool, HasJob
<1> QED
  BY <1>0, <1>3, <1>4, <1>5 DEF PoolTypes, PoolInv, InPool

-----------------------------------------------------------------------------
(* Requests, codes and warnings. *)

\* What a request may ask for, by its kind.
LEMMA RequestTypes ==
  ASSUME NEW r \in AllRequests
  PROVE  /\ r.kind \in {"context", "catalog", "ephemeris", "weather"}
         /\ r.catalog \in {"no", "yes", "blank"}
         /\ r.ephemeris \in {"no", "no_obstime", "yes"}
         /\ r.weather \in {"no", "partial", "yes"}
         /\ r.kind = "context" => r.catalog # "blank" /\ "status" \in Asked(r)
         /\ r.kind = "ephemeris" => r.ephemeris = "yes"
         /\ r.kind = "weather" => r.weather = "yes"
         /\ r.kind # "context" => Asked(r) = {r.kind}
<1>1. CASE r \in [kind : {"context"}, catalog : {"no", "yes"},
                  ephemeris : {"no", "no_obstime", "yes"}, weather : {"no", "partial", "yes"}]
  BY <1>1 DEF Asked, Sources
<1>2. CASE r \in [kind : {"catalog"}, catalog : {"blank", "yes"}, ephemeris : {"no"},
                  weather : {"no"}]
  BY <1>2 DEF Asked, Sources
<1>3. CASE r \in [kind : {"ephemeris"}, catalog : {"no"}, ephemeris : {"yes"}, weather : {"no"}]
  BY <1>3 DEF Asked, Sources
<1>4. CASE r \in [kind : {"weather"}, catalog : {"no"}, ephemeris : {"no"}, weather : {"yes"}]
  BY <1>4 DEF Asked, Sources
<1> QED
  BY <1>1, <1>2, <1>3, <1>4 DEF AllRequests

LEMMA HttpCodes ==
  /\ DOMAIN HttpCode = {"disabled", "timeout", "unresolved", "unsupported", "unavailable"}
  /\ \A why \in DOMAIN HttpCode : HttpCode[why] \notin {"none", "200", "500"}
BY DEF HttpCode

Codes == {"none", "200", "500"} \cup {HttpCode[why] : why \in DOMAIN HttpCode}
Warning == [source : Sources, why : Reasons]

LEMMA FourSources ==
  /\ IsFiniteSet(Sources) /\ Cardinality(Sources) = 4
  /\ \A S \in SUBSET Sources : IsFiniteSet(S) /\ Cardinality(S) \in Nat /\ Cardinality(S) <= 4
<1>1. IsFiniteSet({}) /\ Cardinality({}) = 0
  BY FS_EmptySet
<1>2. IsFiniteSet({} \cup {"status"}) /\ Cardinality({} \cup {"status"}) = 1
  BY <1>1, FS_AddElement
<1> DEFINE one == {} \cup {"status"}
           two == one \cup {"catalog"}
           three == two \cup {"ephemeris"}
           four == three \cup {"weather"}
<1>3. "catalog" \notin one /\ "ephemeris" \notin two /\ "weather" \notin three /\ four = Sources
  BY DEF Sources
<1>4. IsFiniteSet(one) /\ Cardinality(one) = 1
  BY <1>2
<1> HIDE DEF one
<1>5. IsFiniteSet(two) /\ Cardinality(two) = 2
  BY <1>3, <1>4, FS_AddElement
<1> HIDE DEF two
<1>6. IsFiniteSet(three) /\ Cardinality(three) = 3
  BY <1>3, <1>5, FS_AddElement
<1> HIDE DEF three
<1>7. IsFiniteSet(four) /\ Cardinality(four) = 4
  BY <1>3, <1>6, FS_AddElement
<1>8. IsFiniteSet(Sources) /\ Cardinality(Sources) = 4
  BY <1>3, <1>7
<1>9. ASSUME NEW S \in SUBSET Sources
      PROVE  IsFiniteSet(S) /\ Cardinality(S) \in Nat /\ Cardinality(S) <= 4
  BY <1>8, FS_Subset, FS_CardinalityType
<1> QED
  BY <1>8, <1>9

\* One more warning names one more source, unless it was named before.
LEMMA MoreSources ==
  ASSUME NEW w \in Seq(Warning), NEW x \in Warning
  PROVE  /\ Append(w, x) \in Seq(Warning) /\ Len(Append(w, x)) = Len(w) + 1 /\ Len(w) \in Nat
         /\ SourcesOf(Append(w, x)) = SourcesOf(w) \cup {x.source}
         /\ SourcesOf(w) \in SUBSET Sources /\ x.source \in Sources
<1>1. /\ Append(w, x) \in Seq(Warning) /\ Len(Append(w, x)) = Len(w) + 1 /\ Len(w) \in Nat
      /\ DOMAIN w = 1..Len(w) /\ DOMAIN Append(w, x) = 1..(Len(w) + 1)
      /\ \A i \in 1..Len(w) : Append(w, x)[i] = w[i] /\ w[i] \in Warning
      /\ Append(w, x)[Len(w) + 1] = x
  OBVIOUS
<1>2. 1..(Len(w) + 1) = (1..Len(w)) \cup {Len(w) + 1}
  BY <1>1
<1>3. SourcesOf(Append(w, x)) = SourcesOf(w) \cup {x.source}
  BY <1>1, <1>2 DEF SourcesOf
<1>4. \A y \in Warning : y.source \in Sources
  BY DEF Warning
<1> QED
  BY <1>1, <1>3, <1>4 DEF SourcesOf

LEMMA SourcesType == \A w \in Seq(Warning) : SourcesOf(w) \in SUBSET Sources
<1>1. \A w \in Seq(Warning) : \A i \in DOMAIN w : w[i] \in Warning
  OBVIOUS
<1>2. \A y \in Warning : y.source \in Sources
  BY DEF Warning
<1> QED
  BY <1>1, <1>2 DEF SourcesOf

LEMMA NoSources == <<>> \in Seq(Warning) /\ SourcesOf(<<>>) = {} /\ Len(<<>>) = 0
<1>1. DOMAIN <<>> = {}
  OBVIOUS
<1> QED
  BY <1>1 DEF SourcesOf

-----------------------------------------------------------------------------
(* How a request moves on. *)

Locations == {"idle"} \cup Synchronous \cup Awaiting

\* After a source: the next one, or the reply.
LEMMA GoesOn ==
  ASSUME Types, NEW c \in Clients, NEW source \in Sources, NEW single \in Codes,
         Goes(c, source, single)
  PROVE  /\ pc' \in [Clients -> Locations] /\ code' \in [Clients -> Codes]
         /\ OneMoves(c) /\ \A d \in Clients \ {c} : code'[d] = code[d]
         /\ pc'[c] \notin InPool /\ UNCHANGED <<config, request>>
         /\ request[c].kind # "context" => pc'[c] = "idle" /\ code'[c] = single
         /\ request[c].kind = "context" =>
              pc'[c] = After[source] /\ code'[c] = IF After[source] = "idle" THEN "200" ELSE "none"
<1>0. /\ pc \in [Clients -> Locations] /\ code \in [Clients -> Codes]
      /\ "200" \in Codes /\ "none" \in Codes
  BY DEF Types, Locations, Codes
<1>1. After[source] \in {"idle", "to_catalog", "to_ephemeris", "to_weather"}
  BY DEF After, Sources
<1> DEFINE next == IF request[c].kind = "context" THEN After[source] ELSE "idle"
           reply == IF request[c].kind # "context" THEN single
                    ELSE IF next = "idle" THEN "200" ELSE "none"
<1>2. pc' = [pc EXCEPT ![c] = next] /\ code' = [code EXCEPT ![c] = reply]
      /\ UNCHANGED <<config, request>>
  BY DEF Goes
<1>3. next \in Locations /\ next \notin InPool /\ reply \in Codes
  BY <1>0, <1>1 DEF Locations, Synchronous, InPool
<1>4. /\ request[c].kind # "context" => next = "idle" /\ reply = single
      /\ request[c].kind = "context" =>
           next = After[source] /\ reply = IF After[source] = "idle" THEN "200" ELSE "none"
  OBVIOUS
<1> HIDE DEF next, reply
<1> QED
  BY <1>0, <1>2, <1>3, <1>4 DEF OneMoves

\* Each location but "idle" is at one source; what comes before the next source is what
\* came before this one, and this one.
LEMMA Order ==
  ASSUME NEW source \in Sources
  PROVE  /\ source \notin Before(source) /\ "idle" \notin At(source)
         /\ \A other \in Sources : At(source) \cap At(other) # {} => other = source
         /\ After[source] # "idle" =>
              \E next \in Sources : /\ After[source] \in At(next)
                                    /\ Before(next) = Before(source) \cup {source}
         /\ After[source] \in {"idle", "to_catalog", "to_ephemeris", "to_weather"}
         /\ After[source] = "idle" => source = "weather" /\ Before(source) \cup {source} = Sources
<1>1. CASE source = "status"
  BY <1>1 DEF Sources, Before, At, After
<1>2. CASE source = "catalog"
  BY <1>2 DEF Sources, Before, At, After
<1>3. CASE source = "ephemeris"
  BY <1>3 DEF Sources, Before, At, After
<1>4. CASE source = "weather"
  BY <1>4 DEF Sources, Before, At, After
<1> QED
  BY <1>1, <1>2, <1>3, <1>4 DEF Sources

\* A source more, found, warned of or skipped, and on.
LEMMA DealtFurther ==
  ASSUME NEW source \in Sources, NEW p \in At(source), NEW r \in AllRequests,
         NEW f \in SUBSET Sources, NEW w \in Seq(Warning), NEW k, Dealt(p, r, f, w, k),
         NEW f2 \in SUBSET Sources, NEW w2 \in Seq(Warning), NEW single \in Codes,
         \/ source \in Asked(r) /\ f2 = f \cup {source} /\ w2 = w /\ single = "200"
         \/ /\ source \in Asked(r) /\ f2 = f /\ SourcesOf(w2) = SourcesOf(w) \cup {source}
            /\ Len(w2) = Len(w) + 1
            /\ r.kind # "context" => single \notin {"200", "500", "none"}
         \/ source \notin Asked(r) /\ f2 = f /\ w2 = w,
         NEW p2, NEW k2,
         r.kind # "context" => p2 = "idle" /\ k2 = single,
         r.kind = "context" =>
           p2 = After[source] /\ k2 = IF After[source] = "idle" THEN "200" ELSE "none"
  PROVE  Dealt(p2, r, f2, w2, k2)
<1>1. /\ r.kind \in {"context", source}
      /\ f \cup SourcesOf(w) = Asked(r) \cap Before(source)
      /\ f \cap SourcesOf(w) = {} /\ Len(w) = Cardinality(SourcesOf(w))
  BY DEF Dealt, UnderWay, Once
<1>2. source \notin f /\ source \notin SourcesOf(w)
  BY <1>1, Order
<1>3. f2 \cup SourcesOf(w2) = Asked(r) \cap (Before(source) \cup {source})
  BY <1>1
<1>4. Once(f2, w2)
  <2>1. f2 \cap SourcesOf(w2) = {}
    BY <1>1, <1>2
  <2>2. IsFiniteSet(SourcesOf(w))
    BY SourcesType, FourSources
  <2>3. Cardinality(SourcesOf(w) \cup {source}) = Cardinality(SourcesOf(w)) + 1
    BY <1>2, <2>2, FS_AddElement
  <2>4. Len(w2) = Cardinality(SourcesOf(w2))
    BY <1>1, <2>3
  <2> QED
    BY <2>1, <2>4 DEF Once
<1>5. CASE r.kind = "context"
  <2>1. CASE After[source] # "idle"
    <3>1. PICK next \in Sources :
            After[source] \in At(next) /\ Before(next) = Before(source) \cup {source}
      BY <2>1, Order
    <3>2. /\ p2 \in At(next) /\ k2 = "none"
          /\ p2 \in {"to_catalog", "to_ephemeris", "to_weather"}
      BY <1>5, <2>1, <3>1, Order
    <3>3. UnderWay(p2, r, f2, w2, k2)
      <4> SUFFICES ASSUME NEW other \in Sources, p2 \in At(other)
                   PROVE  f2 \cup SourcesOf(w2) = Asked(r) \cap Before(other)
        BY <1>5, <3>2 DEF UnderWay
      <4>1. other = next
        BY <3>2, Order
      <4> QED
        BY <1>3, <3>1, <4>1
    <3> QED
      BY <1>4, <3>2, <3>3 DEF Dealt, Replied
  <2>2. CASE After[source] = "idle"
    <3>1. p2 = "idle" /\ k2 = "200" /\ f2 \cup SourcesOf(w2) = Asked(r)
      <4>1. Before(source) \cup {source} = Sources /\ Asked(r) \subseteq Sources
        BY <2>2, Order DEF Asked
      <4> QED
        BY <1>3, <1>5, <2>2, <4>1
    <3>2. UnderWay(p2, r, f2, w2, k2)
      BY <3>1, Order DEF UnderWay
    <3> QED
      BY <1>4, <1>5, <3>1, <3>2 DEF Dealt, Replied, Complete
  <2> QED
    BY <2>1, <2>2
<1>6. CASE r.kind # "context"
  <2>1. r.kind = source /\ Asked(r) = {source} /\ p2 = "idle" /\ k2 = single
    BY <1>1, <1>6, RequestTypes
  <2>2. f = {} /\ SourcesOf(w) = {}
    BY <1>1, <1>2, <2>1
  <2>3. UnderWay(p2, r, f2, w2, k2)
    BY <2>1, Order DEF UnderWay
  <2>4. Complete(r, f2, w2, k2)
    <3>1. f2 \cup SourcesOf(w2) = Asked(r) /\ k2 # "500" /\ (k2 = "200" <=> f2 # {})
      BY <1>3, <1>6, <2>1, <2>2
    <3> QED
      BY <3>1 DEF Complete
  <2> QED
    BY <1>4, <2>1, <2>3, <2>4 DEF Dealt, Replied
<1> QED
  BY <1>5, <1>6

-----------------------------------------------------------------------------
(* The steps of a request. *)

Inv == Types /\ PoolTypes /\ DealtInv /\ PoolInv

\* What the step of one request leaves alone.
RestKept(c) ==
  \A d \in Clients \ {c} : /\ pc'[d] = pc[d] /\ request'[d] = request[d]
                           /\ found'[d] = found[d] /\ warnings'[d] = warnings[d]
                           /\ code'[d] = code[d]

LEMMA OthersDealt ==
  ASSUME DealtInv, NEW c \in Clients, RestKept(c),
         Dealt(pc'[c], request'[c], found'[c], warnings'[c], code'[c])
  PROVE  DealtInv'
BY DEF DealtInv, RestKept

\* A source is dealt with: found, warned of, or not asked for.
LEMMA SourceFound ==
  ASSUME Types, DealtInv, NEW c \in Clients, NEW source \in Sources, pc[c] \in At(source),
         source \in Asked(request[c]), Finds(c, source)
  PROVE  Types' /\ DealtInv' /\ OneMoves(c) /\ pc'[c] \notin InPool
<1>1. /\ request[c] \in AllRequests /\ found[c] \in SUBSET Sources
      /\ warnings[c] \in Seq(Warning) /\ "200" \in Codes
      /\ Dealt(pc[c], request[c], found[c], warnings[c], code[c])
  BY DEF Types, Codes, DealtInv, Warning
<1>2. Goes(c, source, "200") /\ found' = [found EXCEPT ![c] = @ \cup {source}]
      /\ warnings' = warnings
  BY DEF Finds
<1>3. /\ pc' \in [Clients -> Locations] /\ code' \in [Clients -> Codes]
      /\ OneMoves(c) /\ \A d \in Clients \ {c} : code'[d] = code[d]
      /\ pc'[c] \notin InPool /\ UNCHANGED <<config, request>>
      /\ request[c].kind # "context" => pc'[c] = "idle" /\ code'[c] = "200"
      /\ request[c].kind = "context" =>
           pc'[c] = After[source] /\ code'[c] = IF After[source] = "idle" THEN "200" ELSE "none"
  BY <1>1, <1>2, GoesOn
<1>4. /\ found' \in [Clients -> SUBSET Sources] /\ found'[c] = found[c] \cup {source}
      /\ \A d \in Clients \ {c} : found'[d] = found[d]
  BY <1>2 DEF Types
<1>5. Dealt(pc'[c], request[c], found'[c], warnings[c], code'[c])
  BY <1>1, <1>3, <1>4, DealtFurther
<1>6. DealtInv'
  BY <1>2, <1>3, <1>4, <1>5, OthersDealt DEF RestKept, OneMoves
<1> QED
  BY <1>2, <1>3, <1>4, <1>6 DEF Types, Locations, Codes

LEMMA SourceWarned ==
  ASSUME Types, DealtInv, NEW c \in Clients, NEW source \in Sources, pc[c] \in At(source),
         source \in Asked(request[c]), NEW why \in Reasons,
         request[c].kind # "context" => why \in DOMAIN HttpCode, Warns(c, source, why)
  PROVE  Types' /\ DealtInv' /\ OneMoves(c) /\ pc'[c] \notin InPool
<1> DEFINE single == IF why \in DOMAIN HttpCode THEN HttpCode[why] ELSE "none"
           x == [source |-> source, why |-> why]
<1>1. /\ request[c] \in AllRequests /\ found[c] \in SUBSET Sources
      /\ warnings[c] \in Seq(Warning) /\ warnings \in [Clients -> Seq(Warning)]
      /\ Dealt(pc[c], request[c], found[c], warnings[c], code[c])
  BY DEF Types, DealtInv, Warning
<1>2. single \in Codes /\ (request[c].kind # "context" => single \notin {"none", "200", "500"})
  BY HttpCodes DEF Codes
<1>3. Goes(c, source, single) /\ warnings' = [warnings EXCEPT ![c] = Append(@, x)]
      /\ found' = found
  BY DEF Warns
<1>4. x \in Warning /\ x.source = source
  BY DEF Warning
<1> HIDE DEF single, x
<1>5. /\ pc' \in [Clients -> Locations] /\ code' \in [Clients -> Codes]
      /\ OneMoves(c) /\ \A d \in Clients \ {c} : code'[d] = code[d]
      /\ pc'[c] \notin InPool /\ UNCHANGED <<config, request>>
      /\ request[c].kind # "context" => pc'[c] = "idle" /\ code'[c] = single
      /\ request[c].kind = "context" =>
           pc'[c] = After[source] /\ code'[c] = IF After[source] = "idle" THEN "200" ELSE "none"
  BY <1>2, <1>3, GoesOn
<1>6. /\ warnings'[c] = Append(warnings[c], x)
      /\ \A d \in Clients \ {c} : warnings'[d] = warnings[d]
  BY <1>1, <1>3
<1>7. /\ Append(warnings[c], x) \in Seq(Warning)
      /\ Len(Append(warnings[c], x)) = Len(warnings[c]) + 1
      /\ SourcesOf(Append(warnings[c], x)) = SourcesOf(warnings[c]) \cup {source}
  <2>1. warnings[c] \in Seq(Warning) /\ x \in Warning
    BY <1>1, <1>4
  <2>2. /\ Append(warnings[c], x) \in Seq(Warning)
        /\ Len(Append(warnings[c], x)) = Len(warnings[c]) + 1
        /\ SourcesOf(Append(warnings[c], x)) = SourcesOf(warnings[c]) \cup {x.source}
    BY <2>1, MoreSources, Zenon
  <2> QED
    BY <1>4, <2>2
<1>8. Dealt(pc'[c], request[c], found[c], warnings'[c], code'[c])
  <2>1. /\ warnings'[c] \in Seq(Warning) /\ Len(warnings'[c]) = Len(warnings[c]) + 1
        /\ SourcesOf(warnings'[c]) = SourcesOf(warnings[c]) \cup {source}
    BY <1>6, <1>7
  <2> QED
    BY <1>1, <1>2, <1>5, <2>1, DealtFurther
<1>9. DealtInv'
  BY <1>3, <1>5, <1>6, <1>8, OthersDealt DEF RestKept, OneMoves
<1>10. warnings' \in [Clients -> Seq(Warning)]
  BY <1>1, <1>3, <1>7
<1> QED
  BY <1>3, <1>5, <1>9, <1>10 DEF Types, Locations, Codes, Warning

LEMMA SourceSkipped ==
  ASSUME Types, DealtInv, NEW c \in Clients, NEW source \in Sources, pc[c] \in At(source),
         source \notin Asked(request[c]), Skips(c, source)
  PROVE  Types' /\ DealtInv' /\ OneMoves(c) /\ pc'[c] \notin InPool
<1>1. /\ request[c] \in AllRequests /\ found[c] \in SUBSET Sources
      /\ warnings[c] \in Seq(Warning) /\ "none" \in Codes
      /\ Dealt(pc[c], request[c], found[c], warnings[c], code[c])
  BY DEF Types, Codes, DealtInv, Warning
<1>2. Goes(c, source, "none") /\ UNCHANGED <<found, warnings>>
  BY DEF Skips
<1>3. /\ pc' \in [Clients -> Locations] /\ code' \in [Clients -> Codes]
      /\ OneMoves(c) /\ \A d \in Clients \ {c} : code'[d] = code[d]
      /\ pc'[c] \notin InPool /\ UNCHANGED <<config, request>>
      /\ request[c].kind # "context" => pc'[c] = "idle" /\ code'[c] = "none"
      /\ request[c].kind = "context" =>
           pc'[c] = After[source] /\ code'[c] = IF After[source] = "idle" THEN "200" ELSE "none"
  BY <1>1, <1>2, GoesOn
<1>5. Dealt(pc'[c], request[c], found[c], warnings[c], code'[c])
  BY <1>1, <1>3, DealtFurther
<1>6. DealtInv'
  BY <1>2, <1>3, <1>5, OthersDealt DEF RestKept, OneMoves
<1> QED
  BY <1>2, <1>3, <1>6 DEF Types, Locations, Codes

\* To another location at the same source.
LEMMA SourceAwaited ==
  ASSUME Types, DealtInv, NEW c \in Clients, NEW source \in Sources, pc[c] \in At(source),
         NEW location \in At(source), source \in Asked(request[c]),
         location = "weather" => request[c].weather = "yes", Moves(c, location)
  PROVE  Types' /\ DealtInv' /\ OneMoves(c) /\ pc'[c] = location
<1>1. /\ pc' = [pc EXCEPT ![c] = location] /\ pc \in [Clients -> Locations]
      /\ UNCHANGED <<config, request, found, warnings, code>>
      /\ Dealt(pc[c], request[c], found[c], warnings[c], code[c])
  BY DEF Types, DealtInv, Moves, Locations
<1>2. location \in Locations
  BY DEF Locations, At, Sources, Synchronous, Awaiting
<1>3. Dealt(location, request[c], found[c], warnings[c], code[c])
  <2>1. code[c] = "none"
    BY <1>1 DEF Dealt, UnderWay
  <2>2. \A other \in Sources : location \in At(other) => other = source
    BY Order
  <2> QED
    BY <1>1, <2>1, <2>2 DEF Dealt, UnderWay, Replied
<1>4. DealtInv'
  BY <1>1, <1>3, OthersDealt DEF RestKept
<1> QED
  BY <1>1, <1>2, <1>4 DEF Types, Locations, OneMoves

\* What a request at a source may be.
LEMMA AtSource ==
  ASSUME Inv, NEW c \in Clients, NEW source \in Sources, pc[c] \in At(source)
  PROVE  /\ request[c] \in AllRequests
         /\ request[c].kind \in {"context", source}
         /\ pc[c] \in {"snapshot", "catalog", "computing", "weather"} => source \in Asked(request[c])
         /\ pc[c] = "weather" => request[c].weather = "yes"
         /\ source = "status" => request[c].kind = "context" /\ "status" \in Asked(request[c])
<1>1. request[c] \in AllRequests /\ Dealt(pc[c], request[c], found[c], warnings[c], code[c])
  BY DEF Inv, Types, DealtInv
<1>2. /\ request[c].kind \in {"context", source}
      /\ pc[c] \in {"snapshot", "catalog", "computing", "weather"} => source \in Asked(request[c])
      /\ pc[c] = "weather" => request[c].weather = "yes"
  BY <1>1 DEF Dealt, UnderWay
<1>3. source = "status" => request[c].kind = "context" /\ "status" \in Asked(request[c])
  BY <1>1, <1>2, RequestTypes
<1> QED
  BY <1>1, <1>2, <1>3

LEMMA AskedSources ==
  ASSUME NEW r
  PROVE  /\ "catalog" \in Asked(r) <=> r.catalog # "no"
         /\ "ephemeris" \in Asked(r) <=> r.ephemeris # "no"
         /\ "weather" \in Asked(r) <=> r.weather # "no"
BY DEF Asked, Sources

LEMMA Places ==
  /\ At("status") = {"status", "snapshot"} /\ At("catalog") = {"to_catalog", "catalog"}
  /\ At("ephemeris") = {"to_ephemeris", "computing"} /\ At("weather") = {"to_weather", "weather"}
  /\ Sources = {"status", "catalog", "ephemeris", "weather"}
BY DEF At, Sources

LEMMA StatusStep ==
  ASSUME Inv, NEW c \in Clients, Status(c) \/ SnapshotTaken(c)
  PROVE  Inv'
<1>1. /\ "status" \in Sources /\ pc[c] \in At("status") /\ "infra_unavailable" \in Reasons
      /\ "snapshot" \in At("status") /\ Types /\ DealtInv /\ PoolTypes /\ PoolInv
  BY Places DEF Inv, Status, SnapshotTaken, Reasons
<1>2. request[c].kind = "context" /\ "status" \in Asked(request[c])
  BY <1>1, AtSource
<1>3. CASE Status(c) /\ Warns(c, "status", "infra_unavailable") /\ NoPool
  <2>1. Types' /\ DealtInv' /\ OneMoves(c) /\ pc'[c] \notin InPool
    BY <1>1, <1>2, <1>3, SourceWarned
  <2>2. pc[c] \notin InPool /\ NoPool
    BY <1>3 DEF Status, InPool
  <2> QED
    BY <1>1, <2>1, <2>2, PoolLeft DEF Inv
<1>4. CASE Status(c) /\ Finds(c, "status") /\ NoPool
  <2>1. Types' /\ DealtInv' /\ OneMoves(c) /\ pc'[c] \notin InPool
    BY <1>1, <1>2, <1>4, SourceFound
  <2>2. pc[c] \notin InPool /\ NoPool
    BY <1>4 DEF Status, InPool
  <2> QED
    BY <1>1, <2>1, <2>2, PoolLeft DEF Inv
<1>5. CASE Status(c) /\ Moves(c, "snapshot") /\ Submits(c, "snapshot")
  <2>1. Types' /\ DealtInv' /\ OneMoves(c) /\ pc'[c] = "snapshot"
    BY <1>1, <1>2, <1>5, SourceAwaited
  <2>2. pc[c] \notin InPool /\ pc'[c] \in InPool
    BY <1>5, <2>1 DEF Status, InPool
  <2>3. PoolTypes' /\ PoolInv'
    BY <1>1, <1>5, <2>1, <2>2, PoolSubmitted
  <2> QED
    BY <2>1, <2>3 DEF Inv
<1>6. CASE SnapshotTaken(c)
  <2>1. Types' /\ DealtInv' /\ OneMoves(c) /\ pc'[c] \notin InPool
    BY <1>1, <1>2, <1>6, SourceFound DEF SnapshotTaken
  <2>2. pc[c] \in InPool /\ answer[c] # None /\ Collects(c)
    BY <1>6 DEF SnapshotTaken, InPool
  <2> QED
    BY <1>1, <2>1, <2>2, PoolCollected DEF Inv
<1> QED
  BY <1>3, <1>4, <1>5, <1>6 DEF Status

LEMMA LookUpStep ==
  ASSUME Inv, NEW c \in Clients, LookUp(c)
  PROVE  Inv'
<1>1. /\ "catalog" \in Sources /\ pc[c] \in At("catalog") /\ pc[c] \notin InPool
      /\ "catalog" \in At("catalog") /\ Types /\ DealtInv /\ PoolTypes /\ PoolInv
  BY Places DEF Inv, LookUp, InPool
<1>2. /\ "disabled" \in Reasons \cap DOMAIN HttpCode
      /\ "unresolved" \in Reasons \cap DOMAIN HttpCode
  BY HttpCodes DEF Reasons
<1>3. "catalog" \in Asked(request[c]) <=> request[c].catalog # "no"
  BY AskedSources
<1>4. ASSUME NEW why \in {"disabled", "unresolved"}, request[c].catalog # "no",
             Warns(c, "catalog", why), NoPool
      PROVE  Inv'
  <2>1. Types' /\ DealtInv' /\ OneMoves(c) /\ pc'[c] \notin InPool
    BY <1>1, <1>2, <1>3, <1>4, SourceWarned
  <2> QED
    BY <1>1, <1>4, <2>1, PoolLeft DEF Inv
<1>5. ASSUME request[c].catalog = "no", Skips(c, "catalog"), NoPool PROVE Inv'
  <2>1. Types' /\ DealtInv' /\ OneMoves(c) /\ pc'[c] \notin InPool
    BY <1>1, <1>3, <1>5, SourceSkipped
  <2> QED
    BY <1>1, <1>5, <2>1, PoolLeft DEF Inv
<1>6. ASSUME request[c].catalog = "yes", Moves(c, "catalog"), Submits(c, "lookup") PROVE Inv'
  <2>1. Types' /\ DealtInv' /\ OneMoves(c) /\ pc'[c] = "catalog"
    BY <1>1, <1>3, <1>6, SourceAwaited
  <2>2. PoolTypes' /\ PoolInv'
    BY <1>1, <1>6, <2>1, PoolSubmitted DEF InPool
  <2> QED
    BY <2>1, <2>2 DEF Inv
<1> QED
  BY <1>4, <1>5, <1>6 DEF LookUp

LEMMA LookupEndStep ==
  ASSUME Inv, NEW c \in Clients, LookupReturns(c) \/ LookupTimesOut(c)
  PROVE  Inv'
<1>1. /\ "catalog" \in Sources /\ pc[c] \in At("catalog") /\ pc[c] = "catalog" /\ pc[c] \in InPool
      /\ Types /\ DealtInv /\ PoolTypes /\ PoolInv
  BY Places DEF Inv, LookupReturns, LookupTimesOut, InPool
<1>2. /\ "timeout" \in Reasons \cap DOMAIN HttpCode
      /\ "unresolved" \in Reasons \cap DOMAIN HttpCode
  BY HttpCodes DEF Reasons
<1>3. "catalog" \in Asked(request[c])
  BY <1>1, AtSource
<1>4. CASE LookupReturns(c)
  <2>1. /\ Finds(c, "catalog") \/ Warns(c, "catalog", "unresolved")
        /\ Collects(c) /\ answer[c] \in {"ok", "unresolved"} /\ None \notin {"ok", "unresolved"}
    BY <1>4, ContextAssumption DEF LookupReturns
  <2>2. Types' /\ DealtInv' /\ OneMoves(c) /\ pc'[c] \notin InPool
    BY <1>1, <1>2, <1>3, <2>1, SourceFound, SourceWarned
  <2> QED
    BY <1>1, <2>1, <2>2, PoolCollected DEF Inv
<1>5. CASE LookupTimesOut(c)
  <2>1. /\ Warns(c, "catalog", "timeout") /\ pool' = GivenUp(c)
        /\ answer' = [answer EXCEPT ![c] = None]
    BY <1>5 DEF LookupTimesOut
  <2>2. Types' /\ DealtInv' /\ OneMoves(c) /\ pc'[c] \notin InPool
    BY <1>1, <1>2, <1>3, <2>1, SourceWarned
  <2> QED
    BY <1>1, <2>1, <2>2, PoolGivenUp DEF Inv
<1> QED
  BY <1>4, <1>5

LEMMA EphemerisStep ==
  ASSUME Inv, NEW c \in Clients, Ephemeris(c) \/ Computed(c)
  PROVE  Inv'
<1>1. /\ "ephemeris" \in Sources /\ pc[c] \in At("ephemeris") /\ pc[c] \notin InPool
      /\ "computing" \in At("ephemeris") /\ "computing" \notin InPool /\ "computing" # "weather"
      /\ NoPool /\ Types /\ DealtInv /\ PoolTypes /\ PoolInv
  BY Places DEF Inv, Ephemeris, Computed, InPool
<1>2. /\ "disabled" \in Reasons \cap DOMAIN HttpCode
      /\ "unsupported" \in Reasons \cap DOMAIN HttpCode /\ "missing_obstime" \in Reasons
  BY HttpCodes DEF Reasons
<1>3. "ephemeris" \in Asked(request[c]) <=> request[c].ephemeris # "no"
  BY AskedSources
<1>4. /\ pc[c] = "computing" => "ephemeris" \in Asked(request[c])
      /\ request[c].ephemeris = "no_obstime" => request[c].kind = "context"
  BY <1>1, AtSource, RequestTypes
<1>5. Types' /\ DealtInv' /\ OneMoves(c) /\ pc'[c] \notin InPool
  <2>1. CASE Ephemeris(c) /\ request[c].ephemeris = "no" /\ Skips(c, "ephemeris")
    BY <1>1, <1>3, <2>1, SourceSkipped
  <2>2. CASE Ephemeris(c) /\ request[c].ephemeris = "no_obstime"
             /\ Warns(c, "ephemeris", "missing_obstime")
    BY <1>1, <1>2, <1>3, <1>4, <2>2, SourceWarned
  <2>3. CASE Ephemeris(c) /\ request[c].ephemeris = "yes" /\ Warns(c, "ephemeris", "disabled")
    BY <1>1, <1>2, <1>3, <2>3, SourceWarned
  <2>4. CASE Ephemeris(c) /\ request[c].ephemeris = "yes" /\ Moves(c, "computing")
    BY <1>1, <1>3, <2>4, SourceAwaited
  <2>5. CASE Computed(c) /\ Finds(c, "ephemeris")
    BY <1>1, <1>4, <2>5, SourceFound DEF Computed
  <2>6. CASE Computed(c) /\ Warns(c, "ephemeris", "unsupported")
    BY <1>1, <1>2, <1>4, <2>6, SourceWarned DEF Computed
  <2> QED
    BY <2>1, <2>2, <2>3, <2>4, <2>5, <2>6 DEF Ephemeris, Computed
<1> QED
  BY <1>1, <1>5, PoolLeft DEF Inv

LEMMA WeatherStep ==
  ASSUME Inv, NEW c \in Clients, Weather(c) \/ Observed(c)
  PROVE  Inv'
<1>1. /\ "weather" \in Sources /\ pc[c] \in At("weather") /\ pc[c] \notin InPool
      /\ "weather" \in At("weather") /\ "weather" \notin InPool
      /\ NoPool /\ Types /\ DealtInv /\ PoolTypes /\ PoolInv
  BY Places DEF Inv, Weather, Observed, InPool
<1>2. /\ "disabled" \in Reasons \cap DOMAIN HttpCode
      /\ "unavailable" \in Reasons \cap DOMAIN HttpCode /\ "incomplete_coordinates" \in Reasons
  BY HttpCodes DEF Reasons
<1>3. "weather" \in Asked(request[c]) <=> request[c].weather # "no"
  BY AskedSources
<1>4. /\ pc[c] = "weather" => "weather" \in Asked(request[c]) /\ request[c].weather = "yes"
      /\ request[c].weather = "partial" => request[c].kind = "context"
  BY <1>1, AtSource, RequestTypes
<1>5. Types' /\ DealtInv' /\ OneMoves(c) /\ pc'[c] \notin InPool
  <2>1. CASE Weather(c) /\ request[c].weather = "no" /\ Skips(c, "weather")
    BY <1>1, <1>3, <2>1, SourceSkipped
  <2>2. CASE Weather(c) /\ request[c].weather = "partial"
             /\ Warns(c, "weather", "incomplete_coordinates")
    BY <1>1, <1>2, <1>3, <1>4, <2>2, SourceWarned
  <2>3. ASSUME NEW why \in {"disabled", "unavailable"}, request[c].weather = "yes",
               Warns(c, "weather", why)
        PROVE  Types' /\ DealtInv' /\ OneMoves(c) /\ pc'[c] \notin InPool
    BY <1>1, <1>2, <1>3, <2>3, SourceWarned
  <2>4. CASE Weather(c) /\ request[c].weather = "yes" /\ Moves(c, "weather")
    BY <1>1, <1>3, <2>4, SourceAwaited
  <2>5. CASE Observed(c) /\ Finds(c, "weather")
    BY <1>1, <1>4, <2>5, SourceFound DEF Observed
  <2>6. CASE Observed(c) /\ Warns(c, "weather", "unavailable")
    BY <1>1, <1>2, <1>4, <2>6, SourceWarned DEF Observed
  <2>7. CASE /\ Observed(c) /\ pc' = [pc EXCEPT ![c] = "idle"]
             /\ code' = [code EXCEPT ![c] = "500"]
             /\ UNCHANGED <<config, request, found, warnings>>
    <3>1. /\ pc \in [Clients -> Locations] /\ code \in [Clients -> Codes]
          /\ "idle" \in Locations /\ "500" \in Codes /\ "idle" \notin InPool
      BY <1>1 DEF Types, Locations, Codes, InPool
    <3>2. /\ pc'[c] = "idle" /\ code'[c] = "500" /\ OneMoves(c) /\ RestKept(c)
          /\ pc' \in [Clients -> Locations] /\ code' \in [Clients -> Codes]
      BY <2>7, <3>1 DEF OneMoves, RestKept
    <3>3. Dealt(pc[c], request[c], found[c], warnings[c], code[c]) /\ pc[c] = "weather"
      BY <1>1, <2>7 DEF DealtInv, Observed
    <3>4. Before("weather") = {"status", "catalog", "ephemeris"}
      BY DEF Before
    <3>5. Complete(request[c], found[c], warnings[c], "500")
      <4>1. found[c] \cup SourcesOf(warnings[c]) = Asked(request[c]) \cap Before("weather")
        BY <1>1, <3>3 DEF Dealt, UnderWay
      <4>2. Asked(request[c]) \cap Before("weather") = Asked(request[c]) \ {"weather"}
        BY <3>4, Places DEF Asked
      <4> QED
        BY <1>4, <3>3, <4>1, <4>2 DEF Complete
    <3>6. Dealt("idle", request[c], found[c], warnings[c], "500")
      <4>1. \A source \in Sources : "idle" \notin At(source)
        BY Order
      <4> QED
        BY <3>3, <3>5, <4>1 DEF Dealt, UnderWay, Replied
    <3>7. DealtInv'
      BY <1>1, <2>7, <3>2, <3>6, OthersDealt
    <3>8. Types'
      BY <1>1, <2>7, <3>2 DEF Types, Locations, Codes
    <3> QED
      BY <3>1, <3>2, <3>7, <3>8
  <2> QED
    BY <2>1, <2>2, <2>3, <2>4, <2>5, <2>6, <2>7 DEF Weather, Observed
<1> QED
  BY <1>1, <1>5, PoolLeft DEF Inv

LEMMA AskStep ==
  ASSUME Inv, NEW c \in Clients, Ask(c)
  PROVE  Inv'
<1>1. PICK r \in Requests : request' = [request EXCEPT ![c] = r]
                            /\ pc' = [pc EXCEPT ![c] = First[r.kind]]
  BY DEF Ask
<1>2. /\ pc[c] = "idle" /\ NoPool /\ config' = config
      /\ found' = [found EXCEPT ![c] = {}]
      /\ warnings' = [warnings EXCEPT ![c] = <<>>]
      /\ code' = [code EXCEPT ![c] = "none"]
  BY DEF Ask, NoPool
<1>3. r \in AllRequests /\ r.kind \in {"context", "catalog", "ephemeris", "weather"}
  BY ContextAssumption, RequestTypes
<1>4. /\ pc \in [Clients -> Locations] /\ request \in [Clients -> AllRequests]
      /\ found \in [Clients -> SUBSET Sources] /\ warnings \in [Clients -> Seq(Warning)]
      /\ code \in [Clients -> Codes]
  BY DEF Inv, Types, Locations, Codes, Warning
<1>5. /\ First[r.kind] \in {"status", "to_catalog", "to_ephemeris", "to_weather"}
      /\ First[r.kind] \in Locations /\ First[r.kind] \notin InPool
  BY <1>3 DEF First, Locations, Synchronous, Awaiting, InPool
<1>6. \A source \in Sources : First[r.kind] \in At(source) =>
        r.kind \in {"context", source} /\ Asked(r) \cap Before(source) = {}
  <2>1. CASE r.kind = "context"
    BY <2>1, Places DEF First, Before
  <2>2. CASE r.kind # "context"
    <3>1. Asked(r) = {r.kind}
      BY <1>3, <2>2, RequestTypes
    <3>2. \A source \in Sources : First[r.kind] \in At(source) => source = r.kind
      BY <1>3, <2>2, Places DEF First
    <3> QED
      BY <3>1, <3>2, Order
  <2> QED
    BY <2>1, <2>2
<1>7. Dealt(First[r.kind], r, {}, <<>>, "none")
  <2>1. Cardinality({}) = 0
    BY FS_EmptySet
  <2>2. UnderWay(First[r.kind], r, {}, <<>>, "none")
    BY <1>5, <1>6, NoSources DEF UnderWay
  <2> QED
    BY <2>1, <2>2, NoSources DEF Dealt, Once, Replied
<1>8. /\ pc'[c] = First[r.kind] /\ request'[c] = r /\ found'[c] = {} /\ warnings'[c] = <<>>
      /\ code'[c] = "none" /\ RestKept(c) /\ OneMoves(c)
  BY <1>1, <1>2, <1>4 DEF RestKept, OneMoves
<1>9. DealtInv'
  BY <1>7, <1>8, OthersDealt DEF Inv
<1>10. Types'
  <2>1. pc' \in [Clients -> Locations] /\ request' \in [Clients -> AllRequests]
    BY <1>1, <1>3, <1>4, <1>5
  <2>2. found' \in [Clients -> SUBSET Sources] /\ code' \in [Clients -> Codes]
    BY <1>2, <1>4 DEF Codes
  <2>3. warnings' \in [Clients -> Seq(Warning)]
    BY <1>2, <1>4, NoSources
  <2> QED
    BY <1>2, <2>1, <2>2, <2>3 DEF Inv, Types, Locations, Codes, Warning
<1> QED
  BY <1>2, <1>5, <1>8, <1>9, <1>10, PoolLeft DEF Inv, InPool

LEMMA InitInv == Init => Inv
<1> SUFFICES ASSUME Init PROVE Inv
  OBVIOUS
<1> DEFINE r == CHOOSE x \in Requests : TRUE
<1>1. r \in AllRequests
  BY ContextAssumption
<1> HIDE DEF r
<1>2. /\ config \in AllConfigs /\ pc = [c \in Clients |-> "idle"]
      /\ request \in [Clients -> {r}]
      /\ found = [c \in Clients |-> {}] /\ warnings = [c \in Clients |-> <<>>]
      /\ code = [c \in Clients |-> "none"]
      /\ pool = <<>> /\ answer = [c \in Clients |-> None]
  BY ContextAssumption DEF Init, r
<1>3. Types
  <2>1. warnings \in [Clients -> Seq(Warning)]
    BY <1>2, NoSources
  <2> QED
    BY <1>1, <1>2, <2>1 DEF Types, Warning
<1>4. DealtInv
  <2> SUFFICES ASSUME NEW c \in Clients
               PROVE  Dealt(pc[c], request[c], found[c], warnings[c], code[c])
    BY DEF DealtInv
  <2>1. pc[c] = "idle" /\ found[c] = {} /\ warnings[c] = <<>> /\ code[c] = "none"
    BY <1>2
  <2>2. \A source \in Sources : "idle" \notin At(source)
    BY Order
  <2>3. UnderWay("idle", request[c], {}, <<>>, "none")
    BY <2>2 DEF UnderWay
  <2>4. Once({}, <<>>)
    BY NoSources, FS_EmptySet DEF Once
  <2> QED
    BY <2>1, <2>3, <2>4 DEF Dealt, Replied
<1>5. PoolTypes /\ DOMAIN pool = {}
  BY <1>2 DEF PoolTypes
<1>6. PoolInv
  BY <1>2, <1>5 DEF PoolInv, HasJob
<1> QED
  BY <1>3, <1>4, <1>5, <1>6 DEF Inv

LEMMA NextInv == Inv /\ [Next]_vars => Inv'
<1> SUFFICES ASSUME Inv, [Next]_vars PROVE Inv'
  OBVIOUS
<1>1. ASSUME NEW c \in Clients, Ask(c) PROVE Inv'
  BY <1>1, AskStep
<1>2. ASSUME NEW c \in Clients, Coroutine(c) PROVE Inv'
  BY <1>2, StatusStep, LookUpStep, LookupEndStep, EphemerisStep, WeatherStep DEF Coroutine
<1>3. ASSUME NEW k \in 1..Workers, ThreadEnds(k) PROVE Inv'
  <2>1. UNCHANGED <<config, pc, request, found, warnings, code>>
    BY <1>3 DEF ThreadEnds
  <2>2. Types' /\ DealtInv'
    BY <2>1 DEF Inv, Types, DealtInv
  <2>3. PoolTypes' /\ PoolInv'
    BY <1>3, PoolEnds DEF Inv
  <2> QED
    BY <2>2, <2>3 DEF Inv
<1>4. CASE UNCHANGED vars
  <2>1. /\ UNCHANGED <<config, pc, request, found, warnings, code>> /\ UNCHANGED <<pool, answer>>
        /\ \A c \in Clients : HasJob(c)' <=> HasJob(c)
    BY <1>4 DEF vars, HasJob
  <2>2. Types' /\ DealtInv' /\ PoolTypes'
    BY <2>1 DEF Inv, Types, DealtInv, PoolTypes
  <2>3. PoolInv'
    BY <2>1 DEF Inv, PoolInv
  <2> QED
    BY <2>2, <2>3 DEF Inv
<1> QED
  BY <1>1, <1>2, <1>3, <1>4 DEF Next

LEMMA InvHolds == Spec => []Inv
BY InitInv, NextInv, PTL DEF Spec

-----------------------------------------------------------------------------
(* Theorems. *)

\* Type correctness: requests stay within what the endpoints accept, and warnings within
\* one for each of the four sources that ContextWarning names.
THEOREM TypeCorrect == Spec => []TypeOK
<1>1. Inv => TypeOK
  <2> SUFFICES ASSUME Inv PROVE TypeOK
    OBVIOUS
  <2>1. ASSUME NEW c \in Clients PROVE Len(warnings[c]) <= Cardinality(Sources)
    <3>1. warnings[c] \in Seq(Warning) /\ Len(warnings[c]) = Cardinality(SourcesOf(warnings[c]))
      BY DEF Inv, Types, DealtInv, Dealt, Once, Warning
    <3>2. SourcesOf(warnings[c]) \in SUBSET Sources
      BY <3>1, SourcesType
    <3> QED
      BY <3>1, <3>2, FourSources
  <2> QED
    BY <2>1 DEF Inv, Types, PoolTypes, Job, TypeOK
<1> QED
  BY <1>1, InvHolds, PTL

\* The reply of the context endpoint has a target or one warning for every source it was
\* asked for and no other, and only the weather can fail it as a whole.
THEOREM Degrades == Spec => []ContextDegrades
<1>1. Inv => ContextDegrades
  <2> SUFFICES ASSUME Inv, NEW c \in Clients, code[c] # "none"
               PROVE  LET dealt == found[c] \cup Warned(c)
                      IN  /\ found[c] \cap Warned(c) = {}
                          /\ Len(warnings[c]) = Cardinality(Warned(c))
                          /\ IF code[c] = "500"
                               THEN dealt = Asked(request[c]) \ {"weather"}
                                    /\ request[c].weather = "yes"
                               ELSE /\ dealt = Asked(request[c])
                                    /\ request[c].kind # "context" =>
                                         (code[c] = "200" <=> found[c] # {})
    BY DEF ContextDegrades
  <2>1. Warned(c) = SourcesOf(warnings[c])
    BY DEF Warned, SourcesOf
  <2>2. Once(found[c], warnings[c]) /\ Complete(request[c], found[c], warnings[c], code[c])
    BY DEF Inv, DealtInv, Dealt, Replied
  <2> QED
    BY <2>1, <2>2 DEF Once, Complete
<1> QED
  BY <1>1, InvHolds, PTL

\* The thread pool works for those that wait: abandoned lookups hold threads and never a
\* place in the queue, and none of their results is taken for a later request's.
THEOREM PoolServes == Spec => []PoolServesWaiting
<1>1. Inv => PoolServesWaiting
  <2> SUFFICES ASSUME Inv PROVE PoolServesWaiting
    OBVIOUS
  <2>1. PoolInv /\ None \notin Clients
    BY ContextAssumption DEF Inv
  <2>2. /\ \A i \in DOMAIN pool : i > Workers => pool[i].for # None
        /\ \A i \in Abandoned : pool[i].kind = "lookup"
    BY <2>1 DEF PoolInv, Abandoned
  <2> DEFINE mine(c) == {i \in DOMAIN pool : pool[i].for = c}
  <2>3. ASSUME NEW c \in Clients
        PROVE  IF pc[c] \in InPool
                 THEN /\ Cardinality(mine(c)) = IF answer[c] = None THEN 1 ELSE 0
                      /\ \A i \in mine(c) : pool[i].kind = "snapshot" <=> pc[c] = "snapshot"
                 ELSE mine(c) = {} /\ answer[c] = None
    <3>1. IF pc[c] \in InPool THEN HasJob(c) <=> answer[c] = None
                              ELSE ~HasJob(c) /\ answer[c] = None
      BY <2>1 DEF PoolInv, InPool
    <3>2. CASE HasJob(c)
      <4>1. PICK i \in DOMAIN pool : pool[i].for = c
        BY <3>2 DEF HasJob
      <4>2. mine(c) = {i}
        BY <2>1, <4>1 DEF PoolInv
      <4>3. Cardinality(mine(c)) = 1
        BY <4>2, FS_Singleton
      <4>4. \A j \in mine(c) : pool[j].kind = "snapshot" <=> pc[c] = "snapshot"
        BY <2>1 DEF PoolInv
      <4> QED
        BY <3>1, <3>2, <4>3, <4>4
    <3>3. CASE ~HasJob(c)
      <4>1. mine(c) = {}
        BY <3>3 DEF HasJob
      <4>2. Cardinality(mine(c)) = 0
        BY <4>1, FS_EmptySet
      <4> QED
        BY <3>1, <3>3, <4>1, <4>2
    <3> QED
      BY <3>2, <3>3
  <2> QED
    BY <2>2, <2>3 DEF PoolServesWaiting, InPool
<1> QED
  BY <1>1, InvHolds, PTL
=============================================================================
