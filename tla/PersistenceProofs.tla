------------------------- MODULE PersistenceProofs -------------------------
(***************************************************************************)
(* For every number of users, every size of the channel and every number   *)
(* of changes, failures and crashes: config.json is whole, never goes      *)
(* back, and holds every counter once nothing is pending, but for the      *)
(* reservations that neither a commit nor a snapshot has followed.  The    *)
(* inductive invariant is IInv of Persistence.                             *)
(***************************************************************************)
EXTENDS Persistence, TLAPS

\* What a UserStats starts with is a counter.
LEMMA LoadedType ==
    ASSUME NEW n \in Counters
    PROVE  Loaded(n) \in 0..MaxUsage /\ (n # NoCounters => Loaded(n) = n)
BY PersistenceAssumption DEF Loaded, Counters, NoCounters

\* The counters of the clients alone.
LEMMA OnlyFacts ==
    ASSUME NEW cl \in SUBSET Users, NEW f \in [Users -> Counters]
    PROVE  /\ Only(cl, f) \in [Users -> Counters]
           /\ \A u \in cl : Only(cl, f)[u] = f[u]
           /\ \A u \in Users \ cl : Only(cl, f)[u] = NoCounters
           /\ Only(cl, Only(cl, f)) = Only(cl, f)
           /\ Live(cl, f) \in Amounts
           /\ \A u \in cl : Live(cl, f)[u] = Loaded(f[u])
<1>1. NoCounters \in Counters /\ 0 \in 0..MaxUsage
  BY PersistenceAssumption DEF Counters, NoCounters
<1>2. \A u \in Users : Loaded(f[u]) \in 0..MaxUsage
  BY LoadedType
<1>. QED
  BY <1>1, <1>2 DEF Only, Live, Amounts

\* Live counters are counters, and starting from them changes none.
LEMMA UsageIsCounter ==
    ASSUME NEW f \in Amounts
    PROVE  f \in [Users -> Counters] /\ \A u \in Users : Loaded(f[u]) = f[u]
BY PersistenceAssumption DEF Amounts, Counters, NoCounters, Loaded

\* The overlay of a request is a document with the counters of the request.
LEMMA OverlayFacts ==
    ASSUME NEW r \in Requests
    PROVE  /\ Overlay(r) \in Docs
           /\ Overlay(r).clients = r.clients
           /\ Overlay(r).count = Only(r.clients, Overlay(r).count)
           /\ \A u \in r.clients : Overlay(r).count[u] = r.snap[u]
           /\ \A u \in r.clients : Overlay(r).taken[u] = r.snapTaken[u]
<1>1. /\ r.clients \in SUBSET Users /\ r.settings \in Nat
      /\ r.snap \in Amounts /\ r.snapTaken \in Amounts
  BY DEF Requests
<1>2. /\ r.snap \in [Users -> Counters] /\ r.snapTaken \in [Users -> Counters]
      /\ \A u \in Users : Loaded(r.snapTaken[u]) = r.snapTaken[u]
  BY <1>1, UsageIsCounter
<1>3. /\ Only(r.clients, r.snap) \in [Users -> Counters]
      /\ \A u \in r.clients : Only(r.clients, r.snap)[u] = r.snap[u]
      /\ Only(r.clients, Only(r.clients, r.snap)) = Only(r.clients, r.snap)
  BY <1>1, <1>2, OnlyFacts
<1>4. /\ Live(r.clients, r.snapTaken) \in Amounts
      /\ \A u \in r.clients : Live(r.clients, r.snapTaken)[u] = Loaded(r.snapTaken[u])
  BY <1>1, <1>2, OnlyFacts
<1>. QED
  BY <1>1, <1>2, <1>3, <1>4 DEF Overlay, Docs

\* The newest of the queued requests is the last one.
LEMMA LatestIsLast ==
    ASSUME TypeOK, Ordered, queue # <<>>
    PROVE  /\ Latest = queue[Len(queue)] /\ Len(queue) \in 1..Len(queue)
           /\ Latest \in Requests /\ Latest.generation > lastGen
<1>0. queue \in Seq(Requests)
  BY DEF TypeOK
<1>1. queue \in Seq(Requests) /\ Len(queue) \in Nat /\ Len(queue) > 0
  BY <1>0
<1>2. \A i \in 1..Len(queue) : queue[i] \in Requests /\ queue[i].generation \in Nat
  <2>1. \A i \in 1..Len(queue) : queue[i] \in Requests
    BY <1>1
  <2>2. \A r \in Requests : r.generation \in Nat
    BY DEF Requests
  <2>. QED
    BY <2>1, <2>2
<1>. DEFINE last == queue[Len(queue)]
            S == {queue[i] : i \in 1..Len(queue)}
            P(r) == \A i \in 1..Len(queue) : queue[i].generation <= r.generation
<1>3. Len(queue) \in 1..Len(queue) /\ last \in S
  BY <1>1
<1>4. P(last)
  <2>. SUFFICES ASSUME NEW i \in 1..Len(queue) PROVE queue[i].generation <= last.generation
    OBVIOUS
  <2>1. CASE i = Len(queue)
    BY <1>2, <2>1
  <2>2. CASE i < Len(queue)
    BY <1>2, <1>3, <2>2 DEF Ordered
  <2>. QED
    BY <1>1, <2>1, <2>2
<1>5. ASSUME NEW r \in S, P(r) PROVE r = last
  <2>1. PICK i \in 1..Len(queue) : r = queue[i]
    OBVIOUS
  <2>2. last.generation <= queue[i].generation
    BY <1>3, <1>5, <2>1
  <2>3. ~(i < Len(queue))
    BY <1>2, <1>3, <2>2 DEF Ordered
  <2>. QED
    BY <1>1, <2>1, <2>3
<1>6. Latest = CHOOSE r \in S : P(r)
  BY DEF Latest
<1>. HIDE DEF S, P, last
<1>7. Latest = last
  BY <1>3, <1>4, <1>5, <1>6
<1>. QED
  BY <1>1, <1>2, <1>3, <1>7 DEF last, Ordered, TypeOK

\* The fields of a request.
LEMMA RequestFields ==
    ASSUME NEW r \in Requests
    PROVE  /\ r.generation \in Nat /\ r.at \in Nat /\ r.clients \in SUBSET Users
           /\ r.base \in [Users -> Counters] /\ r.snap \in Amounts
           /\ r.snap \in [Users -> Counters]
           /\ r.baseTaken \in Amounts /\ r.snapTaken \in Amounts
<1>1. /\ r.generation \in Nat /\ r.at \in Nat /\ r.clients \in SUBSET Users
      /\ r.base \in [Users -> Counters] /\ r.snap \in Amounts
      /\ r.baseTaken \in Amounts /\ r.snapTaken \in Amounts
  BY DEF Requests
<1>. QED
  BY <1>1, UsageIsCounter

\* A queue with one request more.
LEMMA AppendRequest ==
    ASSUME NEW q \in Seq(Requests), NEW r \in Requests, NEW p, p = Append(q, r)
    PROVE  /\ p \in Seq(Requests) /\ Len(p) = Len(q) + 1 /\ Len(p) \in Nat /\ Len(q) \in Nat
           /\ \A i \in 1..Len(p) : \/ i \in 1..Len(q) /\ p[i] = q[i]
                                   \/ i = Len(q) + 1 /\ p[i] = r
           /\ p # <<>> /\ p[Len(p)] = r
<1>1. p \in Seq(Requests) /\ Len(p) = Len(q) + 1 /\ Len(p) \in Nat /\ Len(q) \in Nat
  OBVIOUS
<1>2. \A i \in 1..Len(q) : p[i] = q[i]
  OBVIOUS
<1>3. p[Len(q) + 1] = r
  OBVIOUS
<1>4. p # <<>>
  BY <1>1
<1>5. p[Len(p)] = r
  BY <1>1, <1>3
<1>6. \A i \in 1..Len(p) : i \in 1..Len(q) \/ i = Len(q) + 1
  BY <1>1
<1>7. \A i \in 1..Len(p) : \/ i \in 1..Len(q) /\ p[i] = q[i]
                           \/ i = Len(q) + 1 /\ p[i] = r
  BY <1>2, <1>3, <1>6, Zenon
<1>. QED
  BY <1>1, <1>4, <1>5, <1>7, Zenon

\* What persist_config_to_disk, with the configuration and counters that the
\* caller leaves behind, does to the invariant: known clients stay known with
\* counters that do not fall, and the request that fits is current.
LEMMA PersistStep ==
    ASSUME IInv, NEW d \in BOOLEAN,
           persist_config_to_disk(d),
           UNCHANGED <<worker, job, lastGen, tmp, disk, diskAt>>,
           clients' \in SUBSET Users, base' \in [Users -> Counters], settings' \in Nat,
           baseTaken' \in Amounts, usage' \in Amounts, taken' \in Amounts,
           base' = Only(clients', base'),
           \A u \in Users : Known(u)' => /\ Known(u) /\ base'[u] = base[u] /\ usage[u] <= usage'[u]
                                         /\ baseTaken'[u] = baseTaken[u] /\ taken[u] <= taken'[u]
    PROVE  IInv'
<1>. DEFINE req == Snapshot
            fits == Len(queue) < QueueCap
<1>0. /\ TypeOK /\ queue \in Seq(Requests) /\ Len(queue) \in Nat /\ Len(queue) <= QueueCap /\ QueueCap \in Nat
      /\ gen \in Nat /\ calls \in Nat /\ lastGen \in Nat /\ diskAt \in 0..calls /\ lastGen <= gen
  BY PersistenceAssumption DEF IInv, TypeOK, Ordered
<1>1. /\ req \in Requests /\ req.generation = gen + 1 /\ req.at = calls + 1
      /\ req.clients = clients' /\ req.base = base' /\ req.snap = usage'
      /\ req.baseTaken = baseTaken' /\ req.snapTaken = taken'
  BY <1>0 DEF Requests, Snapshot, Request
<1>2. /\ gen' = gen + 1 /\ calls' = calls + 1 /\ queue' = IF fits THEN Append(queue, req) ELSE queue
      /\ dirty' = (d \/ ~fits) /\ owed' = Nothing
  BY DEF persist_config_to_disk
<1>. HIDE DEF req
<1>3. /\ queue' \in Seq(Requests) /\ Len(queue') \in Nat /\ Len(queue') <= QueueCap
      /\ \A i \in 1..Len(queue') : \/ i \in 1..Len(queue) /\ queue'[i] = queue[i]
                                   \/ i = Len(queue) + 1 /\ queue'[i] = req
      /\ fits => queue' # <<>> /\ queue'[Len(queue')] = req
  <2>1. CASE fits
    <3>1. queue' = Append(queue, req)
      BY <1>2, <2>1
    <3>2. /\ queue' \in Seq(Requests) /\ Len(queue') = Len(queue) + 1 /\ Len(queue') \in Nat
          /\ \A i \in 1..Len(queue') : \/ i \in 1..Len(queue) /\ queue'[i] = queue[i]
                                       \/ i = Len(queue) + 1 /\ queue'[i] = req
          /\ queue' # <<>> /\ queue'[Len(queue')] = req
      BY <1>0, <1>1, <3>1, AppendRequest, SMTT(40)
    <3>3. Len(queue') <= QueueCap
      BY <1>0, <2>1, <3>2
    <3>. QED
      BY <3>2, <3>3, Zenon
  <2>2. CASE ~fits
    <3>1. queue' = queue
      BY <1>2, <2>2
    <3>. QED
      BY <1>0, <2>2, <3>1, Zenon
  <2>. QED
    BY <2>1, <2>2
<1>4. TypeOK'
  <2>1. dirty' \in BOOLEAN
    BY <1>2, Zenon
  <2>2. gen' \in Nat /\ calls' \in Nat /\ diskAt' \in 0..calls'
    BY <1>0, <1>2
  <2>3. owed' \in [Users -> Nat]
    BY <1>2 DEF Nothing
  <2>. QED
    BY <1>3, <2>1, <2>2, <2>3 DEF IInv, TypeOK
<1>5. \A i \in 1..Len(queue) : /\ queue[i] \in Requests
                               /\ queue[i].generation \in Nat /\ queue[i].at \in Nat
                               /\ queue[i].generation <= gen /\ queue[i].at <= calls
                               /\ lastGen < queue[i].generation /\ diskAt < queue[i].at
  <2>1. \A i \in 1..Len(queue) : queue[i] \in Requests
    BY <1>0
  <2>2. \A i \in 1..Len(queue) : queue[i].generation \in Nat /\ queue[i].at \in Nat
    BY <2>1, RequestFields
  <2>. QED
    BY <2>1, <2>2 DEF IInv, Ordered
<1>6. worker # "idle" => job \in Requests /\ job.generation \in Nat /\ job.at \in Nat
  BY <1>0 DEF TypeOK, Requests
<1>7. Ordered'
  <2>1. \A i, j \in 1..Len(queue') : i < j => /\ queue'[i].generation < queue'[j].generation
                                             /\ queue'[i].at < queue'[j].at
    <3>. SUFFICES ASSUME NEW i \in 1..Len(queue'), NEW j \in 1..Len(queue'), i < j
                  PROVE  queue'[i].generation < queue'[j].generation /\ queue'[i].at < queue'[j].at
      OBVIOUS
    <3>1. i \in 1..Len(queue) /\ queue'[i] = queue[i]
      BY <1>0, <1>3, SMTT(40)
    <3>2. CASE j \in 1..Len(queue) /\ queue'[j] = queue[j]
      BY <3>1, <3>2 DEF IInv, Ordered
    <3>3. CASE queue'[j] = req
      BY <1>0, <1>1, <1>5, <3>1, <3>3, SMTT(40)
    <3>. QED
      BY <1>3, <3>2, <3>3
  <2>2. \A i \in 1..Len(queue') : /\ lastGen < queue'[i].generation /\ queue'[i].generation <= gen'
                                  /\ diskAt < queue'[i].at /\ queue'[i].at <= calls'
    BY <1>0, <1>1, <1>2, <1>3, <1>5
  <2>3. worker # "idle" =>
          /\ lastGen < job.generation /\ job.generation <= gen'
          /\ diskAt < job.at /\ job.at <= calls'
          /\ \A i \in 1..Len(queue') : job.generation < queue'[i].generation /\ job.at < queue'[i].at
    <3>. SUFFICES ASSUME worker # "idle"
                  PROVE  /\ lastGen < job.generation /\ job.generation <= gen'
                         /\ diskAt < job.at /\ job.at <= calls'
                         /\ \A i \in 1..Len(queue') : /\ job.generation < queue'[i].generation
                                                      /\ job.at < queue'[i].at
      OBVIOUS
    <3>1. /\ lastGen < job.generation /\ job.generation <= gen /\ diskAt < job.at /\ job.at <= calls
          /\ \A i \in 1..Len(queue) : job.generation < queue[i].generation /\ job.at < queue[i].at
      BY DEF IInv, Ordered
    <3>2. job.generation < req.generation /\ job.at < req.at
      BY <1>0, <1>1, <1>6, <3>1
    <3>3. \A i \in 1..Len(queue') : job.generation < queue'[i].generation /\ job.at < queue'[i].at
      BY <1>3, <3>1, <3>2
    <3>. QED
      BY <1>0, <1>2, <1>6, <3>1, <3>3, SMTT(40)
  <2>4. lastGen' <= gen'
    BY <1>0, <1>2 DEF IInv, Ordered
  <2>5. lastGen' = lastGen /\ diskAt' = diskAt /\ worker' = worker /\ job' = job
    BY <1>2
  <2>. QED
    BY <2>1, <2>2, <2>3, <2>4, <2>5, Zenon DEF Ordered
<1>8. \A u \in Users : /\ base[u] \in Int /\ usage[u] \in Int /\ usage'[u] \in Int
                       /\ baseTaken[u] \in Int /\ taken[u] \in Int /\ taken'[u] \in Int
                       /\ owed[u] \in Int /\ owed[u] >= 0 /\ owed'[u] = 0
                       /\ Booked(u) <= taken[u] /\ Booked(u) \in Int /\ Booked(u)' = taken'[u]
  <2>1. \A u \in Users : /\ base[u] \in Int /\ usage[u] \in Int /\ baseTaken[u] \in Int
                         /\ taken[u] \in Int /\ owed[u] \in Int /\ owed[u] >= 0
    BY <1>0 DEF TypeOK, Counters, NoCounters, Amounts
  <2>2. \A u \in Users : usage'[u] \in Int /\ taken'[u] \in Int
    BY DEF Amounts
  <2>3. \A u \in Users : owed'[u] = 0
    BY <1>2 DEF Nothing
  <2>. QED
    BY <2>1, <2>2, <2>3 DEF Booked
<1>9. ASSUME NEW cl, NEW cnt \in [Users -> Counters], NEW tk \in Amounts, Since(cl, cnt, tk)
      PROVE  \A u \in Users : Known(u)' => /\ u \in cl
                                           /\ base'[u] <= cnt[u] /\ cnt[u] <= usage'[u]
                                           /\ baseTaken'[u] <= tk[u] /\ tk[u] <= Booked(u)'
  <2>. SUFFICES ASSUME NEW u \in Users, Known(u)'
                PROVE  /\ u \in cl
                       /\ base'[u] <= cnt[u] /\ cnt[u] <= usage'[u]
                       /\ baseTaken'[u] <= tk[u] /\ tk[u] <= Booked(u)'
    OBVIOUS
  <2>1. cnt[u] \in Int /\ tk[u] \in Int
    BY DEF Counters, NoCounters, Amounts
  <2>2. /\ u \in cl /\ base[u] <= cnt[u] /\ cnt[u] <= usage[u]
        /\ baseTaken[u] <= tk[u] /\ tk[u] <= Booked(u)
    BY <1>9 DEF Since
  <2>. QED
    BY <1>8, <2>1, <2>2
<1>10. PendingSound'
  <2>1. disk.doc.count \in [Users -> Counters] /\ disk.doc.taken \in Amounts
    BY <1>0 DEF TypeOK, Files, Docs
  <2>2. Since(disk.doc.clients, disk.doc.count, disk.doc.taken)'
    <3>1. Since(disk.doc.clients, disk.doc.count, disk.doc.taken) /\ disk' = disk
      BY DEF IInv, PendingSound
    <3>2. \A u \in Users : Known(u)' => /\ u \in disk.doc.clients
                                        /\ base'[u] <= disk.doc.count[u] /\ disk.doc.count[u] <= usage'[u]
                                        /\ baseTaken'[u] <= disk.doc.taken[u] /\ disk.doc.taken[u] <= Booked(u)'
      BY <1>9, <2>1, <3>1
    <3>. QED
      BY <3>1, <3>2 DEF Since
  <2>3. ASSUME NEW i \in 1..Len(queue')
        PROVE  Since(queue[i].clients, queue[i].snap, queue[i].snapTaken)'
    <3>1. CASE i \in 1..Len(queue) /\ queue'[i] = queue[i]
      <4>1. /\ queue[i].snap \in [Users -> Counters] /\ queue[i].snapTaken \in Amounts
            /\ Since(queue[i].clients, queue[i].snap, queue[i].snapTaken)
        BY <1>5, <3>1, RequestFields DEF IInv, PendingSound
      <4>2. \A u \in Users : Known(u)' =>
                   /\ u \in queue[i].clients
                   /\ base'[u] <= queue[i].snap[u] /\ queue[i].snap[u] <= usage'[u]
                   /\ baseTaken'[u] <= queue[i].snapTaken[u] /\ queue[i].snapTaken[u] <= Booked(u)'
        BY <1>9, <4>1
      <4>. QED
        BY <3>1, <4>2 DEF Since
    <3>2. CASE queue'[i] = req
      <4>1. \A u \in Users : Known(u) => base[u] <= usage[u] /\ baseTaken[u] <= taken[u]
        <5>. SUFFICES ASSUME NEW u \in Users, Known(u)
                      PROVE  base[u] <= usage[u] /\ baseTaken[u] <= taken[u]
          OBVIOUS
        <5>1. disk.doc.count[u] \in Int /\ disk.doc.taken[u] \in Int
          BY <2>1 DEF Counters, NoCounters, Amounts
        <5>2. /\ base[u] <= disk.doc.count[u] /\ disk.doc.count[u] <= usage[u]
              /\ baseTaken[u] <= disk.doc.taken[u] /\ disk.doc.taken[u] <= Booked(u)
          BY DEF IInv, PendingSound, Since
        <5>. QED
          BY <1>8, <5>1, <5>2
      <4>2. \A u \in Users : Known(u)' => /\ u \in clients'
                                          /\ base'[u] <= usage'[u] /\ usage'[u] <= usage'[u]
                                          /\ baseTaken'[u] <= taken'[u] /\ taken'[u] <= Booked(u)'
        <5>. SUFFICES ASSUME NEW u \in Users, Known(u)'
                      PROVE  /\ u \in clients'
                             /\ base'[u] <= usage'[u] /\ usage'[u] <= usage'[u]
                             /\ baseTaken'[u] <= taken'[u] /\ taken'[u] <= Booked(u)'
          OBVIOUS
        <5>1. u \in clients'
          BY DEF Known
        <5>2. /\ Known(u) /\ base'[u] = base[u] /\ usage[u] <= usage'[u]
              /\ baseTaken'[u] = baseTaken[u] /\ taken[u] <= taken'[u]
          OBVIOUS
        <5>3. base[u] <= usage[u] /\ baseTaken[u] <= taken[u]
          BY <4>1, <5>2
        <5>. QED
          BY <1>8, <5>1, <5>2, <5>3
      <4>. QED
        BY <1>1, <3>2, <4>2 DEF Since
    <3>. QED
      BY <1>3, <3>1, <3>2
  <2>4. worker # "idle" => Since(job.clients, job.snap, job.snapTaken)'
    <3>1. worker # "idle" => /\ job.snap \in [Users -> Counters] /\ job.snapTaken \in Amounts
                             /\ Since(job.clients, job.snap, job.snapTaken)
      BY <1>6, RequestFields DEF IInv, PendingSound
    <3>. QED
      BY <1>9, <3>1 DEF Since
  <2>6. (base = Only(clients, base))'
    BY DEF Only
  <2>7. (disk.doc.count = Only(disk.doc.clients, disk.doc.count))'
    BY DEF IInv, PendingSound, Only
  <2>. QED
    BY <2>2, <2>3, <2>4, <2>6, <2>7 DEF PendingSound
<1>11. TmpIsJob' /\ DiskWhole'
  BY DEF IInv, TmpIsJob, DiskWhole, Overlay, Only, Live
<1>12. NewestCurrent'
  <2>. SUFFICES ASSUME ~dirty'
                PROVE  /\ queue' # <<>> /\ queue'[Len(queue')].base = base'
                       /\ queue'[Len(queue')].baseTaken = baseTaken'
                       /\ \A u \in clients' : /\ u \in queue'[Len(queue')].clients
                                              /\ queue'[Len(queue')].snap[u] = usage'[u]
                                              /\ queue'[Len(queue')].snapTaken[u] = Booked(u)'
    BY DEF NewestCurrent, Current
  <2>1. fits
    BY <1>2
  <2>2. queue' # <<>> /\ queue'[Len(queue')] = req
    BY <1>3, <2>1
  <2>. QED
    BY <1>1, <1>8, <2>2
<1>. QED
  BY <1>4, <1>7, <1>10, <1>11, <1>12 DEF IInv

\* Every operation that asks for a snapshot keeps the invariant.
LEMMA RequestIInv ==
    ASSUME IInv,
           \/ \E u \in Users : AddQuota(u) \/ CreateUser(u) \/ DeleteUser(u)
           \/ ChangeSettings \/ Flush
    PROVE  IInv'
<1>1. /\ TypeOK /\ base = Only(clients, base) /\ clients \in SUBSET Users /\ base \in [Users -> Counters]
      /\ settings \in Nat /\ usage \in Amounts /\ dirty \in BOOLEAN
      /\ baseTaken \in Amounts /\ taken \in Amounts
  BY DEF IInv, TypeOK, PendingSound
<1>2. /\ usage \in [Users -> Counters] /\ \A v \in Users : Loaded(usage[v]) = usage[v]
      /\ taken \in [Users -> Counters] /\ \A v \in Users : Loaded(taken[v]) = taken[v]
      /\ baseTaken \in [Users -> Counters] /\ \A v \in Users : Loaded(baseTaken[v]) = baseTaken[v]
  BY <1>1, UsageIsCounter
<1>3. MaxUsage \in Nat /\ \A v \in Users : usage[v] \in 0..MaxUsage /\ taken[v] \in Int
  BY <1>1, PersistenceAssumption DEF Amounts
<1>4. ASSUME NEW u \in Users, AddQuota(u) PROVE IInv'
  <2>1. /\ UNCHANGED <<clients, base, baseTaken, settings, taken, worker, job, lastGen, tmp, disk, diskAt>>
        /\ usage[u] < MaxUsage /\ usage' = [usage EXCEPT ![u] = @ + 1]
    BY <1>4 DEF AddQuota, config, working
  <2>2. persist_config_to_disk(dirty)
    BY <1>4 DEF AddQuota
  <2>3. usage' \in Amounts /\ \A v \in Users : usage[v] <= usage'[v]
    BY <1>1, <1>3, <2>1 DEF Amounts
  <2>4. base' = Only(clients', base')
    BY <1>1, <2>1
  <2>5. \A v \in Users : Known(v)' => /\ Known(v) /\ base'[v] = base[v] /\ usage[v] <= usage'[v]
                                      /\ baseTaken'[v] = baseTaken[v] /\ taken[v] <= taken'[v]
    BY <1>3, <2>1, <2>3 DEF Known
  <2>. QED
    BY <1>1, <2>1, <2>2, <2>3, <2>4, <2>5, PersistStep
<1>5. ASSUME NEW u \in Users, CreateUser(u) PROVE IInv'
  <2>1. /\ UNCHANGED <<base, baseTaken, settings, usage, taken, worker, job, lastGen, tmp, disk, diskAt>>
        /\ clients' = clients \cup {u}
    BY <1>5 DEF CreateUser, working
  <2>2. persist_config_to_disk(TRUE)
    BY <1>5 DEF CreateUser
  <2>3. clients' \in SUBSET Users
    BY <1>1, <2>1
  <2>4. \A v \in Users : base[v] # NoCounters => v \in clients
    BY <1>1 DEF Only
  <2>5. base' = Only(clients', base')
    BY <1>1, <2>1, <2>4 DEF Only
  <2>6. \A v \in Users : Known(v)' => /\ Known(v) /\ base'[v] = base[v] /\ usage[v] <= usage'[v]
                                      /\ baseTaken'[v] = baseTaken[v] /\ taken[v] <= taken'[v]
    BY <1>3, <2>1, <2>4 DEF Known
  <2>. QED
    BY <1>1, <2>1, <2>2, <2>3, <2>5, <2>6, PersistStep
<1>6. ASSUME NEW u \in Users, DeleteUser(u) PROVE IInv'
  <2>1. /\ UNCHANGED <<settings, worker, job, lastGen, tmp, disk, diskAt>>
        /\ clients' = clients \ {u} /\ base' = Only(clients', base) /\ usage' = Live(clients', usage)
        /\ baseTaken' = Live(clients', baseTaken) /\ taken' = Live(clients', taken)
    BY <1>6 DEF DeleteUser, working
  <2>2. persist_config_to_disk(TRUE)
    BY <1>6 DEF DeleteUser
  <2>3. clients' \in SUBSET Users
    BY <1>1, <2>1
  <2>4. /\ base' \in [Users -> Counters] /\ base' = Only(clients', base')
        /\ \A v \in clients' : base'[v] = base[v]
    BY <1>1, <2>1, <2>3, OnlyFacts
  <2>5. usage' \in Amounts /\ \A v \in clients' : usage'[v] = usage[v]
    BY <1>2, <2>1, <2>3, OnlyFacts
  <2>6. taken' \in Amounts /\ \A v \in clients' : taken'[v] = taken[v]
    BY <1>2, <2>1, <2>3, OnlyFacts
  <2>7. baseTaken' \in Amounts /\ \A v \in clients' : baseTaken'[v] = baseTaken[v]
    BY <1>2, <2>1, <2>3, OnlyFacts
  <2>8. \A v \in Users : Known(v)' => /\ Known(v) /\ base'[v] = base[v] /\ usage[v] <= usage'[v]
                                      /\ baseTaken'[v] = baseTaken[v] /\ taken[v] <= taken'[v]
    <3>. SUFFICES ASSUME NEW v \in Users, Known(v)'
                  PROVE  /\ Known(v) /\ base'[v] = base[v] /\ usage[v] <= usage'[v]
                         /\ baseTaken'[v] = baseTaken[v] /\ taken[v] <= taken'[v]
      OBVIOUS
    <3>1. v \in clients' /\ v \in clients /\ base'[v] # NoCounters
      BY <2>1 DEF Known
    <3>2. /\ base'[v] = base[v] /\ usage'[v] = usage[v]
          /\ baseTaken'[v] = baseTaken[v] /\ taken'[v] = taken[v]
      BY <2>4, <2>5, <2>6, <2>7, <3>1
    <3>3. usage[v] \in Int /\ taken[v] \in Int
      BY <1>3
    <3>. QED
      BY <3>1, <3>2, <3>3 DEF Known
  <2>. QED
    BY <1>1, <2>1, <2>2, <2>3, <2>4, <2>5, <2>6, <2>7, <2>8, PersistStep
<1>7. CASE ChangeSettings \/ Flush
  <2>1. /\ UNCHANGED <<clients, base, baseTaken, usage, taken, worker, job, lastGen, tmp, disk, diskAt>>
        /\ settings' \in Nat
        /\ \E d \in BOOLEAN : persist_config_to_disk(d)
    <3>1. CASE ChangeSettings
      <4>1. /\ UNCHANGED <<clients, base, baseTaken, usage, taken, worker, job, lastGen, tmp, disk, diskAt>>
            /\ settings' = settings + 1
        BY <3>1 DEF ChangeSettings, working
      <4>2. persist_config_to_disk(TRUE)
        BY <3>1 DEF ChangeSettings
      <4>3. settings' \in Nat
        BY <1>1, <4>1
      <4>. QED
        BY <4>1, <4>2, <4>3, Zenon
    <3>2. CASE Flush
      <4>1. UNCHANGED <<clients, base, baseTaken, settings, usage, taken, worker, job, lastGen, tmp, disk, diskAt>>
        BY <3>2 DEF Flush, config, working
      <4>2. persist_config_to_disk(FALSE)
        BY <3>2 DEF Flush
      <4>. QED
        BY <1>1, <4>1, <4>2, Zenon
    <3>. QED
      BY <1>7, <3>1, <3>2
  <2>2. PICK d \in BOOLEAN : persist_config_to_disk(d)
    BY <2>1, Zenon
  <2>3. base' = Only(clients', base')
    BY <1>1, <2>1
  <2>4. \A v \in Users : Known(v)' => /\ Known(v) /\ base'[v] = base[v] /\ usage[v] <= usage'[v]
                                      /\ baseTaken'[v] = baseTaken[v] /\ taken[v] <= taken'[v]
    BY <1>3, <2>1 DEF Known
  <2>. QED
    BY <1>1, <2>1, <2>2, <2>3, <2>4, PersistStep
<1>. QED
  BY <1>4, <1>5, <1>6, <1>7

\* The file on disk, as the invariant has it.
LEMMA DiskFacts ==
    ASSUME IInv
    PROVE  /\ disk.doc.clients \in SUBSET Users /\ disk.doc.count \in [Users -> Counters]
           /\ disk.doc.taken \in Amounts
           /\ disk.doc.settings \in Nat /\ disk.whole
           /\ disk.doc.count = Only(disk.doc.clients, disk.doc.count)
BY DEF IInv, TypeOK, Files, Docs, DiskWhole, PendingSound

\* A reservation is one that nothing has followed; a commit and a changed
\* configuration owe a request.
LEMMA DirtyIInv ==
    ASSUME IInv, (\E u \in Users : Reserve(u) \/ Commit(u)) \/ ReloadConfig
    PROVE  IInv'
<1>1. /\ TypeOK /\ clients \in SUBSET Users /\ base \in [Users -> Counters] /\ dirty \in BOOLEAN
      /\ settings \in Nat /\ usage \in Amounts /\ taken \in Amounts /\ owed \in [Users -> Nat]
      /\ MaxUsage \in Nat
  BY PersistenceAssumption DEF IInv, TypeOK
<1>2. UNCHANGED <<clients, base, baseTaken, gen, queue, worker, job, lastGen, tmp, disk, diskAt, calls>>
  BY DEF Reserve, Commit, ReloadConfig, config, working
<1>3. /\ settings' \in Nat /\ usage' \in Amounts /\ taken' \in Amounts /\ owed' \in [Users -> Nat]
      /\ \A v \in Users : usage[v] <= usage'[v] /\ Booked(v) <= Booked(v)'
      /\ \/ dirty' = TRUE
         \/ dirty' = dirty /\ usage' = usage /\ \A v \in Users : Booked(v)' = Booked(v)
  <2>1. ASSUME NEW u \in Users, Reserve(u)
        PROVE  /\ settings' = settings /\ usage' = usage /\ taken' \in Amounts /\ owed' \in [Users -> Nat]
               /\ dirty' = dirty /\ \A v \in Users : Booked(v)' = Booked(v)
    <3>1. /\ taken[u] < MaxUsage /\ UNCHANGED <<settings, usage, dirty>>
          /\ taken' = [taken EXCEPT ![u] = @ + 1] /\ owed' = [owed EXCEPT ![u] = @ + 1]
      BY <2>1 DEF Reserve, config
    <3>2. taken' \in Amounts
      BY <1>1, <3>1 DEF Amounts
    <3>3. owed' \in [Users -> Nat]
      BY <1>1, <3>1
    <3>4. \A v \in Users : taken[v] \in Int /\ owed[v] \in Int
      BY <1>1 DEF Amounts
    <3>5. \A v \in Users : /\ taken'[v] = IF v = u THEN taken[v] + 1 ELSE taken[v]
                           /\ owed'[v] = IF v = u THEN owed[v] + 1 ELSE owed[v]
      BY <1>1, <3>1 DEF Amounts
    <3>. QED
      BY <3>1, <3>2, <3>3, <3>4, <3>5 DEF Booked
  <2>2. ASSUME NEW u \in Users, Commit(u)
        PROVE  /\ settings' = settings /\ usage' \in Amounts /\ taken' = taken /\ owed' \in [Users -> Nat]
               /\ dirty' = TRUE /\ \A v \in Users : usage[v] <= usage'[v] /\ Booked(v) <= Booked(v)'
    <3>1. /\ usage[u] < MaxUsage /\ UNCHANGED <<settings, taken>> /\ dirty' = TRUE
          /\ usage' = [usage EXCEPT ![u] = @ + 1]
      BY <2>2 DEF Commit, config
    <3>2. PICK n \in 0..owed[u] : owed' = [owed EXCEPT ![u] = @ - n]
      BY <2>2 DEF Commit
    <3>3. usage' \in Amounts /\ \A v \in Users : usage[v] <= usage'[v]
      BY <1>1, <3>1 DEF Amounts
    <3>4. owed' \in [Users -> Nat] /\ \A v \in Users : owed'[v] <= owed[v]
      BY <1>1, <3>2
    <3>5. \A v \in Users : taken[v] \in Int /\ owed[v] \in Int /\ owed'[v] \in Int
      BY <1>1, <3>4 DEF Amounts
    <3>. QED
      BY <3>1, <3>3, <3>4, <3>5 DEF Booked
  <2>3. CASE ReloadConfig
    <3>1. /\ settings' = settings + 1 /\ dirty' = TRUE /\ UNCHANGED <<usage, taken, owed>>
      BY <2>3 DEF ReloadConfig
    <3>2. \A v \in Users : usage[v] \in Int /\ taken[v] \in Int /\ owed[v] \in Int
      BY <1>1 DEF Amounts
    <3>. QED
      BY <1>1, <3>1, <3>2 DEF Booked
  <2>4. \A v \in Users : usage[v] \in Int /\ Booked(v) \in Int
    BY <1>1 DEF Amounts, Booked
  <2>5. CASE \E u \in Users : Reserve(u)
    BY <1>1, <2>1, <2>4, <2>5
  <2>6. CASE \E u \in Users : Commit(u)
    BY <1>1, <2>2, <2>6
  <2>. QED
    BY <2>3, <2>5, <2>6
<1>4. TypeOK'
  <2>1. dirty' \in BOOLEAN
    BY <1>1, <1>3, Zenon
  <2>. QED
    BY <1>1, <1>2, <1>3, <2>1 DEF TypeOK
<1>5. Ordered' /\ TmpIsJob' /\ DiskWhole'
  BY <1>2 DEF IInv, Ordered, TmpIsJob, DiskWhole, Overlay, Only, Live
<1>6. ASSUME NEW cl, NEW cnt \in [Users -> Counters], NEW tk \in Amounts, Since(cl, cnt, tk)
      PROVE  \A v \in Users : Known(v)' => /\ v \in cl
                                           /\ base'[v] <= cnt[v] /\ cnt[v] <= usage'[v]
                                           /\ baseTaken'[v] <= tk[v] /\ tk[v] <= Booked(v)'
  <2>1. \A v \in Users : /\ cnt[v] \in Int /\ usage[v] \in Int /\ usage'[v] \in Int
                         /\ tk[v] \in Int /\ Booked(v) \in Int /\ Booked(v)' \in Int
    BY <1>1, <1>3 DEF Counters, NoCounters, Amounts, Booked
  <2>. SUFFICES ASSUME NEW v \in Users, Known(v)
                PROVE  /\ v \in cl
                       /\ base[v] <= cnt[v] /\ cnt[v] <= usage'[v]
                       /\ baseTaken[v] <= tk[v] /\ tk[v] <= Booked(v)'
    BY <1>2 DEF Known
  <2>2. /\ v \in cl /\ base[v] <= cnt[v] /\ cnt[v] <= usage[v]
        /\ baseTaken[v] <= tk[v] /\ tk[v] <= Booked(v)
    BY <1>6 DEF Since
  <2>. QED
    BY <1>3, <2>1, <2>2
<1>7. PendingSound'
  <2>1. Since(disk.doc.clients, disk.doc.count, disk.doc.taken)'
    <3>1. /\ Since(disk.doc.clients, disk.doc.count, disk.doc.taken)
          /\ disk.doc.count \in [Users -> Counters] /\ disk.doc.taken \in Amounts /\ disk' = disk
      BY <1>2, DiskFacts DEF IInv, PendingSound
    <3>. QED
      BY <1>6, <3>1, Zenon DEF Since
  <2>2. ASSUME NEW i \in 1..Len(queue) PROVE Since(queue[i].clients, queue[i].snap, queue[i].snapTaken)'
    <3>1. queue \in Seq(Requests)
      BY <1>1 DEF TypeOK
    <3>2. queue[i] \in Requests
      BY <3>1
    <3>3. /\ queue[i].snap \in [Users -> Counters] /\ queue[i].snapTaken \in Amounts
          /\ Since(queue[i].clients, queue[i].snap, queue[i].snapTaken)
      BY <3>2, RequestFields DEF IInv, PendingSound
    <3>4. \A u \in Users : Known(u)' =>
                 /\ u \in queue[i].clients
                 /\ base'[u] <= queue[i].snap[u] /\ queue[i].snap[u] <= usage'[u]
                 /\ baseTaken'[u] <= queue[i].snapTaken[u] /\ queue[i].snapTaken[u] <= Booked(u)'
      BY <1>6, <3>3
    <3>. QED
      BY <1>2, <3>4 DEF Since
  <2>3. ASSUME worker # "idle" PROVE Since(job.clients, job.snap, job.snapTaken)'
    <3>1. job \in Requests
      BY <1>1, <2>3 DEF TypeOK
    <3>2. /\ job.snap \in [Users -> Counters] /\ job.snapTaken \in Amounts
          /\ Since(job.clients, job.snap, job.snapTaken)
      BY <2>3, <3>1, RequestFields DEF IInv, PendingSound
    <3>3. \A u \in Users : Known(u)' => /\ u \in job.clients
                                        /\ base'[u] <= job.snap[u] /\ job.snap[u] <= usage'[u]
                                        /\ baseTaken'[u] <= job.snapTaken[u] /\ job.snapTaken[u] <= Booked(u)'
      BY <1>6, <3>2
    <3>. QED
      BY <1>2, <3>3 DEF Since
  <2>4. /\ (base = Only(clients, base))'
        /\ (disk.doc.count = Only(disk.doc.clients, disk.doc.count))'
    BY <1>2 DEF IInv, PendingSound, Only
  <2>. QED
    BY <1>2, <2>1, <2>2, <2>3, <2>4 DEF PendingSound
<1>8. NewestCurrent'
  <2>1. CASE dirty' = TRUE
    BY <2>1 DEF NewestCurrent
  <2>2. CASE dirty' = dirty /\ usage' = usage /\ \A v \in Users : Booked(v)' = Booked(v)
    <3>1. \A v \in clients : Booked(v)' = Booked(v)
      BY <1>1, <2>2
    <3>. QED
      BY <1>2, <2>2, <3>1 DEF IInv, NewestCurrent, Current, CountersOnDisk
  <2>. QED
    BY <1>3, <2>1, <2>2
<1>. QED
  BY <1>4, <1>5, <1>7, <1>8 DEF IInv

\* The worker takes the newest request: it is current when no other is owed,
\* and if it changes no counter then the file has every counter already,
\* because what is on disk lies between the counters loaded and the live ones.
LEMMA ReceiveIInv ==
    ASSUME IInv, Receive
    PROVE  IInv'
<1>1. TypeOK /\ Ordered /\ queue # <<>>
  BY DEF IInv, Receive
<1>2. /\ Latest = queue[Len(queue)] /\ Len(queue) \in 1..Len(queue)
      /\ Latest \in Requests /\ Latest.generation > lastGen
  BY <1>1, LatestIsLast
<1>3. /\ lastGen \in Nat /\ gen \in Nat /\ Latest.generation \in Nat /\ Latest.at \in Nat
      /\ Latest.generation <= gen /\ diskAt < Latest.at /\ Latest.at <= calls
      /\ Since(Latest.clients, Latest.snap, Latest.snapTaken)
  <2>1. lastGen \in Nat /\ gen \in Nat /\ Latest.generation \in Nat /\ Latest.at \in Nat
    BY <1>1, <1>2, RequestFields DEF TypeOK
  <2>. QED
    BY <1>1, <1>2, <2>1 DEF Ordered, IInv, PendingSound
<1>4. /\ UNCHANGED <<clients, base, baseTaken, settings, usage, taken, owed, dirty, gen, tmp, disk, calls, diskAt>>
      /\ worker = "idle" /\ queue' = <<>>
  BY DEF Receive, config
<1>5. \/ worker' = "create" /\ job' = Latest /\ lastGen' = lastGen
      \/ ~Changed(Latest) /\ lastGen' = Latest.generation /\ worker' = "idle" /\ job' = job
  <2>1. ~(Latest.generation <= lastGen)
    BY <1>2, <1>3
  <2>. QED
    BY <2>1, <1>4 DEF Receive
<1>6. queue' \in Seq(Requests) /\ Len(queue') = 0 /\ Len(queue') <= QueueCap
  BY <1>4, PersistenceAssumption
<1>7. TypeOK'
  <2>1. lastGen' \in Nat /\ worker' \in {"idle", "create", "write", "rename"} /\ (worker' # "idle" => job' \in Requests)
    BY <1>2, <1>3, <1>5
  <2>. QED
    BY <1>1, <1>4, <1>6, <2>1 DEF TypeOK
<1>8. Ordered'
  <2>1. 1..Len(queue') = {}
    BY <1>6
  <2>2. lastGen' <= gen'
    BY <1>1, <1>3, <1>4, <1>5 DEF Ordered
  <2>3. worker' # "idle" => /\ lastGen' < job'.generation /\ job'.generation <= gen'
                           /\ diskAt' < job'.at /\ job'.at <= calls'
    BY <1>2, <1>3, <1>4, <1>5
  <2>. QED
    BY <2>1, <2>2, <2>3 DEF Ordered
<1>9. PendingSound'
  <2>1. 1..Len(queue') = {}
    BY <1>6
  <2>2. worker' # "idle" => Since(job.clients, job.snap, job.snapTaken)'
    BY <1>3, <1>4, <1>5 DEF Since, Known, Booked
  <2>3. /\ (base = Only(clients, base))' /\ Since(disk.doc.clients, disk.doc.count, disk.doc.taken)'
        /\ (disk.doc.count = Only(disk.doc.clients, disk.doc.count))'
    BY <1>4 DEF IInv, PendingSound, Only, Since, Known, Booked
  <2>. QED
    BY <2>1, <2>2, <2>3 DEF PendingSound
<1>10. TmpIsJob' /\ DiskWhole'
  BY <1>4, <1>5 DEF IInv, TmpIsJob, DiskWhole
<1>11. NewestCurrent'
  <2>. SUFFICES ASSUME ~dirty'
                PROVE  IF worker' # "idle" THEN Current(job)' ELSE CountersOnDisk'
    BY <1>4 DEF NewestCurrent
  <2>1. Current(Latest)
    BY <1>1, <1>2, <1>4 DEF IInv, NewestCurrent
  <2>2. CASE worker' = "create" /\ job' = Latest
    BY <1>4, <2>1, <2>2 DEF Current, Booked
  <2>3. CASE ~Changed(Latest) /\ worker' = "idle"
    <3>. SUFFICES ASSUME NEW u \in clients
                  PROVE  /\ u \in disk.doc.clients /\ Loaded(disk.doc.count[u]) = usage[u]
                         /\ disk.doc.taken[u] = Booked(u)
      BY <1>4, <2>3 DEF CountersOnDisk, Booked
    <3>1. /\ u \in Users /\ usage[u] \in 0..MaxUsage /\ base[u] \in Int
          /\ baseTaken[u] \in Int /\ Booked(u) \in Int
      BY <1>1 DEF TypeOK, Counters, NoCounters, Amounts, Booked
    <3>2. base[u] = usage[u] /\ baseTaken[u] = Booked(u)
      BY <2>1, <2>3 DEF Current, Changed
    <3>3. Known(u)
      BY <3>1, <3>2 DEF Known, NoCounters
    <3>4. /\ u \in disk.doc.clients /\ base[u] <= disk.doc.count[u] /\ disk.doc.count[u] <= usage[u]
          /\ baseTaken[u] <= disk.doc.taken[u] /\ disk.doc.taken[u] <= Booked(u)
      BY <3>1, <3>3 DEF IInv, PendingSound, Since
    <3>5. disk.doc.count[u] \in Int /\ disk.doc.taken[u] \in Int
      BY <3>1, DiskFacts DEF Counters, NoCounters, Amounts
    <3>. QED
      BY <3>1, <3>2, <3>4, <3>5 DEF Loaded, NoCounters
  <2>. QED
    BY <1>5, <2>2, <2>3
<1>. QED
  BY <1>7, <1>8, <1>9, <1>10, <1>11 DEF IInv

\* Writing the temporary file, and a failure, leave the queue and the file.
LEMMA WriteIInv ==
    ASSUME IInv, CreateTmp \/ WriteTmp \/ WriteFails
    PROVE  IInv'
<1>1. TypeOK /\ worker # "idle" /\ job \in Requests
  BY DEF IInv, TypeOK, CreateTmp, WriteTmp, WriteFails
<1>2. UNCHANGED <<clients, base, baseTaken, settings, usage, taken, owed, gen, queue, lastGen, disk, calls, diskAt>>
  BY DEF CreateTmp, WriteTmp, WriteFails, config
<1>3. \/ worker' \in {"write", "rename"} /\ job' = job /\ dirty' = dirty
      \/ worker' = "idle" /\ dirty' = TRUE
  BY DEF CreateTmp, WriteTmp, WriteFails
<1>4. Overlay(job) \in Docs
  BY <1>1, OverlayFacts
<1>5. tmp' \in Files
  <2>1. CASE CreateTmp
    BY <1>4, <2>1 DEF CreateTmp, Files
  <2>2. CASE WriteTmp
    BY <1>1, <2>2 DEF WriteTmp, Files, TypeOK
  <2>3. CASE WriteFails
    BY <1>1, <2>3 DEF WriteFails, TypeOK
  <2>. QED
    BY <2>1, <2>2, <2>3
<1>6. TypeOK'
  <2>1. dirty' \in BOOLEAN
    BY <1>1, <1>3, Zenon DEF TypeOK
  <2>2. worker' \in {"idle", "create", "write", "rename"} /\ (worker' # "idle" => job' \in Requests)
    BY <1>1, <1>3
  <2>. QED
    BY <1>1, <1>2, <1>5, <2>1, <2>2 DEF TypeOK
<1>7. Ordered'
  BY <1>1, <1>2, <1>3 DEF IInv, Ordered
<1>8. PendingSound'
  <2>1. /\ (base = Only(clients, base))' /\ Since(disk.doc.clients, disk.doc.count, disk.doc.taken)'
        /\ (disk.doc.count = Only(disk.doc.clients, disk.doc.count))'
    BY <1>2 DEF IInv, PendingSound, Only, Since, Known, Booked
  <2>2. \A i \in 1..Len(queue') : Since(queue[i].clients, queue[i].snap, queue[i].snapTaken)'
    BY <1>2 DEF IInv, PendingSound, Since, Known, Booked
  <2>3. worker' # "idle" => Since(job.clients, job.snap, job.snapTaken)'
    BY <1>1, <1>2, <1>3 DEF IInv, PendingSound, Since, Known, Booked
  <2>. QED
    BY <2>1, <2>2, <2>3 DEF PendingSound
<1>9. TmpIsJob'
  <2>1. CASE CreateTmp
    BY <2>1 DEF CreateTmp, TmpIsJob, Overlay, Only, Live
  <2>2. CASE WriteTmp
    <3>1. tmp.doc = Overlay(job)
      BY <2>2 DEF WriteTmp, IInv, TmpIsJob
    <3>2. tmp'.doc = tmp.doc /\ tmp'.whole
      BY <1>1, <2>2 DEF WriteTmp, TypeOK, Files
    <3>. QED
      BY <2>2, <3>1, <3>2 DEF WriteTmp, TmpIsJob, Overlay, Only, Live
  <2>3. CASE WriteFails
    BY <2>3 DEF WriteFails, TmpIsJob
  <2>. QED
    BY <2>1, <2>2, <2>3
<1>10. DiskWhole'
  BY <1>2 DEF IInv, DiskWhole
<1>11. NewestCurrent'
  BY <1>1, <1>2, <1>3 DEF IInv, NewestCurrent, Current, Booked
<1>. QED
  BY <1>6, <1>7, <1>8, <1>9, <1>10, <1>11 DEF IInv

\* The rename puts the job's overlay in the file's place.
LEMMA RenameIInv ==
    ASSUME IInv, Rename
    PROVE  IInv' /\ diskAt' > diskAt
<1>1. TypeOK /\ worker = "rename" /\ job \in Requests
  BY DEF IInv, TypeOK, Rename
<1>2. UNCHANGED <<clients, base, baseTaken, settings, usage, taken, owed, dirty, gen, queue, calls>>
  BY DEF Rename, config
<1>3. /\ worker' = "idle" /\ disk' = tmp /\ tmp' = NoFile /\ diskAt' = job.at /\ lastGen' = job.generation
  BY DEF Rename
<1>4. /\ disk'.whole /\ disk'.doc = Overlay(job)
  BY <1>1, <1>3 DEF IInv, TmpIsJob
<1>5. /\ Overlay(job) \in Docs /\ Overlay(job).clients = job.clients
      /\ Overlay(job).count = Only(job.clients, Overlay(job).count)
      /\ \A u \in job.clients : Overlay(job).count[u] = job.snap[u]
      /\ \A u \in job.clients : Overlay(job).taken[u] = job.snapTaken[u]
  BY <1>1, OverlayFacts
<1>6. /\ job.generation \in Nat /\ job.at \in Nat /\ job.snap \in Amounts
      /\ job.clients \in SUBSET Users
  BY <1>1, RequestFields
<1>7. /\ job.generation <= gen /\ diskAt < job.at /\ job.at <= calls
      /\ \A i \in 1..Len(queue) : job.generation < queue[i].generation /\ job.at < queue[i].at
  BY <1>1 DEF IInv, Ordered
<1>8. NoFile \in Files
  BY PersistenceAssumption DEF NoFile, Nothing, Files, Docs, Counters, NoCounters, Amounts
<1>9. TypeOK'
  <2>1. tmp' \in Files /\ disk' \in Files
    BY <1>1, <1>3, <1>8 DEF TypeOK
  <2>2. lastGen' \in Nat /\ diskAt' \in 0..calls' /\ worker' = "idle"
    BY <1>1, <1>2, <1>3, <1>6, <1>7 DEF TypeOK
  <2>. QED
    BY <1>1, <1>2, <2>1, <2>2 DEF TypeOK
<1>10. Ordered'
  <2>1. \A i \in 1..Len(queue') : /\ lastGen' < queue'[i].generation /\ queue'[i].generation <= gen'
                                  /\ diskAt' < queue'[i].at /\ queue'[i].at <= calls'
    BY <1>2, <1>3, <1>7 DEF IInv, Ordered
  <2>. QED
    BY <1>2, <1>3, <1>7, <2>1 DEF IInv, Ordered
<1>11. PendingSound'
  <2>1. (base = Only(clients, base))'
    BY <1>2 DEF IInv, PendingSound, Only
  <2>2. (disk.doc.count = Only(disk.doc.clients, disk.doc.count))'
    BY <1>4, <1>5 DEF Only
  <2>3. Since(job.clients, job.snap, job.snapTaken)
    BY <1>1 DEF IInv, PendingSound
  <2>4. Since(disk.doc.clients, disk.doc.count, disk.doc.taken)'
    BY <1>2, <1>4, <1>5, <2>3 DEF Since, Known, Booked
  <2>5. \A i \in 1..Len(queue') : Since(queue[i].clients, queue[i].snap, queue[i].snapTaken)'
    BY <1>2 DEF IInv, PendingSound, Since, Known, Booked
  <2>. QED
    BY <1>3, <2>1, <2>2, <2>4, <2>5 DEF PendingSound
<1>12. TmpIsJob' /\ DiskWhole'
  BY <1>3, <1>4 DEF TmpIsJob, DiskWhole
<1>13. NewestCurrent'
  <2>. SUFFICES ASSUME ~dirty'
                PROVE  IF queue' # <<>> THEN Current(queue[Len(queue)])' ELSE CountersOnDisk'
    BY <1>3 DEF NewestCurrent
  <2>1. CASE queue # <<>>
    BY <1>2, <2>1 DEF IInv, NewestCurrent, Current, Booked
  <2>2. CASE queue = <<>>
    <3>1. \A u \in clients : u \in job.clients /\ job.snap[u] = usage[u] /\ job.snapTaken[u] = Booked(u)
      BY <1>1, <1>2, <2>2 DEF IInv, NewestCurrent, Current
    <3>2. \A u \in clients : Overlay(job).count[u] = usage[u] /\ usage[u] \in 0..MaxUsage
      BY <1>1, <1>5, <3>1 DEF TypeOK, Amounts
    <3>3. \A u \in clients : Loaded(Overlay(job).count[u]) = usage[u]
      BY <3>2 DEF Loaded, NoCounters
    <3>. QED
      BY <1>2, <1>4, <1>5, <2>2, <3>1, <3>3 DEF CountersOnDisk, Booked
  <2>. QED
    BY <1>2, <2>1, <2>2
<1>. QED
  BY <1>1, <1>3, <1>6, <1>7, <1>9, <1>10, <1>11, <1>12, <1>13 DEF IInv, TypeOK

\* The counters a process starts with are the ones of its file.
LEMMA BootFacts ==
    ASSUME NEW cl \in SUBSET Users, NEW f \in [Users -> Counters], NEW us, us = Live(cl, f)
    PROVE  /\ us \in Amounts
           /\ \A u \in cl : Loaded(f[u]) = us[u]
           /\ \A u \in cl : f[u] # NoCounters => f[u] = us[u] /\ f[u] <= f[u]
<1>1. us \in Amounts /\ \A u \in cl : Loaded(f[u]) = us[u]
  BY OnlyFacts
<1>2. \A u \in cl : f[u] \in Int /\ (f[u] # NoCounters => Loaded(f[u]) = f[u])
  BY DEF Loaded, Counters, NoCounters
<1>. QED
  BY <1>1, <1>2

\* The request of a migration is one for the whole configuration.
LEMMA MigrationFacts ==
    ASSUME NEW cl \in SUBSET Users, NEW f \in [Users -> Counters],
           NEW bt \in Amounts, NEW us \in Amounts, NEW tk \in Amounts, NEW at \in Nat,
           NEW q, q = MigrationRequest(cl, f, bt, us, tk, at)
    PROVE  /\ q \in Seq(Requests) /\ Len(q) = 1
           /\ q[1].generation = 1 /\ q[1].at = at /\ q[1].clients = cl
           /\ q[1].base = f /\ q[1].snap = us /\ q[1].baseTaken = bt /\ q[1].snapTaken = tk
<1>. DEFINE m == Request(1, at, cl, f, bt, 1, us, tk)
<1>1. /\ m \in Requests /\ m.generation = 1 /\ m.at = at /\ m.clients = cl
      /\ m.base = f /\ m.snap = us /\ m.baseTaken = bt /\ m.snapTaken = tk
  BY DEF Requests, Request
<1>2. q = <<m>>
  BY DEF MigrationRequest
<1>. HIDE DEF m
<1>3. q \in Seq(Requests) /\ Len(q) = 1 /\ q[1] = m
  BY <1>1, <1>2
<1>. QED
  BY <1>1, <1>3, Zenon

\* A process that starts from config.json has the invariant.
LEMMA RestartIInv ==
    ASSUME IInv, Restart
    PROVE  IInv'
<1>. DEFINE cl == disk.doc.clients
            f  == disk.doc.count
            tk == disk.doc.taken
            old == disk.doc.settings = 0
<1>1. /\ TypeOK /\ cl \in SUBSET Users /\ f \in [Users -> Counters] /\ disk.doc.settings \in Nat
      /\ disk.whole /\ f = Only(cl, f) /\ tk \in Amounts
  BY DiskFacts DEF IInv
<1>2. /\ clients' = cl /\ base' = f /\ usage' = Live(cl, f) /\ UNCHANGED <<tmp, disk, diskAt>>
      /\ baseTaken' = tk /\ taken' = tk /\ owed' = Nothing
      /\ settings' = IF old THEN 1 ELSE disk.doc.settings
      /\ dirty' = FALSE /\ worker' = "idle" /\ lastGen' = 0
      /\ gen' = IF old THEN 1 ELSE 0
      /\ calls' = IF old THEN calls + 1 ELSE calls
      /\ queue' = IF old THEN MigrationRequest(clients', base', baseTaken', usage', taken', calls + 1) ELSE <<>>
  BY DEF Restart
<1>3. /\ usage' \in Amounts
      /\ \A u \in cl : Loaded(f[u]) = usage'[u]
      /\ \A u \in cl : f[u] # NoCounters => f[u] = usage'[u] /\ f[u] <= f[u]
  <2>1. usage' = Live(cl, f)
    BY <1>2
  <2>. HIDE DEF cl, f, tk
  <2>2. cl \in SUBSET Users /\ f \in [Users -> Counters]
    BY <1>1
  <2>. QED
    BY <2>1, <2>2, BootFacts, ZenonT(60)
<1>. HIDE DEF cl, f, tk
<1>31. owed' \in [Users -> Nat] /\ \A u \in Users : Booked(u)' = tk[u] /\ tk[u] <= tk[u]
  <2>1. \A u \in Users : owed'[u] = 0 /\ tk[u] \in Int /\ taken'[u] = tk[u]
    BY <1>1, <1>2 DEF Nothing, Amounts
  <2>. QED
    BY <1>2, <2>1 DEF Booked, Nothing
<1>4. calls \in Nat /\ diskAt \in 0..calls /\ QueueCap \in Nat \ {0}
  BY <1>1, PersistenceAssumption DEF TypeOK
<1>5. /\ queue' \in Seq(Requests) /\ Len(queue') \in 0..1
      /\ \A i \in 1..Len(queue') :
            /\ i = 1 /\ Len(queue') = 1 /\ queue'[i].generation = 1 /\ queue'[i].at = calls + 1
            /\ gen' = 1 /\ calls' = calls + 1
            /\ queue'[i].clients = cl /\ queue'[i].base = f /\ queue'[i].snap = usage'
            /\ queue'[i].baseTaken = tk /\ queue'[i].snapTaken = tk
  <2>1. CASE old
    <3>1. queue' = MigrationRequest(cl, f, tk, usage', tk, calls + 1) /\ gen' = 1 /\ calls' = calls + 1
      BY <1>2, <2>1
    <3>2. /\ queue' \in Seq(Requests) /\ Len(queue') = 1
          /\ queue'[1].generation = 1 /\ queue'[1].at = calls + 1 /\ queue'[1].clients = cl
          /\ queue'[1].base = f /\ queue'[1].snap = usage'
          /\ queue'[1].baseTaken = tk /\ queue'[1].snapTaken = tk
      BY <1>1, <1>3, <1>4, <3>1, MigrationFacts
    <3>3. \A i \in 1..Len(queue') : i = 1
      BY <3>2
    <3>4. Len(queue') \in 0..1
      BY <3>2
    <3>. QED
      BY <3>1, <3>2, <3>3, <3>4, Zenon
  <2>2. CASE ~old
    <3>1. queue' = <<>>
      BY <1>2, <2>2
    <3>2. queue' \in Seq(Requests) /\ Len(queue') = 0
      BY <3>1
    <3>. QED
      BY <3>2
  <2>. QED
    BY <2>1, <2>2
<1>6. TypeOK'
  <2>1. Len(queue') <= QueueCap
    BY <1>4, <1>5
  <2>2. gen' \in Nat /\ calls' \in Nat /\ diskAt' \in 0..calls' /\ settings' \in Nat
    BY <1>1, <1>2, <1>4
  <2>. QED
    BY <1>1, <1>2, <1>3, <1>31, <1>5, <2>1, <2>2 DEF TypeOK
<1>7. Ordered'
  <2>1. lastGen' <= gen'
    BY <1>2
  <2>2. \A i, j \in 1..Len(queue') : ~(i < j)
    BY <1>5
  <2>3. \A i \in 1..Len(queue') : /\ lastGen' < queue'[i].generation /\ queue'[i].generation <= gen'
                                  /\ diskAt' < queue'[i].at /\ queue'[i].at <= calls'
    BY <1>2, <1>4, <1>5
  <2>. QED
    BY <1>2, <2>1, <2>2, <2>3 DEF Ordered
<1>8. PendingSound'
  <2>1. (base = Only(clients, base))' /\ (disk.doc.count = Only(disk.doc.clients, disk.doc.count))'
    BY <1>1, <1>2 DEF Only, cl, f
  <2>2. \A u \in Users : Known(u)' => u \in cl /\ f[u] # NoCounters /\ base'[u] = f[u]
    BY <1>2 DEF Known
  <2>3. \A u \in Users : Known(u)' => u \in cl /\ base'[u] = usage'[u] /\ base'[u] = f[u] /\ f[u] <= f[u]
    BY <1>3, <2>2
  <2>4. Since(disk.doc.clients, disk.doc.count, disk.doc.taken)'
    BY <1>2, <1>31, <2>3 DEF Since, cl, f, tk
  <2>5. \A i \in 1..Len(queue') : Since(queue[i].clients, queue[i].snap, queue[i].snapTaken)'
    BY <1>2, <1>31, <1>5, <2>3 DEF Since
  <2>. QED
    BY <1>2, <2>1, <2>4, <2>5 DEF PendingSound
<1>9. TmpIsJob' /\ DiskWhole'
  BY <1>1, <1>2 DEF TmpIsJob, DiskWhole
<1>10. NewestCurrent'
  <2>1. CASE queue' # <<>>
    <3>1. Len(queue') \in 1..Len(queue')
      BY <1>5, <2>1
    <3>2. Current(queue[Len(queue)])'
      BY <1>1, <1>2, <1>31, <1>5, <3>1 DEF Current
    <3>. QED
      BY <2>1, <3>2 DEF NewestCurrent
  <2>2. CASE queue' = <<>>
    <3>1. CountersOnDisk'
      BY <1>1, <1>2, <1>3, <1>31 DEF CountersOnDisk, cl, f, tk
    <3>. QED
      BY <1>2, <2>2, <3>1 DEF NewestCurrent
  <2>. QED
    BY <2>1, <2>2
<1>. QED
  BY <1>6, <1>7, <1>8, <1>9, <1>10 DEF IInv

\* The first boot, with or without a migration.
LEMMA InitIInv == Init => IInv
<1>. SUFFICES ASSUME Init PROVE IInv
  OBVIOUS
<1>1. PICK cl \in SUBSET Users, n \in {NoCounters, 0}, st \in {0, 1} :
        /\ disk = [whole |-> TRUE, doc |-> [clients |-> cl, count |-> Only(cl, [u \in Users |-> n]),
                                           taken |-> Nothing, settings |-> st]]
        /\ tmp = NoFile /\ clients = cl /\ base = Only(cl, [u \in Users |-> n]) /\ settings = 1
        /\ usage = Live(cl, Only(cl, [u \in Users |-> n]))
        /\ baseTaken = Nothing /\ taken = Nothing /\ owed = Nothing
        /\ gen = (IF st = 0 THEN 1 ELSE 0) /\ calls = gen
        /\ queue = IF st = 0 THEN MigrationRequest(cl, base, Nothing, usage, Nothing, 1) ELSE <<>>
        /\ dirty = FALSE /\ worker = "idle" /\ lastGen = 0 /\ diskAt = 0
  BY ZenonT(60) DEF Init
<1>. DEFINE g == [u \in Users |-> n]
            f == Only(cl, g)
<1>2. g \in [Users -> Counters]
  BY PersistenceAssumption DEF Counters, NoCounters
<1>3. f \in [Users -> Counters] /\ f = Only(cl, f)
  BY <1>2, OnlyFacts
<1>4. /\ usage \in Amounts
      /\ \A u \in cl : Loaded(f[u]) = usage[u]
      /\ \A u \in cl : f[u] # NoCounters => f[u] = usage[u] /\ f[u] <= f[u]
  BY <1>1, <1>3, BootFacts, ZenonT(60)
<1>41. /\ Nothing \in Amounts /\ Nothing \in [Users -> Nat]
       /\ \A u \in Users : Booked(u) = 0 /\ Nothing[u] = 0
  BY <1>1, PersistenceAssumption DEF Nothing, Amounts, Booked
<1>5. disk.doc.taken = Nothing /\ disk.whole /\ disk.doc.clients = cl /\ disk.doc.count = f /\ disk.doc.settings = st /\ base = f
  BY <1>1
<1>6. disk \in Files /\ tmp \in Files
  <2>1. [clients |-> cl, count |-> f, taken |-> Nothing, settings |-> st] \in Docs
    BY <1>3, <1>41 DEF Docs
  <2>2. NoFile \in Files
    BY PersistenceAssumption DEF NoFile, Nothing, Files, Docs, Counters, NoCounters, Amounts
  <2>3. disk = [whole |-> TRUE, doc |-> [clients |-> cl, count |-> f, taken |-> Nothing, settings |-> st]]
    BY <1>1
  <2>. HIDE DEF f
  <2>4. disk \in Files
    BY <2>1, <2>3 DEF Files
  <2>. QED
    BY <1>1, <2>2, <2>4
<1>. HIDE DEF f
<1>7. /\ queue \in Seq(Requests) /\ Len(queue) \in 0..1
      /\ \A i \in 1..Len(queue) :
            /\ i = 1 /\ Len(queue) = 1 /\ queue[i].generation = 1 /\ queue[i].at = 1
            /\ gen = 1 /\ calls = 1
            /\ queue[i].clients = cl /\ queue[i].base = f /\ queue[i].snap = usage
            /\ queue[i].baseTaken = Nothing /\ queue[i].snapTaken = Nothing
  <2>1. CASE st = 0
    <3>1. queue = MigrationRequest(cl, f, Nothing, usage, Nothing, 1) /\ gen = 1 /\ calls = 1
      BY <1>1, <1>5, <2>1
    <3>2. /\ queue \in Seq(Requests) /\ Len(queue) = 1
          /\ queue[1].generation = 1 /\ queue[1].at = 1 /\ queue[1].clients = cl
          /\ queue[1].base = f /\ queue[1].snap = usage
          /\ queue[1].baseTaken = Nothing /\ queue[1].snapTaken = Nothing
      BY <1>3, <1>4, <1>41, <3>1, MigrationFacts
    <3>3. \A i \in 1..Len(queue) : i = 1
      BY <3>2
    <3>4. Len(queue) \in 0..1
      BY <3>2
    <3>. QED
      BY <3>1, <3>2, <3>3, <3>4, Zenon
  <2>2. CASE st # 0
    <3>1. queue = <<>>
      BY <1>1, <2>2
    <3>2. queue \in Seq(Requests) /\ Len(queue) = 0
      BY <3>1
    <3>. QED
      BY <3>2
  <2>. QED
    BY <2>1, <2>2
<1>8. TypeOK
  <2>1. Len(queue) <= QueueCap
    BY <1>7, PersistenceAssumption
  <2>2. gen \in Nat /\ calls \in Nat /\ diskAt \in 0..calls /\ settings \in Nat /\ lastGen \in Nat
    BY <1>1
  <2>. QED
    BY <1>1, <1>3, <1>4, <1>41, <1>5, <1>6, <1>7, <2>1, <2>2 DEF TypeOK
<1>9. Ordered
  <2>1. lastGen <= gen
    BY <1>1
  <2>2. \A i, j \in 1..Len(queue) : ~(i < j)
    BY <1>7
  <2>3. \A i \in 1..Len(queue) : /\ lastGen < queue[i].generation /\ queue[i].generation <= gen
                                 /\ diskAt < queue[i].at /\ queue[i].at <= calls
    BY <1>1, <1>7
  <2>. QED
    BY <1>1, <2>1, <2>2, <2>3 DEF Ordered
<1>10. PendingSound
  <2>1. \A u \in Users : Known(u) => u \in cl /\ base[u] = usage[u] /\ base[u] = f[u] /\ f[u] <= f[u]
    BY <1>1, <1>4, <1>5 DEF Known
  <2>2. \A i \in 1..Len(queue) : Since(queue[i].clients, queue[i].snap, queue[i].snapTaken)
    <3>. SUFFICES ASSUME NEW i \in 1..Len(queue), NEW u \in Users, Known(u)
                  PROVE  /\ u \in queue[i].clients
                         /\ base[u] <= queue[i].snap[u] /\ queue[i].snap[u] <= usage[u]
                         /\ baseTaken[u] <= queue[i].snapTaken[u] /\ queue[i].snapTaken[u] <= Booked(u)
      BY DEF Since
    <3>1. /\ queue[i].clients = cl /\ queue[i].snap = usage /\ queue[i].snapTaken = Nothing
          /\ baseTaken = Nothing /\ Nothing[u] = 0 /\ Booked(u) = 0
      BY <1>1, <1>41, <1>7
    <3>2. u \in cl /\ base[u] = usage[u] /\ base[u] <= base[u]
      BY <2>1
    <3>. QED
      BY <3>1, <3>2
  <2>3. Since(disk.doc.clients, disk.doc.count, disk.doc.taken)
    <3>. SUFFICES ASSUME NEW u \in Users, Known(u)
                  PROVE  /\ u \in disk.doc.clients
                         /\ base[u] <= disk.doc.count[u] /\ disk.doc.count[u] <= usage[u]
                         /\ baseTaken[u] <= disk.doc.taken[u] /\ disk.doc.taken[u] <= Booked(u)
      BY DEF Since
    <3>1. baseTaken = Nothing /\ Nothing[u] = 0 /\ Booked(u) = 0
      BY <1>1, <1>41
    <3>2. u \in cl /\ base[u] = usage[u] /\ base[u] = f[u] /\ f[u] <= f[u]
      BY <2>1
    <3>. QED
      BY <1>5, <3>1, <3>2
  <2>. QED
    BY <1>1, <1>3, <1>5, <2>2, <2>3 DEF PendingSound
<1>11. TmpIsJob /\ DiskWhole
  BY <1>1, <1>5 DEF TmpIsJob, DiskWhole
<1>12. NewestCurrent
  <2>1. CASE queue # <<>>
    <3>1. Len(queue) \in 1..Len(queue)
      BY <1>7, <2>1
    <3>. QED
      BY <1>1, <1>41, <1>5, <1>7, <2>1, <3>1 DEF Current, NewestCurrent
  <2>2. CASE queue = <<>>
    BY <1>1, <1>4, <1>41, <1>5, <2>2 DEF CountersOnDisk, NewestCurrent
  <2>. QED
    BY <2>1, <2>2
<1>. QED
  BY <1>8, <1>9, <1>10, <1>11, <1>12 DEF IInv

\* Every step keeps the invariant and never moves the file back.
LEMMA NextIInv ==
    ASSUME IInv, [Next]_vars
    PROVE  IInv' /\ diskAt' >= diskAt
<1>. diskAt \in Nat
  BY DEF IInv, TypeOK
<1>1. CASE \/ \E u \in Users : Reserve(u) \/ Commit(u) \/ AddQuota(u) \/ CreateUser(u) \/ DeleteUser(u)
           \/ ChangeSettings \/ ReloadConfig \/ Flush
  <2>1. IInv'
    BY <1>1, DirtyIInv, RequestIInv
  <2>2. diskAt' = diskAt
    BY <1>1 DEF Reserve, Commit, AddQuota, CreateUser, DeleteUser, ChangeSettings, ReloadConfig, Flush, working
  <2>. QED
    BY <2>1, <2>2
<1>2. CASE Receive \/ CreateTmp \/ WriteTmp \/ WriteFails \/ Restart
  <2>1. IInv'
    BY <1>2, ReceiveIInv, WriteIInv, RestartIInv
  <2>2. diskAt' = diskAt
    BY <1>2 DEF Receive, CreateTmp, WriteTmp, WriteFails, Restart
  <2>. QED
    BY <2>1, <2>2
<1>3. CASE Rename
  <2>1. IInv' /\ diskAt' > diskAt
    BY <1>3, RenameIInv
  <2>2. diskAt' \in Nat
    BY <2>1 DEF IInv, TypeOK
  <2>. QED
    BY <2>1, <2>2
<1>4. CASE UNCHANGED vars
  <2>1. TypeOK' /\ DiskWhole' /\ Ordered'
    BY <1>4 DEF vars, IInv, TypeOK, DiskWhole, Ordered
  <2>2. PendingSound' /\ TmpIsJob'
    BY <1>4 DEF vars, IInv, PendingSound, Since, Known, Booked, Only, Live, TmpIsJob, Overlay
  <2>3. NewestCurrent'
    BY <1>4 DEF vars, IInv, NewestCurrent, Current, CountersOnDisk, Booked
  <2>. QED
    BY <1>4, <2>1, <2>2, <2>3 DEF IInv, vars
<1>. QED
  BY <1>1, <1>2, <1>3, <1>4 DEF Next

\* The inductive invariant holds in every behaviour.
THEOREM SpecIInv == Spec => []IInv
<1>1. IInv /\ [Next]_vars => IInv'
  BY NextIInv
<1>. QED
  BY InitIInv, <1>1, PTL DEF Spec

\* config.json is whole at any crash, and once nothing is queued, being written or
\* owed it holds every client's counters, but for the reservations that neither
\* a commit nor a snapshot has followed: no full channel, failed write, skipped
\* write or restart loses any other.
THEOREM CountersSaved == Spec => []FileSound
<1>1. IInv => FileSound
  BY DEF IInv, FileSound, SettledMeansSaved, Settled, NewestCurrent
<1>. QED
  BY SpecIInv, <1>1, PTL

\* config.json never goes back to an older snapshot, in this process or across
\* restarts, where generations start again at 1.
THEOREM FileMovesForward == Spec => DiskNeverGoesBack
<1>1. IInv /\ [Next]_vars => [diskAt' >= diskAt]_vars
  BY NextIInv
<1>. QED
  BY SpecIInv, <1>1, PTL DEF Spec, DiskNeverGoesBack
=============================================================================
