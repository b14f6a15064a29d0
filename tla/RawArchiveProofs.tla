--------------------------- MODULE RawArchiveProofs --------------------------
(* No committed row of raw_ingest is without its payload: proofs about        *)
(* Landing, about Compaction, about the two on one store and one index, and   *)
(* about the history loads, whatever the jobs, the loads, the payloads, the   *)
(* rows, the size of the chunks, the failures and their number.               *)
EXTENDS RawArchive, History, FiniteSetTheorems, SequenceTheorems, WellFoundedInduction, TLAPS

------------------------------------------------------------------------------
(* Part 1. Landing, for jobs whose bundles have names of their own (FixedTag  *)
(* empty).                                                                    *)

(* The objects of loads hold what their name says.                            *)
ObjectsTrue == \A p \in Payloads :
  ObjectName(p) \in DOMAIN store => store[ObjectName(p)] = <<p>>

(* A job that runs has a number, one that does not has no transaction.        *)
Numbered(s) ==
  /\ run[s] <= MaxRuns
  /\ pc[s] # "off" => run[s] >= 1
  /\ pc[s] = "off" => tx[s] = {}

(* No bundle is in the store that the job has yet to write.                   *)
Fresh(s) == \A n, m \in Nat :
  RunBundle(s, n, m) \in DOMAIN store =>
    n <= run[s] /\ (n = run[s] /\ pc[s] # "off" => m < part[s])

(* A row of the transaction reads back, or its payload is on the way: in the  *)
(* buffer of the bundle, or with the pool, whose failure is not forgotten.    *)
OnTheWay(s, row) ==
  IF s \in Loads
  THEN /\ row.key = PlainKey(row.hash)
       /\ \/ ObjectName(row.hash) \in DOMAIN store
          \/ row.hash \in inflight[s]
          \/ broken[s]
  ELSE \/ Get(store, row.key) = row.hash
       \/ /\ row.key.name = Current(s)
          /\ row.key.line \in DOMAIN buffer[s]
          /\ buffer[s][row.key.line] = row.hash

(* Once drained, nothing is on the way.                                       *)
Settled(s) ==
  pc[s] = "drained" => buffer[s] = << >> /\ inflight[s] = {} /\ broken[s] = FALSE

(* What each kind of job never uses.                                          *)
Idle(s) == IF s \in Loads THEN buffer[s] = << >> ELSE inflight[s] = {} /\ broken[s] = FALSE

JobOK(s) ==
  /\ Numbered(s)
  /\ s \notin Loads => Fresh(s)
  /\ \A row \in tx[s] : OnTheWay(s, row)
  /\ Settled(s)
  /\ Idle(s)

IInv == TypeOK /\ RowsResolve /\ ObjectsTrue /\ \A s \in Runs : JobOK(s)

------------------------------------------------------------------------------
(* The store.                                                                 *)

(* The store keeps what it holds; what is new in it is not a bundle of t.     *)
GrowsFor(t) ==
  /\ DOMAIN store \subseteq DOMAIN store'
  /\ \A n \in DOMAIN store : store'[n] = store[n]
  /\ \A n \in DOMAIN store' \ DOMAIN store : n.kind = "object" \/ n.of # t

Grows ==
  /\ DOMAIN store \subseteq DOMAIN store'
  /\ \A n \in DOMAIN store : store'[n] = store[n]

(* What a key reads it goes on reading in a store that grows.                 *)
LEMMA ReadStays ==
  ASSUME Grows, NEW key, NEW p \in Payloads, Get(store, key) = p
  PROVE  Get(store', key) = p
  BY LandingAssumption DEF Grows, Get, LandingAssumption

(* Writing an object that is new, or that is there and the same.              *)
LEMMA PutGrows ==
  ASSUME NEW name, NEW lines, store' = Put(store, name, lines),
         name \in DOMAIN store => store[name] = lines
  PROVE  /\ Grows
         /\ DOMAIN store' = DOMAIN store \cup {name}
         /\ store'[name] = lines
  BY DEF Grows, Put

(* The same of an object of a load.                                           *)
LEMMA PutObject ==
  ASSUME IInv, NEW p \in Payloads, store' = Put(store, ObjectName(p), <<p>>)
  PROVE  /\ Grows
         /\ \A t \in Runs : GrowsFor(t)
         /\ DOMAIN store' = DOMAIN store \cup {ObjectName(p)}
         /\ ObjectsTrue'
         /\ DOMAIN store' \subseteq Names
         /\ \A n \in DOMAIN store' : store'[n] \in Seq(Payloads)
<1>1. ObjectName(p) \in DOMAIN store => store[ObjectName(p)] = <<p>>
  BY DEF IInv, ObjectsTrue
<1>2. /\ Grows
      /\ DOMAIN store' = DOMAIN store \cup {ObjectName(p)}
      /\ store'[ObjectName(p)] = <<p>>
  BY <1>1, PutGrows
<1>3. ObjectName(p) \in Names /\ ObjectName(p).kind = "object"
  BY DEF ObjectName, Name, Names
<1>4. \A t \in Runs : GrowsFor(t)
  BY <1>2, <1>3 DEF Grows, GrowsFor
<1>5. ObjectsTrue'
  <2>. SUFFICES ASSUME NEW q \in Payloads, ObjectName(q) \in DOMAIN store'
                PROVE  store'[ObjectName(q)] = <<q>>
    BY DEF ObjectsTrue
  <2>1. CASE ObjectName(q) = ObjectName(p)
    BY <2>1, <1>2 DEF ObjectName, Name
  <2>2. CASE ObjectName(q) # ObjectName(p)
    BY <2>2, <1>2 DEF IInv, ObjectsTrue, Grows
  <2>. QED BY <2>1, <2>2
<1>6. DOMAIN store' \subseteq Names
  BY <1>2, <1>3 DEF IInv, TypeOK
<1>7. \A n \in DOMAIN store' : store'[n] \in Seq(Payloads)
  <2>1. <<p>> \in Seq(Payloads)
    OBVIOUS
  <2>. QED BY <2>1, <1>2 DEF IInv, TypeOK, Grows
<1>. QED BY <1>2, <1>4, <1>5, <1>6, <1>7

(* The bundle a job writes next is not in the store yet.                      *)
LEMMA CurrentIsNew ==
  ASSUME IInv, FixedTag = {}, NEW s \in Runs \ Loads, pc[s] # "off"
  PROVE  Current(s) \notin DOMAIN store
<1>1. Current(s) = RunBundle(s, run[s], part[s])
  BY DEF Current, Tag
<1>2. run[s] \in Nat /\ part[s] \in Nat
  BY DEF IInv, TypeOK
<1>3. Fresh(s)
  BY DEF IInv, JobOK
<1>. QED BY <1>1, <1>2, <1>3 DEF Fresh

(* Writing it.                                                                *)
LEMMA PutBundle ==
  ASSUME IInv, FixedTag = {}, NEW s \in Runs \ Loads, pc[s] # "off",
         store' = Put(store, Current(s), buffer[s])
  PROVE  /\ Grows
         /\ \A t \in Runs \ {s} : GrowsFor(t)
         /\ DOMAIN store' = DOMAIN store \cup {Current(s)}
         /\ store'[Current(s)] = buffer[s]
         /\ ObjectsTrue'
         /\ DOMAIN store' \subseteq Names
         /\ \A n \in DOMAIN store' : store'[n] \in Seq(Payloads)
<1>1. /\ Grows
      /\ DOMAIN store' = DOMAIN store \cup {Current(s)}
      /\ store'[Current(s)] = buffer[s]
  BY CurrentIsNew, PutGrows
<1>2. Current(s) \in Names /\ Current(s).kind = "run" /\ Current(s).of = s
  BY DEF Current, Tag, RunBundle, Name, Names, IInv, TypeOK
<1>3. \A t \in Runs \ {s} : GrowsFor(t)
  BY <1>1, <1>2 DEF Grows, GrowsFor
<1>4. ObjectsTrue'
  <2>. SUFFICES ASSUME NEW q \in Payloads, ObjectName(q) \in DOMAIN store'
                PROVE  store'[ObjectName(q)] = <<q>>
    BY DEF ObjectsTrue
  <2>1. ObjectName(q).kind = "object"
    BY DEF ObjectName, Name
  <2>2. ObjectName(q) # Current(s)
    BY <2>1, <1>2
  <2>. QED BY <2>2, <1>1 DEF IInv, ObjectsTrue, Grows
<1>5. buffer[s] \in Seq(Payloads)
  BY DEF IInv, TypeOK
<1>. QED BY <1>1, <1>2, <1>3, <1>4, <1>5 DEF IInv, TypeOK, Grows

------------------------------------------------------------------------------
(* Jobs a step leaves alone.                                                  *)

Untouched(t) ==
  /\ pc'[t] = pc[t]
  /\ run'[t] = run[t]
  /\ part'[t] = part[t]
  /\ buffer'[t] = buffer[t]
  /\ inflight'[t] = inflight[t]
  /\ broken'[t] = broken[t]
  /\ tx'[t] = tx[t]

LEMMA GrowsForGrows ==
  ASSUME NEW t, GrowsFor(t) PROVE Grows
  BY DEF GrowsFor, Grows

LEMMA Bystander ==
  ASSUME IInv, NEW t \in Runs, Untouched(t), GrowsFor(t)
  PROVE  JobOK(t)'
<1>1. JobOK(t)
  BY DEF IInv
<1>2. Numbered(t)' /\ Settled(t)' /\ Idle(t)'
  BY <1>1 DEF JobOK, Untouched, Numbered, Settled, Idle
<1>3. ASSUME t \notin Loads PROVE Fresh(t)'
  <2>. SUFFICES ASSUME NEW n \in Nat, NEW m \in Nat, RunBundle(t, n, m) \in DOMAIN store'
                PROVE  n <= run'[t] /\ (n = run'[t] /\ pc'[t] # "off" => m < part'[t])
    BY DEF Fresh
  <2>1. RunBundle(t, n, m).kind = "run" /\ RunBundle(t, n, m).of = t
    BY DEF RunBundle, Name
  <2>2. RunBundle(t, n, m) \in DOMAIN store
    BY <2>1 DEF GrowsFor
  <2>3. Fresh(t)
    BY <1>1, <1>3 DEF JobOK
  <2>. QED BY <2>2, <2>3 DEF Fresh, Untouched
<1>4. ASSUME NEW row \in tx'[t] PROVE OnTheWay(t, row)'
  <2>1. row \in tx[t] /\ OnTheWay(t, row) /\ row.hash \in Payloads
    BY <1>1, <1>4 DEF JobOK, Untouched, IInv, TypeOK, Rows
  <2>2. CASE t \in Loads
    BY <2>1, <2>2 DEF OnTheWay, Untouched, GrowsFor
  <2>3. CASE t \notin Loads
    <3>1. Get(store, row.key) = row.hash => Get(store', row.key) = row.hash
      BY <2>1, ReadStays, GrowsForGrows
    <3>2. Current(t)' = Current(t)
      BY DEF Current, Tag, Untouched
    <3>. QED BY <2>1, <2>3, <3>1, <3>2 DEF OnTheWay, Untouched
  <2>. QED BY <2>2, <2>3
<1>. QED BY <1>2, <1>3, <1>4 DEF JobOK

(* The rows committed before go on reading.                                   *)
LEMMA CommittedStay ==
  ASSUME IInv, Grows, raw' = raw
  PROVE  RowsResolve'
<1>1. \A row \in raw : row.hash \in Payloads /\ Get(store, row.key) = row.hash
  BY DEF IInv, TypeOK, Rows, RowsResolve
<1>. QED BY <1>1, ReadStays DEF RowsResolve

------------------------------------------------------------------------------
(* One lemma per step.                                                        *)

(* Every function over the jobs stays one when one job's value changes.       *)
LEMMA StoreSame ==
  ASSUME store' = store
  PROVE  Grows /\ \A t \in Runs : GrowsFor(t)
  BY DEF Grows, GrowsFor

LEMMA StartRunInv ==
  ASSUME IInv, FixedTag = {}, NEW s \in Runs, StartRun(s)
  PROVE  IInv'
<1>1. TypeOK'
  <2>1. run[s] \in Nat /\ run[s] + 1 \in Nat
    BY DEF IInv, TypeOK
  <2>2. Delivers[s] \in SUBSET Payloads
    BY LandingAssumption DEF LandingAssumption
  <2>. QED BY <2>1, <2>2 DEF IInv, TypeOK, StartRun, stored
<1>2. store' = store /\ raw' = raw
  BY DEF StartRun, stored
<1>3. RowsResolve' /\ ObjectsTrue'
  BY <1>2 DEF IInv, RowsResolve, ObjectsTrue
<1>4. \A t \in Runs \ {s} : JobOK(t)'
  <2>1. \A t \in Runs \ {s} : Untouched(t)
    BY DEF StartRun, Untouched, IInv, TypeOK
  <2>. QED BY <1>2, <2>1, StoreSame, Bystander
<1>5. JobOK(s)'
  <2>1. /\ JobOK(s) /\ pc[s] = "off" /\ tx[s] = {} /\ run[s] \in Nat
        /\ MaxRuns \in Nat
    BY LandingAssumption DEF IInv, JobOK, Numbered, StartRun, TypeOK, LandingAssumption
  <2>2. /\ pc'[s] = "idle" /\ run'[s] = run[s] + 1 /\ run[s] < MaxRuns /\ part'[s] = 0
        /\ tx' = tx /\ buffer' = buffer /\ inflight' = inflight /\ broken' = broken
    BY DEF StartRun, IInv, TypeOK
  <2>3. Numbered(s)' /\ Settled(s)' /\ Idle(s)'
    BY <2>1, <2>2 DEF Numbered, Settled, Idle, JobOK
  <2>4. s \notin Loads => Fresh(s)'
    BY <2>1, <2>2, <1>2 DEF JobOK, Fresh
  <2>5. \A row \in tx'[s] : OnTheWay(s, row)'
    BY <2>1, <2>2
  <2>. QED BY <2>3, <2>4, <2>5 DEF JobOK
<1>. QED BY <1>1, <1>3, <1>4, <1>5 DEF IInv

(* A run that is given up leaves no transaction and no buffer.                *)
LEMMA AbandonedOK ==
  ASSUME IInv, NEW s \in Runs, Abandon(s), Grows,
         \A n \in DOMAIN store' \ DOMAIN store : s \notin Loads => n = Current(s), FixedTag = {}
  PROVE  JobOK(s)'
<1>1. JobOK(s) /\ run[s] \in Nat /\ part[s] \in Nat
  BY DEF IInv, TypeOK
<1>2. /\ pc'[s] = "off" /\ tx'[s] = {} /\ buffer'[s] = << >> /\ inflight'[s] = {}
      /\ broken'[s] = FALSE /\ run' = run
  BY DEF Abandon, IInv, TypeOK
<1>3. Numbered(s)' /\ Settled(s)' /\ Idle(s)'
  BY <1>1, <1>2 DEF Numbered, Settled, Idle, JobOK
<1>4. ASSUME s \notin Loads PROVE Fresh(s)'
  <2>. SUFFICES ASSUME NEW n \in Nat, NEW m \in Nat, RunBundle(s, n, m) \in DOMAIN store'
                PROVE  n <= run[s]
    BY <1>2 DEF Fresh
  <2>1. CASE RunBundle(s, n, m) \in DOMAIN store
    BY <2>1, <1>1, <1>4 DEF JobOK, Fresh
  <2>2. CASE RunBundle(s, n, m) \notin DOMAIN store
    <3>1. RunBundle(s, n, m) = RunBundle(s, run[s], part[s])
      BY <2>2, <1>4 DEF Current, Tag
    <3>2. n = run[s]
      BY <3>1 DEF RunBundle, Name
    <3>. QED BY <3>2, <1>1
  <2>. QED BY <2>1, <2>2
<1>. QED BY <1>2, <1>3, <1>4 DEF JobOK

LEMMA AbandonType ==
  ASSUME IInv, NEW s \in Runs, Abandon(s), raw' = raw, stray' \in SUBSET Payloads,
         faults' \in Nat, DOMAIN store' \subseteq Names,
         \A n \in DOMAIN store' : store'[n] \in Seq(Payloads)
  PROVE  TypeOK'
<1>1. << >> \in Seq(Payloads)
  OBVIOUS
<1>. QED BY <1>1 DEF IInv, TypeOK, Abandon

LEMMA AbandonOthers ==
  ASSUME IInv, NEW s \in Runs, Abandon(s), \A t \in Runs \ {s} : GrowsFor(t)
  PROVE  \A t \in Runs \ {s} : JobOK(t)'
<1>1. \A t \in Runs \ {s} : Untouched(t)
  BY DEF Abandon, Untouched, IInv, TypeOK
<1>. QED BY <1>1, Bystander

(* A failure that leaves the store as it is.                                  *)
LEMMA FailInv ==
  ASSUME IInv, FixedTag = {}, NEW s \in Runs, Fail(s), store' = store, faults' \in Nat
  PROVE  IInv'
<1>1. Abandon(s) /\ raw' = raw /\ stray' \in SUBSET Payloads
  BY DEF Fail, IInv, TypeOK
<1>2. TypeOK'
  BY <1>1, AbandonType DEF IInv, TypeOK
<1>3. RowsResolve' /\ ObjectsTrue'
  BY <1>1 DEF IInv, RowsResolve, ObjectsTrue
<1>4. \A t \in Runs : JobOK(t)'
  BY <1>1, StoreSame, AbandonedOK, AbandonOthers
<1>. QED BY <1>2, <1>3, <1>4 DEF IInv

LEMMA CrashInv ==
  ASSUME IInv, FixedTag = {}, NEW s \in Runs, Crash(s)
  PROVE  IInv'
<1>1. Abandon(s) /\ raw' = raw /\ store' = store /\ stray' = stray /\ faults' \in Nat
  BY DEF Crash, stored, IInv, TypeOK
<1>2. TypeOK'
  BY <1>1, AbandonType DEF IInv, TypeOK
<1>3. RowsResolve' /\ ObjectsTrue'
  BY <1>1 DEF IInv, RowsResolve, ObjectsTrue
<1>4. \A t \in Runs : JobOK(t)'
  BY <1>1, StoreSame, AbandonedOK, AbandonOthers
<1>. QED BY <1>2, <1>3, <1>4 DEF IInv

LEMMA SkipRecordInv ==
  ASSUME IInv, NEW s \in Runs, SkipRecord(s)
  PROVE  IInv'
<1>1. /\ store' = store /\ raw' = raw
      /\ UNCHANGED <<pc, run, outcome, part, buffer, inflight, broken, stray, tx,
                     quarantined, faults>>
  BY DEF SkipRecord, stored, control
<1>2. TypeOK'
  BY <1>1 DEF SkipRecord, Taken, IInv, TypeOK
<1>3. RowsResolve' /\ ObjectsTrue'
  BY <1>1 DEF IInv, RowsResolve, ObjectsTrue
<1>4. \A t \in Runs : Untouched(t)
  BY <1>1 DEF Untouched
<1>. QED BY <1>1, <1>2, <1>3, <1>4, StoreSame, Bystander DEF IInv

(* What was on its way still is after something more is enqueued.              *)
LEMMA EnqueueKeeps ==
  ASSUME IInv, NEW s \in Runs, NEW p \in Payloads, Enqueue(s, p), store' = store,
         broken' = broken, run' = run, part' = part
  PROVE  /\ buffer' \in [Runs -> Seq(Payloads)]
         /\ inflight' \in [Runs -> SUBSET Payloads]
         /\ \A t \in Runs \ {s} : buffer'[t] = buffer[t] /\ inflight'[t] = inflight[t]
         /\ Idle(s)'
         /\ \A old \in tx[s] : OnTheWay(s, old)'
<1>1. buffer \in [Runs -> Seq(Payloads)] /\ inflight \in [Runs -> SUBSET Payloads]
  BY DEF IInv, TypeOK
<1>2. Current(s)' = Current(s)
  BY DEF Current, Tag
<1>3. JobOK(s)
  BY DEF IInv
<1>4. CASE s \in Loads
  <2>1. inflight' = [inflight EXCEPT ![s] = @ \cup {p}] /\ buffer' = buffer
    BY <1>4 DEF Enqueue
  <2>2. \A old \in tx[s] : OnTheWay(s, old)'
    BY <1>1, <1>3, <1>4, <2>1 DEF JobOK, OnTheWay
  <2>. QED BY <1>1, <1>3, <1>4, <2>1, <2>2 DEF JobOK, Idle
<1>5. CASE s \notin Loads
  <2>1. buffer' = [buffer EXCEPT ![s] = Append(@, p)] /\ inflight' = inflight
    BY <1>5 DEF Enqueue
  <2>2. /\ buffer[s] \in Seq(Payloads)
        /\ \A i \in DOMAIN buffer[s] : i \in DOMAIN buffer'[s] /\ buffer'[s][i] = buffer[s][i]
    BY <1>1, <2>1
  <2>3. \A old \in tx[s] : OnTheWay(s, old)'
    BY <1>2, <1>3, <1>5, <2>2 DEF JobOK, OnTheWay
  <2>. QED BY <1>1, <1>3, <1>5, <2>1, <2>3 DEF JobOK, Idle
<1>. QED BY <1>4, <1>5

(* What is enqueued is on its way under the key it is recorded with.          *)
LEMMA EnqueuedOnTheWay ==
  ASSUME IInv, NEW s \in Runs, NEW p \in Payloads, Enqueue(s, p),
         run' = run, part' = part,
         NEW row, row.hash = p, row.key = KeyFor(s, p)
  PROVE  OnTheWay(s, row)'
<1>1. buffer \in [Runs -> Seq(Payloads)] /\ inflight \in [Runs -> SUBSET Payloads]
  BY DEF IInv, TypeOK
<1>2. CASE s \in Loads
  BY <1>1, <1>2 DEF Enqueue, OnTheWay, KeyFor
<1>3. CASE s \notin Loads
  <2>. DEFINE at == Len(buffer[s]) + 1
  <2>1. at \in DOMAIN buffer'[s] /\ buffer'[s][at] = p
    BY <1>1, <1>3 DEF Enqueue
  <2>2. row.key.name = Current(s)' /\ row.key.line = at
    BY <1>3 DEF KeyFor, RecordKey, Current, Tag
  <2>. QED BY <1>3, <2>1, <2>2 DEF OnTheWay
<1>. QED BY <1>2, <1>3

LEMMA LandInv ==
  ASSUME IInv, FixedTag = {}, NEW s \in Runs, Land(s)
  PROVE  IInv'
<1>1. PICK p \in left[s] \ Malformed :
        /\ Taken(s, p)
        /\ Enqueue(s, p)
        /\ tx' = [tx EXCEPT ![s] = @ \cup {Row(RowId(s, run[s], p), p, KeyFor(s, p))}]
  BY DEF Land
<1>2. /\ store' = store /\ raw' = raw
      /\ UNCHANGED <<pc, run, outcome, part, broken, stray, quarantined, faults>>
      /\ pc[s] = "idle"
  BY DEF Land, control
<1>3. p \in Payloads /\ JobOK(s)
  BY DEF IInv, TypeOK
<1>. DEFINE new == Row(RowId(s, run[s], p), p, KeyFor(s, p))
<1>4. new \in Rows
  <2>1. RowId(s, run[s], p) \in Ids
    <3>1. run[s] \in 1..MaxRuns
      BY <1>2, <1>3, LandingAssumption DEF JobOK, Numbered, IInv, TypeOK, LandingAssumption
    <3>. QED BY <3>1, <1>3, LandingAssumption DEF LandingAssumption
  <2>2. KeyFor(s, p) \in Keys
    <3>1. CASE s \in Loads
      BY <1>3, <3>1 DEF KeyFor, PlainKey, RecordKey, ObjectName, Name, Keys, Names
    <3>2. CASE s \notin Loads
      <4>1. Current(s) \in Names
        BY DEF Current, Tag, RunBundle, Name, Names, IInv, TypeOK
      <4>2. buffer[s] \in Seq(Payloads)
        BY DEF IInv, TypeOK
      <4>3. Len(buffer[s]) + 1 \in Nat \ {0}
        BY <4>2
      <4>. QED BY <3>2, <4>1, <4>3 DEF KeyFor, RecordKey, Keys
    <3>. QED BY <3>1, <3>2
  <2>. QED BY <1>3, <2>1, <2>2 DEF Row, Rows
<1>5. /\ buffer' \in [Runs -> Seq(Payloads)]
      /\ inflight' \in [Runs -> SUBSET Payloads]
      /\ \A t \in Runs \ {s} : buffer'[t] = buffer[t] /\ inflight'[t] = inflight[t]
      /\ Idle(s)'
      /\ \A old \in tx[s] : OnTheWay(s, old)'
  BY <1>1, <1>2, <1>3, EnqueueKeeps
<1>6. TypeOK'
  BY <1>1, <1>2, <1>4, <1>5 DEF IInv, TypeOK, Taken
<1>7. RowsResolve' /\ ObjectsTrue'
  BY <1>2 DEF IInv, RowsResolve, ObjectsTrue
<1>8. \A t \in Runs \ {s} : JobOK(t)'
  <2>1. tx \in [Runs -> SUBSET Rows]
    BY DEF IInv, TypeOK
  <2>2. \A t \in Runs \ {s} : Untouched(t)
    BY <1>1, <1>2, <1>5, <2>1 DEF Untouched
  <2>. QED BY <1>2, <2>2, StoreSame, Bystander
<1>9. JobOK(s)'
  <2>1. \A row \in tx'[s] : OnTheWay(s, row)'
    <3>. SUFFICES ASSUME NEW row \in tx'[s] PROVE OnTheWay(s, row)'
      OBVIOUS
    <3>1. row \in tx[s] \/ row = new
      BY <1>1 DEF IInv, TypeOK
    <3>2. CASE row \in tx[s]
      BY <3>2, <1>5
    <3>3. CASE row = new
      <4>1. row.hash = p /\ row.key = KeyFor(s, p)
        BY <3>3 DEF Row
      <4>. QED BY <4>1, <1>1, <1>2, <1>3, EnqueuedOnTheWay
    <3>. QED BY <3>1, <3>2, <3>3
  <2>2. Numbered(s)' /\ Settled(s)'
    BY <1>2, <1>3 DEF JobOK, Numbered, Settled
  <2>3. s \notin Loads => Fresh(s)'
    BY <1>2, <1>3 DEF JobOK, Fresh
  <2>. QED BY <1>5, <2>1, <2>2, <2>3 DEF JobOK
<1>. QED BY <1>6, <1>7, <1>8, <1>9 DEF IInv

LEMMA QuarantineInv ==
  ASSUME IInv, FixedTag = {}, NEW s \in Runs, Quarantine(s)
  PROVE  IInv'
<1>1. store' = store /\ faults' = faults /\ pc[s] = "idle"
  BY DEF Quarantine
<1>2. CASE s \notin Loads /\ quarantined[s] < MaxQuarantined
  <2>1. PICK p \in left[s] :
          /\ Taken(s, p)
          /\ IF Lands(s, p) THEN Enqueue(s, p) ELSE UNCHANGED <<buffer, inflight>>
          /\ quarantined' = [quarantined EXCEPT ![s] = @ + 1]
          /\ UNCHANGED <<store, raw, control, part, broken, stray, tx>>
    BY <1>2 DEF Quarantine
  <2>2. raw' = raw /\ UNCHANGED <<pc, run, outcome, part, broken, stray, tx>>
    BY <2>1 DEF control
  <2>3. p \in Payloads /\ JobOK(s)
    BY DEF IInv, TypeOK
  <2>4. /\ buffer' \in [Runs -> Seq(Payloads)]
        /\ inflight' \in [Runs -> SUBSET Payloads]
        /\ \A t \in Runs \ {s} : buffer'[t] = buffer[t] /\ inflight'[t] = inflight[t]
        /\ Idle(s)'
        /\ \A old \in tx[s] : OnTheWay(s, old)'
    <3>1. CASE Lands(s, p)
      BY <1>1, <2>1, <2>2, <2>3, <3>1, EnqueueKeeps
    <3>2. CASE ~Lands(s, p)
      <4>1. UNCHANGED <<buffer, inflight>>
        BY <2>1, <3>2
      <4>2. buffer \in [Runs -> Seq(Payloads)] /\ inflight \in [Runs -> SUBSET Payloads]
        BY DEF IInv, TypeOK
      <4>3. Idle(s)'
        BY <2>2, <2>3, <4>1 DEF JobOK, Idle
      <4>4. \A old \in tx[s] : OnTheWay(s, old)'
        BY <1>1, <2>2, <2>3, <4>1 DEF JobOK, OnTheWay, Current, Tag
      <4>. QED BY <4>1, <4>2, <4>3, <4>4
    <3>. QED BY <3>1, <3>2
  <2>5. TypeOK'
    <3>1. left' \in [Runs -> SUBSET Payloads]
      BY <2>1 DEF IInv, TypeOK, Taken
    <3>2. quarantined' \in [Runs -> Nat]
      BY <2>1 DEF IInv, TypeOK
    <3>. QED BY <1>1, <2>1, <2>2, <2>4, <3>1, <3>2 DEF IInv, TypeOK
  <2>6. RowsResolve' /\ ObjectsTrue'
    BY <1>1, <2>2 DEF IInv, RowsResolve, ObjectsTrue
  <2>7. \A t \in Runs \ {s} : Untouched(t)
    BY <2>2, <2>4 DEF Untouched
  <2>8. \A t \in Runs \ {s} : JobOK(t)'
    BY <1>1, <2>7, StoreSame, Bystander
  <2>9. JobOK(s)'
    BY <1>1, <2>2, <2>3, <2>4 DEF JobOK, Numbered, Settled, Fresh
  <2>. QED BY <2>5, <2>6, <2>8, <2>9 DEF IInv
<1>3. CASE ~(s \notin Loads /\ quarantined[s] < MaxQuarantined)
  <2>1. Fail(s)
    BY <1>3 DEF Quarantine
  <2>. QED BY <1>1, <2>1, FailInv DEF IInv, TypeOK
<1>. QED BY <1>2, <1>3

LEMMA PoolWriteInv ==
  ASSUME IInv, NEW s \in Runs, PoolWrite(s)
  PROVE  IInv'
<1>1. PICK p \in inflight[s] :
        /\ inflight' = [inflight EXCEPT ![s] = @ \ {p}]
        /\ \/ /\ store' = Put(store, ObjectName(p), <<p>>)
              /\ UNCHANGED <<broken, faults>>
           \/ /\ faults < MaxFaults
              /\ faults' = faults + 1
              /\ broken' = [broken EXCEPT ![s] = TRUE]
              /\ UNCHANGED store
  BY DEF PoolWrite
<1>2. /\ raw' = raw
      /\ UNCHANGED <<pc, run, outcome, part, buffer, stray, tx, left, quarantined>>
  BY DEF PoolWrite, control
<1>3. p \in Payloads /\ JobOK(s) /\ s \in Loads
  BY DEF IInv, TypeOK, JobOK, Idle
<1>4. /\ Grows
      /\ \A t \in Runs : GrowsFor(t)
      /\ ObjectsTrue'
      /\ DOMAIN store' \subseteq Names
      /\ \A n \in DOMAIN store' : store'[n] \in Seq(Payloads)
  <2>1. CASE store' = Put(store, ObjectName(p), <<p>>)
    BY <2>1, <1>3, PutObject
  <2>2. CASE store' = store
    BY <2>2, StoreSame DEF IInv, TypeOK, ObjectsTrue
  <2>. QED BY <2>1, <2>2, <1>1
<1>5. broken' \in [Runs -> BOOLEAN] /\ faults' \in Nat
  <2>1. broken \in [Runs -> BOOLEAN] /\ faults \in Nat
    BY DEF IInv, TypeOK
  <2>2. CASE UNCHANGED <<broken, faults>>
    BY <2>1, <2>2
  <2>3. CASE broken' = [broken EXCEPT ![s] = TRUE] /\ faults' = faults + 1
    BY <2>1, <2>3
  <2>. QED BY <1>1, <2>2, <2>3
<1>6. TypeOK'
  BY <1>1, <1>2, <1>4, <1>5 DEF IInv, TypeOK
<1>7. RowsResolve'
  BY <1>2, <1>4, CommittedStay
<1>8. \A t \in Runs \ {s} : JobOK(t)'
  <2>1. \A t \in Runs \ {s} : Untouched(t)
    BY <1>1, <1>2 DEF Untouched, IInv, TypeOK
  <2>. QED BY <2>1, <1>4, Bystander
<1>9. JobOK(s)'
  <2>1. pc[s] = "drained" => FALSE
    BY <1>3 DEF JobOK, Settled
  <2>2. Numbered(s)' /\ Settled(s)' /\ Idle(s)'
    BY <1>2, <1>3, <2>1 DEF JobOK, Numbered, Settled, Idle
  <2>3. \A row \in tx'[s] : OnTheWay(s, row)'
    <3>. SUFFICES ASSUME NEW row \in tx[s] PROVE OnTheWay(s, row)'
      BY <1>2
    <3>1. OnTheWay(s, row)
      BY <1>3 DEF JobOK
    <3>2. CASE row.hash # p
      BY <3>1, <3>2, <1>1, <1>3, <1>4 DEF OnTheWay, IInv, TypeOK, Grows
    <3>3. CASE row.hash = p
      <4>1. ObjectName(p) \in DOMAIN store' \/ broken'[s]
        BY <1>1 DEF Put, IInv, TypeOK
      <4>. QED BY <3>1, <3>3, <4>1, <1>3 DEF OnTheWay
    <3>. QED BY <3>2, <3>3
  <2>. QED BY <1>3, <2>2, <2>3 DEF JobOK
<1>. QED BY <1>4, <1>6, <1>7, <1>8, <1>9 DEF IInv

LEMMA StrayWriteInv ==
  ASSUME IInv, StrayWrite
  PROVE  IInv'
<1>1. PICK p \in stray :
        /\ stray' = stray \ {p}
        /\ store' = Put(store, ObjectName(p), <<p>>)
  BY DEF StrayWrite
<1>2. /\ raw' = raw
      /\ UNCHANGED <<pc, run, outcome, part, buffer, inflight, broken, tx, left,
                     quarantined, faults>>
  BY DEF StrayWrite, control
<1>3. p \in Payloads
  BY DEF IInv, TypeOK
<1>4. /\ Grows
      /\ \A t \in Runs : GrowsFor(t)
      /\ ObjectsTrue'
      /\ DOMAIN store' \subseteq Names
      /\ \A n \in DOMAIN store' : store'[n] \in Seq(Payloads)
  BY <1>1, <1>3, PutObject
<1>5. TypeOK'
  BY <1>1, <1>2, <1>4 DEF IInv, TypeOK
<1>6. RowsResolve'
  BY <1>2, <1>4, CommittedStay
<1>7. \A t \in Runs : Untouched(t)
  BY <1>2 DEF Untouched
<1>. QED BY <1>4, <1>5, <1>6, <1>7, Bystander DEF IInv

LEMMA DrainBundleInv ==
  ASSUME IInv, FixedTag = {}, NEW s \in Runs, DrainBundle(s)
  PROVE  IInv'
<1>1. /\ pc[s] = "idle" /\ s \notin Loads
      /\ \/ buffer[s] = << >> /\ store' = store /\ part' = part
         \/ /\ buffer[s] # << >>
            /\ store' = Put(store, Current(s), buffer[s])
            /\ part' = [part EXCEPT ![s] = @ + 1]
      /\ buffer' = [buffer EXCEPT ![s] = << >>]
      /\ pc' = [pc EXCEPT ![s] = "drained"]
      /\ raw' = raw
      /\ UNCHANGED <<run, outcome, inflight, broken, stray, tx, left, quarantined, faults>>
  BY DEF DrainBundle
<1>2. JobOK(s) /\ run[s] \in Nat /\ part[s] \in Nat /\ buffer[s] \in Seq(Payloads)
  BY DEF IInv, TypeOK
<1>3. /\ Grows
      /\ \A t \in Runs \ {s} : GrowsFor(t)
      /\ ObjectsTrue'
      /\ DOMAIN store' \subseteq Names
      /\ \A n \in DOMAIN store' : store'[n] \in Seq(Payloads)
  <2>1. CASE store' = Put(store, Current(s), buffer[s])
    BY <2>1, <1>1, PutBundle
  <2>2. CASE store' = store
    BY <2>2, StoreSame DEF IInv, TypeOK, ObjectsTrue
  <2>. QED BY <2>1, <2>2, <1>1
<1>4. TypeOK'
  <2>1. part' \in [Runs -> Nat] /\ << >> \in Seq(Payloads)
    BY <1>1 DEF IInv, TypeOK
  <2>. QED BY <2>1, <1>1, <1>3 DEF IInv, TypeOK
<1>5. RowsResolve'
  BY <1>1, <1>3, CommittedStay
<1>6. \A t \in Runs \ {s} : JobOK(t)'
  <2>1. \A t \in Runs \ {s} : Untouched(t)
    BY <1>1 DEF Untouched, IInv, TypeOK
  <2>. QED BY <2>1, <1>3, Bystander
<1>7. JobOK(s)'
  <2>1. buffer'[s] = << >> /\ pc'[s] = "drained"
    BY <1>1 DEF IInv, TypeOK
  <2>2. Numbered(s)' /\ Settled(s)' /\ Idle(s)'
    BY <1>1, <1>2, <2>1 DEF JobOK, Numbered, Settled, Idle
  <2>3. Fresh(s)'
    <3>. SUFFICES ASSUME NEW n \in Nat, NEW m \in Nat, RunBundle(s, n, m) \in DOMAIN store'
                  PROVE  n <= run'[s] /\ (n = run'[s] /\ pc'[s] # "off" => m < part'[s])
      BY DEF Fresh
    <3>1. part'[s] >= part[s] /\ part'[s] \in Nat /\ run'[s] = run[s]
      BY <1>1, <1>2 DEF IInv, TypeOK
    <3>2. CASE RunBundle(s, n, m) \in DOMAIN store
      <4>1. n <= run[s] /\ (n = run[s] => m < part[s])
        BY <3>2, <1>1, <1>2 DEF JobOK, Fresh
      <4>. QED BY <4>1, <3>1, <1>2
    <3>3. CASE RunBundle(s, n, m) \notin DOMAIN store
      <4>1. /\ store' = Put(store, Current(s), buffer[s])
            /\ part'[s] = part[s] + 1
        BY <3>3, <1>1 DEF IInv, TypeOK
      <4>2. RunBundle(s, n, m) = RunBundle(s, run[s], part[s])
        BY <3>3, <4>1 DEF Put, Current, Tag
      <4>3. n = run[s] /\ m = part[s]
        BY <4>2 DEF RunBundle, Name
      <4>. QED BY <4>1, <4>3, <3>1, <1>2
    <3>. QED BY <3>2, <3>3
  <2>4. \A row \in tx'[s] : OnTheWay(s, row)'
    <3>. SUFFICES ASSUME NEW row \in tx[s] PROVE Get(store', row.key) = row.hash
      BY <1>1 DEF OnTheWay
    <3>1. OnTheWay(s, row) /\ row.hash \in Payloads
      BY <1>2 DEF JobOK, IInv, TypeOK, Rows
    <3>2. CASE Get(store, row.key) = row.hash
      BY <3>1, <3>2, <1>3, ReadStays
    <3>3. CASE Get(store, row.key) # row.hash
      <4>1. /\ row.key.name = Current(s)
            /\ row.key.line \in DOMAIN buffer[s]
            /\ buffer[s][row.key.line] = row.hash
        BY <3>1, <3>3, <1>1 DEF OnTheWay
      <4>2. store' = Put(store, Current(s), buffer[s])
        BY <4>1, <1>1
      <4>. QED BY <4>1, <4>2 DEF Put, Get
    <3>. QED BY <3>2, <3>3
  <2>. QED BY <2>2, <2>3, <2>4 DEF JobOK
<1>. QED BY <1>3, <1>4, <1>5, <1>6, <1>7 DEF IInv

LEMMA DrainBundleFailsInv ==
  ASSUME IInv, FixedTag = {}, NEW s \in Runs, DrainBundleFails(s)
  PROVE  IInv'
<1>1. /\ pc[s] = "idle" /\ s \notin Loads /\ Fail(s)
      /\ faults' = faults + 1
      /\ store' \in {store, Put(store, Current(s), buffer[s])}
  BY DEF DrainBundleFails
<1>2. faults' \in Nat
  BY <1>1 DEF IInv, TypeOK
<1>3. CASE store' = store
  BY <1>1, <1>2, <1>3, FailInv
<1>4. CASE store' = Put(store, Current(s), buffer[s])
  <2>1. /\ Grows
        /\ \A t \in Runs \ {s} : GrowsFor(t)
        /\ DOMAIN store' = DOMAIN store \cup {Current(s)}
        /\ ObjectsTrue'
        /\ DOMAIN store' \subseteq Names
        /\ \A n \in DOMAIN store' : store'[n] \in Seq(Payloads)
    BY <1>1, <1>4, PutBundle
  <2>2. Abandon(s) /\ raw' = raw /\ stray' \in SUBSET Payloads
    BY <1>1 DEF Fail, IInv, TypeOK
  <2>3. TypeOK'
    BY <1>2, <2>1, <2>2, AbandonType
  <2>4. RowsResolve'
    BY <2>1, <2>2, CommittedStay
  <2>5. \A n \in DOMAIN store' \ DOMAIN store : s \notin Loads => n = Current(s)
    BY <2>1
  <2>6. \A t \in Runs : JobOK(t)'
    BY <2>1, <2>2, <2>5, AbandonedOK, AbandonOthers
  <2>. QED BY <2>1, <2>3, <2>4, <2>6 DEF IInv
<1>. QED BY <1>1, <1>3, <1>4

LEMMA DrainPoolInv ==
  ASSUME IInv, FixedTag = {}, NEW s \in Runs, DrainPool(s)
  PROVE  IInv'
<1>1. /\ pc[s] = "idle" /\ s \in Loads /\ inflight[s] = {}
      /\ store' = store /\ faults' = faults
  BY DEF DrainPool, PoolSettled
<1>2. CASE broken[s]
  <2>1. Fail(s)
    BY <1>2 DEF DrainPool
  <2>. QED BY <1>1, <2>1, FailInv DEF IInv, TypeOK
<1>3. CASE ~broken[s]
  <2>1. /\ pc' = [pc EXCEPT ![s] = "drained"] /\ raw' = raw
        /\ UNCHANGED <<run, outcome, part, buffer, inflight, broken, stray, tx, left,
                       quarantined>>
    BY <1>3 DEF DrainPool, working
  <2>2. TypeOK'
    BY <1>1, <2>1 DEF IInv, TypeOK
  <2>3. RowsResolve' /\ ObjectsTrue'
    BY <1>1, <2>1 DEF IInv, RowsResolve, ObjectsTrue
  <2>4. \A t \in Runs \ {s} : Untouched(t)
    BY <2>1 DEF Untouched, IInv, TypeOK
  <2>5. \A t \in Runs \ {s} : JobOK(t)'
    BY <1>1, <2>4, StoreSame, Bystander
  <2>6. JobOK(s) /\ broken[s] = FALSE /\ pc'[s] = "drained"
    BY <1>3, <2>1 DEF IInv, TypeOK
  <2>7. \A row \in tx'[s] : OnTheWay(s, row)'
    BY <1>1, <2>1, <2>6 DEF JobOK, OnTheWay
  <2>8. Numbered(s)' /\ Settled(s)' /\ Idle(s)'
    BY <1>1, <2>1, <2>6 DEF JobOK, Numbered, Settled, Idle
  <2>9. JobOK(s)'
    BY <1>1, <2>7, <2>8 DEF JobOK
  <2>. QED BY <2>2, <2>3, <2>5, <2>9 DEF IInv
<1>. QED BY <1>2, <1>3

(* What a drained run publishes reads back.                                   *)
LEMMA PublishedResolve ==
  ASSUME IInv, NEW s \in Runs, pc[s] = "drained", Publish(s)
  PROVE  RowsResolve' /\ raw' \subseteq Rows
<1>1. JobOK(s) /\ tx[s] \subseteq Rows /\ raw' = raw \cup tx[s] /\ store' = store
  BY DEF IInv, TypeOK, Publish
<1>2. ASSUME NEW row \in tx[s] PROVE Get(store, row.key) = row.hash
  <2>1. OnTheWay(s, row) /\ Settled(s) /\ row.hash \in Payloads
    BY <1>1 DEF JobOK, Rows
  <2>2. CASE s \in Loads
    <3>1. row.key = PlainKey(row.hash) /\ ObjectName(row.hash) \in DOMAIN store
      BY <2>1, <2>2 DEF OnTheWay, Settled
    <3>2. store[ObjectName(row.hash)] = <<row.hash>>
      BY <2>1, <3>1 DEF IInv, ObjectsTrue
    <3>. QED BY <3>1, <3>2 DEF PlainKey, RecordKey, Get
  <2>3. CASE s \notin Loads
    BY <2>1, <2>3 DEF OnTheWay, Settled
  <2>. QED BY <2>2, <2>3
<1>. QED BY <1>1, <1>2 DEF IInv, TypeOK, RowsResolve

LEMMA CommitInv ==
  ASSUME IInv, NEW s \in Runs, Commit(s)
  PROVE  IInv'
<1>1. /\ pc[s] = "drained" /\ Publish(s) /\ store' = store
      /\ tx' = [tx EXCEPT ![s] = {}]
      /\ pc' = [pc EXCEPT ![s] = "idle"]
      /\ UNCHANGED <<run, outcome, part, buffer, inflight, broken, stray, left,
                     quarantined, faults>>
  BY DEF Commit, Publish
<1>2. RowsResolve' /\ raw' \subseteq Rows
  BY <1>1, PublishedResolve
<1>3. TypeOK'
  BY <1>1, <1>2 DEF IInv, TypeOK
<1>4. \A t \in Runs \ {s} : Untouched(t)
  BY <1>1 DEF Untouched, IInv, TypeOK
<1>5. \A t \in Runs \ {s} : JobOK(t)'
  BY <1>1, <1>4, StoreSame, Bystander
<1>6. JobOK(s)'
  <2>1. JobOK(s) /\ pc'[s] = "idle" /\ tx'[s] = {}
    BY <1>1 DEF IInv, TypeOK
  <2>. QED BY <1>1, <2>1 DEF JobOK, Numbered, Settled, Idle, Fresh
<1>. QED BY <1>1, <1>2, <1>3, <1>5, <1>6 DEF IInv, ObjectsTrue

LEMMA FinishRunInv ==
  ASSUME IInv, NEW s \in Runs, FinishRun(s)
  PROVE  IInv'
<1>1. /\ pc[s] = "drained" /\ Publish(s) /\ store' = store
      /\ tx' = [tx EXCEPT ![s] = {}]
      /\ pc' = [pc EXCEPT ![s] = "off"]
      /\ outcome' \in [Runs -> {"never", "running", "success", "partial", "failed"}]
      /\ UNCHANGED <<run, part, buffer, inflight, broken, stray, left, quarantined, faults>>
  BY DEF FinishRun, Publish, IInv, TypeOK
<1>2. RowsResolve' /\ raw' \subseteq Rows
  BY <1>1, PublishedResolve
<1>3. TypeOK'
  BY <1>1, <1>2 DEF IInv, TypeOK
<1>4. \A t \in Runs \ {s} : Untouched(t)
  BY <1>1 DEF Untouched, IInv, TypeOK
<1>5. \A t \in Runs \ {s} : JobOK(t)'
  BY <1>1, <1>4, StoreSame, Bystander
<1>6. JobOK(s)'
  <2>1. JobOK(s) /\ pc'[s] = "off" /\ tx'[s] = {}
    BY <1>1 DEF IInv, TypeOK
  <2>. QED BY <1>1, <2>1 DEF JobOK, Numbered, Settled, Idle, Fresh
<1>. QED BY <1>1, <1>2, <1>3, <1>5, <1>6 DEF IInv, ObjectsTrue

------------------------------------------------------------------------------
(* The invariant holds at first and every step keeps it.                      *)
LEMMA InitInv ==
  Init => IInv
<1>. SUFFICES ASSUME Init PROVE IInv
  OBVIOUS
<1>1. TypeOK
  <2>1. << >> \in Seq(Payloads)
    OBVIOUS
  <2>. QED BY <2>1 DEF Init, TypeOK
<1>2. RowsResolve /\ ObjectsTrue
  BY DEF Init, RowsResolve, ObjectsTrue
<1>3. \A s \in Runs : JobOK(s)
  BY LandingAssumption DEF Init, JobOK, Numbered, Fresh, Settled, Idle, LandingAssumption
<1>. QED BY <1>1, <1>2, <1>3 DEF IInv

LEMMA NextInv ==
  ASSUME FixedTag = {}
  PROVE  IInv /\ [Next]_vars => IInv'
<1>. SUFFICES ASSUME IInv, [Next]_vars PROVE IInv'
  OBVIOUS
<1>1. ASSUME NEW s \in Runs, StartRun(s) PROVE IInv'
  BY <1>1, StartRunInv
<1>2. ASSUME NEW s \in Runs, Work(s) PROVE IInv'
  <2>1. CASE SkipRecord(s)    BY <2>1, SkipRecordInv
  <2>2. CASE Land(s)          BY <2>2, LandInv
  <2>3. CASE Quarantine(s)    BY <2>3, QuarantineInv
  <2>4. CASE DrainBundle(s)   BY <2>4, DrainBundleInv
  <2>5. CASE DrainPool(s)     BY <2>5, DrainPoolInv
  <2>6. CASE Commit(s)        BY <2>6, CommitInv
  <2>7. CASE FinishRun(s)     BY <2>7, FinishRunInv
  <2>. QED BY <1>2, <2>1, <2>2, <2>3, <2>4, <2>5, <2>6, <2>7 DEF Work
<1>3. ASSUME NEW s \in Runs, PoolWrite(s) PROVE IInv'
  BY <1>3, PoolWriteInv
<1>4. ASSUME NEW s \in Runs, DrainBundleFails(s) PROVE IInv'
  BY <1>4, DrainBundleFailsInv
<1>5. ASSUME NEW s \in Runs, Crash(s) PROVE IInv'
  BY <1>5, CrashInv
<1>8. ASSUME NEW s \in Runs, Interrupted(s) PROVE IInv'
  <2>1. Fail(s) /\ store' = store /\ faults' \in Nat
    BY <1>8 DEF Interrupted, IInv, TypeOK
  <2>. QED BY <2>1, FailInv
<1>6. CASE StrayWrite
  BY <1>6, StrayWriteInv
<1>7. CASE UNCHANGED vars
  <2>1. UNCHANGED <<store, raw, pc, run, outcome, part, buffer, inflight, broken, stray,
                    tx, left, quarantined, faults>>
    BY <1>7 DEF vars, stored, working, control
  <2>2. TypeOK' /\ RowsResolve' /\ ObjectsTrue'
    BY <2>1 DEF IInv, TypeOK, RowsResolve, ObjectsTrue
  <2>3. \A t \in Runs : Untouched(t)
    BY <2>1 DEF Untouched
  <2>. QED BY <2>1, <2>2, <2>3, StoreSame, Bystander DEF IInv
<1>. QED BY <1>1, <1>2, <1>3, <1>4, <1>5, <1>6, <1>7, <1>8 DEF Next

LEMMA Invariant ==
  ASSUME FixedTag = {}
  PROVE  Spec => []IInv
<1>. QED BY InitInv, NextInv, PTL DEF Spec

(* Every committed row of raw_ingest reads back the payload it was recorded   *)
(* for, at every moment: through writes that fail or are done and reported    *)
(* as failed, crashes between a drain and its commit, pools that outlive      *)
(* their run, and runs of other jobs in between (`_store_raw`, `_checkpoint`, *)
(* `_pulled`, BundleWriter, BufferedWriter).                                  *)
THEOREM RowsAlwaysResolve ==
  ASSUME FixedTag = {}
  PROVE  Spec => []RowsResolve
<1>1. IInv => RowsResolve
  BY DEF IInv
<1>. QED BY <1>1, Invariant, PTL

(* The index only grows.                                                      *)
LEMMA RawGrows ==
  [Next]_vars => raw \subseteq raw'
<1>. SUFFICES ASSUME [Next]_vars PROVE raw \subseteq raw'
  OBVIOUS
<1>1. ASSUME NEW s \in Runs,
             \/ StartRun(s) \/ PoolWrite(s)
             \/ DrainBundleFails(s) \/ Interrupted(s) \/ Crash(s)
      PROVE  raw \subseteq raw'
  BY <1>1 DEF StartRun, PoolWrite, DrainBundleFails, Interrupted, Crash, Fail, stored
<1>2. ASSUME NEW s \in Runs, Work(s)
      PROVE  raw \subseteq raw'
  BY <1>2 DEF Work, SkipRecord, Land, Quarantine, DrainBundle, DrainPool, Commit,
              FinishRun, Publish, Fail, stored
<1>3. CASE StrayWrite \/ UNCHANGED vars
  BY <1>3 DEF StrayWrite, vars, stored
<1>. QED BY <1>1, <1>2, <1>3 DEF Next

(* What a committed row points at is never written again with anything else:  *)
(* no run, retry or second run of the same day takes a name that is taken     *)
(* (BundleWriter: "each run gets its own name").                              *)
THEOREM PayloadsWrittenOnce ==
  ASSUME FixedTag = {}
  PROVE  Spec => WrittenOnce
<1>1. RowsResolve /\ RowsResolve' /\ [Next]_vars => [WrittenOnceStep]_vars
  BY RawGrows DEF RowsResolve, WrittenOnceStep
<1>. QED BY <1>1, RowsAlwaysResolve, PTL DEF Spec, WrittenOnce

------------------------------------------------------------------------------
(* What a run has passed over is indexed, or quarantined and counted.         *)

Indexed(s, rows, p) == \E row \in rows : row.hash = p /\ RowSource[row.id] = Source[s]

LEMMA IndexedHashes ==
  ASSUME NEW s, NEW rows, NEW p
  PROVE  p \in HashesOf(s, rows) <=> Indexed(s, rows, p)
BY DEF HashesOf, Indexed

Accounted(s) ==
  /\ pc[s] # "off" => outcome[s] = "running"
  /\ pc[s] # "off" /\ quarantined[s] = 0 =>
       \A p \in (Delivers[s] \ Malformed) \ left[s] : Indexed(s, raw \cup tx[s], p)
  /\ outcome[s] = "success" => \A p \in Delivers[s] \ Malformed : Indexed(s, raw, p)

(* A step that leaves a job alone, or only adds to the index, keeps it so.    *)
LEMMA AccountedStays ==
  ASSUME NEW s \in Runs, Accounted(s), raw \subseteq raw', tx[s] \subseteq tx'[s] \cup raw',
         pc'[s] # "off" => pc[s] # "off" /\ quarantined'[s] = quarantined[s],
         \A p \in left[s] \ (left'[s] \cup Malformed) : Indexed(s, raw' \cup tx'[s], p),
         outcome'[s] = outcome[s]
  PROVE  Accounted(s)'
<1>1. \A p : Indexed(s, raw, p) => Indexed(s, raw', p)
  BY DEF Indexed
<1>2. \A p : Indexed(s, raw \cup tx[s], p) => Indexed(s, raw' \cup tx'[s], p)
  BY DEF Indexed
<1>. QED BY <1>1, <1>2 DEF Accounted

LEMMA AccountedSkip ==
  ASSUME IInv, NEW s \in Runs, Accounted(s), SkipRecord(s)
  PROVE  Accounted(s)'
<1>1. PICK p \in left[s] : (p \in Malformed \/ ~Lands(s, p)) /\ Taken(s, p)
  BY DEF SkipRecord
<1>2. left'[s] = left[s] \ {p}
  BY <1>1 DEF Taken, IInv, TypeOK
<1>3. p \in Malformed \/ Indexed(s, raw \cup tx[s], p)
  BY <1>1, IndexedHashes DEF Lands
<1>4. UNCHANGED <<raw, tx, pc, outcome, quarantined>>
  BY DEF SkipRecord, stored, control
<1>. QED BY <1>2, <1>3, <1>4, AccountedStays

LEMMA AccountedLand ==
  ASSUME IInv, NEW s \in Runs, Accounted(s), Land(s)
  PROVE  Accounted(s)'
<1>1. PICK p \in left[s] :
        /\ Taken(s, p)
        /\ tx' = [tx EXCEPT ![s] = @ \cup {Row(RowId(s, run[s], p), p, KeyFor(s, p))}]
  BY DEF Land
<1>. DEFINE new == Row(RowId(s, run[s], p), p, KeyFor(s, p))
<1>2. left'[s] = left[s] \ {p} /\ tx'[s] = tx[s] \cup {new}
  BY <1>1 DEF Taken, IInv, TypeOK
<1>3. UNCHANGED <<raw, pc, outcome, quarantined>>
  BY DEF Land, control
<1>4. Indexed(s, raw' \cup tx'[s], p)
  <2>1. new \in tx'[s] /\ new.hash = p /\ new.id = RowId(s, run[s], p)
    BY <1>2 DEF Row
  <2>2. run[s] \in 1..MaxRuns /\ p \in Payloads
    <3>1. pc[s] = "idle" /\ JobOK(s) /\ p \in Payloads
      BY DEF Land, IInv, TypeOK
    <3>. QED BY <3>1, LandingAssumption DEF JobOK, Numbered, IInv, TypeOK, LandingAssumption
  <2>3. RowSource[new.id] = Source[s]
    BY <2>1, <2>2, LandingAssumption DEF LandingAssumption
  <2>. QED BY <2>1, <2>3 DEF Indexed
<1>5. raw \subseteq raw' /\ tx[s] \subseteq tx'[s] \cup raw'
  BY <1>2, <1>3
<1>. QED BY <1>2, <1>3, <1>4, <1>5, AccountedStays

LEMMA AccountedAbandon ==
  ASSUME IInv, NEW s \in Runs, Abandon(s)
  PROVE  Accounted(s)'
<1>1. pc'[s] = "off" /\ outcome'[s] = "failed"
  BY DEF Abandon, IInv, TypeOK
<1>. QED BY <1>1 DEF Accounted

LEMMA AccountedQuarantine ==
  ASSUME IInv, NEW s \in Runs, Accounted(s), Quarantine(s)
  PROVE  Accounted(s)'
<1>1. CASE s \notin Loads /\ quarantined[s] < MaxQuarantined
  <2>1. quarantined'[s] = quarantined[s] + 1 /\ UNCHANGED <<raw, pc, outcome>>
    BY <1>1 DEF Quarantine, control, IInv, TypeOK
  <2>2. quarantined'[s] # 0
    BY <2>1 DEF IInv, TypeOK
  <2>. QED BY <2>1, <2>2 DEF Accounted
<1>2. CASE ~(s \notin Loads /\ quarantined[s] < MaxQuarantined)
  BY <1>2, AccountedAbandon DEF Quarantine, Fail
<1>. QED BY <1>1, <1>2

LEMMA AccountedDrain ==
  ASSUME IInv, NEW s \in Runs, Accounted(s), DrainBundle(s) \/ DrainPool(s)
  PROVE  Accounted(s)'
<1>1. CASE DrainPool(s) /\ broken[s]
  BY <1>1, AccountedAbandon DEF DrainPool, Fail
<1>2. CASE ~(DrainPool(s) /\ broken[s])
  <2>1. UNCHANGED <<raw, tx, outcome, left, quarantined>> /\ pc[s] = "idle"
    BY <1>2 DEF DrainBundle, DrainPool, working
  <2>. QED BY <2>1, AccountedStays
<1>. QED BY <1>1, <1>2

LEMMA AccountedPublish ==
  ASSUME IInv, NEW s \in Runs, Accounted(s), Commit(s) \/ FinishRun(s)
  PROVE  Accounted(s)'
<1>1. /\ raw' = raw \cup tx[s] /\ tx'[s] = {} /\ pc[s] = "drained"
      /\ left' = left /\ quarantined' = quarantined
  BY DEF Commit, FinishRun, Publish, IInv, TypeOK
<1>2. CASE Commit(s)
  <2>1. outcome' = outcome /\ raw' \cup tx'[s] = raw \cup tx[s] /\ raw \subseteq raw'
    BY <1>1, <1>2 DEF Commit
  <2>. QED BY <1>1, <2>1, AccountedStays
<1>3. CASE FinishRun(s)
  <2>1. /\ pc'[s] = "off" /\ left[s] = {}
        /\ outcome'[s] = "success" => quarantined[s] = 0
    BY <1>3 DEF FinishRun, IInv, TypeOK
  <2>2. outcome'[s] = "success" => \A p \in Delivers[s] \ Malformed : Indexed(s, raw', p)
    BY <1>1, <2>1 DEF Accounted
  <2>. QED BY <2>1, <2>2 DEF Accounted
<1>. QED BY <1>2, <1>3

LEMMA AccountedStart ==
  ASSUME IInv, NEW s \in Runs, Accounted(s), StartRun(s)
  PROVE  Accounted(s)'
<1>1. /\ outcome'[s] = "running" /\ raw' = raw
      /\ left'[s] = IF s \in Loads \ Refreshes THEN Delivers[s] \ AlreadyIngested(s)
                                               ELSE Delivers[s]
  BY DEF StartRun, stored, IInv, TypeOK
<1>2. \A p \in AlreadyIngested(s) : Indexed(s, raw' \cup tx'[s], p)
  BY <1>1, IndexedHashes DEF AlreadyIngested, Indexed
<1>. QED BY <1>1, <1>2 DEF Accounted

LEMMA AccountedInv ==
  ASSUME IInv, [Next]_vars, \A s \in Runs : Accounted(s), NEW s \in Runs
  PROVE  Accounted(s)'
<1>1. raw \subseteq raw'
  BY RawGrows
<1>2. ASSUME NEW t \in Runs \ {s}, StartRun(t) \/ Work(t) \/ PoolWrite(t) \/
                                   DrainBundleFails(t) \/ Interrupted(t) \/ Crash(t)
      PROVE  Accounted(s)'
  <2>1. UNCHANGED <<pc[s], outcome[s], quarantined[s], left[s], tx[s]>>
    BY <1>2 DEF StartRun, Work, PoolWrite, DrainBundleFails, Interrupted, Crash, Fail, Abandon,
                SkipRecord, Land, Quarantine, DrainBundle, DrainPool, Commit, FinishRun,
                Publish, Taken, control, stored, working, IInv, TypeOK
  <2>. QED BY <1>1, <2>1, AccountedStays
<1>3. CASE StrayWrite \/ UNCHANGED vars \/ PoolWrite(s)
  <2>1. UNCHANGED <<pc, outcome, quarantined, left, tx>>
    BY <1>3 DEF StrayWrite, PoolWrite, vars, control, working
  <2>. QED BY <1>1, <2>1, AccountedStays
<1>4. CASE DrainBundleFails(s) \/ Interrupted(s) \/ Crash(s)
  BY <1>4, AccountedAbandon DEF DrainBundleFails, Interrupted, Crash, Fail
<1>5. CASE StartRun(s)
  BY <1>5, AccountedStart
<1>6. CASE Work(s)
  BY <1>6, AccountedSkip, AccountedLand, AccountedQuarantine, AccountedDrain,
     AccountedPublish DEF Work
<1>. QED BY <1>2, <1>3, <1>4, <1>5, <1>6 DEF Next

(* A run that ends in `success` has every readable record of its source       *)
(* indexed for that source, whatever failed, was rolled back or was skipped as*)
(* held in runs before it.                                                    *)
THEOREM SuccessIsComplete ==
  ASSUME FixedTag = {}
  PROVE  Spec => []SuccessIndexesAll
<1>1. Init => \A s \in Runs : Accounted(s)
  BY DEF Init, Accounted
<1>2. IInv /\ [Next]_vars /\ (\A s \in Runs : Accounted(s)) => (\A s \in Runs : Accounted(s))'
  BY AccountedInv
<1>3. (\A s \in Runs : Accounted(s)) => SuccessIndexesAll
  BY IndexedHashes DEF Accounted, SuccessIndexesAll
<1>. QED BY <1>1, <1>2, <1>3, Invariant, PTL DEF Spec

------------------------------------------------------------------------------
(* Part 2. Compaction, by one compactor at a time.                            *)

(* Two at once are not safe: with chunks of different sizes they give         *)
(* different bundles one name.                                                *)
OneCompactor == \A c, d \in Compactors : c = d

(* Ids are a primary key; a plain object is its own only line.                *)
Listed(rows) ==
  /\ IsFiniteSet(rows)
  /\ \A row \in rows :
       /\ row = Row(row.id, row.hash, RecordKey(row.key.name, row.key.line))
       /\ row.id \in Nat /\ row.hash \in Payloads /\ row.key.line \in Nat \ {0}
       /\ IsPlain(row.key) => row.key.line = 1
  /\ \A a, b \in rows : a.id = b.id => a = b

(* The bundle a row points at is named by a row that is in a bundle itself:   *)
(* the name of the next chunk is that of a row on a plain key, so it is free. *)
Moved(rows) ==
  \A row \in rows : row.key.name.kind = "compact" =>
    \E r \in rows : row.key.name = CompactBundle(r.id) /\ ~IsPlain(r.key)

(* The job has its fields, and its keys are plain objects.                    *)
KeysOK(j) ==
  /\ DOMAIN j = DOMAIN NoJob
  /\ j.keys \in Seq(ToSet(j.keys))
  /\ \A name \in ToSet(j.keys) : name.kind = "object"

(* While a chunk is in hand, the row that names its bundle is on its own key. *)
FirstIsPlain(rows, j) ==
  \E row \in rows : row.id = j.first /\ IsPlain(row.key) /\ row.key.name \in ToSet(j.keys)

Unreferenced(rows, names) ==
  \A row \in rows : IsPlain(row.key) => row.key.name \notin names

Lines(j) == [i \in DOMAIN j.keys |-> j.hash[j.keys[i]]]

ChunkOK(o, rows, j, t) ==
  /\ KeysOK(j)
  /\ t \in {"read", "write", "verify", "point", "repoint"} =>
       /\ FirstIsPlain(rows, j)
       /\ \A name \in ToSet(j.keys) : j.hash[name] \in Payloads
  /\ t \in {"write", "verify", "point", "repoint"} =>
       \A name \in ToSet(j.keys) : Get(o, RecordKey(name, 1)) = j.hash[name]
  /\ t = "write" => j.read = Lines(j)
  /\ t \in {"verify", "point", "repoint"} =>
       Bundle(j) \in DOMAIN o /\ o[Bundle(j)] = Lines(j)
  /\ t = "repoint" =>
       /\ \A x \in j.ids : \E row \in rows :
            IsPlain(row.key) /\ row.key.name \in ToSet(j.keys) /\ x = <<row.id, row.key.name>>
       /\ \E name \in ToSet(j.keys) : <<j.first, name>> \in j.ids
  /\ t \in {"drop", "delete"} => Unreferenced(rows, ToSet(j.keys))

CInv ==
  /\ CompactionTypeOK
  /\ IsFiniteSet(pending)
  /\ job = [c \in Compactors |-> job[c]]
  /\ Listed(raw)
  /\ Moved(raw)
  /\ \A c \in Compactors : ChunkOK(store, raw, job[c], step[c])

------------------------------------------------------------------------------
(* The operators the model is built from.                                     *)

LEMMA PutReads ==
  ASSUME NEW o, NEW name, NEW lines, NEW key, key.name # name
  PROVE  Get(Put(o, name, lines), key) = Get(o, key)
  BY DEF Get, Put

LEMMA WithoutReads ==
  ASSUME NEW o, NEW names, NEW key, key.name \notin names
  PROVE  Get(Without(o, names), key) = Get(o, key)
  BY DEF Get, Without

(* A finite set as a sequence: the elements of the set, all of them.          *)
LEMMA SetToSeqLists ==
  ASSUME NEW S, IsFiniteSet(S)
  PROVE  ToSet(SetToSeq(S)) = S /\ SetToSeq(S) \in Seq(S)
<1>. DEFINE n == Cardinality(S)
            f == SetToSeq(S)
<1>1. n \in Nat /\ Bijection(1..n, S) # {}
  BY FS_CardinalityType DEF ExistsBijection
<1>2. \E g \in [1..n -> S] : IsInjective(g)
  BY <1>1 DEF Bijection, Injection
<1>3. f \in [1..n -> S] /\ IsInjective(f)
  BY <1>2 DEF SetToSeq
<1>4. f \in Injection(1..n, S)
  BY <1>3 DEF Injection
<1>5. IsFiniteSet(1..n) /\ Cardinality(1..n) = n
  BY <1>1, FS_Interval
<1>6. f \in Surjection(1..n, S)
  BY <1>4, <1>5, FS_Injection
<1>7. ToSet(f) = S
  BY <1>3, <1>6 DEF ToSet, Surjection
<1>. QED BY <1>1, <1>3, <1>7

LEMMA NamesFinite ==
  ASSUME NEW rows, IsFiniteSet(rows)
  PROVE  IsFiniteSet(NamesOf(rows))
<1>. DEFINE f == [row \in rows |-> row.key.name]
<1>1. f \in Surjection(rows, NamesOf(rows))
  BY DEF Surjection, NamesOf
<1>. QED BY <1>1, FS_Surjection

(* The order of a chunk's keys has them all.                                  *)
LEMMA OrdersList ==
  ASSUME NEW rows, IsFiniteSet(rows), NEW keys \in Orders(rows)
  PROVE  ToSet(keys) = NamesOf(rows) /\ keys \in Seq(NamesOf(rows)) /\ keys \in Seq(ToSet(keys))
<1>. DEFINE n == Cardinality(NamesOf(rows))
<1>1. n \in Nat
  BY NamesFinite, FS_CardinalityType
<1>2. keys \in [1..n -> NamesOf(rows)] /\ keys \in Surjection(1..n, NamesOf(rows))
  BY DEF Orders, Bijection, Injection
<1>3. ToSet(keys) = NamesOf(rows)
  BY <1>2 DEF ToSet, Surjection
<1>. QED BY <1>1, <1>2, <1>3

(* A chunk is of rows on plain keys.                                          *)
LEMMA ChunkPlain ==
  ASSUME NEW after, NEW avoid, NEW size
  PROVE  Chunk(after, avoid, size) \subseteq PlainRows
  BY DEF Chunk, Candidates

(* Where no key has two hashes, every row has the one expected of its key.    *)
LEMMA ExpectedHash ==
  ASSUME NEW rows, ~TwoHashes(rows), \A row \in rows : row.hash \in Payloads,
         NEW name \in NamesOf(rows)
  PROVE  Expected(rows)[name] \in Payloads
  BY DEF NamesOf, TwoHashes

LEMMA LineOfKey ==
  ASSUME NEW j, NEW name \in ToSet(j.keys)
  PROVE  LineOf(j, name) \in DOMAIN j.keys /\ j.keys[LineOf(j, name)] = name
<1>1. \E i \in DOMAIN j.keys : j.keys[i] = name
  BY DEF ToSet
<1>. QED BY <1>1 DEF LineOf

LEMMA PlainKeys ==
  ASSUME NEW name, NEW line
  PROVE  RecordKey(name, line).name = name /\ RecordKey(name, line).line = line
  BY DEF RecordKey

LEMMA BundleKind ==
  ASSUME NEW j
  PROVE  Bundle(j).kind = "compact"
  BY DEF Bundle, CompactBundle, Name

------------------------------------------------------------------------------
(* What a step has to show.                                                   *)

LEMMA StepKeeps ==
  ASSUME CInv, OneCompactor, NEW c \in Compactors, NEW j, NEW t \in Steps,
         job' = [job EXCEPT ![c] = j], step' = [step EXCEPT ![c] = t],
         \A n \in DOMAIN store' : store'[n] \in Seq(Payloads),
         \A name \in pending' : name.kind = "object", IsFiniteSet(pending'),
         Listed(raw'), Moved(raw'), breaks' \in 0..MaxBreaks,
         ChunkOK(store', raw', j, t)
  PROVE  CInv'
<1>1. \A d \in Compactors : d = c
  BY DEF OneCompactor
<1>2. step \in [Compactors -> Steps] /\ job = [d \in Compactors |-> job[d]]
  BY DEF CInv, CompactionTypeOK
<1>3. step' \in [Compactors -> Steps] /\ job' = [d \in Compactors |-> job'[d]]
  BY <1>2
<1>4. job'[c] = j /\ step'[c] = t
  BY <1>2
<1>5. CompactionTypeOK'
  BY <1>3 DEF CompactionTypeOK, Listed
<1>. QED BY <1>1, <1>3, <1>4, <1>5 DEF CInv

(* A step that only looks: the store and the index are as they were.          *)
LEMMA LooksOnly ==
  ASSUME CInv, OneCompactor, NEW c \in Compactors, NEW j, NEW t \in Steps,
         job' = [job EXCEPT ![c] = j], step' = [step EXCEPT ![c] = t],
         UNCHANGED stored, pending' \subseteq pending, breaks' \in 0..MaxBreaks,
         ChunkOK(store, raw, j, t)
  PROVE  CInv'
<1>1. store' = store /\ raw' = raw
  BY DEF stored
<1>2. IsFiniteSet(pending') /\ \A name \in pending' : name.kind = "object"
  BY FS_Subset DEF CInv, CompactionTypeOK
<1>3. /\ \A n \in DOMAIN store' : store'[n] \in Seq(Payloads)
      /\ Listed(raw') /\ Moved(raw') /\ ChunkOK(store', raw', j, t)
  BY <1>1 DEF CInv, CompactionTypeOK
<1>. QED BY <1>2, <1>3, StepKeeps

(* The job is left as it is.                                                  *)
LEMMA SameJob ==
  ASSUME CInv, NEW c \in Compactors, job' = job
  PROVE  job' = [job EXCEPT ![c] = job[c]]
  BY DEF CInv

LEMMA StoppedOK ==
  ASSUME NEW o, NEW rows
  PROVE  ChunkOK(o, rows, NoJob, "off")
<1>1. DOMAIN NoJob.keys = {} /\ NoJob.keys \in Seq({})
  BY DEF NoJob
<1>. QED BY <1>1 DEF ChunkOK, KeysOK, ToSet

LEMMA StopInv ==
  ASSUME CInv, OneCompactor, NEW c \in Compactors, Stop(c), UNCHANGED stored,
         pending' \subseteq pending, breaks' \in 0..MaxBreaks
  PROVE  CInv'
<1>1. job' = [job EXCEPT ![c] = NoJob] /\ step' = [step EXCEPT ![c] = "off"] /\ "off" \in Steps
  BY DEF Stop, Goes, Steps
<1>. QED BY <1>1, StoppedOK, LooksOnly

LEMMA BreaksType ==
  ASSUME CInv
  PROVE  breaks \in 0..MaxBreaks /\ MaxBreaks \in Nat
  BY CompactionAssumption DEF CInv, CompactionTypeOK, CompactionAssumption

------------------------------------------------------------------------------
(* One lemma per step.                                                        *)

LEMMA StartInv ==
  ASSUME CInv, OneCompactor, NEW c \in Compactors, Start(c)
  PROVE  CInv'
<1>1. PICK size \in Sizes, keep \in BOOLEAN :
        job' = [job EXCEPT ![c] =
          [NoJob EXCEPT !.size = size, !.keep = keep, !.keys = SetToSeq(pending)]]
  BY DEF Start
<1>. DEFINE j == [NoJob EXCEPT !.size = size, !.keep = keep, !.keys = SetToSeq(pending)]
            t == IF pending = {} THEN "skip" ELSE "drain"
<1>2. step' = [step EXCEPT ![c] = t] /\ t \in Steps /\ UNCHANGED <<stored, pending, breaks>>
  BY DEF Start, Goes, Steps
<1>3. j.keys = SetToSeq(pending) /\ DOMAIN j = DOMAIN NoJob
  BY DEF NoJob
<1>4. KeysOK(j)
  BY <1>3, SetToSeqLists DEF CInv, CompactionTypeOK, KeysOK
<1>5. ChunkOK(store, raw, j, t)
  BY <1>4 DEF ChunkOK
<1>. QED BY <1>1, <1>2, <1>5, BreaksType, LooksOnly

LEMMA DrainCheckInv ==
  ASSUME CInv, OneCompactor, NEW c \in Compactors, DrainCheck(c)
  PROVE  CInv'
<1>. DEFINE safe == ToSet(job[c].keys) \ StillReferenced(ToSet(job[c].keys))
            j == [job[c] EXCEPT !.keys = SetToSeq(safe)]
<1>1. /\ job' = [job EXCEPT ![c] = j] /\ step' = [step EXCEPT ![c] = "drop"]
      /\ "drop" \in Steps /\ UNCHANGED <<stored, pending, breaks>>
  BY DEF DrainCheck, Goes, Steps
<1>2. KeysOK(job[c]) /\ DOMAIN NoJob = DOMAIN job[c] /\ "keys" \in DOMAIN NoJob
  BY DEF CInv, ChunkOK, KeysOK, NoJob
<1>3. IsFiniteSet(safe)
  <2>. DEFINE k == job[c].keys
  <2>1. k \in Seq(ToSet(k))
    BY <1>2 DEF KeysOK
  <2>2. k \in Surjection(1..Len(k), ToSet(k)) /\ IsFiniteSet(1..Len(k))
    BY <2>1, FS_Interval DEF ToSet, Surjection
  <2>3. IsFiniteSet(ToSet(k))
    BY <2>2, FS_Surjection
  <2>. QED BY <2>3, FS_Subset
<1>4. j.keys = SetToSeq(safe) /\ DOMAIN j = DOMAIN NoJob
  BY <1>2
<1>5. KeysOK(j) /\ ToSet(j.keys) = safe
  BY <1>2, <1>3, <1>4, SetToSeqLists DEF KeysOK
<1>6. Unreferenced(raw, safe)
  BY DEF Unreferenced, StillReferenced, PlainRows
<1>7. ChunkOK(store, raw, j, "drop")
  BY <1>5, <1>6 DEF ChunkOK
<1>. QED BY <1>1, <1>7, BreaksType, LooksOnly

(* Deleting what no row points at.                                            *)
LEMMA Deletes ==
  ASSUME CInv, NEW names, store' = Without(store, names)
  PROVE  \A n \in DOMAIN store' : store'[n] \in Seq(Payloads)
  BY DEF CInv, CompactionTypeOK, Without

LEMMA DeletesInv ==
  ASSUME CInv, OneCompactor, NEW c \in Compactors, NEW names, NEW t \in {"forget", "clear", "off"},
         NEW j, KeysOK(j), job' = [job EXCEPT ![c] = j], step' = [step EXCEPT ![c] = t],
         store' = Without(store, names), raw' = raw, pending' = pending,
         breaks' \in 0..MaxBreaks
  PROVE  CInv'
<1>1. ChunkOK(store', raw', j, t)
  BY DEF ChunkOK
<1>2. t \in Steps /\ Listed(raw') /\ Moved(raw') /\ IsFiniteSet(pending')
      /\ \A name \in pending' : name.kind = "object"
  BY DEF Steps, CInv, CompactionTypeOK
<1>3. \A n \in DOMAIN store' : store'[n] \in Seq(Payloads)
  BY Deletes
<1>. QED BY <1>1, <1>2, <1>3, StepKeeps

LEMMA DrainDeleteInv ==
  ASSUME CInv, OneCompactor, NEW c \in Compactors, DrainDelete(c)
  PROVE  CInv'
<1>1. KeysOK(job[c])
  BY DEF CInv, ChunkOK
<1>. QED BY <1>1, SameJob, BreaksType, DeletesInv DEF DrainDelete, Goes

LEMMA DeleteInv ==
  ASSUME CInv, OneCompactor, NEW c \in Compactors, Delete(c)
  PROVE  CInv'
<1>1. KeysOK(job[c])
  BY DEF CInv, ChunkOK
<1>. QED BY <1>1, SameJob, BreaksType, DeletesInv DEF Delete, Goes

LEMMA DrainClearInv ==
  ASSUME CInv, OneCompactor, NEW c \in Compactors, DrainClear(c)
  PROVE  CInv'
<1>1. ChunkOK(store, raw, job[c], "skip") /\ "skip" \in Steps
  BY DEF CInv, ChunkOK, Steps
<1>. QED BY <1>1, SameJob, BreaksType, LooksOnly DEF DrainClear, Goes

LEMMA SkipAmbiguousInv ==
  ASSUME CInv, OneCompactor, NEW c \in Compactors, SkipAmbiguous(c)
  PROVE  CInv'
<1>. DEFINE j == [job[c] EXCEPT !.avoid = Ambiguous]
<1>1. KeysOK(job[c]) /\ KeysOK(j)
  BY DEF CInv, ChunkOK, KeysOK, NoJob
<1>2. ChunkOK(store, raw, j, "next") /\ "next" \in Steps
  BY <1>1 DEF ChunkOK, Steps
<1>. QED BY <1>2, BreaksType, LooksOnly DEF SkipAmbiguous, Goes

LEMMA NextChunkInv ==
  ASSUME CInv, OneCompactor, NEW c \in Compactors, NextChunk(c)
  PROVE  CInv'
<1>. DEFINE rows == Chunk(job[c].after, job[c].avoid, job[c].size)
<1>1. CASE rows = {} \/ TwoHashes(rows)
  <2>1. Stop(c) /\ UNCHANGED <<stored, pending, breaks>>
    BY <1>1 DEF NextChunk
  <2>. QED BY <2>1, StopInv, BreaksType
<1>2. CASE ~(rows = {} \/ TwoHashes(rows))
  <2>1. PICK keys \in Orders(rows), first \in rows, last \in rows :
          /\ step' = [step EXCEPT ![c] = "read"]
          /\ job' = [job EXCEPT ![c] =
               [@ EXCEPT !.keys = keys, !.hash = Expected(rows),
                         !.first = first.id, !.last = last.id]]
    <3>1. \E keys \in Orders(rows), first, last \in rows :
            /\ \A row \in rows : first.id <= row.id /\ row.id <= last.id
            /\ Goes(c, "read")
            /\ job' = [job EXCEPT ![c] =
                 [@ EXCEPT !.keys = keys, !.hash = Expected(rows),
                           !.first = first.id, !.last = last.id]]
      BY <1>2 DEF NextChunk
    <3>. QED BY <3>1 DEF Goes
  <2>. DEFINE j == [job[c] EXCEPT !.keys = keys, !.hash = Expected(rows),
                                  !.first = first.id, !.last = last.id]
  <2>2. UNCHANGED <<stored, pending, breaks>> /\ "read" \in Steps
    BY DEF NextChunk, Steps
  <2>3. rows \subseteq raw /\ IsFiniteSet(rows) /\ \A row \in rows : IsPlain(row.key)
    BY ChunkPlain, FS_Subset DEF PlainRows, CInv, Listed
  <2>4. ToSet(keys) = NamesOf(rows) /\ keys \in Seq(ToSet(keys))
    BY <2>3, OrdersList
  <2>5. DOMAIN job[c] = DOMAIN NoJob
    BY DEF CInv, ChunkOK, KeysOK
  <2>6. /\ DOMAIN j = DOMAIN NoJob /\ j.keys = keys /\ j.hash = Expected(rows)
        /\ j.first = first.id
    BY <2>5 DEF NoJob
  <2>7. KeysOK(j)
    BY <2>3, <2>4, <2>6 DEF KeysOK, NamesOf, IsPlain
  <2>8. FirstIsPlain(raw, j)
    BY <2>3, <2>4, <2>6 DEF FirstIsPlain, NamesOf
  <2>9. \A name \in ToSet(j.keys) : j.hash[name] \in Payloads
    <3>1. \A row \in rows : row.hash \in Payloads
      BY <2>3 DEF CInv, Listed
    <3>. QED BY <1>2, <2>4, <2>6, <3>1, ExpectedHash
  <2>10. ChunkOK(store, raw, j, "read")
    BY <2>7, <2>8, <2>9 DEF ChunkOK
  <2>. QED BY <2>1, <2>2, <2>10, BreaksType, LooksOnly
<1>. QED BY <1>1, <1>2

LEMMA ReadOriginalsInv ==
  ASSUME CInv, OneCompactor, NEW c \in Compactors, ReadOriginals(c)
  PROVE  CInv'
<1>. DEFINE j     == job[c]
            found == [i \in DOMAIN j.keys |-> Get(store, RecordKey(j.keys[i], 1))]
<1>1. CASE ~(\A i \in DOMAIN j.keys : found[i] = j.hash[j.keys[i]])
  <2>1. Stop(c) /\ UNCHANGED <<stored, pending, breaks>>
    BY <1>1 DEF ReadOriginals
  <2>. QED BY <2>1, StopInv, BreaksType
<1>2. CASE \A i \in DOMAIN j.keys : found[i] = j.hash[j.keys[i]]
  <2>. DEFINE k == [j EXCEPT !.read = found]
  <2>1. /\ step' = [step EXCEPT ![c] = "write"] /\ job' = [job EXCEPT ![c] = k]
        /\ UNCHANGED <<stored, pending, breaks>> /\ "write" \in Steps
    BY <1>2 DEF ReadOriginals, Goes, Steps
  <2>2. ChunkOK(store, raw, j, "read")
    BY DEF CInv, ReadOriginals
  <2>3. /\ DOMAIN k = DOMAIN j /\ k.keys = j.keys /\ k.hash = j.hash /\ k.first = j.first
        /\ k.read = found
    BY <2>2 DEF ChunkOK, KeysOK, NoJob
  <2>4. found = Lines(k)
    BY <1>2, <2>3 DEF Lines
  <2>5. \A name \in ToSet(k.keys) : Get(store, RecordKey(name, 1)) = k.hash[name]
    <3>1. \A i \in DOMAIN j.keys :
            Get(store, RecordKey(j.keys[i], 1)) = j.hash[j.keys[i]]
      BY <1>2
    <3>. QED BY <2>3, <3>1 DEF ToSet
  <2>6. KeysOK(k) /\ FirstIsPlain(raw, k) /\ \A name \in ToSet(k.keys) : k.hash[name] \in Payloads
    BY <2>2, <2>3 DEF ChunkOK, KeysOK, FirstIsPlain
  <2>7. ChunkOK(store, raw, k, "write")
    BY <2>3, <2>4, <2>5, <2>6 DEF ChunkOK
  <2>. QED BY <2>1, <2>7, BreaksType, LooksOnly
<1>. QED BY <1>1, <1>2

(* The bundle of a chunk has a name no row points at.                         *)
LEMMA NameIsFree ==
  ASSUME CInv, NEW j, FirstIsPlain(raw, j), NEW row \in raw
  PROVE  row.key.name # Bundle(j)
<1>. SUFFICES ASSUME row.key.name = Bundle(j) PROVE FALSE
  OBVIOUS
<1>1. PICK r \in raw : row.key.name = CompactBundle(r.id) /\ ~IsPlain(r.key)
  BY BundleKind DEF CInv, Moved
<1>2. PICK f \in raw : f.id = j.first /\ IsPlain(f.key)
  BY DEF FirstIsPlain
<1>3. r.id = f.id
  BY <1>1, <1>2 DEF Bundle, CompactBundle, Name
<1>. QED BY <1>1, <1>2, <1>3 DEF CInv, Listed

LEMMA WriteBundleInv ==
  ASSUME CInv, OneCompactor, NEW c \in Compactors, WriteBundle(c)
  PROVE  CInv'
<1>. DEFINE j == job[c]
<1>1. /\ ChunkOK(store, raw, j, "write") /\ raw' = raw /\ pending' = pending
      /\ job' = job /\ breaks' = breaks
      /\ store' = Put(store, Bundle(j), j.read)
      /\ step' = [step EXCEPT ![c] = "verify"] /\ "verify" \in Steps
  BY DEF WriteBundle, CInv, Goes, Steps
<1>2. /\ KeysOK(j) /\ FirstIsPlain(raw, j) /\ j.read = Lines(j)
      /\ \A name \in ToSet(j.keys) :
           j.hash[name] \in Payloads /\ Get(store, RecordKey(name, 1)) = j.hash[name]
  BY <1>1 DEF ChunkOK
<1>3. Lines(j) \in Seq(Payloads)
  <2>1. j.keys \in Seq(ToSet(j.keys))
    BY <1>2 DEF KeysOK
  <2>2. \A i \in DOMAIN j.keys : j.hash[j.keys[i]] \in Payloads
    BY <1>2 DEF ToSet
  <2>. QED BY <2>1, <2>2 DEF Lines
<1>4. Bundle(j) \in DOMAIN store' /\ store'[Bundle(j)] = Lines(j)
      /\ \A n \in DOMAIN store' : store'[n] \in Seq(Payloads)
  BY <1>1, <1>2, <1>3 DEF Put, CInv, CompactionTypeOK
<1>5. \A name \in ToSet(j.keys) : Get(store', RecordKey(name, 1)) = j.hash[name]
  <2>. SUFFICES ASSUME NEW name \in ToSet(j.keys)
                PROVE  Get(store', RecordKey(name, 1)) = j.hash[name]
    OBVIOUS
  <2>1. RecordKey(name, 1).name # Bundle(j)
    BY <1>2, BundleKind, PlainKeys DEF KeysOK
  <2>. QED BY <1>1, <1>2, <2>1, PutReads
<1>6. ChunkOK(store', raw', j, "verify")
  BY <1>1, <1>2, <1>4, <1>5 DEF ChunkOK
<1>. QED BY <1>1, <1>4, <1>6, SameJob, BreaksType, StepKeeps DEF CInv, CompactionTypeOK

LEMMA VerifyBundleInv ==
  ASSUME CInv, OneCompactor, NEW c \in Compactors, VerifyBundle(c)
  PROVE  CInv'
<1>1. CASE ~BundleMatches(job[c])
  <2>1. Stop(c) /\ UNCHANGED <<stored, pending, breaks>>
    BY <1>1 DEF VerifyBundle
  <2>. QED BY <2>1, StopInv, BreaksType
<1>2. CASE BundleMatches(job[c])
  <2>1. ChunkOK(store, raw, job[c], "verify")
    BY DEF VerifyBundle, CInv
  <2>2. ChunkOK(store, raw, job[c], "point") /\ "point" \in Steps
    BY <2>1 DEF ChunkOK, Steps
  <2>. QED BY <1>2, <2>2, SameJob, BreaksType, LooksOnly DEF VerifyBundle, Goes
<1>. QED BY <1>1, <1>2

LEMMA FindRowsInv ==
  ASSUME CInv, OneCompactor, NEW c \in Compactors, FindRows(c)
  PROVE  CInv'
<1>. DEFINE j   == job[c]
            ids == {<<row.id, row.key.name>> : row \in Pointing(j)}
            k   == [j EXCEPT !.ids = ids]
<1>1. /\ job' = [job EXCEPT ![c] = k] /\ step' = [step EXCEPT ![c] = "repoint"]
      /\ UNCHANGED <<stored, pending, breaks>> /\ "repoint" \in Steps
  BY DEF FindRows, Goes, Steps
<1>2. ChunkOK(store, raw, j, "point")
  BY DEF FindRows, CInv
<1>3. /\ DOMAIN k = DOMAIN j /\ k.keys = j.keys /\ k.hash = j.hash /\ k.first = j.first
      /\ k.ids = ids
  BY <1>2 DEF ChunkOK, KeysOK, NoJob
<1>4. \A x \in k.ids : \E row \in raw :
        IsPlain(row.key) /\ row.key.name \in ToSet(k.keys) /\ x = <<row.id, row.key.name>>
  BY <1>3 DEF Pointing, PlainRows
<1>5. FirstIsPlain(raw, k) /\ KeysOK(k) /\ Lines(k) = Lines(j) /\ Bundle(k) = Bundle(j)
  BY <1>2, <1>3 DEF ChunkOK, FirstIsPlain, KeysOK, Lines, Bundle
<1>6. \E name \in ToSet(k.keys) : <<k.first, name>> \in k.ids
  <2>1. PICK row \in raw : row.id = k.first /\ IsPlain(row.key) /\ row.key.name \in ToSet(k.keys)
    BY <1>5 DEF FirstIsPlain
  <2>2. row \in Pointing(j)
    BY <1>3, <2>1 DEF Pointing, PlainRows
  <2>. QED BY <1>3, <2>1, <2>2
<1>7. ChunkOK(store, raw, k, "repoint")
  BY <1>2, <1>3, <1>4, <1>5, <1>6 DEF ChunkOK
<1>. QED BY <1>1, <1>7, BreaksType, LooksOnly

(* What repointing makes of a row: it stays, or it goes to its line.          *)
LEMMA RepointedRow ==
  ASSUME CInv, NEW j, ChunkOK(store, raw, j, "repoint"), NEW row \in raw
  PROVE  \/ /\ Repointed(j, row) = row
            /\ \A name \in ToSet(j.keys) : <<row.id, name>> \notin j.ids
         \/ /\ IsPlain(row.key) /\ row.key.name \in ToSet(j.keys)
            /\ Repointed(j, row) =
                 Row(row.id, row.hash, RecordKey(Bundle(j), LineOf(j, row.key.name)))
<1>1. CASE ~\E name \in ToSet(j.keys) : <<row.id, name>> \in j.ids
  BY <1>1 DEF Repointed
<1>2. CASE \E name \in ToSet(j.keys) : <<row.id, name>> \in j.ids
  <2>. DEFINE name == CHOOSE n \in ToSet(j.keys) : <<row.id, n>> \in j.ids
  <2>1. name \in ToSet(j.keys) /\ <<row.id, name>> \in j.ids
    BY <1>2
  <2>2. PICK r \in raw : /\ IsPlain(r.key) /\ r.key.name \in ToSet(j.keys)
                         /\ <<row.id, name>> = <<r.id, r.key.name>>
    BY <2>1 DEF ChunkOK
  <2>3. r = row /\ name = row.key.name
    BY <2>2 DEF CInv, Listed
  <2>4. row = Row(row.id, row.hash, row.key)
    BY DEF CInv, Listed, Row
  <2>5. Repointed(j, row) = [row EXCEPT !.key = RecordKey(Bundle(j), LineOf(j, row.key.name))]
    BY <1>2, <2>3 DEF Repointed
  <2>6. Repointed(j, row) = Row(row.id, row.hash, RecordKey(Bundle(j), LineOf(j, row.key.name)))
    BY <2>4, <2>5 DEF Row
  <2>. QED BY <2>2, <2>3, <2>6
<1>. QED BY <1>1, <1>2

LEMMA RepointInv ==
  ASSUME CInv, OneCompactor, NEW c \in Compactors, Repoint(c)
  PROVE  CInv'
<1>. DEFINE j == job[c]
<1>1. /\ ChunkOK(store, raw, j, "repoint") /\ raw' = {Repointed(j, row) : row \in raw}
      /\ pending' = pending \cup ToSet(j.keys) /\ store' = store /\ breaks' = breaks
  BY DEF Repoint, CInv, Journaled
<1>2. /\ KeysOK(j) /\ Bundle(j).kind = "compact" /\ \A row \in raw : row.id \in Nat /\ row.hash \in Payloads
      /\ \E name \in ToSet(j.keys) : <<j.first, name>> \in j.ids
  BY <1>1, BundleKind DEF ChunkOK, CInv, Listed
<1>3. ASSUME NEW row \in raw
      PROVE  /\ Repointed(j, row).id = row.id /\ Repointed(j, row).hash = row.hash
             /\ \/ Repointed(j, row) = row
                \/ /\ Repointed(j, row).key = RecordKey(Bundle(j), LineOf(j, row.key.name))
                   /\ row.key.name \in ToSet(j.keys)
             /\ ~IsPlain(row.key) => Repointed(j, row) = row
  BY <1>1, RepointedRow DEF Row
<1>4. Listed(raw')
  <2>. DEFINE f == [row \in raw |-> Repointed(j, row)]
  <2>1. f \in Surjection(raw, raw')
    BY <1>1 DEF Surjection
  <2>2. IsFiniteSet(raw')
    BY <2>1, FS_Surjection DEF CInv, Listed
  <2>3. ASSUME NEW row \in raw
        PROVE  LET now == Repointed(j, row)
               IN  /\ now = Row(now.id, now.hash, RecordKey(now.key.name, now.key.line))
                   /\ now.id \in Nat /\ now.hash \in Payloads /\ now.key.line \in Nat \ {0}
                   /\ IsPlain(now.key) => now.key.line = 1
    <3>1. CASE Repointed(j, row) = row
      BY <3>1 DEF CInv, Listed
    <3>2. CASE /\ Repointed(j, row) = Row(row.id, row.hash, RecordKey(Bundle(j), LineOf(j, row.key.name)))
               /\ row.key.name \in ToSet(j.keys)
      <4>1. LineOf(j, row.key.name) \in DOMAIN j.keys
        BY <3>2, LineOfKey
      <4>2. LineOf(j, row.key.name) \in Nat \ {0}
        BY <1>2, <4>1 DEF KeysOK
      <4>. QED BY <1>2, <3>2, <4>2 DEF Row, RecordKey, IsPlain
    <3>. QED BY <1>1, <3>1, <3>2, RepointedRow
  <2>4. \A a, b \in raw' : a.id = b.id => a = b
    BY <1>1, <1>3 DEF CInv, Listed
  <2>. QED BY <1>1, <2>2, <2>3, <2>4 DEF Listed
<1>5. Moved(raw')
  <2>. SUFFICES ASSUME NEW row \in raw, Repointed(j, row).key.name.kind = "compact"
                PROVE  \E r \in raw : /\ Repointed(j, row).key.name = CompactBundle(Repointed(j, r).id)
                                      /\ ~IsPlain(Repointed(j, r).key)
    BY <1>1 DEF Moved
  <2>1. CASE Repointed(j, row) = row
    BY <2>1, <1>3 DEF CInv, Moved
  <2>2. CASE Repointed(j, row).key = RecordKey(Bundle(j), LineOf(j, row.key.name))
    <3>1. PICK name \in ToSet(j.keys) : <<j.first, name>> \in j.ids
      BY <1>2
    <3>2. PICK r \in raw : r.id = j.first
      BY <1>1, <3>1 DEF ChunkOK
    <3>3. Repointed(j, r).key.name = Bundle(j) /\ Repointed(j, r).id = j.first
      BY <1>1, <3>1, <3>2, RepointedRow DEF Row, RecordKey
    <3>4. Repointed(j, row).key.name = CompactBundle(Repointed(j, r).id)
      BY <2>2, <3>3 DEF Bundle, RecordKey
    <3>. QED BY <1>2, <3>3, <3>4 DEF IsPlain
  <2>. QED BY <1>3, <2>1, <2>2
<1>6. IsFiniteSet(pending') /\ \A name \in pending' : name.kind = "object"
  <2>1. j.keys \in Seq(ToSet(j.keys))
    BY <1>2 DEF KeysOK
  <2>2. j.keys \in Surjection(1..Len(j.keys), ToSet(j.keys)) /\ IsFiniteSet(1..Len(j.keys))
    BY <2>1, FS_Interval DEF ToSet, Surjection
  <2>3. IsFiniteSet(ToSet(j.keys))
    BY <2>2, FS_Surjection
  <2>. QED BY <1>1, <1>2, <2>3, FS_Union DEF CInv, CompactionTypeOK, KeysOK
<1>7. \A n \in DOMAIN store' : store'[n] \in Seq(Payloads)
  BY <1>1 DEF CInv, CompactionTypeOK
<1>8. CASE j.keep
  <2>. DEFINE k == [j EXCEPT !.after = j.last]
  <2>1. step' = [step EXCEPT ![c] = "next"] /\ job' = [job EXCEPT ![c] = k] /\ "next" \in Steps
    BY <1>8 DEF Repoint, Goes, Steps
  <2>2. ChunkOK(store', raw', k, "next")
    BY <1>2 DEF ChunkOK, KeysOK, NoJob
  <2>. QED BY <1>1, <1>4, <1>5, <1>6, <1>7, <2>1, <2>2, BreaksType, StepKeeps
<1>9. CASE ~j.keep
  <2>1. step' = [step EXCEPT ![c] = "used"] /\ job' = [job EXCEPT ![c] = j] /\ "used" \in Steps
    BY <1>9, SameJob DEF Repoint, Goes, Steps
  <2>2. ChunkOK(store', raw', j, "used")
    BY <1>2 DEF ChunkOK
  <2>. QED BY <1>1, <1>4, <1>5, <1>6, <1>7, <2>1, <2>2, BreaksType, StepKeeps
<1>. QED BY <1>8, <1>9

LEMMA CheckUsedInv ==
  ASSUME CInv, OneCompactor, NEW c \in Compactors, CheckUsed(c)
  PROVE  CInv'
<1>1. CASE StillReferenced(ToSet(job[c].keys)) # {}
  <2>1. Stop(c) /\ UNCHANGED <<stored, pending, breaks>>
    BY <1>1 DEF CheckUsed
  <2>. QED BY <2>1, StopInv, BreaksType
<1>2. CASE StillReferenced(ToSet(job[c].keys)) = {}
  <2>1. Unreferenced(raw, ToSet(job[c].keys))
    BY <1>2 DEF Unreferenced, StillReferenced, PlainRows
  <2>2. ChunkOK(store, raw, job[c], "delete") /\ "delete" \in Steps
    BY <2>1 DEF CInv, ChunkOK, Steps
  <2>. QED BY <1>2, <2>2, SameJob, BreaksType, LooksOnly DEF CheckUsed, Goes
<1>. QED BY <1>1, <1>2

LEMMA ClearInv ==
  ASSUME CInv, OneCompactor, NEW c \in Compactors, Clear(c)
  PROVE  CInv'
<1>. DEFINE k == [job[c] EXCEPT !.after = job[c].last]
<1>1. ChunkOK(store, raw, k, "next") /\ "next" \in Steps
  BY DEF CInv, ChunkOK, KeysOK, NoJob, Steps
<1>. QED BY <1>1, BreaksType, LooksOnly DEF Clear, Goes

LEMMA BreakInv ==
  ASSUME CInv, OneCompactor, NEW c \in Compactors, Break(c)
  PROVE  CInv'
<1>1. /\ Stop(c) /\ breaks' \in 0..MaxBreaks /\ raw' = raw /\ pending' = pending
  BY BreaksType DEF Break
<1>2. CASE store' = store
  BY <1>1, <1>2, StopInv DEF stored
<1>3. CASE \E some \in SUBSET ToSet(job[c].keys) : store' = Without(store, some)
  <2>1. KeysOK(NoJob)
    BY StoppedOK DEF ChunkOK
  <2>. QED BY <1>1, <1>3, <2>1, DeletesInv DEF Stop, Goes
<1>. QED BY <1>2, <1>3 DEF Break

LEMMA CompactionInitInv ==
  CompactionInit => CInv
<1>. SUFFICES ASSUME CompactionInit PROVE CInv
  OBVIOUS
<1>1. Listed(raw)
  <2>1. raw = Landed
    BY DEF CompactionInit
  <2>2. ASSUME NEW row \in raw
        PROVE  /\ row = Row(row.id, row.hash, RecordKey(row.key.name, row.key.line))
               /\ row.id \in Nat /\ row.hash \in Payloads /\ row.key.line = 1
    <3>1. row = Row(row.id, row.hash, RecordKey(row.key.name, 1))
      BY <2>1, CompactionAssumption DEF CompactionAssumption
    <3>2. row.key = RecordKey(row.key.name, 1)
      BY <3>1 DEF Row
    <3>3. row.key.line = 1
      BY <3>2 DEF RecordKey
    <3>. QED BY <2>1, <3>1, <3>3, CompactionAssumption DEF CompactionAssumption
  <2>. QED BY <2>1, <2>2, CompactionAssumption DEF CompactionAssumption, Listed
<1>2. Moved(raw)
  BY CompactionAssumption DEF CompactionInit, CompactionAssumption, Moved, IsPlain
<1>3. CompactionTypeOK
  <2>1. 0 \in 0..MaxBreaks /\ "off" \in Steps
    BY CompactionAssumption DEF CompactionAssumption, Steps
  <2>. QED BY <1>1, <2>1, CompactionAssumption
           DEF CompactionInit, CompactionAssumption, CompactionTypeOK, Listed
<1>4. IsFiniteSet(pending)
  BY FS_EmptySet DEF CompactionInit
<1>. QED BY <1>1, <1>2, <1>3, <1>4, StoppedOK DEF CompactionInit, CInv

LEMMA CompactionStepInv ==
  ASSUME CInv, OneCompactor, CompactionNext
  PROVE  CInv'
<1>1. PICK c \in Compactors : Start(c) \/ Compact(c) \/ Break(c)
  BY DEF CompactionNext
<1>2. CASE Compact(c)
  BY <1>2, DrainCheckInv, DrainDeleteInv, DrainClearInv, SkipAmbiguousInv, NextChunkInv,
     ReadOriginalsInv, WriteBundleInv, VerifyBundleInv, FindRowsInv, RepointInv,
     CheckUsedInv, DeleteInv, ClearInv DEF Compact
<1>. QED BY <1>1, <1>2, StartInv, BreakInv

LEMMA CompactionNextInv ==
  ASSUME OneCompactor
  PROVE  CInv /\ [CompactionNext]_compactionVars => CInv'
<1>. SUFFICES ASSUME CInv, [CompactionNext]_compactionVars PROVE CInv'
  OBVIOUS
<1>1. CASE CompactionNext
  BY <1>1, CompactionStepInv
<1>2. CASE UNCHANGED compactionVars
  BY <1>2 DEF compactionVars, compacting, stored, CInv, CompactionTypeOK
<1>. QED BY <1>1, <1>2

LEMMA CompactionInvariant ==
  ASSUME OneCompactor
  PROVE  CompactionSpec => []CInv
<1>. QED BY CompactionInitInv, CompactionNextInv, PTL DEF CompactionSpec

------------------------------------------------------------------------------
(* No step loses what a row reads.                                            *)

(* A row and what a step makes of it: it reads what it read.                  *)
Reads(row, now) ==
  /\ now.id = row.id /\ now.hash = row.hash
  /\ Get(store, row.key) = row.hash => Get(store', now.key) = row.hash

RowsKept ==
  /\ \A row \in raw : \E now \in raw' : Reads(row, now)
  /\ \A now \in raw' : \E row \in raw : Reads(row, now)

LEMMA LookingReads ==
  ASSUME UNCHANGED stored
  PROVE  RowsKept
  BY DEF stored, RowsKept, Reads

LEMMA DeletingReads ==
  ASSUME CInv, NEW c \in Compactors, step[c] \in {"drop", "delete"},
         NEW some \in SUBSET ToSet(job[c].keys), store' = Without(store, some), raw' = raw
  PROVE  RowsKept
<1>1. /\ Unreferenced(raw, ToSet(job[c].keys))
      /\ \A name \in ToSet(job[c].keys) : name.kind = "object"
  BY DEF CInv, ChunkOK, KeysOK
<1>2. ASSUME NEW row \in raw PROVE Get(store', row.key) = Get(store, row.key)
  <2>1. row.key.name \notin some
    BY <1>1 DEF Unreferenced, IsPlain
  <2>. QED BY <2>1, WithoutReads
<1>. QED BY <1>2 DEF RowsKept, Reads

LEMMA WritingReads ==
  ASSUME CInv, NEW c \in Compactors, WriteBundle(c)
  PROVE  RowsKept
<1>1. /\ FirstIsPlain(raw, job[c]) /\ raw' = raw
      /\ store' = Put(store, Bundle(job[c]), job[c].read)
  BY DEF CInv, ChunkOK, WriteBundle
<1>2. ASSUME NEW row \in raw PROVE Get(store', row.key) = Get(store, row.key)
  <2>1. row.key.name # Bundle(job[c])
    BY <1>1, NameIsFree
  <2>. QED BY <1>1, <2>1, PutReads
<1>. QED BY <1>1, <1>2 DEF RowsKept, Reads

LEMMA RepointingReads ==
  ASSUME CInv, NEW c \in Compactors, Repoint(c)
  PROVE  RowsKept
<1>. DEFINE j == job[c]
<1>1. /\ ChunkOK(store, raw, j, "repoint") /\ raw' = {Repointed(j, row) : row \in raw}
      /\ store' = store
  BY DEF Repoint, CInv
<1>2. ASSUME NEW row \in raw PROVE Reads(row, Repointed(j, row))
  <2>1. CASE Repointed(j, row) = row
    BY <1>1, <2>1 DEF Reads
  <2>2. CASE /\ IsPlain(row.key) /\ row.key.name \in ToSet(j.keys)
             /\ Repointed(j, row) =
                  Row(row.id, row.hash, RecordKey(Bundle(j), LineOf(j, row.key.name)))
    <3>. DEFINE i == LineOf(j, row.key.name)
    <3>1. i \in DOMAIN j.keys /\ j.keys[i] = row.key.name
      BY <2>2, LineOfKey
    <3>2. Bundle(j) \in DOMAIN store /\ store[Bundle(j)] = Lines(j)
      BY <1>1 DEF ChunkOK
    <3>3. Lines(j)[i] = j.hash[row.key.name] /\ i \in DOMAIN Lines(j)
      BY <3>1 DEF Lines
    <3>4. Get(store, RecordKey(Bundle(j), i)) = j.hash[row.key.name]
      BY <3>2, <3>3, PlainKeys DEF Get
    <3>5. row.key = RecordKey(row.key.name, 1)
      BY <2>2 DEF CInv, Listed, Row
    <3>6. Get(store, row.key) = j.hash[row.key.name]
      BY <1>1, <2>2, <3>5 DEF ChunkOK
    <3>. QED BY <1>1, <2>2, <3>4, <3>6 DEF Reads, Row
  <2>. QED BY <1>1, <2>1, <2>2, RepointedRow
<1>. QED BY <1>1, <1>2 DEF RowsKept

LEMMA CompactionReads ==
  ASSUME CInv, [CompactionNext]_compactionVars
  PROVE  RowsKept
<1>1. CASE UNCHANGED compactionVars
  BY <1>1, LookingReads DEF compactionVars
<1>2. CASE CompactionNext
  <2>1. PICK c \in Compactors : Start(c) \/ Compact(c) \/ Break(c)
    BY <1>2 DEF CompactionNext
  <2>2. CASE \/ Start(c) \/ DrainCheck(c) \/ DrainClear(c) \/ SkipAmbiguous(c) \/ NextChunk(c)
             \/ ReadOriginals(c) \/ VerifyBundle(c) \/ FindRows(c) \/ CheckUsed(c) \/ Clear(c)
    BY <2>2, LookingReads DEF Start, DrainCheck, DrainClear, SkipAmbiguous, NextChunk,
       ReadOriginals, VerifyBundle, FindRows, CheckUsed, Clear
  <2>3. CASE DrainDelete(c) \/ Delete(c)
    BY <2>3, DeletingReads DEF DrainDelete, Delete
  <2>4. CASE Break(c)
    BY <2>4, DeletingReads, LookingReads DEF Break, stored
  <2>. QED BY <2>1, <2>2, <2>3, <2>4, WritingReads, RepointingReads DEF Compact
<1>. QED BY <1>1, <1>2

(* Whatever a row reads, it reads the same after any step of a compactor,     *)
(* whatever the rows, the objects, the size of the chunks and the failures:   *)
(* bundles are written under names no row points at, rows go to lines that    *)
(* hold what they read, and only what no row points at is deleted             *)
(* (compact_raw, steps 1 to 4).                                               *)
THEOREM CompactionReadsTheSame ==
  ASSUME OneCompactor
  PROVE  CompactionSpec => ReadsTheSame
<1>1. CInv /\ [CompactionNext]_compactionVars => [ReadsTheSameStep]_stored
  BY CompactionReads DEF RowsKept, Reads, ReadsTheSameStep
<1>. QED BY <1>1, CompactionInvariant, PTL DEF CompactionSpec, ReadsTheSame

------------------------------------------------------------------------------
(* No orphan is unknown.                                                      *)

(* Originals that are about to leave the journal are gone.                    *)
Gone(c) ==
  step[c] \in {"forget", "clear"} => \A name \in ToSet(job[c].keys) : name \notin DOMAIN store

OInv == CInv /\ OrphansAreJournaled /\ \A c \in Compactors : Gone(c)

(* A step of the only compactor that leaves it elsewhere.                     *)
LEMMA GoneElsewhere ==
  ASSUME CInv, OneCompactor, NEW c \in Compactors, NEW t, t \notin {"forget", "clear"},
         step' = [step EXCEPT ![c] = t]
  PROVE  \A d \in Compactors : Gone(d)'
<1>1. \A d \in Compactors : step'[d] = t
  BY DEF CInv, CompactionTypeOK, OneCompactor
<1>. QED BY <1>1 DEF Gone

LEMMA OrphansLooking ==
  ASSUME OrphansAreJournaled, UNCHANGED stored, pending' = pending
  PROVE  OrphansAreJournaled'
  BY DEF OrphansAreJournaled, stored

LEMMA OrphansDeleting ==
  ASSUME OrphansAreJournaled, NEW names, store' = Without(store, names), raw' = raw,
         pending' = pending
  PROVE  OrphansAreJournaled' /\ \A name \in names : name \notin DOMAIN store'
  BY DEF OrphansAreJournaled, Without

LEMMA OrphansForgetting ==
  ASSUME OInv, NEW c \in Compactors, step[c] \in {"forget", "clear"}, UNCHANGED stored,
         pending' = pending \ ToSet(job[c].keys)
  PROVE  OrphansAreJournaled'
  BY DEF OInv, Gone, OrphansAreJournaled, stored

LEMMA OrphansStep ==
  ASSUME OInv, OneCompactor, NEW c \in Compactors, Start(c) \/ Compact(c) \/ Break(c)
  PROVE  OrphansAreJournaled' /\ \A d \in Compactors : Gone(d)'
<1>. USE DEF Goes
<1>1. CInv /\ OrphansAreJournaled
  BY DEF OInv
<1>2. CASE \/ Start(c) \/ DrainCheck(c) \/ SkipAmbiguous(c) \/ NextChunk(c)
           \/ ReadOriginals(c) \/ VerifyBundle(c) \/ FindRows(c)
  <2>1. UNCHANGED stored /\ pending' = pending
    BY <1>2 DEF Start, DrainCheck, SkipAmbiguous, NextChunk, ReadOriginals, VerifyBundle, FindRows
  <2>2. \E t \in Steps \ {"forget", "clear"} : step' = [step EXCEPT ![c] = t]
    BY <1>2 DEF Start, DrainCheck, SkipAmbiguous, NextChunk, ReadOriginals, VerifyBundle,
       FindRows, Stop, Steps
  <2>. QED BY <1>1, <2>1, <2>2, OrphansLooking, GoneElsewhere
<1>3. CASE CheckUsed(c)
  <2>1. UNCHANGED stored /\ pending' = pending
    BY <1>3 DEF CheckUsed
  <2>2. \E t \in {"off", "delete"} : step' = [step EXCEPT ![c] = t]
    BY <1>3 DEF CheckUsed, Stop
  <2>. QED BY <1>1, <2>1, <2>2, OrphansLooking, GoneElsewhere
<1>4. CASE DrainDelete(c) \/ Delete(c)
  <2>1. /\ store' = Without(store, ToSet(job[c].keys)) /\ raw' = raw /\ pending' = pending
        /\ job' = job
    BY <1>4 DEF DrainDelete, Delete
  <2>2. OrphansAreJournaled' /\ \A name \in ToSet(job'[c].keys) : name \notin DOMAIN store'
    BY <1>1, <2>1, OrphansDeleting
  <2>. QED BY <2>2 DEF Gone, OneCompactor
<1>5. CASE DrainClear(c)
  <2>1. step' = [step EXCEPT ![c] = "skip"] /\ OrphansAreJournaled'
    BY <1>5, OrphansForgetting DEF DrainClear
  <2>. QED BY <1>1, <2>1, GoneElsewhere
<1>6. CASE Clear(c)
  <2>1. step' = [step EXCEPT ![c] = "next"] /\ OrphansAreJournaled'
    BY <1>6, OrphansForgetting DEF Clear
  <2>. QED BY <1>1, <2>1, GoneElsewhere
<1>7. CASE WriteBundle(c)
  <2>1. /\ step' = [step EXCEPT ![c] = "verify"] /\ raw' = raw /\ pending' = pending
        /\ DOMAIN store' = DOMAIN store \cup {Bundle(job[c])}
    BY <1>7 DEF WriteBundle, Put
  <2>2. OrphansAreJournaled'
    BY <1>1, <2>1, BundleKind DEF OrphansAreJournaled
  <2>. QED BY <1>1, <2>1, <2>2, GoneElsewhere
<1>8. CASE Repoint(c)
  <2>1. \E t \in {"next", "used"} : step' = [step EXCEPT ![c] = t]
    BY <1>8 DEF Repoint
  <2>2. /\ ChunkOK(store, raw, job[c], "repoint") /\ store' = store
        /\ raw' = {Repointed(job[c], row) : row \in raw}
        /\ pending' = pending \cup ToSet(job[c].keys)
    BY <1>8 DEF Repoint, OInv, CInv, Journaled
  <2>3. ASSUME NEW row \in raw, row.key.name \notin ToSet(job[c].keys)
        PROVE  row \in raw'
    BY <1>1, <2>2, <2>3, RepointedRow
  <2>4. OrphansAreJournaled'
    BY <1>1, <2>2, <2>3 DEF OrphansAreJournaled
  <2>. QED BY <1>1, <2>1, <2>4, GoneElsewhere
<1>9. CASE Break(c)
  <2>1. step' = [step EXCEPT ![c] = "off"] /\ raw' = raw /\ pending' = pending
    BY <1>9 DEF Break, Stop
  <2>2. store' = store \/ \E some : store' = Without(store, some)
    BY <1>9 DEF Break
  <2>3. OrphansAreJournaled'
    BY <1>1, <2>1, <2>2, OrphansLooking, OrphansDeleting DEF stored
  <2>. QED BY <1>1, <2>1, <2>3, GoneElsewhere
<1>. QED BY <1>2, <1>3, <1>4, <1>5, <1>6, <1>7, <1>8, <1>9 DEF Compact

(* An original that no row points at is in the journal at every moment, so a  *)
(* kill leaves no orphan nobody knows about, where every object had a row     *)
(* when compaction began (migration 0010, compaction_pending).                *)
THEOREM NoUnknownOrphan ==
  ASSUME OneCompactor,
         \A name \in DOMAIN Objects :
           name.kind = "object" => \E row \in Landed : row.key.name = name
  PROVE  CompactionSpec => []OrphansAreJournaled
<1>1. CompactionInit => OInv
  <2>. SUFFICES ASSUME CompactionInit PROVE OInv
    OBVIOUS
  <2>1. OrphansAreJournaled
    BY DEF CompactionInit, OrphansAreJournaled
  <2>2. \A c \in Compactors : Gone(c)
    BY DEF CompactionInit, Gone
  <2>. QED BY <2>1, <2>2, CompactionInitInv DEF OInv
<1>2. OInv /\ [CompactionNext]_compactionVars => OInv'
  <2>. SUFFICES ASSUME OInv, [CompactionNext]_compactionVars PROVE OInv'
    OBVIOUS
  <2>1. CInv'
    BY CompactionNextInv DEF OInv
  <2>2. CASE CompactionNext
    BY <2>1, <2>2, OrphansStep DEF CompactionNext, OInv
  <2>3. CASE UNCHANGED compactionVars
    BY <2>1, <2>3 DEF compactionVars, compacting, stored, OInv, Gone, OrphansAreJournaled
  <2>. QED BY <2>2, <2>3
<1>3. OInv => OrphansAreJournaled
  BY DEF OInv
<1>. QED BY <1>1, <1>2, <1>3, PTL DEF CompactionSpec

(* The variables have their types.                                            *)
THEOREM CompactionTypes ==
  ASSUME OneCompactor
  PROVE  CompactionSpec => []CompactionTypeOK
<1>1. CInv => CompactionTypeOK
  BY DEF CInv
<1>. QED BY <1>1, CompactionInvariant, PTL

------------------------------------------------------------------------------
(* Part 3. Both at once.                                                      *)

(* One load to a payload, as the Atlas load is the only one; no load lands    *)
(* again what is indexed, no job names its bundles after itself.              *)
Setting ==
  /\ OneCompactor
  /\ FixedTag = {}
  /\ Refreshes = {}
  /\ Ids \subseteq Nat
  /\ \A s, t \in Loads : s # t => Delivers[s] \cap Delivers[t] = {}

(* The originals the compactor may delete, now or later.                      *)
InHand(name) ==
  \/ name \in pending
  \/ \E c \in Compactors : name \in ToSet(job[c].keys)
  \/ \E row \in raw : IsPlain(row.key) /\ row.key.name = name

Touched(p) == InHand(ObjectName(p))

(* Rows have ids of their own, committed or not.                              *)
Uncommitted(s) ==
  /\ IsFiniteSet(tx[s])
  /\ \A row \in tx[s] : row.id = RowId(s, run[s], row.hash) /\ row.hash \notin left[s]
  /\ \A a, b \in tx[s] : a.hash = b.hash => a = b

Committed(row) ==
  \E s \in Runs, n \in 1..MaxRuns :
    /\ row.id = RowId(s, n, row.hash) /\ n <= run[s]
    /\ n = run[s] => row.hash \notin left[s] /\ \A r \in tx[s] : r.hash # row.hash

(* What a load has yet to land or to commit no compactor has seen.            *)
Ahead(s) ==
  IF s \in Loads
  THEN /\ \A p \in left[s] : p \in Delivers[s] /\ ~Touched(p)
       /\ \A row \in tx[s] : row.hash \in Delivers[s] /\ ~Touched(row.hash)
  ELSE \A row \in tx[s] : row.key.name.kind = "run"

(* A load of the payload's own source has indexed it.                         *)
Loaded(rows, p) == \E s \in Loads : p \in Delivers[s] /\ Indexed(s, rows, p)

Shared ==
  /\ \A s \in Runs : Uncommitted(s) /\ Ahead(s)
  /\ \A row \in raw : Committed(row)
  /\ \A p \in Payloads : Touched(p) => Loaded(raw, p)

AInv == IInv /\ CInv /\ Shared

------------------------------------------------------------------------------
(* A step of a compactor keeps what landing relies on.                        *)

(* It takes nothing new in hand.                                              *)
LEMMA NothingNewInHand ==
  ASSUME CInv, [CompactionNext]_compactionVars
  PROVE  \A name : InHand(name)' => InHand(name)
<1>. DEFINE K(c) == ToSet(job[c].keys)
<1>1. CASE UNCHANGED compactionVars
  BY <1>1 DEF compactionVars, compacting, stored, InHand
<1>2. CASE CompactionNext
  <2>1. PICK c \in Compactors : Start(c) \/ Compact(c) \/ Break(c)
    BY <1>2 DEF CompactionNext
  <2>2. /\ job = [d \in Compactors |-> job[d]]
        /\ KeysOK(job[c]) /\ IsFiniteSet(pending) /\ Listed(raw)
    BY DEF CInv, ChunkOK
  <2>3. ASSUME NEW j, job' = [job EXCEPT ![c] = j],
               \A name \in ToSet(j.keys) : InHand(name), \A name \in pending' : InHand(name),
               \A row \in raw' : IsPlain(row.key) => InHand(row.key.name)
        PROVE  \A name : InHand(name)' => InHand(name)
    <3>1. \A d \in Compactors : \A name \in ToSet(job'[d].keys) : InHand(name)
      BY <2>2, <2>3 DEF InHand
    <3>. QED BY <2>3, <3>1 DEF InHand
  <2>4. /\ \A row \in raw : IsPlain(row.key) => InHand(row.key.name)
        /\ \A name \in pending \cup K(c) : InHand(name)
    BY DEF InHand
  <2>5. ToSet(NoJob.keys) = {}
    BY DEF NoJob, ToSet
  <2>6. CASE Start(c)
    <3>1. PICK size \in Sizes, keep \in BOOLEAN :
            job' = [job EXCEPT ![c] =
              [NoJob EXCEPT !.size = size, !.keep = keep, !.keys = SetToSeq(pending)]]
      BY <2>6 DEF Start
    <3>2. [NoJob EXCEPT !.size = size, !.keep = keep, !.keys = SetToSeq(pending)].keys
            = SetToSeq(pending)
      BY DEF NoJob
    <3>. QED BY <2>2, <2>3, <2>4, <2>6, <3>1, <3>2, SetToSeqLists DEF Start, stored
  <2>7. CASE DrainCheck(c)
    <3>. DEFINE safe == K(c) \ StillReferenced(K(c))
                j    == [job[c] EXCEPT !.keys = SetToSeq(safe)]
    <3>1. j.keys = SetToSeq(safe) /\ job' = [job EXCEPT ![c] = j]
      BY <2>2, <2>7 DEF KeysOK, NoJob, DrainCheck
    <3>2. IsFiniteSet(safe)
      <4>1. job[c].keys \in Seq(K(c))
        BY <2>2 DEF KeysOK
      <4>2. /\ job[c].keys \in Surjection(1..Len(job[c].keys), K(c))
            /\ IsFiniteSet(1..Len(job[c].keys))
        BY <4>1, FS_Interval DEF ToSet, Surjection
      <4>3. IsFiniteSet(K(c))
        BY <4>2, FS_Surjection
      <4>. QED BY <4>3, FS_Subset
    <3>. QED BY <2>3, <2>4, <2>7, <3>1, <3>2, SetToSeqLists DEF DrainCheck, stored
  <2>8. CASE NextChunk(c)
    <3>. DEFINE rows == Chunk(job[c].after, job[c].avoid, job[c].size)
    <3>1. UNCHANGED <<stored, pending>>
      BY <2>8 DEF NextChunk
    <3>2. CASE Stop(c)
      BY <2>3, <2>4, <2>5, <3>1, <3>2 DEF Stop, stored
    <3>3. CASE ~Stop(c)
      <4>1. \E keys \in Orders(rows), first, last \in rows :
              job' = [job EXCEPT ![c] =
                 [@ EXCEPT !.keys = keys, !.hash = Expected(rows),
                           !.first = first.id, !.last = last.id]]
        BY <2>8, <3>3 DEF NextChunk
      <4>2. PICK keys \in Orders(rows), first \in rows, last \in rows :
              job' = [job EXCEPT ![c] =
                 [@ EXCEPT !.keys = keys, !.hash = Expected(rows),
                           !.first = first.id, !.last = last.id]]
        BY <4>1
      <4>. DEFINE j == [job[c] EXCEPT !.keys = keys, !.hash = Expected(rows),
                                      !.first = first.id, !.last = last.id]
      <4>3. j.keys = keys
        BY <2>2 DEF KeysOK, NoJob
      <4>4. rows \subseteq PlainRows /\ IsFiniteSet(rows)
        BY <2>2, ChunkPlain, FS_Subset DEF PlainRows, Listed
      <4>5. \A name \in ToSet(keys) : InHand(name)
        <5>1. ToSet(keys) = NamesOf(rows)
          BY <4>4, OrdersList
        <5>2. \A row \in rows : row \in raw /\ IsPlain(row.key)
          BY <4>4 DEF PlainRows
        <5>. QED BY <2>4, <5>1, <5>2 DEF NamesOf
      <4>. QED BY <2>3, <2>4, <3>1, <4>2, <4>3, <4>5 DEF stored
    <3>. QED BY <3>2, <3>3
  <2>9. CASE SkipAmbiguous(c) \/ ReadOriginals(c) \/ FindRows(c) \/ Clear(c)
    <3>1. /\ raw' = raw /\ pending' \subseteq pending
          /\ \/ Stop(c)
             \/ \E v : job' = [job EXCEPT ![c].avoid = v]
             \/ \E v : job' = [job EXCEPT ![c].read = v]
             \/ \E v : job' = [job EXCEPT ![c].ids = v]
             \/ \E v : job' = [job EXCEPT ![c].after = v]
      BY <2>9 DEF SkipAmbiguous, ReadOriginals, FindRows, Clear, stored
    <3>2. \A v : /\ [job[c] EXCEPT !.avoid = v].keys = job[c].keys
                 /\ [job[c] EXCEPT !.read = v].keys = job[c].keys
                 /\ [job[c] EXCEPT !.ids = v].keys = job[c].keys
                 /\ [job[c] EXCEPT !.after = v].keys = job[c].keys
      BY <2>2 DEF KeysOK, NoJob
    <3>. QED BY <2>3, <2>4, <2>5, <3>1, <3>2 DEF Stop
  <2>10. CASE \/ DrainDelete(c) \/ DrainClear(c) \/ WriteBundle(c) \/ VerifyBundle(c)
              \/ CheckUsed(c) \/ Delete(c) \/ Break(c)
    <3>1. raw' = raw /\ pending' \subseteq pending /\ (Stop(c) \/ job' = job)
      BY <2>10 DEF DrainDelete, DrainClear, WriteBundle, VerifyBundle, CheckUsed, Delete, Break,
                   stored
    <3>2. job' = job => job' = [job EXCEPT ![c] = job[c]]
      BY <2>2
    <3>. QED BY <2>3, <2>4, <2>5, <3>1, <3>2 DEF Stop
  <2>11. CASE Repoint(c)
    <3>1. /\ ChunkOK(store, raw, job[c], "repoint")
          /\ raw' = {Repointed(job[c], row) : row \in raw} /\ pending' = pending \cup K(c)
      BY <2>11 DEF Repoint, CInv, Journaled
    <3>2. \A row \in raw' : IsPlain(row.key) => InHand(row.key.name)
      <4>. SUFFICES ASSUME NEW row \in raw, IsPlain(Repointed(job[c], row).key)
                    PROVE  InHand(Repointed(job[c], row).key.name)
        BY <3>1
      <4>1. Repointed(job[c], row) = row
        BY <3>1, RepointedRow, BundleKind DEF Row, RecordKey, IsPlain
      <4>. QED BY <2>4, <4>1
    <3>3. \/ job' = [job EXCEPT ![c] = job[c]]
          \/ job' = [job EXCEPT ![c] = [job[c] EXCEPT !.after = job[c].last]]
      BY <2>2, <2>11 DEF Repoint
    <3>4. [job[c] EXCEPT !.after = job[c].last].keys = job[c].keys
      BY <2>2 DEF KeysOK, NoJob
    <3>. QED BY <2>3, <2>4, <3>1, <3>2, <3>3, <3>4
  <2>. QED BY <2>1, <2>6, <2>7, <2>8, <2>9, <2>10, <2>11 DEF Compact
<1>. QED BY <1>1, <1>2

(* It writes bundles of chunks, and deletes what it has in hand.              *)
LEMMA StoreChange ==
  ASSUME CInv, [CompactionNext]_compactionVars
  PROVE  /\ \A n \in DOMAIN store' :
              \/ n \in DOMAIN store /\ store'[n] = store[n]
              \/ \E i \in Nat : n = CompactBundle(i)
         /\ \A n \in DOMAIN store :
              ~InHand(n) /\ n.kind # "compact" => n \in DOMAIN store' /\ store'[n] = store[n]
<1>1. CASE store' = store
  BY <1>1
<1>2. CASE store' # store
  <2>1. PICK c \in Compactors : Start(c) \/ Compact(c) \/ Break(c)
    BY <1>2 DEF CompactionNext, compactionVars, stored
  <2>2. CASE WriteBundle(c)
    <3>1. /\ store' = Put(store, Bundle(job[c]), job[c].read)
          /\ FirstIsPlain(raw, job[c]) /\ Listed(raw)
      BY <2>2 DEF WriteBundle, CInv, ChunkOK
    <3>2. \E i \in Nat : Bundle(job[c]) = CompactBundle(i)
      BY <3>1 DEF FirstIsPlain, Listed, Bundle
    <3>. QED BY <3>1, <3>2, BundleKind DEF Put
  <2>3. CASE ~WriteBundle(c)
    <3>1. PICK some \in SUBSET ToSet(job[c].keys) : store' = Without(store, some)
      BY <1>2, <2>1, <2>3
         DEF Start, Compact, DrainCheck, DrainDelete, DrainClear, SkipAmbiguous, NextChunk,
             ReadOriginals, VerifyBundle, FindRows, Repoint, CheckUsed, Delete, Clear, Break,
             stored
    <3>2. \A n \in some : InHand(n)
      BY <3>1 DEF InHand
    <3>. QED BY <3>1, <3>2 DEF Without
  <2>. QED BY <2>2, <2>3
<1>. QED BY <1>1, <1>2

(* A row keeps its key, or it is given a line of such a bundle.               *)
LEMMA KeyChange ==
  ASSUME CInv, [CompactionNext]_compactionVars, NEW now \in raw'
  PROVE  \E row \in raw :
           /\ now.id = row.id /\ now.hash = row.hash
           /\ now.key = row.key \/ \E i \in Nat : now.key.name = CompactBundle(i)
<1>1. CASE raw' = raw
  BY <1>1
<1>2. CASE raw' # raw
  <2>1. PICK c \in Compactors : Repoint(c)
    BY <1>2 DEF CompactionNext, compactionVars, Start, Compact, DrainCheck, DrainDelete,
                DrainClear, SkipAmbiguous, NextChunk, ReadOriginals, WriteBundle, VerifyBundle,
                FindRows, CheckUsed, Delete, Clear, Break, stored
  <2>2. /\ ChunkOK(store, raw, job[c], "repoint") /\ Listed(raw)
        /\ raw' = {Repointed(job[c], row) : row \in raw}
    BY <2>1 DEF Repoint, CInv
  <2>3. \E i \in Nat : Bundle(job[c]) = CompactBundle(i)
    BY <2>2 DEF ChunkOK, FirstIsPlain, Listed, Bundle
  <2>4. PICK row \in raw : now = Repointed(job[c], row)
    BY <2>2
  <2>. QED BY <2>2, <2>3, <2>4, RepointedRow DEF Row, RecordKey
<1>. QED BY <1>1, <1>2

LEMMA CompactionKeepsObjects ==
  ASSUME AInv, [CompactionNext]_compactionVars
  PROVE  ObjectsTrue'
<1>. SUFFICES ASSUME NEW p \in Payloads, ObjectName(p) \in DOMAIN store'
              PROVE  store'[ObjectName(p)] = <<p>>
  BY DEF ObjectsTrue
<1>1. \A i \in Nat : ObjectName(p) # CompactBundle(i)
  BY DEF ObjectName, CompactBundle, Name
<1>2. ObjectName(p) \in DOMAIN store /\ store'[ObjectName(p)] = store[ObjectName(p)]
  BY <1>1, StoreChange DEF AInv
<1>. QED BY <1>2 DEF AInv, IInv, ObjectsTrue

LEMMA CompactionKeepsTypes ==
  ASSUME AInv, Setting, [CompactionNext]_compactionVars, UNCHANGED landing
  PROVE  TypeOK'
<1>1. CInv'
  BY CompactionNextInv DEF AInv, Setting
<1>2. \A i \in Nat : CompactBundle(i) \in Names
  BY DEF CompactBundle, Name, Names
<1>3. DOMAIN store' \subseteq Names
  <2>1. DOMAIN store \subseteq Names
    BY DEF AInv, IInv, TypeOK
  <2>. QED BY <1>2, <2>1, StoreChange DEF AInv
<1>4. \A n \in DOMAIN store' : store'[n] \in Seq(Payloads)
  BY <1>1 DEF CInv, CompactionTypeOK
<1>5. raw' \subseteq Rows
  <2>. SUFFICES ASSUME NEW now \in raw' PROVE now \in Rows
    OBVIOUS
  <2>1. PICK row \in raw :
           /\ now.id = row.id /\ now.hash = row.hash
           /\ now.key = row.key \/ \E i \in Nat : now.key.name = CompactBundle(i)
    BY KeyChange DEF AInv
  <2>2. /\ now = Row(now.id, now.hash, RecordKey(now.key.name, now.key.line))
        /\ now.key.line \in Nat \ {0}
    BY <1>1 DEF CInv, Listed
  <2>3. row \in Rows
    BY DEF AInv, IInv, TypeOK
  <2>4. now.key.name \in Names
    BY <1>2, <2>1, <2>3 DEF Rows, Keys
  <2>5. RecordKey(now.key.name, now.key.line) \in Keys
    BY <2>2, <2>4 DEF RecordKey, Keys
  <2>6. now.id \in Ids /\ now.hash \in Payloads
    BY <2>1, <2>3 DEF Rows
  <2>7. Row(now.id, now.hash, RecordKey(now.key.name, now.key.line)) \in Rows
    BY <2>5, <2>6 DEF Row, Rows
  <2>. QED BY <2>2, <2>7
<1>6. UNCHANGED <<pc, run, part, buffer, inflight, broken, stray, tx, left, quarantined,
                  outcome, faults>>
  BY DEF landing, working, control
<1>. QED BY <1>3, <1>4, <1>5, <1>6 DEF TypeOK, AInv, IInv

LEMMA CompactionKeepsJobs ==
  ASSUME AInv, Setting, [CompactionNext]_compactionVars, UNCHANGED landing, NEW s \in Runs
  PROVE  JobOK(s)'
<1>1. UNCHANGED <<pc, run, part, buffer, inflight, broken, stray, tx, left, quarantined,
                  outcome, faults>>
  BY DEF landing, working, control
<1>2. JobOK(s)
  BY DEF AInv, IInv
<1>3. Numbered(s)' /\ Settled(s)' /\ Idle(s)'
  BY <1>1, <1>2 DEF JobOK, Numbered, Settled, Idle
<1>4. ASSUME s \notin Loads PROVE Fresh(s)'
  <2>1. \A n, m \in Nat : RunBundle(s, n, m) \in DOMAIN store' => RunBundle(s, n, m) \in DOMAIN store
    <3>1. \A n, m, i \in Nat : RunBundle(s, n, m) # CompactBundle(i)
      BY DEF RunBundle, CompactBundle, Name
    <3>. QED BY <3>1, StoreChange DEF AInv
  <2>. QED BY <1>1, <1>2, <1>4, <2>1 DEF JobOK, Fresh
<1>5. ASSUME NEW row \in tx'[s] PROVE OnTheWay(s, row)'
  <2>1. row \in tx[s] /\ OnTheWay(s, row) /\ row.hash \in Payloads /\ Ahead(s)
    BY <1>1, <1>2 DEF JobOK, AInv, IInv, TypeOK, Rows, Shared
  <2>2. CASE s \in Loads
    <3>1. ~InHand(ObjectName(row.hash))
      BY <2>1, <2>2 DEF Ahead, Touched
    <3>2. ObjectName(row.hash).kind # "compact"
      BY DEF ObjectName, Name
    <3>3. ObjectName(row.hash) \in DOMAIN store => ObjectName(row.hash) \in DOMAIN store'
      BY <3>1, <3>2, StoreChange DEF AInv
    <3>. QED BY <1>1, <2>1, <2>2, <3>3 DEF OnTheWay
  <2>3. CASE s \notin Loads
    <3>1. row.key.name.kind = "run"
      BY <2>1, <2>3 DEF Ahead
    <3>2. ~InHand(row.key.name)
      BY <3>1 DEF InHand, IsPlain, AInv, CInv, CompactionTypeOK, ChunkOK, KeysOK
    <3>3. row.key.name \in DOMAIN store =>
            row.key.name \in DOMAIN store' /\ store'[row.key.name] = store[row.key.name]
      BY <3>1, <3>2, StoreChange DEF AInv
    <3>4. Get(store, row.key) = row.hash => Get(store', row.key) = row.hash
      BY <2>1, <3>3, LandingAssumption DEF Get, LandingAssumption
    <3>5. Current(s)' = Current(s)
      BY <1>1 DEF Current, Tag
    <3>. QED BY <1>1, <2>1, <2>3, <3>4, <3>5 DEF OnTheWay
  <2>. QED BY <2>2, <2>3
<1>. QED BY <1>3, <1>4, <1>5 DEF JobOK

LEMMA CompactionKeepsShared ==
  ASSUME AInv, [CompactionNext]_compactionVars, UNCHANGED landing
  PROVE  Shared'
<1>1. UNCHANGED <<pc, run, tx, left>>
  BY DEF landing, working, control
<1>2. \A p : Touched(p)' => Touched(p)
  BY NothingNewInHand DEF Touched, AInv
<1>3. \A s \in Runs : Uncommitted(s)'
  BY <1>1 DEF AInv, Shared, Uncommitted
<1>4. \A s \in Runs : Ahead(s)'
  BY <1>1, <1>2 DEF AInv, Shared, Ahead
<1>5. ASSUME NEW now \in raw' PROVE Committed(now)'
  <2>1. PICK row \in raw : now.id = row.id /\ now.hash = row.hash
    BY KeyChange DEF AInv
  <2>2. Committed(row)
    BY DEF AInv, Shared
  <2>. QED BY <1>1, <2>1, <2>2 DEF Committed
<1>6. \A p \in Payloads : Touched(p)' => Loaded(raw', p)
  <2>1. \A row \in raw : \E now \in raw' : now.hash = row.hash /\ now.id = row.id
    BY CompactionReads DEF RowsKept, Reads, AInv
  <2>2. \A p : Loaded(raw, p) => Loaded(raw', p)
    BY <2>1 DEF Loaded, Indexed
  <2>. QED BY <1>2, <2>2 DEF AInv, Shared
<1>. QED BY <1>3, <1>4, <1>5, <1>6 DEF Shared

LEMMA CompactionKeepsAll ==
  ASSUME AInv, Setting, [CompactionNext]_compactionVars, UNCHANGED landing
  PROVE  AInv'
<1>1. CInv'
  BY CompactionNextInv DEF AInv, Setting
<1>2. RowsResolve'
  BY CompactionReads DEF RowsKept, Reads, AInv, IInv, RowsResolve
<1>. QED BY <1>1, <1>2, CompactionKeepsObjects, CompactionKeepsTypes, CompactionKeepsJobs,
            CompactionKeepsShared DEF AInv, IInv

------------------------------------------------------------------------------
(* A step of landing, as the compactor sees it.                               *)

LEMMA LandingGrows ==
  ASSUME IInv, FixedTag = {}, [Next]_vars
  PROVE  Grows
<1>1. CASE store' = store
  BY <1>1, StoreSame
<1>2. CASE store' # store
  <2>1. \/ \E p \in Payloads : store' = Put(store, ObjectName(p), <<p>>)
        \/ \E s \in Runs \ Loads : pc[s] # "off" /\ store' = Put(store, Current(s), buffer[s])
    <3>1. CASE StrayWrite
      BY <3>1 DEF StrayWrite, IInv, TypeOK
    <3>2. ASSUME NEW s \in Runs, PoolWrite(s) PROVE <2>1!1
      BY <1>2, <3>2 DEF PoolWrite, IInv, TypeOK
    <3>3. ASSUME NEW s \in Runs, DrainBundle(s) \/ DrainBundleFails(s) PROVE <2>1!2
      BY <1>2, <3>3 DEF DrainBundle, DrainBundleFails
    <3>. QED BY <1>2, <3>1, <3>2, <3>3
             DEF Next, Work, vars, stored, StartRun, Interrupted, Crash, SkipRecord, Land, Quarantine,
                 DrainPool, Commit, FinishRun, Publish
  <2>. QED BY <2>1, PutObject, PutBundle
<1>. QED BY <1>1, <1>2

(* What a step does to a job: nothing to its transaction; a new run; a record *)
(* landed; the transaction over, with the records it leaves.                  *)
Quiet(s) == tx'[s] = tx[s] /\ run'[s] = run[s] /\ left'[s] \subseteq left[s]

Begins(s) ==
  /\ tx[s] = {} /\ tx'[s] = {} /\ run'[s] = run[s] + 1 /\ left'[s] \subseteq Delivers[s]
  /\ s \in Loads \ Refreshes => \A p \in left'[s] : ~Indexed(s, raw, p)

Lists(s) ==
  \E p \in left[s] :
    /\ left'[s] = left[s] \ {p} /\ run'[s] = run[s]
    /\ tx'[s] = tx[s] \cup {Row(RowId(s, run[s], p), p, KeyFor(s, p))}

Clears(s) == tx'[s] = {} /\ run'[s] = run[s] /\ left'[s] \subseteq left[s]

LEMMA Effect ==
  ASSUME IInv, [Next]_vars
  PROVE  \/ raw' = raw /\ \A s \in Runs : Quiet(s) \/ Begins(s) \/ Lists(s) \/ Clears(s)
         \/ \E s \in Runs : /\ raw' = raw \cup tx[s] /\ Clears(s)
                            /\ \A t \in Runs \ {s} : Quiet(t)
<1>1. CASE StrayWrite \/ UNCHANGED vars
  BY <1>1 DEF StrayWrite, vars, stored, control, working, Quiet
<1>2. ASSUME NEW s \in Runs,
             \/ StartRun(s) \/ Work(s) \/ PoolWrite(s)
             \/ DrainBundleFails(s) \/ Interrupted(s) \/ Crash(s)
      PROVE  \A t \in Runs \ {s} : Quiet(t)
  BY <1>2 DEF StartRun, Work, PoolWrite, DrainBundleFails, Interrupted, Crash, Fail, Abandon,
              SkipRecord, Land, Quarantine, DrainBundle, DrainPool, Commit, FinishRun,
              Publish, Taken, control, stored, working, IInv, TypeOK, Quiet
<1>3. ASSUME NEW s \in Runs, StartRun(s) PROVE raw' = raw /\ Begins(s)
  <2>1. /\ raw' = raw /\ tx[s] = {} /\ tx' = tx /\ run'[s] = run[s] + 1
        /\ left'[s] = IF s \in Loads \ Refreshes THEN Delivers[s] \ AlreadyIngested(s)
                                                 ELSE Delivers[s]
    BY <1>3 DEF StartRun, stored, IInv, TypeOK, JobOK, Numbered
  <2>. QED BY <2>1, IndexedHashes DEF Begins, AlreadyIngested
<1>4. ASSUME NEW s \in Runs, Abandon(s) PROVE Clears(s)
  BY <1>4 DEF Abandon, Clears, IInv, TypeOK
<1>5. ASSUME NEW s \in Runs, DrainBundleFails(s) \/ Interrupted(s) \/ Crash(s)
      PROVE  raw' = raw /\ Clears(s)
  BY <1>4, <1>5 DEF DrainBundleFails, Interrupted, Crash, Fail, stored
<1>6. ASSUME NEW s \in Runs, PoolWrite(s) \/ SkipRecord(s) \/ DrainBundle(s)
      PROVE  raw' = raw /\ Quiet(s)
  BY <1>6 DEF PoolWrite, SkipRecord, DrainBundle, Taken, Quiet, stored, control, IInv, TypeOK
<1>7. ASSUME NEW s \in Runs, Land(s) PROVE raw' = raw /\ Lists(s)
  <2>1. PICK p \in left[s] :
          /\ Taken(s, p)
          /\ tx' = [tx EXCEPT ![s] = @ \cup {Row(RowId(s, run[s], p), p, KeyFor(s, p))}]
    BY <1>7 DEF Land
  <2>2. left'[s] = left[s] \ {p}
    BY <2>1 DEF Taken, IInv, TypeOK
  <2>3. tx'[s] = tx[s] \cup {Row(RowId(s, run[s], p), p, KeyFor(s, p))}
    BY <2>1 DEF IInv, TypeOK
  <2>. QED BY <1>7, <2>2, <2>3 DEF Land, Lists, control
<1>8. ASSUME NEW s \in Runs, Quarantine(s) PROVE raw' = raw /\ (Quiet(s) \/ Clears(s))
  BY <1>4, <1>8 DEF Quarantine, Taken, Fail, Quiet, control, IInv, TypeOK
<1>9. ASSUME NEW s \in Runs, DrainPool(s) PROVE raw' = raw /\ (Quiet(s) \/ Clears(s))
  BY <1>4, <1>9 DEF DrainPool, Fail, Quiet, working, IInv, TypeOK
<1>10. ASSUME NEW s \in Runs, Commit(s) \/ FinishRun(s)
       PROVE  raw' = raw \cup tx[s] /\ Clears(s)
  BY <1>10 DEF Commit, FinishRun, Publish, Clears, IInv, TypeOK
<1>. QED BY <1>1, <1>2, <1>3, <1>5, <1>6, <1>7, <1>8, <1>9, <1>10 DEF Next, Work

(* What a transaction holds.                                                  *)
LEMMA InTransaction ==
  ASSUME AInv, NEW s \in Runs, NEW row \in tx[s]
  PROVE  /\ row \in Rows /\ run[s] \in 1..MaxRuns
         /\ row.id = RowId(s, run[s], row.hash) /\ row.hash \notin left[s]
         /\ s \in Loads => /\ row.key = RecordKey(ObjectName(row.hash), 1)
                           /\ row.hash \in Delivers[s] /\ ~Touched(row.hash)
         /\ s \notin Loads => row.key.name.kind = "run"
<1>1. /\ row \in Rows /\ run[s] \in Nat /\ Numbered(s) /\ OnTheWay(s, row)
      /\ Uncommitted(s) /\ Ahead(s) /\ MaxRuns \in Nat
  BY LandingAssumption DEF AInv, IInv, TypeOK, JobOK, Shared, LandingAssumption
<1>2. run[s] \in 1..MaxRuns
  BY <1>1 DEF Numbered
<1>. QED BY <1>1, <1>2 DEF Uncommitted, Ahead, OnTheWay, PlainKey

LEMMA IdsApart ==
  ASSUME AInv, NEW s \in Runs, NEW b \in tx[s], NEW a, a.id = b.id
  PROVE  a \notin raw /\ (a \in tx[s] => a = b)
<1>1. /\ b.id = RowId(s, run[s], b.hash) /\ run[s] \in 1..MaxRuns /\ b.hash \in Payloads
  BY InTransaction DEF Rows
<1>2. ASSUME a \in raw PROVE FALSE
  <2>1. PICK t \in Runs, n \in 1..MaxRuns :
          /\ a.id = RowId(t, n, a.hash) /\ n <= run[t]
          /\ n = run[t] => a.hash \notin left[t] /\ \A r \in tx[t] : r.hash # a.hash
    BY <1>2 DEF AInv, Shared, Committed
  <2>2. a.hash \in Payloads
    BY <1>2 DEF AInv, IInv, TypeOK, Rows
  <2>3. <<t, n, a.hash>> = <<s, run[s], b.hash>>
    BY <1>1, <2>1, <2>2, LandingAssumption DEF LandingAssumption
  <2>. QED BY <2>1, <2>3
<1>3. ASSUME a \in tx[s] PROVE a = b
  <2>1. a.id = RowId(s, run[s], a.hash) /\ a.hash \in Payloads
    BY <1>3, InTransaction DEF Rows
  <2>2. <<s, run[s], a.hash>> = <<s, run[s], b.hash>>
    BY <1>1, <2>1, LandingAssumption DEF LandingAssumption
  <2>. QED BY <1>3, <2>2 DEF AInv, Shared, Uncommitted
<1>. QED BY <1>2, <1>3

(* Committing takes in hand what the transaction of a load lists, no more.    *)
LEMMA HandGrows ==
  ASSUME AInv, UNCHANGED compacting, NEW s \in Runs, raw' = raw \cup tx[s],
         NEW name, InHand(name)', ~InHand(name)
  PROVE  s \in Loads /\ \E row \in tx[s] : name = ObjectName(row.hash)
<1>1. \E row \in tx[s] : IsPlain(row.key) /\ row.key.name = name
  BY DEF InHand, compacting
<1>. QED BY <1>1, InTransaction, PlainKeys DEF IsPlain

LEMMA HandSame ==
  ASSUME UNCHANGED compacting, raw' = raw, NEW name
  PROVE  InHand(name)' <=> InHand(name)
  BY DEF InHand, compacting

LEMMA CommitListed ==
  ASSUME AInv, Setting, NEW s \in Runs, raw' = raw \cup tx[s]
  PROVE  Listed(raw')
<1>1. IsFiniteSet(raw')
  BY FS_Union DEF AInv, CInv, Listed, Shared, Uncommitted
<1>2. ASSUME NEW row \in tx[s]
      PROVE  /\ row = Row(row.id, row.hash, RecordKey(row.key.name, row.key.line))
             /\ row.id \in Nat /\ row.hash \in Payloads /\ row.key.line \in Nat \ {0}
             /\ IsPlain(row.key) => row.key.line = 1
  <2>1. row \in Rows
    BY InTransaction
  <2>2. row.key.line = 1 \/ row.key.name.kind = "run"
    BY InTransaction, PlainKeys
  <2>. QED BY <2>1, <2>2 DEF Setting, Rows, Keys, Row, RecordKey, IsPlain
<1>3. \A a, b \in raw' : a.id = b.id => a = b
  BY IdsApart DEF AInv, CInv, Listed
<1>. QED BY <1>1, <1>2, <1>3 DEF AInv, CInv, Listed

(* The compactor's own invariant bears what landing does meanwhile.           *)
LEMMA ChunkBears ==
  ASSUME AInv, Grows, raw \subseteq raw',
         NEW c \in Compactors, job' = job, step' = step,
         \A row \in raw' \ raw : IsPlain(row.key) => row.key.name \notin ToSet(job[c].keys)
  PROVE  ChunkOK(store', raw', job'[c], step'[c])
<1>. DEFINE j == job[c]
            t == step[c]
<1>1. ChunkOK(store, raw, j, t)
  BY DEF AInv, CInv
<1>2. t \in {"read", "write", "verify", "point", "repoint"} => FirstIsPlain(raw', j)
  BY <1>1 DEF ChunkOK, FirstIsPlain
<1>3. t \in {"write", "verify", "point", "repoint"} =>
        \A name \in ToSet(j.keys) : Get(store', RecordKey(name, 1)) = j.hash[name]
  BY <1>1, ReadStays DEF ChunkOK
<1>4. t \in {"verify", "point", "repoint"} =>
        Bundle(j) \in DOMAIN store' /\ store'[Bundle(j)] = Lines(j)
  BY <1>1 DEF ChunkOK, Grows
<1>5. t \in {"drop", "delete"} => Unreferenced(raw', ToSet(j.keys))
  BY <1>1 DEF ChunkOK, Unreferenced
<1>. QED BY <1>1, <1>2, <1>3, <1>4, <1>5 DEF ChunkOK

LEMMA LandingKeepsChunks ==
  ASSUME AInv, Setting, [Next]_vars, UNCHANGED compacting
  PROVE  CInv'
<1>1. UNCHANGED <<pending, step, job, breaks>>
  BY DEF compacting
<1>2. IInv' /\ Grows
  BY NextInv, LandingGrows DEF AInv, Setting
<1>3. raw' = raw \/ \E s \in Runs : raw' = raw \cup tx[s]
  BY Effect DEF AInv
<1>4. Listed(raw')
  BY <1>3, CommitListed DEF AInv, CInv
<1>5. ASSUME NEW row \in raw' \ raw
      PROVE  /\ row.key.name.kind # "compact"
             /\ IsPlain(row.key) => ~InHand(row.key.name)
  <2>1. PICK s \in Runs : row \in tx[s]
    BY <1>3, <1>5
  <2>2. CASE s \in Loads
    <3>1. row.key.name = ObjectName(row.hash) /\ ~Touched(row.hash)
      BY <2>1, <2>2, InTransaction, PlainKeys
    <3>. QED BY <3>1 DEF Touched, ObjectName, Name
  <2>3. CASE s \notin Loads
    BY <2>1, <2>3, InTransaction DEF IsPlain
  <2>. QED BY <2>2, <2>3
<1>6. Moved(raw')
  BY <1>3, <1>5 DEF AInv, CInv, Moved
<1>7. \A c \in Compactors : ChunkOK(store', raw', job'[c], step'[c])
  <2>. SUFFICES ASSUME NEW c \in Compactors PROVE ChunkOK(store', raw', job'[c], step'[c])
    OBVIOUS
  <2>1. \A row \in raw' \ raw : IsPlain(row.key) => row.key.name \notin ToSet(job[c].keys)
    BY <1>5 DEF InHand
  <2>. QED BY <1>1, <1>2, <1>3, <2>1, ChunkBears
<1>8. CompactionTypeOK'
  <2>1. \A n \in DOMAIN store' : store'[n] \in Seq(Payloads)
    BY <1>2 DEF IInv, TypeOK
  <2>. QED BY <1>1, <1>4, <2>1 DEF AInv, CInv, CompactionTypeOK, Listed
<1>. QED BY <1>1, <1>4, <1>6, <1>7, <1>8 DEF AInv, CInv

LEMMA UncommittedStays ==
  ASSUME AInv, NEW s \in Runs, Quiet(s) \/ Begins(s) \/ Lists(s) \/ Clears(s)
  PROVE  Uncommitted(s)'
<1>1. Uncommitted(s)
  BY DEF AInv, Shared
<1>2. CASE Quiet(s)
  BY <1>1, <1>2 DEF Quiet, Uncommitted
<1>3. CASE Begins(s) \/ Clears(s)
  <2>1. tx'[s] = {}
    BY <1>3 DEF Begins, Clears
  <2>. QED BY <2>1, FS_EmptySet DEF Uncommitted
<1>4. CASE Lists(s)
  <2>1. PICK p \in left[s] :
          /\ left'[s] = left[s] \ {p} /\ run'[s] = run[s]
          /\ tx'[s] = tx[s] \cup {Row(RowId(s, run[s], p), p, KeyFor(s, p))}
    BY <1>4 DEF Lists
  <2>. DEFINE new == Row(RowId(s, run[s], p), p, KeyFor(s, p))
  <2>2. new.id = RowId(s, run[s], p) /\ new.hash = p
    BY DEF Row
  <2>3. IsFiniteSet(tx'[s])
    BY <1>1, <2>1, FS_AddElement DEF Uncommitted
  <2>4. \A row \in tx'[s] : row.id = RowId(s, run'[s], row.hash) /\ row.hash \notin left'[s]
    BY <1>1, <2>1, <2>2 DEF Uncommitted
  <2>5. \A a, b \in tx'[s] : a.hash = b.hash => a = b
    <3>1. \A a \in tx[s] : a.hash # p
      BY <1>1 DEF Uncommitted
    <3>. QED BY <1>1, <2>1, <2>2, <3>1 DEF Uncommitted
  <2>. QED BY <2>3, <2>4, <2>5 DEF Uncommitted
<1>. QED BY <1>2, <1>3, <1>4

(* A row that is committed already.                                           *)
LEMMA CommittedStays ==
  ASSUME AInv, NEW row \in raw,
         \A s \in Runs : Quiet(s) \/ Begins(s) \/ Lists(s) \/ Clears(s)
  PROVE  Committed(row)'
<1>1. PICK s \in Runs, n \in 1..MaxRuns :
        /\ row.id = RowId(s, n, row.hash) /\ n <= run[s]
        /\ n = run[s] => row.hash \notin left[s] /\ \A r \in tx[s] : r.hash # row.hash
  BY DEF AInv, Shared, Committed
<1>2. run[s] \in Nat /\ n \in Nat
  BY DEF AInv, IInv, TypeOK
<1>3. CASE Begins(s)
  <2>1. n <= run'[s] /\ n # run'[s]
    BY <1>1, <1>2, <1>3 DEF Begins
  <2>. QED BY <1>1, <2>1 DEF Committed
<1>4. CASE Quiet(s) \/ Clears(s)
  BY <1>1, <1>4 DEF Quiet, Clears, Committed
<1>5. CASE Lists(s)
  <2>1. PICK p \in left[s] :
          /\ left'[s] = left[s] \ {p} /\ run'[s] = run[s]
          /\ tx'[s] = tx[s] \cup {Row(RowId(s, run[s], p), p, KeyFor(s, p))}
    BY <1>5 DEF Lists
  <2>2. n = run'[s] => row.hash \notin left'[s] /\ \A r \in tx'[s] : r.hash # row.hash
    BY <1>1, <2>1 DEF Row
  <2>. QED BY <1>1, <2>1, <2>2 DEF Committed
<1>. QED BY <1>3, <1>4, <1>5

(* A row as it is committed.                                                  *)
LEMMA CommittedNow ==
  ASSUME AInv, NEW s \in Runs, Clears(s), NEW row \in tx[s]
  PROVE  Committed(row)'
<1>1. /\ row.id = RowId(s, run[s], row.hash) /\ run[s] \in 1..MaxRuns
      /\ row.hash \notin left[s]
  BY InTransaction
<1>2. run'[s] = run[s] /\ tx'[s] = {} /\ row.hash \notin left'[s]
  BY <1>1 DEF Clears
<1>. QED BY <1>1, <1>2 DEF Committed

LEMMA NothingCommitted ==
  ASSUME AInv, Setting, UNCHANGED compacting, raw' = raw,
         \A s \in Runs : Quiet(s) \/ Begins(s) \/ Lists(s) \/ Clears(s)
  PROVE  Shared'
<1>1. \A p : Touched(p)' <=> Touched(p)
  BY HandSame DEF Touched
<1>2. ASSUME NEW s \in Runs PROVE Ahead(s)'
  <2>1. Ahead(s)
    BY DEF AInv, Shared
  <2>2. CASE Quiet(s) \/ Clears(s)
    BY <1>1, <2>1, <2>2 DEF Quiet, Clears, Ahead
  <2>3. CASE Begins(s)
    <3>1. ASSUME s \in Loads, NEW p \in left'[s] PROVE p \in Delivers[s] /\ ~Touched(p)
      <4>1. p \in Delivers[s] /\ p \in Payloads /\ ~Indexed(s, raw, p)
        BY <2>3, <3>1, LandingAssumption DEF Begins, Setting, LandingAssumption
      <4>2. \A t \in Loads : p \in Delivers[t] => t = s
        BY <3>1, <4>1 DEF Setting
      <4>. QED BY <4>1, <4>2 DEF AInv, Shared, Loaded
    <3>. QED BY <1>1, <2>3, <3>1 DEF Ahead, Begins
  <2>4. CASE Lists(s)
    <3>1. PICK p \in left[s] :
            /\ left'[s] = left[s] \ {p}
            /\ tx'[s] = tx[s] \cup {Row(RowId(s, run[s], p), p, KeyFor(s, p))}
      BY <2>4 DEF Lists
    <3>. DEFINE new == Row(RowId(s, run[s], p), p, KeyFor(s, p))
    <3>2. new.hash = p /\ new.key = KeyFor(s, p)
      BY DEF Row
    <3>3. s \notin Loads => new.key.name.kind = "run"
      BY <3>2 DEF KeyFor, Current, RunBundle, RecordKey, Name
    <3>. QED BY <1>1, <2>1, <3>1, <3>2, <3>3 DEF Ahead
  <2>. QED BY <2>2, <2>3, <2>4
<1>. QED BY <1>1, <1>2, UncommittedStays, CommittedStays DEF AInv, Shared

LEMMA CommitKeepsShared ==
  ASSUME AInv, Setting, UNCHANGED compacting, NEW s \in Runs, raw' = raw \cup tx[s],
         Clears(s), \A t \in Runs \ {s} : Quiet(t)
  PROVE  Shared'
<1>1. \A p : Touched(p)' /\ ~Touched(p) =>
        s \in Loads /\ \E row \in tx[s] : p = row.hash
  <2>1. \A p, q : ObjectName(p) = ObjectName(q) => p = q
    BY DEF ObjectName, Name
  <2>. QED BY <2>1, HandGrows DEF Touched
<1>2. ASSUME NEW t \in Runs PROVE Ahead(t)'
  <2>1. Ahead(t) /\ left'[t] \subseteq left[t] /\ tx'[t] \subseteq tx[t] /\ (t = s => tx'[t] = {})
    BY DEF AInv, Shared, Quiet, Clears
  <2>2. ASSUME t \in Loads, NEW p \in Delivers[t], ~Touched(p), t = s => p \in left[t]
        PROVE  ~Touched(p)'
    <3>1. ASSUME s \in Loads, NEW row \in tx[s], p = row.hash PROVE FALSE
      <4>1. row.hash \in Delivers[s] /\ row.hash \notin left[s]
        BY <3>1, InTransaction
      <4>. QED BY <2>2, <3>1, <4>1 DEF Setting
    <3>. QED BY <1>1, <2>2, <3>1
  <2>. QED BY <2>1, <2>2 DEF Ahead
<1>3. \A t \in Runs : Uncommitted(t)'
  BY UncommittedStays
<1>4. \A row \in raw' : Committed(row)'
  BY CommittedStays, CommittedNow
<1>5. ASSUME NEW p \in Payloads, Touched(p)' PROVE Loaded(raw', p)
  <2>1. CASE Touched(p)
    BY <2>1 DEF AInv, Shared, Loaded, Indexed
  <2>2. CASE ~Touched(p)
    <3>1. PICK row \in tx[s] : s \in Loads /\ p = row.hash
      BY <1>1, <1>5, <2>2
    <3>2. /\ row.id = RowId(s, run[s], p) /\ run[s] \in 1..MaxRuns
          /\ p \in Delivers[s]
      BY <3>1, InTransaction
    <3>3. RowSource[row.id] = Source[s]
      BY <3>2, LandingAssumption DEF LandingAssumption
    <3>. QED BY <3>1, <3>2, <3>3 DEF Loaded, Indexed
  <2>. QED BY <2>1, <2>2
<1>. QED BY <1>2, <1>3, <1>4, <1>5 DEF Shared

LEMMA LandingKeepsAll ==
  ASSUME AInv, Setting, [Next]_vars, UNCHANGED compacting
  PROVE  AInv'
<1>1. IInv'
  BY NextInv DEF AInv, Setting
<1>2. Shared'
  BY Effect, NothingCommitted, CommitKeepsShared DEF AInv
<1>. QED BY <1>1, <1>2, LandingKeepsChunks DEF AInv

------------------------------------------------------------------------------
(* Landing and compaction together.                                           *)

LEMMA ArchiveInitInv ==
  ArchiveInit => AInv
<1>. SUFFICES ASSUME ArchiveInit PROVE AInv
  OBVIOUS
<1>1. IInv /\ CInv
  BY InitInv, CompactionInitInv DEF ArchiveInit
<1>2. /\ raw = {} /\ pending = {} /\ tx = [s \in Runs |-> {}] /\ left = [s \in Runs |-> {}]
      /\ job = [c \in Compactors |-> NoJob]
  BY DEF ArchiveInit, Init, CompactionInit
<1>3. \A p : ~Touched(p)
  BY <1>2 DEF Touched, InHand, NoJob, ToSet
<1>4. \A s \in Runs : Uncommitted(s) /\ Ahead(s)
  BY <1>2, FS_EmptySet DEF Uncommitted, Ahead
<1>. QED BY <1>1, <1>2, <1>3, <1>4 DEF AInv, Shared

LEMMA ArchiveStepInv ==
  ASSUME Setting
  PROVE  AInv /\ [ArchiveNext]_archiveVars => AInv'
<1>. SUFFICES ASSUME AInv, [ArchiveNext]_archiveVars PROVE AInv'
  OBVIOUS
<1>1. CASE Next /\ UNCHANGED compacting
  BY <1>1, LandingKeepsAll
<1>2. CASE CompactionNext /\ UNCHANGED landing
  BY <1>2, CompactionKeepsAll
<1>3. CASE UNCHANGED archiveVars
  <2>1. UNCHANGED <<landing, compactionVars>>
    BY <1>3 DEF archiveVars, compactionVars
  <2>. QED BY <2>1, CompactionKeepsAll
<1>. QED BY <1>1, <1>2, <1>3 DEF ArchiveNext

LEMMA ArchiveInvariant ==
  ASSUME Setting
  PROVE  ArchiveSpec => []AInv
<1>. QED BY ArchiveInitInv, ArchiveStepInv, PTL DEF ArchiveSpec

(* Every committed row reads back the payload it was recorded for, while      *)
(* loads land payloads and a compactor moves those landed before: at every    *)
(* interleaving of their steps, their failures and their pools' late writes.  *)
(* It rests on one compactor at a time and on one load to a payload; the      *)
(* daily runs, whose payloads are in bundles, may deliver the same.           *)
THEOREM SharedRowsResolve ==
  ASSUME Setting
  PROVE  ArchiveSpec => []RowsResolve
<1>1. AInv => RowsResolve
  BY DEF AInv, IInv
<1>. QED BY <1>1, ArchiveInvariant, PTL

(* Nor does a row ever read anything else on the way.                         *)
THEOREM SharedReadsTheSame ==
  ASSUME Setting
  PROVE  ArchiveSpec => ReadsTheSame
<1>1. AInv /\ [ArchiveNext]_archiveVars => [ReadsTheSameStep]_stored
  <2>. SUFFICES ASSUME AInv, [ArchiveNext]_archiveVars PROVE [ReadsTheSameStep]_stored
    OBVIOUS
  <2>1. CASE CompactionNext
    BY <2>1, CompactionReads DEF AInv, RowsKept, Reads, ReadsTheSameStep
  <2>2. CASE Next
    <3>1. Grows /\ raw \subseteq raw'
      BY <2>2, LandingGrows, RawGrows DEF AInv, Setting
    <3>2. ASSUME NEW row \in raw PROVE Get(store, row.key) = row.hash => Get(store', row.key) = row.hash
      BY <3>1, ReadStays DEF AInv, IInv, TypeOK, Rows
    <3>. QED BY <3>1, <3>2 DEF ReadsTheSameStep
  <2>3. CASE UNCHANGED archiveVars
    BY <2>3 DEF archiveVars
  <2>. QED BY <2>1, <2>2, <2>3 DEF ArchiveNext
<1>. QED BY <1>1, ArchiveInvariant, PTL DEF ArchiveSpec, ReadsTheSame

------------------------------------------------------------------------------
(* Part 4. The history loads, whatever the days, the size of the chunks, the  *)
(* loads that run at once, the refusals and the failures.                     *)

(* A chunk of a day is in: its bundle is stored, and what the mapper reads of *)
(* it is indexed, committed.                                                  *)
ChunkIn(d, k) ==
  /\ DayBundle(d, k) \in DOMAIN store
  /\ \A i \in DOMAIN ChunkOf(Published[d], k) :
       ChunkOf(Published[d], k)[i] \notin Unmapped =>
         Row(None, ChunkOf(Published[d], k)[i], RecordKey(DayBundle(d, k), i)) \in raw

(* A day is in, chunk by chunk, up to the one that is its last.               *)
DayIn(d, n) == LastChunk(ChunkOf(Published[d], n)) /\ \A k \in 0..n : ChunkIn(d, k)

(* The bundles of days hold what their name says: whichever load writes one,  *)
(* it writes the same.                                                        *)
BundlesTrue == \A d \in Days, k \in Nat :
  DayBundle(d, k) \in DOMAIN store =>
    store[DayBundle(d, k)] = ChunkOf(Published[d], k)

(* What a load has in hand is the chunk it is at of the day it is at, and the *)
(* chunks before it are in.                                                   *)
LoadOK(l) ==
  /\ stage[l] \in {"fetched", "stored"} => chunk[l] = ChunkOf(Published[Day(l)], piece[l])
  /\ stage[l] = "stored" => DayBundle(Day(l), piece[l]) \in DOMAIN store
  /\ \A k \in Nat : k < piece[l] => ChunkIn(Day(l), k)
  /\ stage[l] = "read" => DayIn(Day(l), piece[l])

HInv ==
  /\ HistoryTypeOK
  /\ RowsResolve
  /\ BundlesTrue
  /\ \A l \in Loaders : LoadOK(l)
  /\ \A d \in marked : \E n \in Nat : DayIn(d, n)

------------------------------------------------------------------------------
(* Days and chunks.                                                           *)

(* The day in hand is one of those to do.                                     *)
LEMMA DayIs ==
  ASSUME HistoryTypeOK, NEW l \in Loaders, todo[l] # {}
  PROVE  Day(l) \in todo[l] /\ Day(l) \in Days
<1>1. todo[l] \subseteq Days /\ todo[l] \subseteq Nat
  BY HistoryAssumption DEF HistoryTypeOK, Days, HistoryAssumption
<1>2. \E u \in todo[l] : \A v \in todo[l] : <<v, u>> \notin OpToRel(<, Nat)
  BY <1>1, WFMin, NatLessThanWellFounded
<1>3. \A u, v \in todo[l] : <<v, u>> \notin OpToRel(<, Nat) => u <= v
  BY <1>1 DEF OpToRel
<1>4. \E u \in todo[l] : \A v \in todo[l] : u <= v
  BY <1>2, <1>3
<1> QED BY <1>1, <1>4 DEF Day, Min

LEMMA Product == \A m, n \in Nat : m * n \in Nat /\ (m + 1) * n = m * n + n
  BY SMTT(30)

LEMMA MinOfTwo ==
  ASSUME NEW a \in Int, NEW b \in Int
  PROVE  Min({a, b}) = IF a <= b THEN a ELSE b
<1>1. \A x \in {a, b} : (\A y \in {a, b} : x <= y) <=> x = IF a <= b THEN a ELSE b
  OBVIOUS
<1> QED BY <1>1 DEF Min

(* A chunk has the notices of its stretch of the day; one that is not full is *)
(* the last.                                                                  *)
LEMMA ChunkIs ==
  ASSUME NEW d \in Days, NEW k \in Nat
  PROVE  /\ ChunkOf(Published[d], k) \in Seq(Payloads)
         /\ LastChunk(ChunkOf(Published[d], k)) => Len(Published[d]) < k * ChunkSize + ChunkSize
         /\ \A i \in 1..Len(Published[d]) :
              k * ChunkSize < i /\ i <= k * ChunkSize + ChunkSize =>
                /\ i - k * ChunkSize \in DOMAIN ChunkOf(Published[d], k)
                /\ ChunkOf(Published[d], k)[i - k * ChunkSize] = Published[d][i]
<1> DEFINE s == Published[d]
           first == k * ChunkSize
           last == IF first + ChunkSize <= Len(s) THEN first + ChunkSize ELSE Len(s)
<1>1. ChunkSize \in Nat \ {0} /\ s \in Seq(Payloads)
  BY HistoryAssumption DEF HistoryAssumption
<1>2. Len(s) \in Nat /\ \A i \in 1..Len(s) : s[i] \in Payloads
  BY <1>1
<1>3. first \in Nat /\ (k + 1) * ChunkSize = first + ChunkSize
  BY <1>1, Product
<1>4. ChunkOf(s, k) = SubSeq(s, first + 1, last)
  <2>1. Min({(k + 1) * ChunkSize, Len(s)}) = last
    <3>1. (k + 1) * ChunkSize \in Int /\ Len(s) \in Int
      BY <1>1, <1>2, <1>3
    <3>2. Min({(k + 1) * ChunkSize, Len(s)}) =
            IF (k + 1) * ChunkSize <= Len(s) THEN (k + 1) * ChunkSize ELSE Len(s)
      BY <3>1, MinOfTwo
    <3> QED BY <1>3, <3>2
  <2> QED BY <2>1 DEF ChunkOf
<1> HIDE DEF s, first
<1>5. last \in Int /\ \A i \in (first + 1)..last : i \in 1..Len(s)
  BY <1>1, <1>2, <1>3
<1>6. /\ SubSeq(s, first + 1, last) \in Seq(Payloads)
      /\ Len(SubSeq(s, first + 1, last)) = IF first + 1 <= last THEN last - (first + 1) + 1 ELSE 0
      /\ \A i \in 1..(last - (first + 1) + 1) : SubSeq(s, first + 1, last)[i] = s[first + 1 + i - 1]
  <2>1. first + 1 \in Int /\ \A i \in (first + 1)..last : s[i] \in Payloads
    BY <1>2, <1>3, <1>5
  <2> HIDE DEF last
  <2> QED BY <1>5, <2>1, SubSeqProperties
<1> DEFINE c == ChunkOf(s, k)
<1>7. c \in Seq(Payloads) /\ Len(c) = (IF first + 1 <= last THEN last - first ELSE 0)
      /\ \A i \in 1..(last - first) : c[i] = s[first + i]
  <2> HIDE DEF last
  <2>1. last - (first + 1) + 1 = last - first /\ \A i \in 1..(last - first) : first + 1 + i - 1 = first + i
    BY <1>3, <1>5
  <2> QED BY <1>3, <1>4, <1>5, <1>6, <2>1
<1> HIDE DEF c
<1>8. Len(c) < ChunkSize => Len(s) < first + ChunkSize
  BY <1>1, <1>2, <1>3, <1>7
<1>9. ASSUME NEW i \in 1..Len(s), first < i, i <= first + ChunkSize
      PROVE  i - first \in DOMAIN c /\ c[i - first] = s[i]
  <2>1. i <= last /\ first + 1 <= last /\ i - first \in 1..(last - first)
    BY <1>1, <1>2, <1>3, <1>9
  <2>2. DOMAIN c = 1..(last - first)
    BY <1>7, <2>1
  <2>3. first + (i - first) = i
    BY <1>3, <1>9
  <2> HIDE DEF last
  <2> QED BY <1>7, <2>1, <2>2, <2>3
<1> QED BY <1>7, <1>8, <1>9 DEF s, first, c, LastChunk

(* Every notice of a day that is in is in one of its chunks.                  *)
LEMMA InSomeChunk ==
  ASSUME NEW d \in Days, NEW n \in Nat, LastChunk(ChunkOf(Published[d], n)),
         NEW i \in DOMAIN Published[d]
  PROVE  \E k \in 0..n : \E j \in DOMAIN ChunkOf(Published[d], k) :
           ChunkOf(Published[d], k)[j] = Published[d][i]
<1>1. ChunkSize \in Nat \ {0} /\ Published[d] \in Seq(Payloads)
  BY HistoryAssumption DEF HistoryAssumption
<1>2. i \in 1..Len(Published[d])
  BY <1>1
<1> DEFINE upto == {k \in Nat : i <= k * ChunkSize + ChunkSize}
<1>3. n \in upto
  <2>1. Len(Published[d]) \in Nat /\ Len(Published[d]) < n * ChunkSize + ChunkSize
    <3>1. Len(Published[d]) < n * ChunkSize + ChunkSize
      BY ChunkIs, ZenonT(60)
    <3> QED BY <1>1, <3>1
  <2>2. n * ChunkSize \in Nat
    BY <1>1, Product
  <2> QED BY <1>1, <1>2, <2>1, <2>2
<1>4. PICK k \in upto : \A m \in upto : <<m, k>> \notin OpToRel(<, Nat)
  BY <1>3, WFMin, NatLessThanWellFounded
<1>5. k \in Nat /\ \A m \in upto : k <= m
  <2>1. k \in Nat /\ \A m \in upto : m \in Nat
    OBVIOUS
  <2> HIDE DEF upto
  <2>2. \A m \in upto : <<m, k>> \notin OpToRel(<, Nat) => k <= m
    BY <2>1 DEF OpToRel
  <2> QED BY <1>4, <2>1, <2>2
<1>6. k \in 0..n
  BY <1>3, <1>5
<1>7. k * ChunkSize < i
  <2>1. CASE k = 0
    BY <1>1, <1>2, <2>1
  <2>2. CASE k # 0
    <3>1. k - 1 \in Nat /\ k - 1 \notin upto
      BY <1>5, <2>2
    <3>2. (k - 1) * ChunkSize + ChunkSize = k * ChunkSize /\ k * ChunkSize \in Nat
      <4>1. ChunkSize \in Nat /\ k \in Nat /\ k - 1 \in Nat /\ (k - 1) + 1 = k
        BY <1>1, <1>5, <3>1
      <4> QED BY <4>1, Product
    <3> QED BY <1>2, <3>1, <3>2
  <2> QED BY <2>1, <2>2
<1>8. i <= k * ChunkSize + ChunkSize
  BY <1>4
<1> QED BY <1>2, <1>5, <1>6, <1>7, <1>8, ChunkIs

(* Bundles of different days or chunks have different names.                  *)
LEMMA DayBundleIs ==
  /\ \A d, e, k, m : DayBundle(d, k) = DayBundle(e, m) => d = e /\ k = m
  /\ \A d \in Days, k \in Nat : DayBundle(d, k) \in BundleNames
  BY DEF DayBundle, Name, BundleNames

------------------------------------------------------------------------------
(* What a growing store and index keep.                                       *)

LEMMA ChunksStay ==
  ASSUME Grows, raw \subseteq raw'
  PROVE  /\ \A d, k : ChunkIn(d, k) => ChunkIn(d, k)'
         /\ \A d, n : DayIn(d, n) => DayIn(d, n)'
<1>1. ASSUME NEW d, NEW k, ChunkIn(d, k) PROVE ChunkIn(d, k)'
  BY <1>1 DEF ChunkIn, Grows
<1>2. ASSUME NEW d, NEW n, DayIn(d, n) PROVE DayIn(d, n)'
  BY <1>1, <1>2 DEF DayIn
<1> QED BY <1>1, <1>2

LEMMA MarkedStays ==
  ASSUME \A d \in marked : \E n \in Nat : DayIn(d, n), Grows, raw \subseteq raw', UNCHANGED marked
  PROVE  \A d \in marked' : \E n \in Nat : DayIn(d, n)'
  BY ChunksStay

LEMMA RowsStay ==
  ASSUME HistoryTypeOK, RowsResolve, Grows, UNCHANGED raw
  PROVE  RowsResolve'
<1> SUFFICES ASSUME NEW row \in raw PROVE Get(store', row.key) = row.hash
  BY DEF RowsResolve
<1>1. row.hash \in Payloads /\ Get(store, row.key) = row.hash
  BY DEF RowsResolve, HistoryTypeOK, LoadedRows
<1>2. row.key.name \in DOMAIN store
  BY <1>1, HistoryAssumption DEF Get, HistoryAssumption
<1> QED BY <1>1, <1>2 DEF Get, Grows

(* A load in whose hands nothing changes.                                     *)
LEMMA LoadStays ==
  ASSUME NEW l \in Loaders, LoadOK(l), Grows, raw \subseteq raw',
         stage'[l] = stage[l], todo'[l] = todo[l], piece'[l] = piece[l], chunk'[l] = chunk[l]
  PROVE  LoadOK(l)'
<1>1. Day(l)' = Day(l)
  BY DEF Day
<1> PICK d : d = Day(l)
  OBVIOUS
<1>2. \A k : ChunkIn(d, k) => ChunkIn(d, k)'
  BY ChunksStay
<1>3. \A n : DayIn(d, n) => DayIn(d, n)'
  BY ChunksStay
<1>4. /\ stage[l] \in {"fetched", "stored"} => chunk[l] = ChunkOf(Published[d], piece[l])
      /\ stage[l] = "stored" => DayBundle(d, piece[l]) \in DOMAIN store
      /\ \A k \in Nat : k < piece[l] => ChunkIn(d, k)
      /\ stage[l] = "read" => DayIn(d, piece[l])
  BY DEF LoadOK
<1>5. stage'[l] = "stored" => DayBundle(d, piece'[l]) \in DOMAIN store'
  BY <1>4 DEF Grows
<1>6. \A k \in Nat : k < piece'[l] => ChunkIn(d, k)'
  BY <1>2, <1>4
<1>7. stage'[l] = "read" => DayIn(d, piece[l])'
  BY <1>3, <1>4
<1> QED BY <1>1, <1>4, <1>5, <1>6, <1>7 DEF LoadOK

(* A load that is off has nothing in hand.                                    *)
LEMMA NothingInHand ==
  ASSUME NEW l \in Loaders, stage'[l] \in {"off", "fetch"}, piece'[l] = 0
  PROVE  LoadOK(l)'
  BY DEF LoadOK

(* However a load ends, and whatever it still put in the store.               *)
LEMMA LeaveInv ==
  ASSUME HInv, NEW l \in Loaders, Leave(l), Grows, BundlesTrue', UNCHANGED <<raw, marked>>,
         DOMAIN store' \subseteq BundleNames, \A n \in DOMAIN store' : store'[n] \in Seq(Payloads),
         hold' \in BOOLEAN, stops' \in Nat, failures' \in Nat
  PROVE  HInv'
<1>1. HistoryTypeOK
  BY DEF HInv
<1>2. HistoryTypeOK'
  <2>1. /\ stage' = [stage EXCEPT ![l] = "off"] /\ todo' = [todo EXCEPT ![l] = {}]
        /\ piece' = [piece EXCEPT ![l] = 0] /\ chunk' = [chunk EXCEPT ![l] = << >>]
        /\ loaded' = [loaded EXCEPT ![l] = 0]
    BY DEF Leave
  <2>2. << >> \in Seq(Payloads)
    OBVIOUS
  <2> QED BY <1>1, <2>1, <2>2 DEF HistoryTypeOK
<1>3. RowsResolve'
  BY <1>1, RowsStay DEF HInv
<1>4. \A m \in Loaders : LoadOK(m)'
  <2> SUFFICES ASSUME NEW m \in Loaders PROVE LoadOK(m)'
    OBVIOUS
  <2>1. CASE m = l
    BY <1>1, <2>1, NothingInHand DEF Leave, HistoryTypeOK
  <2>2. CASE m # l
    BY <1>1, <2>2, LoadStays DEF Leave, HistoryTypeOK, HInv
  <2> QED BY <2>1, <2>2
<1>5. \A d \in marked' : \E n \in Nat : DayIn(d, n)'
  BY MarkedStays DEF HInv
<1> QED BY <1>2, <1>3, <1>4, <1>5 DEF HInv

(* The bundle of a fetched chunk goes over one that is the same.              *)
LEMMA BundledInv ==
  ASSUME HInv, NEW l \in Loaders, stage[l] = "fetched", store' = Bundled(l)
  PROVE  /\ Grows
         /\ DayBundle(Day(l), piece[l]) \in DOMAIN store'
         /\ BundlesTrue'
         /\ DOMAIN store' \subseteq BundleNames
         /\ \A n \in DOMAIN store' : store'[n] \in Seq(Payloads)
<1>1. HistoryTypeOK /\ BundlesTrue /\ LoadOK(l)
  BY DEF HInv
<1>2. Day(l) \in Days /\ piece[l] \in Nat
  BY <1>1, DayIs DEF HistoryTypeOK
<1> PICK d \in Days, k \in Nat : d = Day(l) /\ k = piece[l]
  BY <1>2
<1>3. chunk[l] = ChunkOf(Published[d], k) /\ chunk[l] \in Seq(Payloads)
  BY <1>1 DEF LoadOK, HistoryTypeOK
<1>4. store' = Put(store, DayBundle(d, k), chunk[l])
  BY DEF Bundled
<1>5. DayBundle(d, k) \in DOMAIN store => store[DayBundle(d, k)] = chunk[l]
  BY <1>1, <1>3 DEF BundlesTrue
<1>6. /\ Grows /\ DOMAIN store' = DOMAIN store \cup {DayBundle(d, k)}
      /\ store'[DayBundle(d, k)] = chunk[l]
  BY <1>4, <1>5, PutGrows
<1>7. BundlesTrue'
  <2> SUFFICES ASSUME NEW e \in Days, NEW m \in Nat, DayBundle(e, m) \in DOMAIN store'
               PROVE  store'[DayBundle(e, m)] = ChunkOf(Published[e], m)
    BY DEF BundlesTrue
  <2>1. CASE DayBundle(e, m) = DayBundle(d, k)
    BY <1>3, <1>6, <2>1, DayBundleIs
  <2>2. CASE DayBundle(e, m) # DayBundle(d, k)
    BY <1>1, <1>6, <2>2 DEF BundlesTrue, Grows
  <2> QED BY <2>1, <2>2
<1>8. DOMAIN store' \subseteq BundleNames /\ \A n \in DOMAIN store' : store'[n] \in Seq(Payloads)
  BY <1>1, <1>3, <1>6, DayBundleIs DEF HistoryTypeOK, Grows
<1> QED BY <1>6, <1>7, <1>8

LEMMA StoreSameGrows == ASSUME UNCHANGED store PROVE Grows
  BY DEF Grows

------------------------------------------------------------------------------
(* One lemma for each action.                                                 *)

LEMMA StartLoadInv == ASSUME HInv, NEW l \in Loaders, StartLoad(l) PROVE HInv'
<1>1. HistoryTypeOK
  BY DEF HInv
<1>2. /\ stage' = [stage EXCEPT ![l] = "fetch"] /\ todo' = [todo EXCEPT ![l] = Pending(l)]
      /\ piece' = [piece EXCEPT ![l] = 0] /\ loaded' = [loaded EXCEPT ![l] = 0]
      /\ UNCHANGED <<stored, marked, hold, chunk, stops, failures>>
  BY DEF StartLoad
<1>3. Grows /\ UNCHANGED raw
  BY <1>2, StoreSameGrows DEF stored
<1>4. HistoryTypeOK'
  <2>1. Pending(l) \subseteq Days
    BY DEF Pending
  <2> QED BY <1>1, <1>2, <2>1 DEF HistoryTypeOK, stored
<1>5. \A m \in Loaders : LoadOK(m)'
  <2> SUFFICES ASSUME NEW m \in Loaders PROVE LoadOK(m)'
    OBVIOUS
  <2>1. CASE m = l
    BY <1>1, <1>2, <2>1, NothingInHand DEF HistoryTypeOK
  <2>2. CASE m # l
    BY <1>1, <1>2, <1>3, <2>2, LoadStays DEF HistoryTypeOK, HInv
  <2> QED BY <2>1, <2>2
<1>6. RowsResolve' /\ BundlesTrue'
  BY <1>2 DEF HInv, RowsResolve, BundlesTrue, stored
<1>7. \A d \in marked' : \E n \in Nat : DayIn(d, n)'
  BY <1>2, <1>3, MarkedStays DEF HInv
<1> QED BY <1>4, <1>5, <1>6, <1>7 DEF HInv

LEMMA FetchChunkInv == ASSUME HInv, NEW l \in Loaders, FetchChunk(l) PROVE HInv'
<1>1. HistoryTypeOK
  BY DEF HInv
<1>2. /\ stage[l] = "fetch" /\ todo[l] # {}
      /\ chunk' = [chunk EXCEPT ![l] = ChunkOf(Published[Day(l)], piece[l])]
      /\ stage' = [stage EXCEPT ![l] = "fetched"]
      /\ UNCHANGED <<stored, marked, hold, todo, piece, loaded, stops, failures>>
  BY <1>1 DEF FetchChunk, Fetching, HasDay, HistoryTypeOK
<1>3. Grows /\ UNCHANGED raw
  BY <1>2, StoreSameGrows DEF stored
<1>4. Day(l) \in Days /\ piece[l] \in Nat
  BY <1>1, <1>2, DayIs DEF HistoryTypeOK
<1> PICK d \in Days, k \in Nat : d = Day(l) /\ k = piece[l]
  BY <1>4
<1>5. chunk' = [chunk EXCEPT ![l] = ChunkOf(Published[d], k)]
  BY <1>2
<1>6. HistoryTypeOK'
  <2>1. ChunkOf(Published[d], k) \in Seq(Payloads)
    BY ChunkIs
  <2>2. /\ chunk' \in [Loaders -> Seq(Payloads)]
        /\ stage' \in [Loaders -> {"off", "fetch", "fetched", "stored", "read"}]
        /\ \A m \in Loaders : stage'[m] \in {"fetched", "stored", "read"} => todo[m] # {}
    <3>1. /\ chunk \in [Loaders -> Seq(Payloads)]
          /\ stage \in [Loaders -> {"off", "fetch", "fetched", "stored", "read"}]
          /\ \A m \in Loaders : stage[m] \in {"fetched", "stored", "read"} => todo[m] # {}
      BY <1>1 DEF HistoryTypeOK
    <3> QED BY <1>2, <1>5, <2>1, <3>1
  <2> QED BY <1>1, <1>2, <2>2 DEF HistoryTypeOK, stored
<1>7. LoadOK(l)'
  <2>1. Day(l)' = d /\ piece'[l] = k /\ chunk'[l] = ChunkOf(Published[d], k) /\ stage'[l] = "fetched"
    BY <1>1, <1>2, <1>5 DEF Day, HistoryTypeOK
  <2>2. \A j \in Nat : j < k => ChunkIn(d, j)
    BY DEF HInv, LoadOK
  <2>3. \A j \in Nat : j < k => ChunkIn(d, j)'
    BY <1>3, <2>2, ChunksStay
  <2> QED BY <2>1, <2>3 DEF LoadOK
<1>8. \A m \in Loaders : m # l => LoadOK(m)'
  BY <1>1, <1>2, <1>3, LoadStays DEF HistoryTypeOK, HInv
<1>9. RowsResolve' /\ BundlesTrue'
  BY <1>2 DEF HInv, RowsResolve, BundlesTrue, stored
<1>10. \A e \in marked' : \E n \in Nat : DayIn(e, n)'
  BY <1>2, <1>3, MarkedStays DEF HInv
<1> QED BY <1>6, <1>7, <1>8, <1>9, <1>10 DEF HInv

LEMMA StoreChunkInv == ASSUME HInv, NEW l \in Loaders, StoreChunk(l) PROVE HInv'
<1>1. HistoryTypeOK
  BY DEF HInv
<1>2. /\ stage[l] = "fetched" /\ store' = Bundled(l)
      /\ stage' = [stage EXCEPT ![l] = "stored"]
      /\ UNCHANGED <<raw, marked, hold, todo, piece, chunk, loaded, stops, failures>>
  BY DEF StoreChunk
<1>3. /\ Grows /\ BundlesTrue' /\ DayBundle(Day(l), piece[l]) \in DOMAIN store'
      /\ DOMAIN store' \subseteq BundleNames /\ \A n \in DOMAIN store' : store'[n] \in Seq(Payloads)
  BY <1>2, BundledInv
<1>4. HistoryTypeOK'
  BY <1>1, <1>2, <1>3 DEF HistoryTypeOK
<1>5. RowsResolve'
  BY <1>1, <1>2, <1>3, RowsStay DEF HInv
<1>6. LoadOK(l)'
  <2> PICK d, k : d = Day(l) /\ k = piece[l]
    OBVIOUS
  <2>1. Day(l)' = d /\ piece'[l] = k /\ chunk'[l] = chunk[l] /\ stage'[l] = "stored"
    BY <1>1, <1>2 DEF Day, HistoryTypeOK
  <2>2. chunk[l] = ChunkOf(Published[d], k) /\ \A j \in Nat : j < k => ChunkIn(d, j)
    BY <1>2 DEF HInv, LoadOK
  <2>3. \A j \in Nat : j < k => ChunkIn(d, j)'
    BY <1>2, <1>3, <2>2, ChunksStay
  <2> QED BY <1>3, <2>1, <2>2, <2>3 DEF LoadOK
<1>7. \A m \in Loaders : m # l => LoadOK(m)'
  BY <1>1, <1>2, <1>3, LoadStays DEF HistoryTypeOK, HInv
<1>8. \A d \in marked' : \E n \in Nat : DayIn(d, n)'
  BY <1>2, <1>3, MarkedStays DEF HInv
<1> QED BY <1>3, <1>4, <1>5, <1>6, <1>7, <1>8 DEF HInv

LEMMA CommitChunkInv == ASSUME HInv, NEW l \in Loaders, CommitChunk(l) PROVE HInv'
<1>1. HistoryTypeOK /\ BundlesTrue /\ RowsResolve /\ LoadOK(l)
  BY DEF HInv
<1>2. /\ stage[l] = "stored" /\ raw' = raw \cup RowsOf(l)
      /\ chunk' = [chunk EXCEPT ![l] = << >>]
      /\ UNCHANGED <<store, marked, hold, todo, loaded, stops, failures>>
  BY DEF CommitChunk
<1>3. Grows /\ raw \subseteq raw'
  BY <1>2, StoreSameGrows
<1>4. Day(l) \in Days /\ piece[l] \in Nat
  BY <1>1, <1>2, DayIs DEF HistoryTypeOK
<1> PICK d \in Days, k \in Nat : d = Day(l) /\ k = piece[l]
  BY <1>4
<1> PICK c : c = ChunkOf(Published[d], k)
  OBVIOUS
<1>5. /\ chunk[l] = c /\ c \in Seq(Payloads)
      /\ DayBundle(d, k) \in DOMAIN store /\ store[DayBundle(d, k)] = c
  BY <1>1, <1>2, ChunkIs DEF LoadOK, BundlesTrue
<1>6. RowsOf(l) = {Row(None, c[i], RecordKey(DayBundle(d, k), i)) :
                     i \in {j \in DOMAIN c : c[j] \notin Unmapped}}
  BY <1>5 DEF RowsOf, KeyOf
<1>7. /\ \/ LastChunk(c) /\ stage' = [stage EXCEPT ![l] = "read"] /\ piece' = piece
         \/ stage' = [stage EXCEPT ![l] = "fetch"] /\ piece' = [piece EXCEPT ![l] = k + 1]
  BY <1>5 DEF CommitChunk
<1>8. HistoryTypeOK'
  <2>1. RowsOf(l) \subseteq LoadedRows
    <3> SUFFICES ASSUME NEW i \in DOMAIN c
                 PROVE  Row(None, c[i], RecordKey(DayBundle(d, k), i)) \in LoadedRows
      BY <1>6
    <3>1. c[i] \in Payloads /\ i \in Nat \ {0}
      BY <1>5
    <3> QED BY <3>1, DayBundleIs DEF Row, RecordKey, LoadedRows
  <2>2. << >> \in Seq(Payloads)
    OBVIOUS
  <2>3. todo[l] # {}
    BY <1>1, <1>2 DEF HistoryTypeOK
  <2>4. raw' \subseteq LoadedRows /\ chunk' \in [Loaders -> Seq(Payloads)]
    BY <1>1, <1>2, <2>1, <2>2 DEF HistoryTypeOK
  <2>5. /\ stage' \in [Loaders -> {"off", "fetch", "fetched", "stored", "read"}]
        /\ piece' \in [Loaders -> Nat]
        /\ \A m \in Loaders : stage'[m] \in {"fetched", "stored", "read"} => todo[m] # {}
        /\ \A m \in Loaders : piece'[m] > 0 => todo[m] # {}
    <3>1. /\ stage \in [Loaders -> {"off", "fetch", "fetched", "stored", "read"}]
          /\ piece \in [Loaders -> Nat] /\ k + 1 \in Nat
          /\ \A m \in Loaders : stage[m] \in {"fetched", "stored", "read"} => todo[m] # {}
          /\ \A m \in Loaders : piece[m] > 0 => todo[m] # {}
      BY <1>1 DEF HistoryTypeOK
    <3>2. \A m \in Loaders : m # l => stage'[m] = stage[m] /\ piece'[m] = piece[m]
      BY <1>7, <3>1
    <3>3. /\ stage' \in [Loaders -> {"off", "fetch", "fetched", "stored", "read"}]
          /\ piece' \in [Loaders -> Nat]
      BY <1>7, <3>1
    <3> QED BY <2>3, <3>1, <3>2, <3>3
  <2> QED BY <1>1, <1>2, <2>4, <2>5 DEF HistoryTypeOK
<1>9. RowsResolve'
  <2> SUFFICES ASSUME NEW row \in raw' PROVE Get(store, row.key) = row.hash
    BY <1>2 DEF RowsResolve
  <2>1. CASE row \in raw
    BY <1>1, <2>1 DEF RowsResolve
  <2>2. ASSUME NEW i \in DOMAIN c, row = Row(None, c[i], RecordKey(DayBundle(d, k), i))
        PROVE  Get(store, row.key) = row.hash
    BY <1>5, <2>2 DEF Row, RecordKey, Get
  <2> QED BY <1>2, <1>6, <2>1, <2>2
<1>10. ChunkIn(d, k)'
  <2>1. \A i \in DOMAIN c : c[i] \notin Unmapped =>
          Row(None, c[i], RecordKey(DayBundle(d, k), i)) \in raw'
    BY <1>2, <1>6
  <2> QED BY <1>2, <1>5, <2>1 DEF ChunkIn
<1>11. LoadOK(l)'
  <2>1. Day(l)' = d
    BY <1>2 DEF Day
  <2>2. \A j \in Nat : j < k => ChunkIn(d, j)'
    BY <1>1, <1>3, ChunksStay DEF LoadOK
  <2>3. \A j \in Nat : j < k + 1 => ChunkIn(d, j)'
    BY <1>10, <2>2
  <2>4. CASE LastChunk(c) /\ stage' = [stage EXCEPT ![l] = "read"] /\ piece' = piece
    <3>1. stage'[l] = "read" /\ piece'[l] = k
      BY <1>1, <2>4 DEF HistoryTypeOK
    <3>2. \A j \in 0..k : ChunkIn(d, j)'
      BY <2>3
    <3>3. DayIn(d, k)'
      BY <2>4, <3>2 DEF DayIn
    <3> QED BY <2>1, <2>2, <3>1, <3>3 DEF LoadOK
  <2>5. CASE stage' = [stage EXCEPT ![l] = "fetch"] /\ piece' = [piece EXCEPT ![l] = k + 1]
    <3>1. stage'[l] = "fetch" /\ piece'[l] = k + 1
      BY <1>1, <2>5 DEF HistoryTypeOK
    <3> QED BY <2>1, <2>3, <3>1 DEF LoadOK
  <2> QED BY <1>7, <2>4, <2>5
<1>12. ASSUME NEW m \in Loaders, m # l PROVE LoadOK(m)'
  <2>1. stage'[m] = stage[m] /\ piece'[m] = piece[m] /\ chunk'[m] = chunk[m] /\ todo'[m] = todo[m]
    BY <1>1, <1>2, <1>7, <1>12 DEF HistoryTypeOK
  <2> QED BY <1>3, <2>1, LoadStays DEF HInv
<1>13. BundlesTrue'
  BY <1>1, <1>2 DEF BundlesTrue
<1>14. \A e \in marked' : \E n \in Nat : DayIn(e, n)'
  BY <1>2, <1>3, MarkedStays DEF HInv
<1> QED BY <1>8, <1>9, <1>11, <1>12, <1>13, <1>14 DEF HInv

LEMMA MarkDayInv == ASSUME HInv, NEW l \in Loaders, MarkDay(l) PROVE HInv'
<1>1. HistoryTypeOK /\ LoadOK(l)
  BY DEF HInv
<1>2. /\ stage[l] = "read" /\ marked' = marked \cup {Day(l)}
      /\ todo' = [todo EXCEPT ![l] = @ \ {Day(l)}]
      /\ piece' = [piece EXCEPT ![l] = 0] /\ loaded' = [loaded EXCEPT ![l] = @ + 1]
      /\ stage' = [stage EXCEPT ![l] = "fetch"]
      /\ UNCHANGED <<stored, hold, chunk, stops, failures>>
  BY DEF MarkDay
<1>3. Grows /\ UNCHANGED raw
  BY <1>2, StoreSameGrows DEF stored
<1>4. Day(l) \in Days /\ piece[l] \in Nat
  BY <1>1, <1>2, DayIs DEF HistoryTypeOK
<1>5. HistoryTypeOK'
  <2>1. \A m \in Loaders : piece'[m] > 0 => m # l
    BY <1>1, <1>2 DEF HistoryTypeOK
  <2> QED BY <1>1, <1>2, <1>4, <2>1 DEF HistoryTypeOK, stored
<1>6. ASSUME NEW m \in Loaders PROVE LoadOK(m)'
  <2>1. CASE m = l
    BY <1>1, <1>2, <2>1, NothingInHand DEF HistoryTypeOK
  <2>2. CASE m # l
    BY <1>1, <1>2, <1>3, <2>2, LoadStays DEF HistoryTypeOK, HInv
  <2> QED BY <2>1, <2>2
<1>7. RowsResolve' /\ BundlesTrue'
  BY <1>2 DEF HInv, RowsResolve, BundlesTrue, stored
<1>8. \A d \in marked' : \E n \in Nat : DayIn(d, n)'
  <2>1. \A d \in marked' : \E n \in Nat : DayIn(d, n)
    BY <1>1, <1>2, <1>4 DEF HInv, LoadOK
  <2> QED BY <1>3, <2>1, ChunksStay
<1> QED BY <1>5, <1>6, <1>7, <1>8 DEF HInv

(* A load ends, or fails, with nothing put in the store.                      *)
LEMMA EndsInv ==
  ASSUME HInv, NEW l \in Loaders, Leave(l), UNCHANGED <<stored, marked>>,
         hold' \in BOOLEAN, stops' \in Nat, failures' \in Nat
  PROVE  HInv'
<1>1. UNCHANGED <<store, raw>>
  BY DEF stored
<1>2. Grows
  BY <1>1, StoreSameGrows
<1>3. /\ BundlesTrue' /\ DOMAIN store' \subseteq BundleNames
      /\ \A n \in DOMAIN store' : store'[n] \in Seq(Payloads)
  BY <1>1 DEF HInv, HistoryTypeOK, BundlesTrue
<1> QED BY <1>1, <1>2, <1>3, LeaveInv

LEMMA FinishLoadInv == ASSUME HInv, NEW l \in Loaders, FinishLoad(l) PROVE HInv'
<1>1. hold' = (hold /\ loaded[l] >= MaxDays[l]) /\ Leave(l)
      /\ UNCHANGED <<stored, marked, stops, failures>>
  BY DEF FinishLoad
<1>2. hold' \in BOOLEAN
  BY <1>1, ZenonT(60)
<1> QED BY <1>1, <1>2, EndsInv DEF HInv, HistoryTypeOK

LEMMA RateLimitedInv == ASSUME HInv, NEW l \in Loaders, RateLimited(l) PROVE HInv'
  BY EndsInv DEF RateLimited, HInv, HistoryTypeOK

LEMMA LoadFailsInv == ASSUME HInv, NEW l \in Loaders, LoadFails(l) PROVE HInv'
<1>1. Leave(l) /\ UNCHANGED <<raw, marked, hold, stops>> /\ failures' = failures + 1
  BY DEF LoadFails
<1>2. hold' \in BOOLEAN /\ stops' \in Nat /\ failures' \in Nat
  BY <1>1 DEF HInv, HistoryTypeOK
<1>3. CASE UNCHANGED store
  BY <1>1, <1>2, <1>3, EndsInv DEF stored
<1>4. CASE stage[l] = "fetched" /\ store' = Bundled(l)
  BY <1>1, <1>2, <1>4, BundledInv, LeaveInv
<1> QED BY <1>3, <1>4 DEF LoadFails

(* Nothing but the hold, or nothing at all.                                   *)
LEMMA WaitInv ==
  ASSUME HInv, UNCHANGED <<stored, marked, loading, stops, failures>>, hold' \in BOOLEAN
  PROVE  HInv'
<1>1. Grows /\ UNCHANGED <<store, raw, marked, stage, todo, piece, chunk, loaded, stops, failures>>
  BY StoreSameGrows DEF stored, loading
<1>2. HistoryTypeOK'
  BY <1>1 DEF HInv, HistoryTypeOK
<1>3. RowsResolve' /\ BundlesTrue'
  BY <1>1 DEF HInv, RowsResolve, BundlesTrue
<1>4. \A l \in Loaders : LoadOK(l)'
  BY <1>1, LoadStays DEF HInv
<1>5. \A d \in marked' : \E n \in Nat : DayIn(d, n)'
  BY <1>1, MarkedStays DEF HInv
<1> QED BY <1>2, <1>3, <1>4, <1>5 DEF HInv

------------------------------------------------------------------------------
LEMMA HistoryInitInv == HistoryInit => HInv
<1> SUFFICES ASSUME HistoryInit PROVE HInv
  OBVIOUS
<1>1. HistoryTypeOK
  <2>1. << >> \in Seq(Payloads) /\ DOMAIN store = {}
    BY DEF HistoryInit
  <2>2. /\ DOMAIN store \subseteq BundleNames /\ \A n \in DOMAIN store : store[n] \in Seq(Payloads)
        /\ raw \subseteq LoadedRows /\ marked \subseteq Days /\ hold \in BOOLEAN
        /\ stops \in Nat /\ failures \in Nat
    BY <2>1 DEF HistoryInit
  <2>3. /\ stage \in [Loaders -> {"off", "fetch", "fetched", "stored", "read"}]
        /\ todo \in [Loaders -> SUBSET Days] /\ piece \in [Loaders -> Nat]
        /\ chunk \in [Loaders -> Seq(Payloads)] /\ loaded \in [Loaders -> Nat]
        /\ \A l \in Loaders : stage[l] = "off" /\ piece[l] = 0
    BY <2>1 DEF HistoryInit
  <2> QED BY <2>2, <2>3 DEF HistoryTypeOK
<1>2. RowsResolve /\ BundlesTrue
  BY DEF HistoryInit, RowsResolve, BundlesTrue
<1>3. \A l \in Loaders : LoadOK(l)
  BY DEF HistoryInit, LoadOK
<1> QED BY <1>1, <1>2, <1>3 DEF HInv, HistoryInit

LEMMA HistoryNextInv == HInv /\ [HistoryNext]_historyVars => HInv'
<1> SUFFICES ASSUME HInv, [HistoryNext]_historyVars PROVE HInv'
  OBVIOUS
<1>1. ASSUME NEW l \in Loaders, StartLoad(l) \/ LoadStep(l) \/ RateLimited(l) \/ LoadFails(l)
      PROVE  HInv'
  BY <1>1, StartLoadInv, FetchChunkInv, StoreChunkInv, CommitChunkInv, MarkDayInv, FinishLoadInv,
     RateLimitedInv, LoadFailsInv DEF LoadStep
<1>2. CASE CooldownOver
  BY <1>2, WaitInv DEF CooldownOver
<1>3. CASE UNCHANGED historyVars
  BY <1>3, WaitInv DEF historyVars, HInv, HistoryTypeOK
<1> QED BY <1>1, <1>2, <1>3 DEF HistoryNext

LEMMA HistoryInvariant == HistorySpec => []HInv
  BY HistoryInitInv, HistoryNextInv, PTL DEF HistorySpec

(* Every variable of the history loads keeps its type.                        *)
THEOREM HistoryTypes == HistorySpec => []HistoryTypeOK
<1>1. HInv => HistoryTypeOK
  BY DEF HInv
<1> QED BY HistoryInvariant, <1>1, PTL

(* Loads of one source that run at once, fail and begin again never leave a   *)
(* committed row without its payload: they write each other's bundles over,   *)
(* with the same (`run_history`, `bundle_key`).                               *)
THEOREM LoadedRowsResolve == HistorySpec => []RowsResolve
<1>1. HInv => RowsResolve
  BY DEF HInv
<1> QED BY HistoryInvariant, <1>1, PTL

(* A day marked done is whole: whatever is refused, fails or is killed, and   *)
(* whichever loads wrote its chunks, every notice of it that the mapper reads *)
(* is indexed under a key that reads it back (`mark_backfill_day`).           *)
THEOREM MarkedDaysAreLoaded == HistorySpec => []MarkedIsLoaded
<1>1. HInv => MarkedIsLoaded
  <2> SUFFICES ASSUME HInv, NEW d \in marked, NEW i \in DOMAIN Published[d],
                      Published[d][i] \notin Unmapped
               PROVE  \E row \in raw : row.hash = Published[d][i] /\ Get(store, row.key) = row.hash
    BY DEF MarkedIsLoaded
  <2>1. d \in Days
    BY DEF HInv, HistoryTypeOK
  <2>2. PICK n \in Nat : DayIn(d, n)
    BY DEF HInv
  <2>a. PICK k \in 0..n :
          \E j \in DOMAIN ChunkOf(Published[d], k) : ChunkOf(Published[d], k)[j] = Published[d][i]
    BY <2>1, <2>2, InSomeChunk DEF DayIn
  <2>3. PICK j \in DOMAIN ChunkOf(Published[d], k) : ChunkOf(Published[d], k)[j] = Published[d][i]
    BY <2>a
  <2>4. Row(None, Published[d][i], RecordKey(DayBundle(d, k), j)) \in raw
    BY <2>2, <2>3 DEF DayIn, ChunkIn
  <2> QED BY <2>4 DEF HInv, RowsResolve, Row
<1> QED BY HistoryInvariant, <1>1, PTL
==============================================================================
