------------------------------- MODULE Landing -------------------------------
(* How a run lands raw payloads: `_store_raw`, `_checkpoint` and `_pulled` of *)
(* dgate/pipeline.py with the BundleWriter of the daily runs or the           *)
(* BufferedWriter of the Atlas load (dgate/rawstore.py).                      *)
(*                                                                            *)
(* A payload's key is known, and recorded in `raw_ingest`, before the payload *)
(* is in the store. The store and the database fail independently: a write    *)
(* may be refused, or done and reported as failed, and the process may be     *)
(* killed between any two steps.                                              *)
EXTENDS RawStore

CONSTANTS
  Runs,          \* the sources' jobs that land payloads
  Loads,         \* the jobs with a BufferedWriter: one object per payload
  Refreshes,     \* the loads that land again what is indexed (refresh_known)
  FixedTag,      \* the jobs that name their bundles after themselves ("topics")
  SkipsHeld,     \* the jobs that do not land content again (`raw_held`)
  Source,        \* the source of each job
  Delivers,      \* what each job's source delivers
  Malformed,     \* payloads the mapper refuses: skipped
  Ids,           \* raw_ingest.id
  RowId(_, _, _),\* the id of the row of a job, a run and a payload: no two alike
  RowSource,     \* raw_ingest.source_id, by the row's id
  Poisoned,      \* payloads whose upsert may raise a record error
  MaxQuarantined,\* quarantined records a daily run goes on with
  MaxRuns,       \* bound on the runs of each job
  MaxFaults      \* bound on failed writes and crashes

ASSUME LandingAssumption ==
  /\ Loads \subseteq Runs
  /\ Refreshes \subseteq Loads
  /\ FixedTag \subseteq Runs \ Loads
  /\ SkipsHeld \subseteq Runs \ Loads
  /\ Delivers \in [Runs -> SUBSET Payloads]
  \* A load's object is named by its source as well as its content.
  /\ \A s, t \in Loads : Source[s] # Source[t] => Delivers[s] \cap Delivers[t] = {}
  /\ Malformed \subseteq Payloads
  /\ Poisoned \subseteq Payloads
  /\ MaxQuarantined \in Nat
  /\ MaxRuns \in Nat
  /\ MaxFaults \in Nat
  /\ \A s, t \in Runs : \A n, m \in 1..MaxRuns : \A p, q \in Payloads :
       /\ RowId(s, n, p) \in Ids /\ RowSource[RowId(s, n, p)] = Source[s]
       /\ RowId(s, n, p) = RowId(t, m, q) => <<s, n, p>> = <<t, m, q>>
  /\ None \notin Payloads

VARIABLES
  pc,            \* "off", "idle" (between two records), "drained"
  run,           \* how many times each job has run: what makes its tag unique
  part,          \* BundleWriter._part
  buffer,        \* BundleWriter._buffer: the lines of the pending bundle
  inflight,      \* BufferedWriter: writes the pool has not finished
  broken,        \* BufferedWriter: a write failed since the last drain
  stray,         \* writes of pools whose run is over
  tx,            \* uncommitted rows of raw_ingest
  left,          \* records of the run still to come
  quarantined,   \* records the run quarantined
  outcome,       \* ingest_run.status of the job's last run
  faults         \* failed writes and crashes so far

working == <<part, buffer, inflight, broken, stray, tx, left, quarantined>>
control == <<pc, run, outcome>>
vars == <<stored, working, control, faults>>

Init ==
  /\ store = << >>
  /\ raw = {}
  /\ pc = [s \in Runs |-> "off"]
  /\ run = [s \in Runs |-> 0]
  /\ part = [s \in Runs |-> 0]
  /\ buffer = [s \in Runs |-> << >>]
  /\ inflight = [s \in Runs |-> {}]
  /\ broken = [s \in Runs |-> FALSE]
  /\ stray = {}
  /\ tx = [s \in Runs |-> {}]
  /\ left = [s \in Runs |-> {}]
  /\ quarantined = [s \in Runs |-> 0]
  /\ outcome = [s \in Runs |-> "never"]
  /\ faults = 0

------------------------------------------------------------------------------
(* Mutated: what is in the store counts as landed, indexed or not.            *)
AlreadyIngestedStored(s) == {p \in Payloads : ObjectName(p) \in DOMAIN store}

(* Mutated: a load that was interrupted starts over.                          *)
AlreadyIngestedNone(s) == {}

(* The payloads that rows index for the source of a job.                      *)
HashesOf(s, rows) == {row.hash : row \in {o \in rows : RowSource[o.id] = Source[s]}}

(* `already_ingested`: what a load finds indexed for its source when it starts*)
AlreadyIngested(s) == HashesOf(s, raw)

(* Mutated: the name of a bundle is that of the source and the day.           *)
TagOfTheDay(s) == 0

(* What tells a run's bundles from those of other runs of the same day: a     *)
(* time and a random part, unless the caller names the tag.                   *)
Tag(s) == IF s \in FixedTag THEN 0 ELSE run[s]

(* `_current`: the bundle the buffered lines will be in.                      *)
Current(s) == RunBundle(s, Tag(s), part[s])

(* Whether the run lands this payload: not where `raw_held` finds it under the*)
(* same source, in the index as the run's own transaction sees it.            *)
Lands(s, payload) == s \in SkipsHeld => payload \notin HashesOf(s, raw \cup tx[s])

(* A run starts: a resumed load skips what is indexed already.                *)
StartRun(s) ==
  /\ pc[s] = "off"
  /\ run[s] < MaxRuns
  /\ run' = [run EXCEPT ![s] = @ + 1]
  /\ pc' = [pc EXCEPT ![s] = "idle"]
  /\ part' = [part EXCEPT ![s] = 0]
  /\ left' = [left EXCEPT ![s] =
       IF s \in Loads \ Refreshes THEN Delivers[s] \ AlreadyIngested(s) ELSE Delivers[s]]
  /\ quarantined' = [quarantined EXCEPT ![s] = 0]
  /\ outcome' = [outcome EXCEPT ![s] = "running"]
  /\ UNCHANGED <<stored, buffer, inflight, broken, stray, tx, faults>>

------------------------------------------------------------------------------
(* How a run ends early.                                                      *)

(* Nothing of the run is left but the writes its pool has begun.              *)
Abandon(s) ==
  /\ pc' = [pc EXCEPT ![s] = "off"]
  /\ buffer' = [buffer EXCEPT ![s] = << >>]
  /\ inflight' = [inflight EXCEPT ![s] = {}]
  /\ broken' = [broken EXCEPT ![s] = FALSE]
  /\ tx' = [tx EXCEPT ![s] = {}]
  /\ left' = [left EXCEPT ![s] = {}]
  /\ outcome' = [outcome EXCEPT ![s] = "failed"]
  /\ UNCHANGED <<part, run, quarantined>>

(* Mutated: finish_run commits what the failed run had not.                   *)
FailCommitting(s) ==
  /\ Abandon(s)
  /\ stray' = stray \cup inflight[s]
  /\ raw' = raw \cup tx[s]

(* `except Exception`: roll back, then finish_run commits the failure alone.  *)
(* The writer leaves without waiting for its pool.                            *)
Fail(s) ==
  /\ Abandon(s)
  /\ stray' = stray \cup inflight[s]
  /\ UNCHANGED raw

(* What a run fails of besides its records and its writes: the source cannot  *)
(* be read any further, or the database fails a statement.                    *)
Interrupted(s) ==
  /\ pc[s] # "off"
  /\ faults < MaxFaults
  /\ faults' = faults + 1
  /\ Fail(s)
  /\ UNCHANGED store

(* The process is killed; writes it had begun are done or are not.            *)
Crash(s) ==
  /\ pc[s] # "off"
  /\ faults < MaxFaults
  /\ faults' = faults + 1
  /\ Abandon(s)
  /\ UNCHANGED <<stored, stray>>

------------------------------------------------------------------------------
(* One record: landed, indexed, and mapped.                                   *)

Taken(s, payload) == left' = [left EXCEPT ![s] = @ \ {payload}]

(* The mapper refuses the record before it is landed, or it is held.          *)
SkipRecord(s) ==
  /\ pc[s] = "idle"
  /\ \E p \in left[s] :
       /\ p \in Malformed \/ ~Lands(s, p)
       /\ Taken(s, p)
  /\ UNCHANGED <<stored, control, part, buffer, inflight, broken, stray, tx,
                 quarantined, faults>>

(* `put`: the payload is buffered or handed to the pool, and its key known.   *)
Enqueue(s, payload) ==
  IF s \in Loads
  THEN inflight' = [inflight EXCEPT ![s] = @ \cup {payload}] /\ UNCHANGED buffer
  ELSE buffer' = [buffer EXCEPT ![s] = Append(@, payload)] /\ UNCHANGED inflight

(* The key the payload will be found under once drained.                      *)
KeyFor(s, payload) ==
  IF s \in Loads THEN PlainKey(payload) ELSE RecordKey(Current(s), Len(buffer[s]) + 1)

(* The record is landed, indexed and mapped.                                  *)
Land(s) ==
  /\ pc[s] = "idle"
  /\ \E p \in left[s] \ Malformed :
       /\ Lands(s, p)
       /\ Taken(s, p)
       /\ Enqueue(s, p)
       /\ tx' = [tx EXCEPT ![s] = @ \cup {Row(RowId(s, run[s], p), p, KeyFor(s, p))}]
  /\ UNCHANGED <<store, raw, control, part, broken, stray, quarantined, faults>>

(* The record's upsert raises, as it does where another session was faster:   *)
(* the row it was landed with goes with the savepoint, its line stays in the  *)
(* buffer. A load has no quarantine.                                          *)
Quarantine(s) ==
  /\ pc[s] = "idle"
  /\ \E p \in left[s] \cap (Poisoned \ Malformed) :
       IF s \notin Loads /\ quarantined[s] < MaxQuarantined
       THEN /\ Taken(s, p)
            /\ IF Lands(s, p) THEN Enqueue(s, p) ELSE UNCHANGED <<buffer, inflight>>
            /\ quarantined' = [quarantined EXCEPT ![s] = @ + 1]
            /\ UNCHANGED <<store, raw, control, part, broken, stray, tx>>
       ELSE Fail(s) /\ UNCHANGED store
  /\ UNCHANGED faults

------------------------------------------------------------------------------
(* The pool's threads write in any order, also after their run is over.       *)

PoolWrite(s) ==
  /\ \E p \in inflight[s] :
       /\ inflight' = [inflight EXCEPT ![s] = @ \ {p}]
       /\ \/ /\ store' = Put(store, ObjectName(p), <<p>>)
             /\ UNCHANGED <<broken, faults>>
          \/ /\ faults < MaxFaults
             /\ faults' = faults + 1
             /\ broken' = [broken EXCEPT ![s] = TRUE]
             /\ UNCHANGED store
  /\ UNCHANGED <<raw, control, part, buffer, stray, tx, left, quarantined>>

StrayWrite ==
  /\ \E p \in stray :
       /\ stray' = stray \ {p}
       /\ store' = Put(store, ObjectName(p), <<p>>)
  /\ UNCHANGED <<raw, control, part, buffer, inflight, broken, tx, left,
                 quarantined, faults>>

------------------------------------------------------------------------------
(* A checkpoint: drain, then commit.                                          *)

(* BundleWriter.drain: one object holds every line of the buffer.             *)
DrainBundle(s) ==
  /\ pc[s] = "idle"
  /\ s \notin Loads
  /\ \/ /\ buffer[s] = << >>
        /\ UNCHANGED <<store, part>>
     \/ /\ buffer[s] # << >>
        /\ store' = Put(store, Current(s), buffer[s])
        /\ part' = [part EXCEPT ![s] = @ + 1]
  /\ buffer' = [buffer EXCEPT ![s] = << >>]
  /\ pc' = [pc EXCEPT ![s] = "drained"]
  /\ UNCHANGED <<raw, run, outcome, inflight, broken, stray, tx, left,
                 quarantined, faults>>

(* The write of the bundle raises, done or not.                               *)
DrainBundleFails(s) ==
  /\ pc[s] = "idle"
  /\ s \notin Loads
  /\ buffer[s] # << >>
  /\ faults < MaxFaults
  /\ faults' = faults + 1
  /\ store' \in {store, Put(store, Current(s), buffer[s])}
  /\ Fail(s)

(* Mutated: the writes are not waited for.                                    *)
PoolSettledAlways(s) == TRUE

(* Every write the run has handed to the pool is over.                        *)
PoolSettled(s) == inflight[s] = {}

(* BufferedWriter.drain: waits for the pool, and raises what it raised.       *)
DrainPool(s) ==
  /\ pc[s] = "idle"
  /\ s \in Loads
  /\ PoolSettled(s)
  /\ IF broken[s]
     THEN Fail(s)
     ELSE /\ pc' = [pc EXCEPT ![s] = "drained"]
          /\ UNCHANGED <<raw, run, outcome, working>>
  /\ UNCHANGED <<store, faults>>

(* The rows of the session's transaction are committed.                       *)
Publish(s) ==
  /\ raw' = raw \cup tx[s]
  /\ tx' = [tx EXCEPT ![s] = {}]
  /\ UNCHANGED store

(* `_checkpoint` and `_pulled` commit, the writer drained first.              *)
Commit(s) ==
  /\ pc[s] = "drained"
  /\ left[s] # {}
  /\ Publish(s)
  /\ pc' = [pc EXCEPT ![s] = "idle"]
  /\ UNCHANGED <<run, outcome, part, buffer, inflight, broken, stray, left,
                 quarantined, faults>>

(* The last drain of the run is followed by finish_run, which commits.        *)
FinishRun(s) ==
  /\ pc[s] = "drained"
  /\ left[s] = {}
  /\ Publish(s)
  /\ pc' = [pc EXCEPT ![s] = "off"]
  /\ outcome' = [outcome EXCEPT ![s] = IF quarantined[s] > 0 THEN "partial" ELSE "success"]
  /\ UNCHANGED <<run, part, buffer, inflight, broken, stray, left, quarantined, faults>>

------------------------------------------------------------------------------
Work(s) ==
  \/ SkipRecord(s) \/ Land(s) \/ Quarantine(s) \/ DrainBundle(s) \/ DrainPool(s)
  \/ Commit(s) \/ FinishRun(s)

Next ==
  \/ \E s \in Runs :
       \/ StartRun(s) \/ Work(s) \/ PoolWrite(s)
       \/ DrainBundleFails(s) \/ Interrupted(s) \/ Crash(s)
  \/ StrayWrite

Spec == Init /\ [][Next]_vars

(* The scheduler starts the runs that are due, a run goes on with its next    *)
(* statement and a pool with its writes. Records come before checkpoints: a   *)
(* run that is idle with records left is not allowed to drain for ever, which *)
(* the code cannot do (it drains once in so many records).                    *)
Record(s) == SkipRecord(s) \/ Land(s) \/ Quarantine(s)

Fairness ==
  \A s \in Runs :
    /\ WF_vars(StartRun(s)) /\ WF_vars(Work(s)) /\ WF_vars(PoolWrite(s))
    /\ SF_vars(Record(s))

FairSpec == Spec /\ Fairness

------------------------------------------------------------------------------
(* The variables have their types. Bundles of compacted chunks are in the     *)
(* same store.                                                                *)
Names == [kind: {"object"}, of: Payloads, run: {0}, part: {0}]
         \cup [kind: {"run"}, of: Runs, run: Nat, part: Nat]
         \cup [kind: {"compact"}, of: {None}, run: Nat, part: {0}]
Keys == [name: Names, line: Nat \ {0}]
Rows == [id: Ids, hash: Payloads, key: Keys]

TypeOK ==
  /\ DOMAIN store \subseteq Names
  /\ \A n \in DOMAIN store : store[n] \in Seq(Payloads)
  /\ raw \subseteq Rows
  /\ pc \in [Runs -> {"off", "idle", "drained"}]
  /\ run \in [Runs -> Nat]
  /\ part \in [Runs -> Nat]
  /\ buffer \in [Runs -> Seq(Payloads)]
  /\ inflight \in [Runs -> SUBSET Payloads]
  /\ broken \in [Runs -> BOOLEAN]
  /\ stray \in SUBSET Payloads
  /\ tx \in [Runs -> SUBSET Rows]
  /\ left \in [Runs -> SUBSET Payloads]
  /\ quarantined \in [Runs -> Nat]
  /\ outcome \in [Runs -> {"never", "running", "success", "partial", "failed"}]
  /\ faults \in Nat

(* A payload in a bundle is written once: what a committed row points at is   *)
(* never written again with anything else, by no run, retry or second run of  *)
(* the same day (BundleWriter: each run gets its own name).                    *)
WrittenOnceStep ==
  \A row \in raw : Get(store, row.key) # None => Get(store', row.key) = Get(store, row.key)
WrittenOnce == [][WrittenOnceStep]_vars

(* A run that succeeded has every record of its source indexed for it,        *)
(* whatever was refused, rolled back or skipped as held before: a resumed load*)
(* does not take an interrupted one's word for more than it committed.        *)
SuccessIndexesAll ==
  \A s \in Runs : outcome[s] = "success" => Delivers[s] \ Malformed \subseteq HashesOf(s, raw)

(* A job that no record can fail: a load fails at the first that raises, a    *)
(* daily run at one more than it quarantines.                                 *)
Passes(s) ==
  Cardinality(Delivers[s] \cap (Poisoned \ Malformed)) <= IF s \in Loads THEN 0 ELSE MaxQuarantined

(* Jobs that fail for the store or a crash do not fail for ever: in the end   *)
(* every readable record that cannot raise is indexed for its source and reads*)
(* back. Nothing is claimed of jobs whose records fail them every time, which *)
(* `Quarantine` leaves to fail loudly.                                        *)
EventuallyLanded ==
  <>[](\A s \in Runs : Passes(s) =>
         \A p \in Delivers[s] \ (Malformed \cup Poisoned) :
           \E row \in raw : /\ RowSource[row.id] = Source[s] /\ row.hash = p
                            /\ Get(store, row.key) = p)
==============================================================================
