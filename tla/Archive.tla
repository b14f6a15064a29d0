------------------------------- MODULE Archive -------------------------------
(* The append-only archive of notices: `upsert_opportunity` and               *)
(* `append_version` of dgate/db.py, run by several database sessions at once. *)
(*                                                                            *)
(* A session is one run of a source (a daily walk, an archive replay, a       *)
(* history load). It works in one READ COMMITTED transaction that it commits  *)
(* at checkpoints: each SQL statement is a step and reads what is committed   *)
(* at that moment plus what the session itself has written. The tables        *)
(* `opportunity_version` and `opportunity` are the variables `versions` and   *)
(* `rows`; what a session wrote and has not committed is in `txVersions` and  *)
(* `txRows`, and an entry there is also the row lock it holds.                *)
EXTENDS Integers, Sequences

CONSTANTS
  Sessions,      \* the database sessions
  Guarded,       \* the sessions whose records run inside Quarantine.guard
  Loads,         \* the sessions inside `historical_load`
  Natives,       \* notice numbers (of one source each)
  LocalKey,      \* the numbers of LOCAL_KEY_SOURCES: unique only within a buyer
  Buyers,        \* buyer names, as `_buyer_key` normalises them
  Hashes,        \* raw_hash: the identity of a landed payload
  Facts,         \* the versioned facts that are the publisher's
  Readings,      \* the versioned facts a corrected mapper may read differently
  TaxMoves,      \* pairs of readings whose values differ by a Spanish tax rate
  StatusMoves,   \* pairs of facts apart by the status alone, for one status code
  Links,         \* links and attributes of the serving row (ted_ref)
  Feed,          \* what each session's source delivers in a run
  Malformed,     \* hashes of records the mapper cannot read
  DayLength,     \* instants in a day
  Today,         \* the day the runs take place
  MaxQuarantined,\* records a run may quarantine before it fails
  MaxFaults,     \* bound on crashes and connection failures
  None           \* SQL NULL, and "nothing"

Maybe(S) == S \cup {None}

(* A mapped record: the notice's number and buyer, its versioned facts, the   *)
(* source's own update instant, and the attributes that are never versioned.  *)
Opportunity ==
  [hash: Hashes, native: Natives, buyer: Buyers, facts: Facts,
   reading: Readings, deadline: Maybe(Nat), published: Maybe(Nat),
   stamp: Maybe(Nat), noted: Maybe(Nat), link: Maybe(Links)]

(* The identifier a notice is held under: its number, or the number made      *)
(* unique by who filed it (`_disambiguated_id`).                               *)
Keys == [native: Natives, by: Maybe(Buyers)]

Fields == {"facts", "reading", "deadline", "published", "buyer"}
Kinds  == {"history", "remapped", "remapped_fields"}

Version ==
  [payload: Opportunity, changed: SUBSET Fields, notes: SUBSET Kinds,
   from: Nat, to: Maybe(Nat)]

(* The serving row: the columns of the latest version, and the attributes.    *)
(* `dated` is not a column: it is the stamp of the record `noted` came from.  *)
Row ==
  [payload: Opportunity, current: Nat, noted: Maybe(Nat),
   dated: Maybe(Nat), link: Maybe(Links)]

ASSUME ArchiveAssumption ==
  /\ Guarded \subseteq Sessions
  /\ Loads \subseteq Sessions
  /\ LocalKey \subseteq Natives
  /\ Feed \in [Sessions -> SUBSET Opportunity]
  /\ DayLength \in Nat \ {0}
  /\ Today \in Nat
  /\ MaxQuarantined \in Nat
  /\ MaxFaults \in Nat
  /\ None \notin Nat
  /\ None \notin Opportunity
  /\ None \notin Buyers
  /\ None \notin Row
  /\ None \notin Seq(Version)

VARIABLES
  versions,      \* opportunity_version, committed: the versions of each notice
  rows,          \* opportunity, committed
  txVersions,    \* uncommitted versions of each session (None: untouched)
  txRows,        \* uncommitted serving rows of each session (None: untouched)
  spVersions,    \* txVersions at the savepoint of the record in work
  spRows,        \* txRows at that savepoint
  pc,            \* the statement each session executes next
  task,          \* the local variables of upsert_opportunity
  left,          \* the records of the run still to come
  quarantined,   \* how many records of the run were quarantined
  outcome,       \* ingest_run.status of the session's last run
  faults         \* crashes so far

tables == <<versions, rows>>
tx     == <<txVersions, txRows, spVersions, spRows>>
vars   == <<tables, tx, pc, task, left, quarantined, outcome, faults>>

Statements == {"carry", "latest", "seen", "attrs", "create", "close", "insert", "serve"}
Outcomes   == {"never", "running", "success", "partial", "failed"}

Task ==
  [opp: Opportunity, key: Keys, held: Maybe(Row), prev: Maybe(Opportunity),
   after: Nat, at: Maybe(Nat)]

------------------------------------------------------------------------------
(* What the code computes on one record.                                      *)

DayOf(instant) == instant \div DayLength

Coalesce(a, b) == IF a # None THEN a ELSE b

(* The source's own day of a payload: its update instant, else its date of    *)
(* publication.                                                               *)
SourceDay(p) == IF p.stamp # None THEN DayOf(p.stamp) ELSE p.published

(* Mutated: by the day alone, which for an entry that repeats its call's date *)
(* of publication is no order at all (the archive before QA M3).              *)
OlderByPublication(p, held) ==
  p.published # None /\ held.published # None /\ p.published < held.published

(* The "stale" rule: by instants when both sides state one, else by days.     *)
Older(p, held) ==
  IF p.stamp # None /\ held.stamp # None
  THEN p.stamp < held.stamp
  ELSE /\ SourceDay(p) # None
       /\ SourceDay(held) # None
       /\ SourceDay(p) < SourceDay(held)

changed_fields(prev, p) == {f \in Fields : prev[f] # p[f]}

older_mapping(prev, p) == prev.stamp = None /\ p.stamp # None

same_entry_state(prev, p) ==
  /\ p.stamp # None
  /\ IF prev.stamp # None THEN prev.stamp = p.stamp ELSE prev.published = DayOf(p.stamp)

MapperOwned == {"reading", "published"}

(* What is the mapper's between two records: the status too, where the        *)
(* source's own code for it did not move.                                     *)
Owned(prev, p) ==
  MapperOwned \cup (IF <<prev.facts, p.facts>> \in StatusMoves THEN {"facts"} ELSE {})

(* The changed fields that are the mapper's where a real change moved too: a  *)
(* reading counts only if it moved by a tax rate.                             *)
mapper_fields(prev, p) ==
  {f \in changed_fields(prev, p) \cap Owned(prev, p) :
      f = "reading" => <<prev.reading, p.reading>> \in TaxMoves}

(* The notes upsert_opportunity attaches to the version it appends.           *)
VersionNotes(s, prev, p) ==
  LET changed == changed_fields(prev, p)
      ours    == changed \subseteq Owned(prev, p)
                 /\ (same_entry_state(prev, p) \/ older_mapping(prev, p))
  IN  (IF s \in Loads THEN {"history"} ELSE {})
      \cup (IF ours THEN {"remapped"} ELSE {})
      \cup (IF ~ours /\ older_mapping(prev, p) /\ mapper_fields(prev, p) # {}
            THEN {"remapped_fields"} ELSE {})

(* Whether the notice date may follow this record. The stamps are compared as *)
(* strings; those of one offset from UTC are in the order of their instants.  *)
Newer(prev, p) == prev.stamp = None \/ p.stamp = None \/ p.stamp >= prev.stamp

(* Mutated: a link a record states replaces the one held, with no version.    *)
AttributeLinkLast(row, p) == Coalesce(p.link, row.link)

(* The link of the row after an attribute-only write: one held is kept.       *)
AttributeLink(row, p) == Coalesce(row.link, p.link)

(* Mutated: the current version's number is left at the one before.           *)
ServedRowBehind(row, p, after) ==
  [payload |-> p, current |-> after, noted |-> p.noted, dated |-> p.stamp,
   link |-> Coalesce(p.link, row.link)]

(* The serving row after a version is appended: a link the record does not    *)
(* state is not erased (KEPT_WHEN_ABSENT), everything else is the record's.   *)
ServedRow(row, p, after) ==
  [payload |-> p, current |-> after + 1, noted |-> p.noted, dated |-> p.stamp,
   link |-> Coalesce(p.link, row.link)]

(* The versions of a notice with the open one closed.                         *)
Closed(h, at) == [i \in DOMAIN h |-> IF h[i].to = None THEN [h[i] EXCEPT !.to = at] ELSE h[i]]

(* ORDER BY version DESC LIMIT 1.                                             *)
LatestVersion(h) == h[Len(h)]

(* Mutated: only the latest version is looked at (the archive of September).  *)
IsArchivedLatest(h, p) == h[Len(h)].payload.hash = p.hash

(* Whether a content is archived at any version.                              *)
IsArchived(h, p) == \E i \in DOMAIN h : h[i].payload.hash = p.hash

(* Mutated: a later entry without a date of publication erases it.            *)
CarriedNever(held, stamped, p) == None

(* The date of publication a record takes from the row held, if the latest    *)
(* version is stamped and the date is not after the deadline.                 *)
Carried(held, stamped, p) ==
  LET limit == Coalesce(p.deadline, held.deadline)
  IN  IF stamped /\ (limit = None \/ held.published <= limit) THEN held.published ELSE None

(* A date of publication in the future is not kept.                           *)
Dated(r) ==
  IF r.published # None /\ r.published > Today + 1 THEN [r EXCEPT !.published = None] ELSE r

------------------------------------------------------------------------------
(* The database as one session sees it, and its row locks.                    *)

Versions(s, k) == IF txVersions[s][k] # None THEN txVersions[s][k] ELSE versions[k]
ServingRow(s, k) == IF txRows[s][k] # None THEN txRows[s][k] ELSE rows[k]
Latest(s, k) == LatestVersion(Versions(s, k))

(* The sessions a statement on this row would have to wait for.               *)
VersionHolders(s, k) == {t \in Sessions \ {s} : txVersions[t][k] # None}
RowHolders(s, k) == {t \in Sessions \ {s} : txRows[t][k] # None}

(* A table's uncommitted part with one more entry of the session.             *)
Written(table, s, k, entry) == [table EXCEPT ![s] = [table[s] EXCEPT ![k] = entry]]

Untouched == [k \in Keys |-> None]

Init ==
  /\ versions = [k \in Keys |-> << >>]
  /\ rows = [k \in Keys |-> None]
  /\ txVersions = [s \in Sessions |-> Untouched]
  /\ txRows = [s \in Sessions |-> Untouched]
  /\ spVersions = [s \in Sessions |-> Untouched]
  /\ spRows = [s \in Sessions |-> Untouched]
  /\ pc = [s \in Sessions |-> "off"]
  /\ task = [s \in Sessions |-> None]
  /\ left = [s \in Sessions |-> {}]
  /\ quarantined = [s \in Sessions |-> 0]
  /\ outcome = [s \in Sessions |-> "never"]
  /\ faults = 0

------------------------------------------------------------------------------
(* A run, its records, and how they end.                                      *)

(* The scheduler starts a run: it reads the source's window again.            *)
StartRun(s) ==
  /\ pc[s] = "off"
  /\ pc' = [pc EXCEPT ![s] = "idle"]
  /\ left' = [left EXCEPT ![s] = Feed[s]]
  /\ quarantined' = [quarantined EXCEPT ![s] = 0]
  /\ outcome' = [outcome EXCEPT ![s] = "running"]
  /\ UNCHANGED <<tables, tx, task, faults>>

(* The record in work is done with: its savepoint is released.                *)
Release(s) ==
  /\ pc' = [pc EXCEPT ![s] = "idle"]
  /\ task' = [task EXCEPT ![s] = None]
  /\ spVersions' = [spVersions EXCEPT ![s] = Untouched]
  /\ spRows' = [spRows EXCEPT ![s] = Untouched]

(* Everything uncommitted is gone and the run is over.                        *)
Rollback(s) ==
  /\ pc' = [pc EXCEPT ![s] = "off"]
  /\ task' = [task EXCEPT ![s] = None]
  /\ left' = [left EXCEPT ![s] = {}]
  /\ txVersions' = [txVersions EXCEPT ![s] = Untouched]
  /\ txRows' = [txRows EXCEPT ![s] = Untouched]
  /\ spVersions' = [spVersions EXCEPT ![s] = Untouched]
  /\ spRows' = [spRows EXCEPT ![s] = Untouched]
  /\ outcome' = [outcome EXCEPT ![s] = "failed"]
  /\ UNCHANGED <<tables, quarantined>>

(* Quarantine.guard, entered with a record error: the record alone is rolled  *)
(* back, unless the run has quarantined too many.                             *)
Quarantine(s) ==
  /\ quarantined[s] < MaxQuarantined
  /\ quarantined' = [quarantined EXCEPT ![s] = @ + 1]
  /\ Release(s)
  /\ txVersions' = [txVersions EXCEPT ![s] = spVersions[s]]
  /\ txRows' = [txRows EXCEPT ![s] = spRows[s]]
  /\ UNCHANGED <<tables, left, outcome>>

(* An exception of RECORD_ERRORS: quarantined where the run is guarded and    *)
(* has room, and the end of the run otherwise.                                *)
RecordError(s) ==
  \/ s \in Guarded /\ Quarantine(s)
  \/ (s \notin Guarded \/ quarantined[s] >= MaxQuarantined) /\ Rollback(s)

(* Commit what the session wrote.                                             *)
Publish(s) ==
  /\ versions' = [k \in Keys |-> Versions(s, k)]
  /\ rows' = [k \in Keys |-> ServingRow(s, k)]
  /\ txVersions' = [txVersions EXCEPT ![s] = Untouched]
  /\ txRows' = [txRows EXCEPT ![s] = Untouched]
  /\ UNCHANGED <<spVersions, spRows>>

(* `_checkpoint` and `_pulled`: between two records, at any time.             *)
Commit(s) ==
  /\ pc[s] = "idle"
  /\ txRows[s] # Untouched
  /\ Publish(s)
  /\ UNCHANGED <<pc, task, left, quarantined, outcome, faults>>

(* Mutated: the run ends with its transaction open.                           *)
FinishRunUncommitted(s) ==
  /\ pc[s] = "idle"
  /\ left[s] = {}
  /\ pc' = [pc EXCEPT ![s] = "off"]
  /\ outcome' = [outcome EXCEPT ![s] = "success"]
  /\ UNCHANGED <<tables, tx, task, left, quarantined, faults>>

(* The last record is done: finish_run commits with the run's status.         *)
FinishRun(s) ==
  /\ pc[s] = "idle"
  /\ left[s] = {}
  /\ Publish(s)
  /\ pc' = [pc EXCEPT ![s] = "off"]
  /\ outcome' = [outcome EXCEPT ![s] = IF quarantined[s] > 0 THEN "partial" ELSE "success"]
  /\ UNCHANGED <<task, left, quarantined, faults>>

(* The process is killed, or the connection lost, at any point.               *)
Crash(s) ==
  /\ pc[s] # "off"
  /\ faults < MaxFaults
  /\ faults' = faults + 1
  /\ Rollback(s)

------------------------------------------------------------------------------
(* upsert_opportunity, one statement at a time.                               *)

(* A record the mapper cannot read: a ValueError is logged and the run goes on,*)
(* any other error is quarantined, or ends the run.                           *)
MapRecord(s) ==
  /\ pc[s] = "idle"
  /\ \E r \in left[s] :
       /\ r.hash \in Malformed
       /\ \/ /\ left' = [left EXCEPT ![s] = @ \ {r}]
             /\ UNCHANGED <<tables, tx, pc, task, quarantined, outcome>>
          \/ IF s \in Guarded /\ quarantined[s] < MaxQuarantined
             THEN /\ left' = [left EXCEPT ![s] = @ \ {r}]
                  /\ quarantined' = [quarantined EXCEPT ![s] = @ + 1]
                  /\ UNCHANGED <<tables, tx, pc, task, outcome>>
             ELSE Rollback(s)
  /\ UNCHANGED faults

(* Mutated: the number alone identifies a notice.                             *)
HeldUnderNumber(s, r) == [native |-> r.native, by |-> None]

(* The key a record is held under: its number, made unique by the buyer where *)
(* another body already holds it.                                             *)
HeldUnder(s, r) ==
  LET plain == [native |-> r.native, by |-> None]
      first == ServingRow(s, plain)
      other == first # None /\ r.native \in LocalKey /\ first.payload.buyer # r.buyer
  IN  IF other THEN [native |-> r.native, by |-> r.buyer] ELSE plain

(* The serving row is looked up under the plain number, and again under the   *)
(* buyer's own where another body holds that number. The savepoint is set     *)
(* before.                                                                    *)
LookUp(s) ==
  /\ pc[s] = "idle"
  /\ \E r \in left[s] :
       LET opp   == Dated(r)
           key   == HeldUnder(s, r)
           held  == ServingRow(s, key)
           asks  == /\ held # None
                    /\ opp.published = None
                    /\ held.payload.published # None
                    /\ r.native \in LocalKey
       IN /\ r.hash \notin Malformed
          /\ left' = [left EXCEPT ![s] = @ \ {r}]
          /\ pc' = [pc EXCEPT ![s] = IF held = None THEN "create"
                                     ELSE IF asks THEN "carry" ELSE "latest"]
          /\ task' = [task EXCEPT ![s] =
               [opp |-> opp, key |-> key, held |-> IF asks THEN held ELSE None,
                prev |-> None, after |-> 0, at |-> None]]
  /\ spVersions' = [spVersions EXCEPT ![s] = txVersions[s]]
  /\ spRows' = [spRows EXCEPT ![s] = txRows[s]]
  /\ UNCHANGED <<tables, txVersions, txRows, quarantined, outcome, faults>>

(* The call's date of publication, held by the row read before, is carried    *)
(* into a later entry that states none, if the latest version is stamped and  *)
(* the date is not after the deadline.                                        *)
Carry(s) ==
  /\ pc[s] = "carry"
  /\ LET t       == task[s]
         stamped == Latest(s, t.key).payload.stamp # None
     IN task' = [task EXCEPT
          ![s] = [t EXCEPT !.opp = [t.opp EXCEPT !.published = Carried(t.held.payload, stamped, t.opp)],
                           !.held = None]]
  /\ pc' = [pc EXCEPT ![s] = "latest"]
  /\ UNCHANGED <<tables, tx, left, quarantined, outcome, faults>>

(* The latest version is read; the same content again is unchanged.           *)
ReadLatest(s) ==
  /\ pc[s] = "latest"
  /\ LET last == Latest(s, task[s].key)
     IN  \/ /\ last.payload.hash = task[s].opp.hash
            /\ Release(s)
         \/ /\ last.payload.hash # task[s].opp.hash
            /\ pc' = [pc EXCEPT ![s] = "seen"]
            /\ task' = [task EXCEPT
                 ![s] = [task[s] EXCEPT !.prev = last.payload,
                                        !.after = Len(Versions(s, task[s].key))]]
            /\ UNCHANGED <<spVersions, spRows>>
  /\ UNCHANGED <<tables, txVersions, txRows, left, quarantined, outcome, faults>>

(* Content archived at any version is unchanged, content older than the       *)
(* version read is stale; the rest is a change, or only attributes moved.     *)
Compare(s) ==
  /\ pc[s] = "seen"
  /\ LET t     == task[s]
         known == IsArchived(Versions(s, t.key), t.opp)
     IN  \/ /\ known \/ Older(t.opp, t.prev)
            /\ Release(s)
         \/ /\ ~known /\ ~Older(t.opp, t.prev)
            /\ pc' = [pc EXCEPT ![s] =
                        IF changed_fields(t.prev, t.opp) = {} THEN "attrs" ELSE "close"]
            /\ UNCHANGED <<task, spVersions, spRows>>
  /\ UNCHANGED <<tables, txVersions, txRows, left, quarantined, outcome, faults>>

(* No versioned field moved: the attributes alone are written.                *)
WriteAttributes(s) ==
  /\ pc[s] = "attrs"
  /\ RowHolders(s, task[s].key) = {}
  /\ LET t     == task[s]
         row   == ServingRow(s, t.key)
         moves == t.opp.noted # None /\ Newer(t.prev, t.opp)
     IN txRows' = Written(txRows, s, t.key,
          [row EXCEPT !.link  = AttributeLink(row, t.opp),
                      !.noted = IF moves THEN t.opp.noted ELSE row.noted,
                      !.dated = IF moves THEN t.opp.stamp ELSE row.dated])
  /\ Release(s)
  /\ UNCHANGED <<tables, txVersions, left, quarantined, outcome, faults>>

(* The row and the first version of a new notice. UNIQUE (source_id,          *)
(* native_id) makes the second of two sessions wait for the first, and then   *)
(* fail if it committed.                                                      *)
Create(s) ==
  /\ pc[s] = "create"
  /\ RowHolders(s, task[s].key) = {}
  /\ LET k == task[s].key
         p == task[s].opp
     IN  \/ /\ ServingRow(s, k) # None
            /\ RecordError(s)
         \/ /\ ServingRow(s, k) = None
            /\ txRows' = Written(txRows, s, k,
                 [payload |-> p, current |-> 1, noted |-> p.noted, dated |-> p.stamp,
                  link |-> p.link])
            /\ txVersions' = Written(txVersions, s, k,
                 <<[payload |-> p, changed |-> {},
                    notes |-> IF s \in Loads THEN {"history"} ELSE {},
                    from |-> 0, to |-> None]>>)
            /\ Release(s)
            /\ UNCHANGED <<tables, left, quarantined, outcome>>
  /\ UNCHANGED faults

(* Mutated: no UNIQUE (opportunity_id, version).                              *)
NumberNeverTaken(s) == FALSE

(* The number of the version to append, the one read before plus one, exists. *)
NumberTaken(s) == Len(Versions(s, task[s].key)) > task[s].after

(* append_version: the open version is closed, at a later instant than it was *)
(* opened. Where another session's commit closed it while the statement       *)
(* waited, no row is left to close.                                           *)
CloseOpen(s) ==
  /\ pc[s] = "close"
  /\ VersionHolders(s, task[s].key) = {}
  /\ pc' = [pc EXCEPT ![s] = "insert"]
  /\ LET k  == task[s].key
         at == Latest(s, k).from + 1
     IN  \/ /\ txVersions' = Written(txVersions, s, k, Closed(Versions(s, k), at))
            /\ task' = [task EXCEPT ![s] = [task[s] EXCEPT !.at = at]]
         \/ /\ Len(Versions(s, k)) > task[s].after
            /\ UNCHANGED <<task, txVersions>>
  /\ UNCHANGED <<tables, txRows, spVersions, spRows, left, quarantined, outcome, faults>>

(* append_version: the next version is inserted under the number read before  *)
(* plus one. UNIQUE (opportunity_id, version) refuses it if that was taken.    *)
InsertVersion(s) ==
  /\ pc[s] = "insert"
  /\ \/ NumberTaken(s) /\ RecordError(s)
     \/ /\ ~NumberTaken(s)
        /\ LET t == task[s]
           IN txVersions' = Written(txVersions, s, t.key,
                Append(Versions(s, t.key),
                  [payload |-> t.opp, changed |-> changed_fields(t.prev, t.opp),
                   notes |-> VersionNotes(s, t.prev, t.opp),
                   from |-> Coalesce(t.at, Latest(s, t.key).from + 1), to |-> None]))
        /\ pc' = [pc EXCEPT ![s] = "serve"]
        /\ UNCHANGED <<tables, txRows, spVersions, spRows, task, left, quarantined, outcome>>
  /\ UNCHANGED faults

(* append_version: the serving row moves to the version appended.             *)
Serve(s) ==
  /\ pc[s] = "serve"
  /\ RowHolders(s, task[s].key) = {}
  /\ LET t == task[s]
     IN txRows' = Written(txRows, s, t.key, ServedRow(ServingRow(s, t.key), t.opp, t.after))
  /\ Release(s)
  /\ UNCHANGED <<tables, txVersions, left, quarantined, outcome, faults>>

------------------------------------------------------------------------------
(* Postgres ends one of the sessions that wait for each other in a circle.    *)

WaitsFor(s) ==
  CASE pc[s] \in {"attrs", "create", "serve"} -> RowHolders(s, task[s].key)
    [] pc[s] = "close" -> VersionHolders(s, task[s].key)
    [] OTHER -> {}

Deadlock(s) ==
  /\ \E circle \in SUBSET Sessions :
       /\ s \in circle
       /\ \A a \in circle : /\ \E b \in circle : b \in WaitsFor(a)
                            /\ \E b \in circle : a \in WaitsFor(b)
  /\ Rollback(s)
  /\ UNCHANGED faults

Work(s) ==
  \/ FinishRun(s) \/ MapRecord(s) \/ LookUp(s) \/ Carry(s) \/ ReadLatest(s)
  \/ Compare(s) \/ WriteAttributes(s) \/ Create(s) \/ CloseOpen(s)
  \/ InsertVersion(s) \/ Serve(s) \/ Deadlock(s)

Next == \E s \in Sessions : StartRun(s) \/ Commit(s) \/ Crash(s) \/ Work(s)

Spec == Init /\ [][Next]_vars

(* A run keeps executing its statements, and the scheduler keeps starting     *)
(* runs. A statement that waits for a row is strongly fair: Postgres grants a *)
(* lock in the order it was asked for, so a session is not passed over for    *)
(* ever. Commits in the middle of a run and crashes are never forced.         *)
Waiting(s) == WriteAttributes(s) \/ Create(s) \/ CloseOpen(s) \/ Serve(s)

Fairness == \A s \in Sessions :
  WF_vars(StartRun(s)) /\ WF_vars(Work(s)) /\ SF_vars(Waiting(s))

FairSpec == Spec /\ Fairness

------------------------------------------------------------------------------
(* The variables have their types.                                            *)
TypeOK ==
  /\ versions \in [Keys -> Seq(Version)]
  /\ rows \in [Keys -> Maybe(Row)]
  /\ txVersions \in [Sessions -> [Keys -> Maybe(Seq(Version))]]
  /\ txRows \in [Sessions -> [Keys -> Maybe(Row)]]
  /\ spVersions \in [Sessions -> [Keys -> Maybe(Seq(Version))]]
  /\ spRows \in [Sessions -> [Keys -> Maybe(Row)]]
  /\ pc \in [Sessions -> Statements \cup {"off", "idle"}]
  /\ task \in [Sessions -> Maybe(Task)]
  /\ left \in [Sessions -> SUBSET Opportunity]
  /\ quarantined \in [Sessions -> Nat]
  /\ outcome \in [Sessions -> Outcomes]
  /\ faults \in Nat

------------------------------------------------------------------------------
(* What makes the archive right. `versions` and `rows` are what every reader  *)
(* of the database sees.                                                      *)

(* Every notice that has a row has versions numbered from 1, of which exactly *)
(* the last is open, and each was closed at the instant the next was opened,  *)
(* whatever two sessions did to the notice at once (append_version).          *)
IntervalsMeet ==
  \A k \in Keys :
    /\ rows[k] # None <=> versions[k] # << >>
    /\ \A i \in DOMAIN versions[k] :
         IF i = Len(versions[k]) THEN versions[k][i].to = None
         ELSE /\ versions[k][i].to # None
              /\ versions[k][i].from < versions[k][i].to
              /\ versions[k][i + 1].from = versions[k][i].to

(* The serving row is the latest version: no order of two sessions' closes,   *)
(* inserts and updates leaves an earlier state being served.                  *)
ServingIsLatest ==
  \A k \in Keys : rows[k] # None =>
    /\ rows[k].current = Len(versions[k])
    /\ rows[k].payload = versions[k][Len(versions[k])].payload

(* changed_fields and the notes of a version are true of the version archived *)
(* just before it, although they were computed from one that was read several *)
(* statements earlier: the amendment counts and the change feeds read them.   *)
DiffsAreTrue ==
  \A k \in Keys : \A i \in 2..Len(versions[k]) :
    LET prev == versions[k][i - 1].payload
        p    == versions[k][i].payload
    IN  /\ versions[k][i].changed = changed_fields(prev, p)
        /\ versions[k][i].changed # {}
        /\ \E s \in Sessions : versions[k][i].notes = VersionNotes(s, prev, p)

(* No content is archived twice: a re-read of an earlier state of a notice    *)
(* never flips it back.                                                       *)
ContentOnce ==
  \A k \in Keys : \A i, j \in DOMAIN versions[k] :
    versions[k][i].payload.hash = versions[k][j].payload.hash => i = j

(* As long as a notice's entries carry the source's update instant, their     *)
(* versions are in its order, whatever order the sessions read them in.       *)
StampsForward ==
  \A k \in Keys : \A i, j \in DOMAIN versions[k] :
    /\ i < j
    /\ \A m \in i..j : versions[k][m].payload.stamp # None
    => versions[k][i].payload.stamp <= versions[k][j].payload.stamp

(* Under a number that is unique only within a buyer, the versions of one     *)
(* notice are all of one buyer, also when two bodies file it at once.         *)
OneBuyer ==
  \A k \in Keys : k.native \in LocalKey =>
    \A i, j \in DOMAIN versions[k] :
      versions[k][i].payload.buyer = versions[k][j].payload.buyer

(* The date a call was published is not lost with a later entry that states   *)
(* none, unless it is after the deadline (upsert_opportunity's carry rule).   *)
PublicationKept ==
  \A k \in Keys : k.native \in LocalKey =>
    \A i \in 2..Len(versions[k]) :
      LET prev  == versions[k][i - 1].payload
          p     == versions[k][i].payload
          limit == Coalesce(p.deadline, prev.deadline)
      IN  prev.stamp # None /\ prev.published # None /\ p.published = None
            => limit # None /\ prev.published > limit

(* The notice date of a row is that of a record the source stamped no earlier *)
(* than the version held.                                                     *)
NoticeDateFollows ==
  \A k \in Keys : rows[k] # None =>
    LET held == rows[k].payload.stamp
    IN  rows[k].dated # None /\ held # None => rows[k].dated >= held

(* Both dates of the row, whatever the order of entries with and without them.*)
DatesKept == PublicationKept /\ NoticeDateFollows

(* A commit only appends versions; of the ones there before, only the open    *)
(* one may change, and only by being closed (the guard of migration 0094).    *)
AppendOnlyStep ==
  \A k \in Keys :
    /\ Len(versions'[k]) >= Len(versions[k])
    /\ \A i \in DOMAIN versions[k] :
         \/ versions'[k][i] = versions[k][i]
         \/ /\ versions[k][i].to = None
            /\ versions'[k][i] = [versions[k][i] EXCEPT !.to = versions'[k][i].to]
AppendOnly == [][AppendOnlyStep]_vars

(* A link a row holds is never erased, and only a new version replaces it.    *)
LinkKeptStep ==
  \A k \in Keys : rows[k] # None /\ rows[k].link # None =>
    /\ rows'[k].link # None
    /\ rows'[k].current = rows[k].current => rows'[k].link = rows[k].link
LinkKept == [][LinkKeptStep]_vars

(* Every run ends: no session waits for ever for rows others hold.            *)
RunsEnd == \A s \in Sessions : pc[s] # "off" ~> pc[s] = "off"

(* A delivered record belongs to the notice k.                                *)
FiledUnder(k, r) ==
  /\ k.native = r.native
  /\ rows[k] # None
  /\ r.native \in LocalKey => rows[k].payload.buyer = r.buyer

(* Every readable record of the windows is of a notice held, and none that is *)
(* newer than the state served says anything else than it does.               *)
ServesNewest ==
  \A s \in Sessions : \A r \in {q \in Feed[s] : q.hash \notin Malformed} :
    /\ \E k \in Keys : FiledUnder(k, r)
    /\ \A k \in Keys : FiledUnder(k, r) /\ r.stamp # None /\ rows[k].payload.stamp # None =>
         \/ r.stamp <= rows[k].payload.stamp
         \/ changed_fields(rows[k].payload, Dated(r)) = {}
         \/ changed_fields(rows[k].payload, Dated(r)) = {"published"} /\ Dated(r).published = None

(* The runs re-read their windows, so what a crash, a deadlock or a race left *)
(* out, and what was appended out of order, is put right in the end.          *)
EventuallyServesNewest == <>[]ServesNewest

(* The committed versions implement the append-only ledger.                   *)
Promise == INSTANCE Ledger WITH
  Notices  <- Keys,
  Contents <- Opportunity,
  Precedes <- Older,
  history  <- [k \in Keys |-> [i \in DOMAIN versions[k] |-> versions[k][i].payload]]

ImplementsLedger == Promise!Spec
==============================================================================
