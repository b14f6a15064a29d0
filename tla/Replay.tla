-------------------------------- MODULE Replay --------------------------------
(* The replay of the publisher's archives (dgate/pipeline.py,                 *)
(* `run_placsp_replay`, `_replay_unit` and `_ingest_placsp` with replay=True):*)
(* a file for each month of this year, one for the whole of a past year, each *)
(* read entry by entry into the archive. The entries finished are counted in  *)
(* `backfill_day` with the rows they belong to, so that a unit goes on where  *)
(* it got to; a unit that is over is marked there under the day it begins on. *)
EXTENDS Integers, Sequences, SequencesExt

CONSTANTS
  Months,        \* months of the year
  Year,          \* the entries of the year that the parser can read, in the
                 \* order of their stamps: what the annual file yields
  Ends,          \* Ends[m]: how many of them the months up to m hold
  Poisoned,      \* entries whose archiving raises a record error
  MaxQuarantined,\* quarantined entries a unit goes on with
  Every,         \* entries between two checkpoints
  MayRestart,    \* {FALSE}, or with TRUE also runs with --no-resume
  YearEnds,      \* whether the year the months are of ends
  Attempts,      \* REPLAY_ATTEMPTS
  MaxFaults      \* bound on stops, failures, lost connections, crashes and
                 \* runs from scratch

ASSUME ReplayAssumption ==
  /\ Months \in Nat \ {0}
  /\ Year \in Seq(Range(Year))
  /\ Ends \in [0..Months -> 0..Len(Year)]
  /\ Ends[0] = 0 /\ Ends[Months] = Len(Year)
  /\ \A m, n \in 0..Months : m <= n => Ends[m] <= Ends[n]
  /\ MaxQuarantined \in Nat
  /\ Every \in Nat \ {0}
  /\ MayRestart \subseteq BOOLEAN
  /\ YearEnds \in BOOLEAN
  /\ Attempts \in Nat \ {0}
  /\ MaxFaults \in Nat

(* A unit is a month, or the whole year (the annual file).                    *)
Annual == 0
Units == {Annual} \cup 1..Months

VARIABLES
  month,         \* the current month; Months + 1 when the year is over
  avail,         \* how many entries the current month's file holds
  marked,        \* backfill_day: the days whose unit is done
  progress,      \* backfill_day: entries finished, by the day of the unit
  archived,      \* the entries archived, committed
  pc,            \* "off", "between" (units), "reading", "ended", "settled"
  asOf,          \* the month the run began in
  scratch,       \* the run is one with --no-resume
  todo,          \* units still to do; the first is in hand
  feed,          \* the archive in hand, oldest entry first
  at,            \* entries of it read
  tx,            \* entries archived and not committed
  bad,           \* entries quarantined in this attempt
  attempt,       \* of the unit in hand
  failed,        \* a unit of the run failed
  outcome,       \* how the last run ended: "complete" if no unit failed
  faults,        \* those that MaxFaults bounds, so far
  hidden         \* auxiliary: January's mark stands, or may, as the year ends

world == <<month, avail, hidden>>
kept  == <<marked, progress, archived>>
reading == <<feed, at, tx, bad, attempt>>
vars == <<world, kept, pc, asOf, scratch, todo, reading, failed, outcome, faults>>

Init ==
  /\ month = 1
  /\ avail = 0
  /\ marked = {}
  /\ progress = [d \in 1..Months |-> 0]
  /\ archived = {}
  /\ pc = "off"
  /\ asOf = 1
  /\ scratch = FALSE
  /\ todo = {}
  /\ feed = << >>
  /\ at = 0
  /\ tx = {}
  /\ bad = 0
  /\ attempt = 0
  /\ failed = FALSE
  /\ outcome = "never"
  /\ faults = 0
  /\ hidden = FALSE

------------------------------------------------------------------------------
(* Units, and the day each is marked under: date(year, month or 1, 1).        *)
MarkDay(u) == IF u = Annual THEN 1 ELSE u

(* The units of the whole range asked for: months of this year up to now, the *)
(* annual file of a year that is over.                                        *)
UnitsAsked == IF month > Months THEN {Annual} ELSE 1..month

Unit == CHOOSE u \in todo : \A v \in todo : u <= v
Key == MarkDay(Unit)

(* Mutated: the last month that is over is taken for the current one.         *)
IsOverLate(u) == u = Annual \/ u + 1 < asOf

(* Mutated: the current month counts as over.                                 *)
IsOverEarly(u) == u = Annual \/ u <= asOf

(* Whether a unit's file is not still being written.                          *)
IsOver(u) == u = Annual \/ u < asOf

(* How many entries month m's file holds when it is complete.                 *)
Size(m) == Ends[m] - Ends[m - 1]

(* What the file of month m, one that has begun, holds now.                   *)
FileOf(m) ==
  SubSeq(Year, Ends[m - 1] + 1, IF m < month THEN Ends[m] ELSE Ends[m - 1] + avail)

(* `fetch_archive`: the entries that can be read, in the order of their       *)
(* stamps, which is that of the months.                                       *)
Fetched(u) == IF u = Annual THEN Year ELSE FileOf(u)

------------------------------------------------------------------------------
(* What MaxFaults bounds has happened once more.                              *)
Fault == faults < MaxFaults /\ faults' = faults + 1

Start ==
  /\ pc = "off"
  /\ pc' = "between"
  /\ asOf' = month
  /\ scratch' \in MayRestart
  /\ IF scratch' THEN Fault ELSE UNCHANGED faults
  /\ todo' = {u \in UnitsAsked : scratch' \/ MarkDay(u) \notin marked}
  /\ failed' = FALSE
  /\ outcome' = "running"
  /\ UNCHANGED <<world, kept, reading>>

(* `backfill_progress`: the entries of the unit known to be finished.         *)
Skipped == progress[Key]

(* The archive is downloaded and read on from an entry.                       *)
Open(from) ==
  /\ pc' = "reading"
  /\ feed' = Fetched(Unit)
  /\ at' = from
  /\ tx' = {}
  /\ bad' = 0

(* The first attempt at a unit; a run from scratch forgets how far it was.    *)
OpenUnit ==
  /\ pc = "between"
  /\ todo # {}
  /\ attempt' = 1
  /\ IF scratch
     THEN progress' = [progress EXCEPT ![Key] = 0] /\ Open(0)
     ELSE UNCHANGED progress /\ Open(Skipped)
  /\ UNCHANGED <<world, marked, archived, asOf, scratch, todo, failed, outcome, faults>>

(* The archive is closed: what was not committed is rolled back.              *)
Closed == feed' = << >> /\ at' = 0 /\ tx' = {} /\ bad' = 0 /\ attempt' = 0

(* One unit failing does not end the range.                                   *)
UnitFailed ==
  /\ pc' = "between"
  /\ todo' = todo \ {Unit}
  /\ failed' = TRUE
  /\ Closed
  /\ UNCHANGED <<world, marked, asOf, scratch, outcome>>

(* Mutated: the entry that is about to be read is counted as finished.        *)
FinishedAndOne(n) == n

(* How many entries are finished when the n-th is in hand.                    *)
Finished(n) == n - 1

(* The next entry, which may be the one before which a checkpoint is due: the *)
(* count is written, the writer drained and all of it committed. One that     *)
(* raises is quarantined, one too many fails the unit.                        *)
ReadEntry ==
  /\ pc = "reading"
  /\ at < Len(feed)
  /\ LET n   == at + 1
         e   == feed[n]
         due == n % Every = 0
         refused == e \in Poisoned
     IN  /\ progress' = IF due THEN [progress EXCEPT ![Key] = Finished(n)] ELSE progress
         /\ archived' = IF due THEN archived \cup tx ELSE archived
         /\ IF refused /\ bad = MaxQuarantined
            THEN UnitFailed
            ELSE /\ at' = n
                 /\ bad' = IF refused THEN bad + 1 ELSE bad
                 /\ tx' = (IF due THEN {} ELSE tx) \cup (IF refused THEN {} ELSE {e})
                 /\ UNCHANGED <<world, marked, pc, asOf, scratch, todo, feed, attempt,
                                failed, outcome>>
  /\ UNCHANGED faults

(* `_pulled`: a transaction that has grown old is committed between entries.  *)
IdleCommit ==
  /\ pc = "reading"
  /\ tx # {}
  /\ archived' = archived \cup tx
  /\ tx' = {}
  /\ UNCHANGED <<world, marked, progress, pc, asOf, scratch, todo, feed, at, bad, attempt,
                 failed, outcome, faults>>

(* The archive is read to its end, and the rest committed.                    *)
EndUnit ==
  /\ pc = "reading"
  /\ at >= Len(feed)
  /\ archived' = archived \cup tx
  /\ tx' = {}
  /\ pc' = "ended"
  /\ UNCHANGED <<world, marked, progress, asOf, scratch, todo, feed, at, bad, attempt,
                 failed, outcome, faults>>

(* `reset_backfill_progress`: the next read of the unit starts at its start.  *)
Settle ==
  /\ pc = "ended"
  /\ progress' = [progress EXCEPT ![Key] = 0]
  /\ pc' = "settled"
  /\ Closed
  /\ UNCHANGED <<world, marked, archived, asOf, scratch, todo, failed, outcome, faults>>

(* A unit whose file is no longer written is marked done.                     *)
MarkUnit ==
  /\ pc = "settled"
  /\ marked' = IF IsOver(Unit) THEN marked \cup {Key} ELSE marked
  /\ todo' = todo \ {Unit}
  /\ pc' = "between"
  /\ UNCHANGED <<world, progress, archived, asOf, scratch, reading, failed, outcome, faults>>

Finish ==
  /\ pc = "between"
  /\ todo = {}
  /\ pc' = "off"
  /\ outcome' = IF failed THEN "failed" ELSE "complete"
  /\ UNCHANGED <<world, kept, asOf, scratch, todo, reading, failed, faults>>

------------------------------------------------------------------------------
(* What ends a unit or a run early.                                           *)

MayRetry == attempt < Attempts

(* The database connection is lost: the unit is read again from where it got  *)
(* to, if it was not the last attempt.                                        *)
ConnectionLost ==
  /\ pc \in {"reading", "ended"}
  /\ Fault
  /\ IF MayRetry
     THEN /\ attempt' = attempt + 1
          /\ Open(Skipped)
          /\ UNCHANGED <<world, kept, asOf, scratch, todo, failed, outcome>>
     ELSE UnitFailed /\ UNCHANGED <<progress, archived>>

(* Anything else that fails a unit: the download, the store, the source.      *)
UnitFails ==
  /\ pc \in {"reading", "ended"}
  /\ Fault
  /\ UnitFailed
  /\ UNCHANGED <<progress, archived>>

(* The run ends before the next unit (the live walk is due or running, the    *)
(* source answered 429), or the process is killed.                            *)
Interrupted ==
  /\ pc # "off"
  /\ Fault
  /\ pc' = "off"
  /\ outcome' = "stopped"
  /\ todo' = {}
  /\ Closed
  /\ UNCHANGED <<world, kept, asOf, scratch, failed>>

------------------------------------------------------------------------------
(* The publisher: the month's file grows at its end, and the months go by.    *)
FileGrows ==
  /\ month <= Months
  /\ avail < Size(month)
  /\ avail' = avail + 1
  /\ UNCHANGED <<month, hidden, kept, pc, asOf, scratch, todo, reading, failed, outcome, faults>>

MonthEnds ==
  /\ month < Months \/ (YearEnds /\ month = Months)
  /\ avail = Size(month)
  /\ month' = month + 1
  /\ avail' = 0
  /\ hidden' = (month = Months /\ 1 \in marked \cup todo)
  /\ UNCHANGED <<kept, pc, asOf, scratch, todo, reading, failed, outcome, faults>>

------------------------------------------------------------------------------
Step == OpenUnit \/ ReadEntry \/ EndUnit \/ Settle \/ MarkUnit \/ Finish

Next ==
  \/ Start \/ Step \/ IdleCommit
  \/ ConnectionLost \/ UnitFails \/ Interrupted
  \/ FileGrows \/ MonthEnds

Spec == Init /\ [][Next]_vars

(* The command is run again, and a run goes on with its next step.            *)
FairSpec == Spec /\ WF_vars(Start) /\ WF_vars(Step)

------------------------------------------------------------------------------
(* The variables have their types.                                            *)
AllEntries == Range(Year)

TypeOK ==
  /\ month \in 1..Months + 1
  /\ avail \in Nat
  /\ marked \subseteq 1..Months
  /\ progress \in [1..Months -> Nat]
  /\ archived \subseteq AllEntries
  /\ pc \in {"off", "between", "reading", "ended", "settled"}
  /\ asOf \in 1..Months + 1
  /\ scratch \in BOOLEAN /\ failed \in BOOLEAN
  /\ todo \subseteq Units
  /\ pc \in {"reading", "ended", "settled"} => todo # {}
  /\ feed \in Seq(AllEntries)
  /\ at \in Nat /\ bad \in 0..MaxQuarantined
  /\ tx \subseteq AllEntries
  /\ attempt \in 0..Attempts
  /\ outcome \in {"never", "running", "complete", "failed", "stopped"}
  /\ faults \in 0..MaxFaults
  /\ hidden \in BOOLEAN

(* Every entry of a month is archived but for those that are quarantined.     *)
Replayed(m) ==
  \A i \in 1..Size(m) : Year[Ends[m - 1] + i] \in archived \cup Poisoned

(* The count of finished entries never runs ahead of the data: what a rerun   *)
(* skips is committed, or was quarantined (`write_backfill_progress`).        *)
ProgressIsCommitted ==
  \A m \in 1..Months : \A i \in 1..progress[m] :
    Year[Ends[m - 1] + i] \in archived \cup Poisoned

(* A month marked done was archived: what it misses was quarantined, never    *)
(* lost to an interruption or in a file that was still growing. And a run     *)
(* that ends without a failed unit has seen to every month that was over when *)
(* it began, itself or in an earlier run; not so to the annual file of a year *)
(* whose January was marked before the year ended. (`run_placsp_replay`: safe *)
(* to repeat and to interrupt.)                                               *)
DoneIsReplayed ==
  /\ \A m \in marked : Replayed(m)
  /\ outcome = "complete" /\ ~(hidden /\ asOf > Months) => \A m \in 1..asOf - 1 : Replayed(m)

(* The file of a unit when it is complete. Its k-th stretch lies between two  *)
(* checkpoints: what an attempt that resumes there reads before the next one. *)
Complete(u) == IF u = Annual THEN Year ELSE SubSeq(Year, Ends[u - 1] + 1, Ends[u])
Stretch(u, k) == {i \in 1..Len(Complete(u)) : i \div Every = k}

(* No stretch holds more quarantined entries than an attempt goes on with.    *)
Passes(u) ==
  \A k \in 0..Len(Complete(u)) :
    Cardinality({i \in Stretch(u, k) : Complete(u)[i] \in Poisoned}) <= MaxQuarantined

(* A month that is over is marked in the end, by itself or with its year,     *)
(* whatever interrupts the runs, and though an attempt fails at a quarantined *)
(* entry too many: the next one goes on from the last checkpoint. Months and a*)
(* year with too many in one stretch are claimed nothing of: they fail there  *)
(* every time. (`Quarantine`, `backfill_progress`.)                           *)
EventuallyMarked ==
  \A m \in {n \in 1..Months : Passes(n) /\ (YearEnds => Passes(Annual))} :
    month > m ~> (m \in marked \/ (month > Months /\ 1 \in marked))
==============================================================================
