------------------------------- MODULE Worker -------------------------------
(* The scheduled worker of dgate/worker.py and the records of dgate/db.py it  *)
(* decides by. A slot of the scheduler and the catch-up thread of a start     *)
(* both start jobs through `run_job`; an ingestion job opens and closes an    *)
(* `ingest_run` of its source, every job has a `job_run`. The process dies at *)
(* any point and is started again, with or without a database; an operator's  *)
(* process has `ingest_run` rows of its own.                                  *)
(*                                                                            *)
(* Time is in ticks, with the slots of a job on some of them. Of the tables   *)
(* the module keeps what is read again: the open runs, the last success of a  *)
(* source, the last start of a job that is not daily, and whether a rare one  *)
(* has any. A start is one step up to the scheduler's own start; its thread   *)
(* pool is never full. What a job's verdict says (its alert, its word in      *)
(* `job_run`) is left out.                                                    *)
EXTENDS Naturals, Sequences, FiniteSets

CONSTANTS
  Jobs,          \* scheduled jobs
  Daily,         \* those the catch-up judges by their source's last success
  Rare,          \* those that run more seldom than daily
  None,          \* no source, no run
  SourceOf,      \* the source a job reads, or None
  Slots,         \* the ticks of a job's slots
  Order,         \* the daily jobs in the order of `daily_jobs`
  Stale,         \* STALE_RUN_HOURS, in ticks
  MaxTime,       \* bound on time
  MaxStarts,     \* bound on starts of the worker
  MaxRuns        \* bound on the operator's runs

Sources == {SourceOf[j] : j \in Jobs} \ {None}

ASSUME WorkerAssumption ==
  /\ Daily \subseteq Jobs
  /\ Rare \subseteq Jobs \ Daily
  /\ SourceOf \in [Jobs -> Sources \cup {None}]
  /\ Slots \in [Jobs -> SUBSET (Nat \ {0, 1})]
  /\ Order \in Seq(Daily)
  /\ \A j \in Daily : SourceOf[j] # None /\ \E i \in DOMAIN Order : Order[i] = j
  /\ {Stale, MaxTime, MaxStarts, MaxRuns} \subseteq Nat

VARIABLES
  now,
  process,       \* the running worker's number, 0: none
  starts,        \* starts so far
  blind,         \* the last start found no database
  due,           \* slots the scheduler has still to fire
  running,       \* _RUNNING
  thread,        \* what each slot's thread and the catch-up's does for a job
  plan,          \* the catch-up: its stage and what it has still to look at
  open,          \* the rows of ingest_run that are `running`
  success,       \* when the last successful run of a source finished, 0: never
  record,        \* the rows of job_run that are `running`
  began,         \* the last start of a job that no restart cut short
  known,         \* the rare jobs with any row in job_run
  operator,      \* the operator's run, or None
  runs,          \* the operator's runs so far
  met            \* auxiliary: the latest slot a run of the job has answered

vars == <<now, process, starts, blind, due, running, thread, plan, open, success,
          record, began, known, operator, runs, met>>
ingest == <<open, success>>
job_run == <<record, began, known>>

Starters == {"slot", "catchup"}
Idle == [at |-> "idle", since |-> 0, recorded |-> FALSE]
NoPlan == [at |-> "done", todo |-> << >>]
Row(job, source, owner, at) ==
  [job |-> job, source |-> source, owner |-> owner, at |-> at]

(* Before the first start: some sources have been read, some jobs have run.   *)
Init ==
  /\ now = 1
  /\ process = 0 /\ starts = 0 /\ blind = FALSE
  /\ due = {} /\ running = {}
  /\ thread = [t \in Jobs \X Starters |-> Idle]
  /\ plan = NoPlan
  /\ open = {} /\ success \in [Sources -> {0, 1}]
  /\ record = {} /\ began = [j \in Jobs |-> 0] /\ known \in SUBSET Rare
  /\ operator = None /\ runs = 0
  /\ met = [j \in Jobs |-> 0]

------------------------------------------------------------------------------
(* Slots and ages.                                                            *)

LastSlot(job) ==
  LET past == {s \in Slots[job] : s <= now}
  IN  IF past = {} THEN 0 ELSE CHOOSE s \in past : \A o \in past : o <= s

(* Mutated: a source is fresh for a fixed time, whatever slots have passed.   *)
FreshByAge(job) ==
  success[SourceOf[job]] # 0 /\ now <= success[SourceOf[job]] + 1

(* `hours_since_last_success` against `hours_since_last_slot`.                *)
Fresh(job) ==
  success[SourceOf[job]] # 0 /\ success[SourceOf[job]] >= LastSlot(job)

(* `last_job_start`: a run that a restart cut short is not one of its slot.   *)
StartedBy(job, slot) ==
  began[job] >= slot \/ \E r \in record : r.job = job /\ r.since >= slot

(* `catch_up_jobs`: the last slot passed and the job has not started since.   *)
Missed(job) ==
  /\ LastSlot(job) > 0
  /\ ~StartedBy(job, LastSlot(job))
  /\ job \in Rare => job \in known

------------------------------------------------------------------------------
(* run_job, by a slot's thread or by the catch-up.                            *)

Begin(t, recorded) ==
  \/ /\ SourceOf[t[1]] # None
     /\ open' = open \cup {Row(t[1], SourceOf[t[1]], process, now)}
     /\ thread' = [thread EXCEPT ![t] = [at |-> "open", since |-> now,
                                         recorded |-> recorded]]
  \/ /\ UNCHANGED open
     /\ thread' = [thread EXCEPT ![t] = [at |-> "working", since |-> now,
                                         recorded |-> recorded]]

(* Mutated: a start does not look whether the job runs already.               *)
EnterTwice(t) ==
  /\ running' = running \cup {t[1]}
  /\ UNCHANGED <<record, known>>
  /\ Begin(t, FALSE)

(* A start of a job that runs already in this process is skipped. Else its    *)
(* start is recorded, if that can be written, and its ingestion opens a run,  *)
(* or does not get so far.                                                    *)
Enter(t) ==
  IF t[1] \in running
  THEN /\ thread' = [thread EXCEPT ![t] = Idle]
       /\ UNCHANGED <<running, open, record, known>>
  ELSE /\ running' = running \cup {t[1]}
       /\ \/ UNCHANGED <<record, known>> /\ Begin(t, FALSE)
          \/ /\ t[1] \notin Daily
             /\ record' = record \cup {[job |-> t[1], since |-> now]}
             /\ known' = known \cup ({t[1]} \cap Rare)
             /\ Begin(t, TRUE)

(* `finish_run` writes the row whatever it says by then.                      *)
Finish(row, good) ==
  /\ open' = open \ {row}
  /\ success' = IF good THEN [success EXCEPT ![row.source] = now] ELSE success

OwnRow(t) == Row(t[1], SourceOf[t[1]], process, thread[t].since)

(* `record_finish`.                                                           *)
Close(t) ==
  /\ UNCHANGED known
  /\ IF thread[t].recorded
     THEN /\ record' = record \ {[job |-> t[1], since |-> thread[t].since]}
          /\ began' = [began EXCEPT ![t[1]] =
                         IF @ < thread[t].since THEN thread[t].since ELSE @]
     ELSE UNCHANGED <<record, began>>

(* The call returns, or raises, with its run closed, if it had one; its       *)
(* record is closed with it. The ingestion of a source that opens no run has  *)
(* raised.                                                                    *)
RunJob(t) ==
  /\ \/ thread[t].at = "open" /\ \E good \in BOOLEAN : Finish(OwnRow(t), good)
     \/ thread[t].at = "working" /\ UNCHANGED ingest
  /\ Close(t)
  /\ running' = running \ {t[1]}
  /\ thread' = [thread EXCEPT ![t] = Idle]
  /\ met' = [met EXCEPT ![t[1]] = LastSlot(t[1])]
  /\ UNCHANGED <<now, process, starts, blind, due, plan, operator, runs>>

------------------------------------------------------------------------------
(* The scheduler, the catch-up and the process.                               *)

(* One instance of a job at a time: a slot that comes before is skipped.      *)
Fire(job) ==
  /\ job \in due
  /\ due' = due \ {job}
  /\ IF thread[<<job, "slot">>] = Idle THEN Enter(<<job, "slot">>)
     ELSE UNCHANGED <<thread, running, open, record, known>>
  /\ UNCHANGED <<now, process, starts, blind, plan, success, began, operator,
                 runs, met>>

Tick ==
  /\ now < MaxTime
  /\ now' = now + 1
  /\ due' = IF process = 0 THEN {} ELSE due \cup {j \in Jobs : now + 1 \in Slots[j]}
  /\ UNCHANGED <<process, starts, blind, running, thread, plan, ingest, job_run,
                 operator, runs, met>>

Waiting == \E j \in Jobs : thread[<<j, "catchup">>] # Idle

Call(job) == thread' = [thread EXCEPT ![<<job, "catchup">>].at = "called"]

(* What the catch-up decided to run is run some time after it was judged.     *)
CatchUpRuns(job) ==
  /\ thread[<<job, "catchup">>].at = "called"
  /\ Enter(<<job, "catchup">>)
  /\ UNCHANGED <<now, process, starts, blind, due, plan, success, began,
                 operator, runs, met>>

(* `catch_up`: the daily jobs one after the other, each judged in its turn.   *)
CatchUpDaily ==
  /\ plan.at = "daily" /\ ~Waiting
  /\ IF plan.todo = << >>
     THEN plan' = [plan EXCEPT !.at = "list"] /\ UNCHANGED thread
     ELSE /\ plan' = [plan EXCEPT !.todo = Tail(@)]
          /\ IF Fresh(Head(plan.todo)) THEN UNCHANGED thread
             ELSE Call(Head(plan.todo))
  /\ UNCHANGED <<now, process, starts, blind, due, running, ingest, job_run,
                 operator, runs, met>>

(* Oldest slot first.                                                         *)
BySlot(jobs) ==
  {s \in [1..Cardinality(jobs) -> jobs] :
     /\ \A j \in jobs : \E i \in DOMAIN s : s[i] = j
     /\ \A i, k \in DOMAIN s : i < k => LastSlot(s[i]) <= LastSlot(s[k])}

(* `catch_up_jobs`: what is due is listed, and looked at again after a wait:  *)
(* a slot that fired meanwhile ran the job itself.                            *)
CatchUpList ==
  /\ plan.at = "list"
  /\ \E s \in BySlot({j \in Jobs \ Daily : Missed(j)}) :
       plan' = [at |-> "wait", todo |-> s]
  /\ UNCHANGED <<now, process, starts, blind, due, running, thread, ingest,
                 job_run, operator, runs, met>>

CatchUpWait ==
  /\ plan.at = "wait"
  /\ plan' = [at |-> "jobs", todo |-> SelectSeq(plan.todo, Missed)]
  /\ UNCHANGED <<now, process, starts, blind, due, running, thread, ingest,
                 job_run, operator, runs, met>>

CatchUpJobs ==
  /\ plan.at = "jobs" /\ ~Waiting
  /\ IF plan.todo = << >> THEN plan' = NoPlan /\ UNCHANGED thread
     ELSE plan' = [plan EXCEPT !.todo = Tail(@)] /\ Call(Head(plan.todo))
  /\ UNCHANGED <<now, process, starts, blind, due, running, ingest, job_run,
                 operator, runs, met>>

(* Mutated: a start fails every open run.                                     *)
InterruptedAny(row) == row \in open

(* `close_interrupted_runs`: the runs the worker's own kind left open, and    *)
(* whoever's that are older than a day.                                       *)
Interrupted(row) == row.owner # 0 \/ row.at + Stale < now

(* A start: without a database there is neither a tidying nor a catch-up.     *)
Boot(ready) ==
  /\ process = 0 /\ starts < MaxStarts
  /\ process' = starts + 1
  /\ starts' = starts + 1
  /\ blind' = ~ready
  /\ IF ready
     THEN /\ open' = {row \in open : ~Interrupted(row)}
          /\ record' = {}
          /\ plan' = [at |-> "daily", todo |-> Order]
     ELSE UNCHANGED <<open, record, plan>>
  /\ UNCHANGED <<now, due, running, thread, success, began, known, operator,
                 runs, met>>

(* The process is killed; the container is restarted.                         *)
Crash ==
  /\ process # 0 /\ starts < MaxStarts
  /\ process' = 0
  /\ due' = {} /\ running' = {}
  /\ thread' = [t \in Jobs \X Starters |-> Idle]
  /\ plan' = NoPlan
  /\ UNCHANGED <<now, starts, blind, ingest, job_run, operator, runs, met>>

(* An operator's process reads a source, ends, or is killed.                  *)
OperatorOpens(source) ==
  /\ operator = None /\ runs < MaxRuns
  /\ operator' = Row(None, source, 0, now)
  /\ open' = open \cup {Row(None, source, 0, now)}
  /\ runs' = runs + 1
  /\ UNCHANGED <<now, process, starts, blind, due, running, thread, plan, success,
                 job_run, met>>

OperatorEnds(good) ==
  /\ operator # None
  /\ Finish(operator, good)
  /\ operator' = None
  /\ met' = [j \in Jobs |-> IF good /\ SourceOf[j] = operator.source
                            THEN LastSlot(j) ELSE met[j]]
  /\ UNCHANGED <<now, process, starts, blind, due, running, thread, plan,
                 job_run, runs>>

OperatorKilled ==
  /\ operator # None
  /\ operator' = None
  /\ UNCHANGED <<now, process, starts, blind, due, running, thread, plan, ingest,
                 job_run, runs, met>>

CatchUp == \/ CatchUpDaily \/ CatchUpList \/ CatchUpWait \/ CatchUpJobs
           \/ \E j \in Jobs : CatchUpRuns(j)

Next ==
  \/ \E t \in Jobs \X Starters : RunJob(t)
  \/ \E j \in Jobs : Fire(j)
  \/ CatchUp
  \/ Tick
  \/ \E ready \in BOOLEAN : Boot(ready)
  \/ Crash
  \/ \E s \in Sources : OperatorOpens(s)
  \/ \E good \in BOOLEAN : OperatorEnds(good)
  \/ OperatorKilled

(* The worker's threads go on, the container is restarted, time passes. That  *)
(* a start finds the database is not assumed.                                 *)
Fairness ==
  /\ \A t \in Jobs \X Starters : WF_vars(RunJob(t))
  /\ \A j \in Jobs : WF_vars(Fire(j))
  /\ WF_vars(CatchUp)
  /\ WF_vars(Tick)
  /\ WF_vars(\E ready \in BOOLEAN : Boot(ready))

Spec == Init /\ [][Next]_vars /\ Fairness

------------------------------------------------------------------------------
(* Properties.                                                                *)

Rows == [job : Jobs \cup {None}, source : Sources, owner : 0..MaxStarts, at : 0..MaxTime]

(* The tables, the process and the threads have their types.                  *)
TypeOK ==
  /\ now \in 1..MaxTime
  /\ starts \in 0..MaxStarts /\ process \in 0..starts /\ blind \in BOOLEAN
  /\ due \subseteq Jobs /\ running \subseteq Jobs /\ known \subseteq Rare
  /\ thread \in [Jobs \X Starters ->
                   [at : {"idle", "called", "working", "open"},
                    since : 0..MaxTime, recorded : BOOLEAN]]
  /\ plan.at \in {"daily", "list", "wait", "jobs", "done"}
  /\ open \subseteq Rows /\ success \in [Sources -> 0..MaxTime]
  /\ record \subseteq [job : Jobs, since : 0..MaxTime]
  /\ began \in [Jobs -> 0..MaxTime]
  /\ operator \in Rows \cup {None} /\ runs \in 0..MaxRuns
  /\ met \in [Jobs -> 0..MaxTime]

(* The catch-up of a start and the slots of the scheduler run side by side:   *)
(* one process never does a job twice at once.                                *)
OneAtATime ==
  \A j \in Jobs :
    Cardinality({t \in {j} \X Starters : thread[t].at \in {"working", "open"}}) <= 1

(* The run of a process that is alive stays open until that process ends it,  *)
(* whatever is started or restarted meanwhile, unless it is older than a day. *)
LiveRunsStayOpen ==
  /\ \A t \in Jobs \X Starters : thread[t].at = "open" => OwnRow(t) \in open
  /\ operator = None \/ operator \in open \/ operator.at + Stale < now

(* A run that a dead worker left open is closed, unless the worker has been   *)
(* started without a database.                                                *)
InterruptedIsClosed ==
  \A p \in 1..MaxStarts :
    (process # p /\ \E row \in open : row.owner = p)
      ~> (blind \/ \A row \in open : row.owner # p)

(* A run is closed by who should: while its process lives by that process     *)
(* alone, and after its process died by the next start (`run_owner`).         *)
RunsEndRightly == [][LiveRunsStayOpen']_vars /\ InterruptedIsClosed

(* No slot is lost to a restart: every slot of a job is answered by a run     *)
(* that ends at or after it, the slot's own, the catch-up's or an operator's. *)
(* Excused are a start that found no database, which says so, and a monthly   *)
(* or weekly job that has never run, which waits for its next slot.           *)
SlotsAreMet ==
  \A j \in Jobs : \A s \in Slots[j] :
    (now >= s) ~> (met[j] >= s \/ blind \/ j \in Rare \ known)
==============================================================================
