---------------------------- MODULE WorkerProofs ----------------------------
(* What Worker promises of runs, proved for any jobs, sources, slots, starts   *)
(* and operator's runs: a process does no job twice at once, although a slot   *)
(* and the catch-up may both want it, and nobody but its own process ends the  *)
(* run of a process that lives.                                                *)
EXTENDS Worker, FiniteSetTheorems, TLAPS

Threads == [at : {"idle", "called", "working", "open"}, since : Nat, recorded : BOOLEAN]
Busy(t) == thread[t].at \in {"working", "open"}

Typed ==
  /\ now \in Nat /\ process \in Nat /\ starts \in Nat
  /\ thread \in [Jobs \X Starters -> Threads]

(* A job that is being done is in `_RUNNING`, and is being done once.          *)
Alone ==
  /\ \A t \in Jobs \X Starters : Busy(t) => t[1] \in running
  /\ \A t, u \in Jobs \X Starters : t[1] = u[1] /\ Busy(t) /\ Busy(u) => t = u

(* With the process its threads are gone, and what it had still to start.      *)
NothingOutlives ==
  process = 0 => due = {} /\ plan = NoPlan /\ \A t \in Jobs \X Starters : thread[t] = Idle

IInv ==
  /\ Typed /\ Alone /\ NothingOutlives
  /\ operator # None => operator.owner = 0 /\ operator.at \in Nat
  /\ LiveRunsStayOpen

LEMMA InitIInv == Init => IInv
<1> SUFFICES ASSUME Init PROVE IInv
  OBVIOUS
<1>1. /\ now = 1 /\ process = 0 /\ starts = 0 /\ due = {} /\ plan = NoPlan /\ operator = None
      /\ thread = [t \in Jobs \X Starters |-> Idle]
  BY DEF Init
<1>2. Idle \in Threads /\ Idle.at = "idle"
  BY DEF Threads, Idle
<1>3. \A t \in Jobs \X Starters : thread[t] = Idle /\ thread[t].at = "idle"
  BY <1>1, <1>2
<1>4. Typed
  BY <1>1, <1>2 DEF Typed
<1>5. Alone /\ NothingOutlives /\ LiveRunsStayOpen
  BY <1>1, <1>3 DEF Alone, Busy, NothingOutlives, LiveRunsStayOpen
<1> QED BY <1>1, <1>4, <1>5 DEF IInv

(* What a step leaves alone when neither threads nor runs are touched.         *)
LEMMA UntouchedIInv ==
  ASSUME IInv, UNCHANGED <<process, running, thread, open, operator>>,
         now' \in Nat, now <= now', starts' \in Nat,
         process = 0 => due' = {} /\ plan' = NoPlan
  PROVE  IInv'
<1>1. Typed' /\ Alone' /\ NothingOutlives'
  BY DEF IInv, Typed, Alone, Busy, NothingOutlives
<1>2. Stale \in Nat /\ now \in Nat
  BY WorkerAssumption DEF WorkerAssumption, IInv, Typed
<1>3. LiveRunsStayOpen'
  BY <1>2 DEF IInv, LiveRunsStayOpen, OwnRow
<1> QED BY <1>1, <1>3 DEF IInv

(* A job is called, or a thread is done with it: no thread is busier.          *)
LEMMA CallIInv ==
  ASSUME IInv, process # 0, NEW job, Call(job), ~Waiting,
         UNCHANGED <<now, process, starts, running, open, operator>>
  PROVE  IInv'
<1> DEFINE c == <<job, "catchup">>
<1>1. CASE c \in Jobs \X Starters
  <2>1. job \in Jobs /\ thread[c] = Idle
    BY <1>1 DEF Waiting
  <2>2. /\ thread' \in [Jobs \X Starters -> Threads] /\ thread'[c].at = "called"
        /\ \A t \in Jobs \X Starters : t # c => thread'[t] = thread[t]
    BY <1>1 DEF Call, IInv, Typed, Threads
  <2>3. \A t \in Jobs \X Starters : Busy(t)' => Busy(t) /\ thread'[t] = thread[t]
    BY <2>2 DEF Busy
  <2>4. Typed' /\ Alone' /\ NothingOutlives'
    BY <2>2, <2>3 DEF IInv, Typed, Alone, NothingOutlives
  <2>5. LiveRunsStayOpen'
    BY <2>3 DEF IInv, LiveRunsStayOpen, OwnRow, Busy
  <2> QED BY <2>4, <2>5 DEF IInv
<1>2. CASE c \notin Jobs \X Starters
  <2>1. thread' = thread
    BY <1>2 DEF Call, IInv, Typed
  <2> QED BY <2>1 DEF IInv, Typed, Alone, Busy, NothingOutlives, LiveRunsStayOpen, OwnRow
<1> QED BY <1>1, <1>2

LEMMA EnterIInv ==
  ASSUME IInv, process # 0, NEW t \in Jobs \X Starters, ~Busy(t), Enter(t),
         UNCHANGED <<now, process, starts, operator>>
  PROVE  IInv'
<1>1. now \in Nat /\ thread \in [Jobs \X Starters -> Threads]
  BY DEF IInv, Typed
<1>2. CASE t[1] \in running
  <2>1. thread' = [thread EXCEPT ![t] = Idle] /\ UNCHANGED <<running, open>>
    BY <1>2 DEF Enter
  <2>2. /\ thread' \in [Jobs \X Starters -> Threads] /\ thread'[t] = Idle
        /\ \A u \in Jobs \X Starters : u # t => thread'[u] = thread[u]
    BY <1>1, <2>1 DEF Threads, Idle
  <2>3. \A u \in Jobs \X Starters : Busy(u)' => Busy(u) /\ thread'[u] = thread[u]
    BY <2>2 DEF Busy, Idle
  <2>4. Typed' /\ Alone' /\ NothingOutlives'
    BY <2>1, <2>2, <2>3 DEF IInv, Typed, Alone, NothingOutlives
  <2>5. LiveRunsStayOpen'
    BY <2>1, <2>3 DEF IInv, LiveRunsStayOpen, OwnRow, Busy
  <2> QED BY <2>4, <2>5 DEF IInv
<1>3. CASE t[1] \notin running
  <2>1. running' = running \cup {t[1]} /\ \E recorded \in BOOLEAN : Begin(t, recorded)
    BY <1>3 DEF Enter
  <2>2. PICK recorded \in BOOLEAN : Begin(t, recorded)
    BY <2>1
  <2>3. /\ thread'[t].since = now /\ Busy(t)'
        /\ thread'[t].at = "open" =>
             open' = open \cup {Row(t[1], SourceOf[t[1]], process, now)}
        /\ open \subseteq open'
    BY <1>1, <2>2 DEF Begin, Busy
  <2>4. /\ thread' \in [Jobs \X Starters -> Threads]
        /\ \A u \in Jobs \X Starters : u # t => thread'[u] = thread[u]
    BY <1>1, <2>2 DEF Begin, Threads
  <2>5. \A u \in Jobs \X Starters : u # t /\ Busy(u)' => Busy(u) /\ u[1] # t[1]
    BY <1>3, <2>4 DEF Busy, IInv, Alone
  <2>6. Alone'
    BY <2>1, <2>5 DEF IInv, Alone
  <2>7. Typed' /\ NothingOutlives'
    BY <2>4 DEF IInv, Typed, NothingOutlives
  <2>8. LiveRunsStayOpen'
    BY <2>3, <2>4 DEF IInv, LiveRunsStayOpen, OwnRow
  <2> QED BY <2>6, <2>7, <2>8 DEF IInv
<1> QED BY <1>2, <1>3

(* The row a thread closes is its own, and no one else's.                      *)
LEMMA RunJobIInv ==
  ASSUME IInv, NEW t \in Jobs \X Starters, RunJob(t)
  PROVE  IInv'
<1>1. Busy(t) /\ process # 0
  <2>1. Busy(t)
    BY DEF RunJob, Busy
  <2> QED BY <2>1 DEF IInv, NothingOutlives, Busy, Idle
<1>2. /\ running' = running \ {t[1]} /\ thread' = [thread EXCEPT ![t] = Idle]
      /\ UNCHANGED <<now, process, starts, operator>>
      /\ open' = open \/ open' = open \ {OwnRow(t)}
  BY DEF RunJob, Finish, ingest
<1>3. /\ thread' \in [Jobs \X Starters -> Threads] /\ thread'[t] = Idle
      /\ \A u \in Jobs \X Starters : u # t => thread'[u] = thread[u]
  BY <1>2 DEF IInv, Typed, Threads, Idle
<1>4. \A u \in Jobs \X Starters : Busy(u)' => u # t /\ Busy(u) /\ u[1] # t[1]
  BY <1>1, <1>3 DEF Busy, Idle, IInv, Alone
<1>5. Typed' /\ Alone' /\ NothingOutlives'
  BY <1>1, <1>2, <1>3, <1>4 DEF IInv, Typed, Alone, NothingOutlives
<1>6. ASSUME NEW u \in Jobs \X Starters, thread'[u].at = "open"
      PROVE  OwnRow(u)' \in open'
  <2>1. u # t /\ u[1] # t[1] /\ thread[u].at = "open" /\ thread'[u] = thread[u]
    BY <1>3, <1>4, <1>6 DEF Busy
  <2>2. OwnRow(u)' = OwnRow(u) /\ OwnRow(u) \in open
    BY <1>2, <2>1 DEF OwnRow, IInv, LiveRunsStayOpen
  <2>3. OwnRow(u).job = u[1] /\ OwnRow(t).job = t[1]
    BY DEF OwnRow, Row
  <2> QED BY <1>2, <2>1, <2>2, <2>3
<1>7. operator # None => operator # OwnRow(t)
  <2>1. OwnRow(t).owner = process
    BY DEF OwnRow, Row
  <2> QED BY <1>1, <2>1 DEF IInv
<1>8. LiveRunsStayOpen'
  BY <1>2, <1>6, <1>7 DEF IInv, LiveRunsStayOpen
<1> QED BY <1>2, <1>5, <1>8 DEF IInv

(* A start closes what belongs to processes that are gone.                     *)
LEMMA BootIInv == ASSUME IInv, NEW ready \in BOOLEAN, Boot(ready) PROVE IInv'
<1>1. /\ process = 0 /\ process' = starts + 1 /\ starts' = starts + 1
      /\ UNCHANGED <<now, running, thread, operator>>
      /\ open' = open \/ open' = {row \in open : ~Interrupted(row)}
  BY DEF Boot
<1>2. process' # 0 /\ process' \in Nat /\ starts' \in Nat
  BY <1>1 DEF IInv, Typed
<1>3. Typed' /\ Alone' /\ NothingOutlives'
  BY <1>1, <1>2 DEF IInv, Typed, Alone, Busy, NothingOutlives
<1>4. \A t \in Jobs \X Starters : thread'[t].at # "open"
  BY <1>1 DEF IInv, NothingOutlives, Idle
<1>5. LiveRunsStayOpen'
  BY <1>1, <1>4 DEF IInv, LiveRunsStayOpen, Interrupted
<1> QED BY <1>1, <1>3, <1>5 DEF IInv

LEMMA CrashIInv == ASSUME IInv, Crash PROVE IInv'
<1>1. /\ process' = 0 /\ due' = {} /\ plan' = NoPlan
      /\ \A t \in Jobs \X Starters : thread'[t] = Idle
      /\ thread' \in [Jobs \X Starters -> Threads]
      /\ UNCHANGED <<now, starts, open, operator>>
  BY DEF Crash, ingest, Threads, Idle
<1> QED BY <1>1 DEF IInv, Typed, Alone, Busy, NothingOutlives, LiveRunsStayOpen, Idle

LEMMA OperatorIInv ==
  ASSUME IInv,
         \/ \E s \in Sources : OperatorOpens(s)
         \/ \E good \in BOOLEAN : OperatorEnds(good)
         \/ OperatorKilled
  PROVE  IInv'
<1>1. UNCHANGED <<now, process, starts, due, running, thread, plan>>
  BY DEF OperatorOpens, OperatorEnds, OperatorKilled
<1>2. Typed' /\ Alone' /\ NothingOutlives'
  BY <1>1 DEF IInv, Typed, Alone, Busy, NothingOutlives
<1>3. CASE \E s \in Sources : OperatorOpens(s)
  <2>1. PICK s \in Sources : OperatorOpens(s)
    BY <1>3
  <2>2. /\ operator' = Row(None, s, 0, now) /\ open' = open \cup {operator'}
        /\ operator'.owner = 0 /\ operator'.at \in Nat
    BY <2>1 DEF OperatorOpens, Row, IInv, Typed
  <2> QED BY <1>1, <1>2, <2>2 DEF IInv, LiveRunsStayOpen, OwnRow
<1>4. CASE \E good \in BOOLEAN : OperatorEnds(good)
  <2>1. operator' = None /\ open' = open \ {operator} /\ operator # None
    BY <1>4 DEF OperatorEnds, Finish
  <2>2. ASSUME NEW t \in Jobs \X Starters, thread[t].at = "open"
        PROVE  OwnRow(t) # operator
    <3>1. process # 0 /\ OwnRow(t).owner = process
      BY <2>2 DEF IInv, NothingOutlives, Idle, OwnRow, Row
    <3> QED BY <2>1, <3>1 DEF IInv
  <2> QED BY <1>1, <1>2, <2>1, <2>2 DEF IInv, LiveRunsStayOpen, OwnRow
<1>5. CASE OperatorKilled
  BY <1>1, <1>2, <1>5 DEF OperatorKilled, ingest, IInv, LiveRunsStayOpen, OwnRow
<1> QED BY <1>3, <1>4, <1>5

LEMMA CatchUpIInv == ASSUME IInv, CatchUp PROVE IInv'
<1>1. ASSUME plan.at # "done" PROVE process # 0
  BY <1>1 DEF NoPlan, IInv, NothingOutlives
<1>2. CASE CatchUpDaily
  <2>1. /\ UNCHANGED <<now, process, starts, due, running, open, operator>>
        /\ plan.at = "daily" /\ ~Waiting
        /\ UNCHANGED thread \/ Call(Head(plan.todo))
    BY <1>2 DEF CatchUpDaily, ingest
  <2>2. process # 0
    BY <1>1, <2>1
  <2>3. CASE UNCHANGED thread
    BY <2>1, <2>2, <2>3, UntouchedIInv DEF IInv, Typed
  <2> QED BY <2>1, <2>2, <2>3, CallIInv
<1>3. CASE CatchUpJobs
  <2>1. /\ UNCHANGED <<now, process, starts, due, running, open, operator>>
        /\ plan.at = "jobs" /\ ~Waiting
        /\ UNCHANGED thread \/ Call(Head(plan.todo))
    BY <1>3 DEF CatchUpJobs, ingest
  <2>2. process # 0
    BY <1>1, <2>1
  <2>3. CASE UNCHANGED thread
    BY <2>1, <2>2, <2>3, UntouchedIInv DEF IInv, Typed
  <2> QED BY <2>1, <2>2, <2>3, CallIInv
<1>4. CASE CatchUpList \/ CatchUpWait
  <2>1. /\ UNCHANGED <<now, process, starts, running, thread, open, operator>>
        /\ plan.at # "done"
    BY <1>4 DEF CatchUpList, CatchUpWait, ingest
  <2> QED BY <1>1, <2>1, UntouchedIInv DEF IInv, Typed
<1>5. ASSUME NEW j \in Jobs, CatchUpRuns(j) PROVE IInv'
  <2> DEFINE t == <<j, "catchup">>
  <2>1. /\ t \in Jobs \X Starters /\ thread[t].at = "called" /\ Enter(t)
        /\ UNCHANGED <<now, process, starts, operator>>
    BY <1>5 DEF CatchUpRuns, Starters
  <2>2. process # 0
    BY <2>1 DEF IInv, NothingOutlives, Idle
  <2>3. ~Busy(t)
    BY <2>1 DEF Busy
  <2> HIDE DEF t
  <2> QED BY <2>1, <2>2, <2>3, EnterIInv
<1> QED BY <1>2, <1>3, <1>4, <1>5 DEF CatchUp

LEMMA FireIInv == ASSUME IInv, NEW job \in Jobs, Fire(job) PROVE IInv'
<1> DEFINE t == <<job, "slot">>
<1>1. /\ t \in Jobs \X Starters /\ job \in due /\ UNCHANGED <<now, process, starts, plan, operator>>
      /\ \/ thread[t] = Idle /\ Enter(t)
         \/ UNCHANGED <<thread, running, open>>
  BY DEF Fire, Starters
<1>2. process # 0
  BY <1>1 DEF IInv, NothingOutlives
<1>3. CASE UNCHANGED <<thread, running, open>>
  BY <1>1, <1>2, <1>3, UntouchedIInv DEF IInv, Typed
<1>4. CASE thread[t] = Idle /\ Enter(t)
  <2>1. ~Busy(t)
    BY <1>4 DEF Busy, Idle
  <2> HIDE DEF t
  <2> QED BY <1>1, <1>2, <1>4, <2>1, EnterIInv
<1> QED BY <1>1, <1>3, <1>4

LEMMA StepIInv == IInv /\ [Next]_vars => IInv'
<1> SUFFICES ASSUME IInv, [Next]_vars PROVE IInv'
  OBVIOUS
<1>1. CASE Tick
  <2>1. /\ UNCHANGED <<process, starts, running, thread, plan, open, operator>>
        /\ now' = now + 1 /\ (process = 0 => due' = {})
    BY <1>1 DEF Tick, ingest
  <2> QED BY <2>1, UntouchedIInv DEF IInv, Typed, NothingOutlives
<1>2. CASE UNCHANGED vars
  <2>1. UNCHANGED <<now, process, starts, due, running, thread, plan, open, operator>>
    BY <1>2 DEF vars, ingest
  <2> QED BY <2>1, UntouchedIInv DEF IInv, Typed, NothingOutlives
<1> QED BY <1>1, <1>2, RunJobIInv, FireIInv, CatchUpIInv, BootIInv, CrashIInv, OperatorIInv
        DEF Next

------------------------------------------------------------------------------
(* The invariant holds in every state.                                         *)
THEOREM Inductive == Spec => []IInv
BY InitIInv, StepIInv, PTL DEF Spec

(* One process never does a job twice at once, whatever the slots and the      *)
(* catch-up start.                                                             *)
THEOREM NeverTwice == Spec => []OneAtATime
<1>1. IInv => OneAtATime
  <2> SUFFICES ASSUME IInv, NEW j \in Jobs
               PROVE  Cardinality({t \in {j} \X Starters : Busy(t)}) <= 1
    BY DEF OneAtATime, Busy
  <2> DEFINE S == {t \in {j} \X Starters : Busy(t)}
  <2>1. CASE S = {}
    BY <2>1, FS_EmptySet
  <2>2. CASE S # {}
    <3>1. PICK t \in S : TRUE
      BY <2>2
    <3>2. \A u \in S : u = t
      BY <3>1 DEF IInv, Alone
    <3>3. S = {t}
      BY <3>1, <3>2
    <3>4. Cardinality({t}) = 1
      BY FS_Singleton
    <3> QED BY <3>3, <3>4
  <2> QED BY <2>1, <2>2
<1> QED BY <1>1, Inductive, PTL

(* The run of a process that lives stays open until that process ends it,      *)
(* whoever starts, is restarted or tidies up meanwhile, a day's age apart.     *)
THEOREM OwnersEndTheirRuns == Spec => []LiveRunsStayOpen
<1>1. IInv => LiveRunsStayOpen
  BY DEF IInv
<1> QED BY <1>1, Inductive, PTL

=============================================================================
