------------------------------ MODULE LiveWalk ------------------------------
(* The nightly walk of one PLACSP dataset: `fetch_live` of                    *)
(* dgate/sources/placsp.py, `_ingest_placsp` and `run_placsp_live` of         *)
(* dgate/pipeline.py. The publisher's entries are numbered in the order of    *)
(* their stamps; its live feed is a chain of files of `Size` entries, the     *)
(* head only part full, and shows the entries up to `shown`: a feed that      *)
(* froze shows nothing newer, and then a burst. Its monthly archives hold the *)
(* entries of days gone by.                                                   *)
(*                                                                            *)
(* A night's walk goes back to the mark the last complete walk left, within a *)
(* cap; what it read is loaded in the order of the stamps; the run is closed  *)
(* with its status, and in a transaction after that it leaves its own mark. A *)
(* feed whose newest entry is old is covered from the archives. The time unit *)
(* is a day; an entry taken up is one number, whatever `_kept` made of it     *)
(* (module Archive has what follows).                                         *)
EXTENDS Naturals, Sequences, FiniteSetsExt

CONSTANTS
  Size,            \* entries of one file of the feed
  MinPages,        \* placsp_pages: a walk goes at least so far
  HardCap,         \* placsp_max_pages, the most pages of a walk
  MaxQuarantined,  \* MAX_QUARANTINED
  StaleDays,       \* placsp_stale_hours: an entry of so many days ago is fresh or not
  Early,           \* days of a month on which the month before is read too
  MonthLength,     \* days of a month
  Malformed,       \* the entries `parse_feed` cannot parse
  Poisoned,        \* the entries whose record raises, until the code is mended
  MaxEntries,      \* bound on entries published
  MaxDay,          \* bound on days
  MaxFaults        \* bound on failures, crashes and refused links

ASSUME LiveWalkAssumption ==
  /\ {Size, MinPages, HardCap, MonthLength} \subseteq Nat \ {0}
  /\ {MaxQuarantined, StaleDays, Early, MaxEntries, MaxDay, MaxFaults} \subseteq Nat
  /\ MinPages <= HardCap
  /\ 0 < StaleDays /\ StaleDays < Early /\ Early <= MonthLength
  /\ Malformed \cup Poisoned \subseteq 1 .. MaxEntries

VARIABLES
  day,             \* the day each entry was published
  shown,           \* the newest entry of the live feed
  now,             \* the day of the night's run
  ran,             \* the night's run was started
  held,            \* entries taken up and committed
  mark,            \* newest_entry_at of the last run that has one, 0: none
  status,          \* the status of the last live run
  stage,           \* what a run is at: idle, loading, closed or covering
  walk,            \* what fetch_live observed
  months,          \* the archives still to be read
  mended,          \* the poisoned records raise no more
  reach,           \* auxiliary: how far back the first walk that left a mark read
  told,            \* auxiliary: entries a `partial` run told of
  unbroken,        \* auxiliary: no run was cut short, no walk refused or capped
  faults           \* faults so far

vars == <<day, shown, now, ran, held, mark, status, stage, walk, months, mended,
          reach, told, unbroken, faults>>

publisher == <<day, shown, now, mended>>
books == <<held, mark, reach, told>>

Entries == DOMAIN day
NewestOf(S) == IF S = {} THEN 0 ELSE Max(S)
Parsed(S) == S \ Malformed
Raising == IF mended THEN {} ELSE Poisoned

------------------------------------------------------------------------------
(* The walk.                                                                  *)

File(i) == (i - 1) \div Size

(* The entries of the first `k` files, from the head back.                    *)
Within(k) == {i \in 1 .. shown : File(i) + k > File(shown)}

(* A walk of `k` pages asks for no more: the chain ends, ...                  *)
Ends(k) == k > File(shown)

(* ... it is far enough back, `until` being the mark it set out with, ...     *)
Reached(k, until) ==
  LET page == Parsed(Within(k) \ Within(k - 1))
  IN  k >= MinPages /\ (until = 0 \/ (page # {} /\ Min(page) <= until))

(* ... or it is at its cap.                                                   *)
Stops(k, until) == Ends(k) \/ Reached(k, until) \/ k = HardCap

(* The pages of a walk whose link to the page after `away` leaves the feed's  *)
(* directory.                                                                 *)
Pages(until, away) == Min({k \in 1 .. HardCap : Stops(k, until) \/ k = away})

(* `old`: the newest entry is old, or none.                                   *)
Observed(until, away, old) ==
  LET k == Pages(until, away)
      read == Within(k)
  IN  [read    |-> Parsed(read),
       unread  |-> read \cap Malformed,
       until   |-> until,
       upto    |-> shown,
       newest  |-> NewestOf(Parsed(read)),
       stale   |-> old,
       capped  |-> until # 0 /\ ~Ends(k) /\ ~Reached(k, until) /\ k = HardCap,
       refused |-> ~Stops(k, until)]

NoWalk == [read |-> {}, unread |-> {}, until |-> 0, upto |-> 0, newest |-> 0,
           stale |-> FALSE, capped |-> FALSE, refused |-> FALSE]

(* `staleness`: an entry of the last day of the limit may be on either side.  *)
Staleness(newest) ==
  IF newest = 0 \/ day[newest] + StaleDays < now THEN {TRUE}
  ELSE IF day[newest] + StaleDays = now THEN {TRUE, FALSE}
  ELSE {FALSE}

(* A run that is cut short: an error is recorded, a dead process is not.      *)
CutShort ==
  /\ stage' = "idle"
  /\ walk' = NoWalk
  /\ months' = <<>>
  /\ unbroken' = FALSE

Fault == faults < MaxFaults /\ faults' = faults + 1

(* `_ingest_placsp` up to the end of `fetch_live`, which hands on nothing     *)
(* before it has read all its pages.                                          *)
Walk ==
  /\ stage = "idle"
  /\ \E away \in 0 .. HardCap :
       /\ IF away = 0 THEN UNCHANGED faults ELSE Fault
       /\ \E old \in Staleness(NewestOf(Parsed(Within(Pages(mark, away))))) :
            walk' = Observed(mark, away, old)
  /\ stage' = "loading"
  /\ status' = "running"
  /\ ran' = TRUE
  /\ unbroken' = (unbroken /\ ~walk'.refused /\ ~walk'.capped)
  /\ UNCHANGED <<publisher, books, months>>

(* A page that is not answered, after its retries.                            *)
NoAnswer ==
  /\ stage = "idle"
  /\ Fault
  /\ CutShort
  /\ status' = "failed"
  /\ ran' = TRUE
  /\ UNCHANGED <<publisher, books>>

------------------------------------------------------------------------------
(* The load, in the order of the stamps.                                      *)

(* What is committed of `S` by the time entry `last` has been read.           *)
Taken(S, last) == {i \in S \ Raising : i <= last}
TooMany(S) == Cardinality(S \cap Raising) > MaxQuarantined

(* The entries a `partial` run tells of: what it could not read, or           *)
(* quarantined.                                                               *)
ToldOf(w) == w.unread \cup (w.read \cap Raising)

(* Mutated: what could not be parsed is logged only.                          *)
VerdictOfLoaded(w) ==
  IF w.stale \/ w.capped \/ w.refused \/ w.read \cap Raising # {}
  THEN "partial" ELSE "success"

Verdict(w) ==
  IF w.stale \/ w.capped \/ w.refused \/ w.unread # {} \/ w.read \cap Raising # {}
  THEN "partial" ELSE "success"

(* Mutated: what lies behind the mark is not loaded again.                    *)
CloseNew ==
  /\ stage = "loading"
  /\ ~TooMany(walk.read)
  /\ held' = held \cup {i \in walk.read \ Raising : i > walk.until}
  /\ status' = Verdict(walk)
  /\ told' = IF status' = "partial" THEN told \cup ToldOf(walk) ELSE told
  /\ stage' = "closed"
  /\ UNCHANGED <<publisher, ran, mark, walk, months, reach, unbroken, faults>>

Close ==
  /\ stage = "loading"
  /\ ~TooMany(walk.read)
  /\ held' = held \cup (walk.read \ Raising)
  /\ status' = Verdict(walk)
  /\ told' = IF status' = "partial" THEN told \cup ToldOf(walk) ELSE told
  /\ stage' = "closed"
  /\ UNCHANGED <<publisher, ran, mark, walk, months, reach, unbroken, faults>>

(* An error, or too many records in quarantine: what the checkpoints          *)
(* committed stays. A dead process leaves the run open.                       *)
LoadBreaks ==
  /\ stage = "loading"
  /\ IF TooMany(walk.read) THEN UNCHANGED faults ELSE Fault
  /\ \E last \in {0} \cup walk.read :
       /\ ~TooMany({i \in walk.read : i <= last})
       /\ held' = held \cup Taken(walk.read, last)
  /\ status' \in {"failed", "running"}
  /\ CutShort
  /\ UNCHANGED <<publisher, ran, mark, reach, told>>

------------------------------------------------------------------------------
(* The mark, and the archives of a feed that is stale.                        *)

(* Mutated: a capped walk leaves its mark as well.                            *)
LeavesMarkCapped(w) == w.newest # 0 /\ ~w.refused

LeavesMark(w) == w.newest # 0 /\ ~w.capped /\ ~w.refused

Month(d) == (d - 1) \div MonthLength
DayOfMonth(d) == ((d - 1) % MonthLength) + 1

(* Mutated: the month before is not read.                                     *)
MonthsToReadThis == <<Month(now)>>

MonthsToRead ==
  IF DayOfMonth(now) <= Early /\ Month(now) > 0
  THEN <<Month(now) - 1, Month(now)>> ELSE <<Month(now)>>

LeaveMark ==
  /\ stage = "closed"
  /\ mark' = IF LeavesMark(walk) THEN walk.newest ELSE mark
  /\ reach' = IF mark = 0 /\ mark' # 0 THEN Min(walk.read) ELSE reach
  /\ IF walk.stale
       THEN stage' = "covering" /\ months' = MonthsToRead /\ walk' = walk
       ELSE stage' = "idle" /\ months' = <<>> /\ walk' = NoWalk
  /\ UNCHANGED <<publisher, ran, held, status, told, unbroken, faults>>

(* The process dies between the close of the run and its mark.                *)
DiesUnmarked ==
  /\ stage = "closed"
  /\ Fault
  /\ CutShort
  /\ UNCHANGED <<publisher, books, ran, status>>

(* An archive is rebuilt once a day, through the day before or, when the run  *)
(* is earlier, the one before that.                                           *)
InArchive(m, lag) == {i \in Entries : Month(day[i]) = m /\ day[i] + lag <= now}

Covers(S) == NewestOf(Parsed(S)) > walk.newest

Covered ==
  /\ months' = Tail(months)
  /\ IF Len(months) = 1 THEN stage' = "idle" /\ walk' = NoWalk
     ELSE UNCHANGED <<stage, walk>>
  /\ UNCHANGED <<publisher, ran, mark, status, reach, unbroken, faults>>

(* The runs over the archives have rows of their own, and leave no mark.      *)
Cover ==
  /\ stage = "covering"
  /\ \E lag \in 1 .. 2 :
       LET S == InArchive(Head(months), lag)
       IN  /\ Covers(S)
           /\ ~TooMany(Parsed(S))
           /\ held' = held \cup (Parsed(S) \ Raising)
           /\ told' = told \cup (S \cap (Malformed \cup Raising))
  /\ Covered

(* An archive with nothing newer than the live feed is left alone.            *)
SkipArchive ==
  /\ stage = "covering"
  /\ \E lag \in 1 .. 2 : ~Covers(InArchive(Head(months), lag))
  /\ UNCHANGED <<held, told>>
  /\ Covered

CoverBreaks ==
  /\ stage = "covering"
  /\ \E lag \in 1 .. 2 :
       LET S == Parsed(InArchive(Head(months), lag))
       IN  /\ IF TooMany(S) THEN UNCHANGED faults ELSE Fault
           /\ \E last \in {0} \cup (IF Covers(S) THEN S ELSE {}) :
                /\ ~TooMany({i \in S : i <= last})
                /\ held' = held \cup Taken(S, last)
  /\ CutShort
  /\ UNCHANGED <<publisher, ran, mark, status, reach, told>>

------------------------------------------------------------------------------
(* The publisher, and the days.                                               *)

Publish ==
  /\ Len(day) < MaxEntries
  /\ day' = Append(day, now)
  /\ UNCHANGED <<shown, now, mended>>

ShowUpTo(i) ==
  /\ i \in shown + 1 .. Len(day)
  /\ shown' = i
  /\ UNCHANGED <<day, now, mended>>

Mend ==
  /\ ~mended /\ mended' = TRUE
  /\ UNCHANGED <<day, shown, now>>

Outside ==
  /\ Publish \/ (\E i \in 1 .. MaxEntries : ShowUpTo(i)) \/ Mend
  /\ UNCHANGED <<books, ran, status, stage, walk, months, unbroken, faults>>

(* The worker runs the walk every day (Worker!SlotsAreMet).                   *)
NextDay ==
  /\ stage = "idle" /\ ran /\ now < MaxDay
  /\ now' = now + 1
  /\ ran' = FALSE
  /\ UNCHANGED <<day, shown, mended, books, status, stage, walk, months, unbroken,
                 faults>>

(* The first run finds the feed with one entry of its day.                    *)
Init ==
  /\ day = <<1>> /\ shown = 1 /\ now = 1 /\ ran = FALSE /\ mended = FALSE
  /\ held = {} /\ mark = 0 /\ reach = 0 /\ told = {}
  /\ status = "none" /\ stage = "idle" /\ walk = NoWalk /\ months = <<>>
  /\ unbroken = TRUE /\ faults = 0

Next ==
  \/ Walk \/ NoAnswer \/ Close \/ LoadBreaks \/ LeaveMark \/ DiesUnmarked
  \/ Cover \/ SkipArchive \/ CoverBreaks
  \/ Outside \/ NextDay

Spec == Init /\ [][Next]_vars

------------------------------------------------------------------------------
(* The types of the variables: of the feed, of the run and of what it leaves  *)
(* behind.                                                                    *)
TypeOK ==
  /\ day \in Seq(1 .. MaxDay) /\ Len(day) <= MaxEntries
  /\ shown \in Entries /\ now \in 1 .. MaxDay
  /\ {ran, mended, unbroken} \subseteq BOOLEAN
  /\ held \subseteq Parsed(Entries) /\ told \subseteq Entries
  /\ mark \in 0 .. shown /\ reach \in 0 .. mark
  /\ status \in {"none", "running", "success", "partial", "failed"}
  /\ stage \in {"idle", "loading", "closed", "covering"}
  /\ walk.read \subseteq Parsed(1 .. shown) /\ walk.newest = NewestOf(walk.read)
  /\ (stage = "covering") <=> (months # <<>>)
  /\ faults \in 0 .. MaxFaults

(* The mark that stands is one every older entry lies behind: whatever froze, *)
(* burst, broke off or was refused, each entry up to the mark, from where the *)
(* first walk began, has been taken up, or is one a run could not read and    *)
(* told of. (0032; the update of `newest_entry_at` in `_ingest_placsp`.)      *)
MarkStands == \A i \in reach .. mark : i # 0 => i \in held \cup told

(* A run that says `success` has it all: every entry after the mark it set    *)
(* out from that is older than the limit for a stale feed is taken up, in the *)
(* feed or not. (`verdict` of `run_placsp_live`.)                             *)
SuccessIsComplete ==
  [][ stage = "loading" /\ status' = "success" =>
        \A i \in Entries :
          /\ i > walk.until
          /\ walk.until # 0 \/ i >= Min(walk.read)
          /\ day[i] + StaleDays < now
          => i \in held' ]_vars

(* As long as no run was cut short and no walk refused or capped, an entry is *)
(* taken up or told of when the night's run is over that comes after the      *)
(* limit for a stale feed, though the feed froze before the entry and a month *)
(* ended since. (The archives of `run_placsp_live`, and `now.day <= 3`.)      *)
PromptlyHeld ==
  unbroken /\ ran /\ stage = "idle" =>
    \A i \in Parsed(Entries) :
      i >= reach /\ day[i] + StaleDays < now => i \in held \cup told

(* An entry that was quarantined is tried again by every walk that finds it   *)
(* in its first pages, behind the mark or not: once the code is mended such a *)
(* walk takes it up. (The overlap of the walks, the docstring of Quarantine.) *)
OverlapIsRetried ==
  [][ stage = "loading" /\ stage' = "closed" /\ mended /\ ~walk.refused =>
        \A i \in told \cap Poisoned :
          i <= walk.upto /\ File(i) + MinPages > File(walk.upto)
          => i \in held' \cup Malformed ]_vars
==============================================================================
