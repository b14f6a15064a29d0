# DefenceGate: a verification of its core

DefenceGate keeps an append-only archive of every state it ever observed of every
defence notice, of the raw payloads those states were read from, and a register of the
organisations they name; around them are a worker that collects, and accounts that pay
and work in teams. This directory holds TLA+ models of the code that does these things,
the TLC runs that check them on small instances and the theorems TLAPS proves of them
for instances of any size.

Paths below are relative to `backend/dgate/` unless they say otherwise.

## 1. The system

One worker process (`worker.py`) runs about thirty scheduled jobs. Most pull one
source (`sources/*.py`) through a run of `pipeline.py`, which lands the raw payload in
an object store (`rawstore.py`), records its key in the table `raw_ingest`, maps the
record (`normalise.py`, `classify.py`), and archives it (`db.upsert_opportunity`).
History loads run in threads of the same process, next to the daily jobs, and the same
loads, replays and repairs are run by hand from other processes (`ops/*.py`). A read-only
API (`api.py`, `tenders.py`, ...) and an accounts API (`accounts.py`, `billing.py`,
`workspace.py`) serve a web site. All of them meet in one Postgres database, where
sessions are READ COMMITTED, and in one object store, which knows no transaction.

| component | state it keeps | operations | what is hard about it | what makes it correct |
|---|---|---|---|---|
| notice archive (`db.py` 1066-1400) | `opportunity_version`, `opportunity` | create, compare, append a version, move attributes | concurrent runs of one notice, row locks, savepoints, feeds in any order | append-only, gap-free, one open version, the newest state is served, no flip-flops |
| raw store (`rawstore.py`) | objects and bundles | put, put_records, get, delete | not transactional; a write may be done and reported failed | a key is never written with something else |
| landing (`pipeline.py` `_store_raw`, `_checkpoint`, `_pulled`; the two writers) | buffers, a write pool, `raw_ingest` | land, index, drain, commit, quarantine | the database and the store fail independently | no row without its payload; success means complete |
| compaction (`ops/compact_raw.py`) | `compaction_pending` | bundle, verify, repoint, delete | killed at any point, runs next to a load | nothing lost, nothing orphaned |
| history loads (`run_history`) | `backfill_day`, `backfill_stop` | load a day in chunks, mark, hold | fixed bundle names, resumption, two loads | marked means loaded |
| archive replay (`run_placsp_replay`) | `backfill_day` marks and progress | read a unit, resume, retry, mark | files that grow, a calendar, partial units | skipped means archived |
| live walk (`run_placsp_live`) | `ingest_run.newest_entry_at` | walk to the last mark | caps, staleness, late pages | nothing between two walks is missed |
| run records (`start_run`, `finish_run`, `close_interrupted_runs`) | `ingest_run` | open, progress, close, reap | a reaped run that is alive | one outcome per run, none open for ever |
| worker (`worker.py`) | `job_run`, `_RUNNING` | run a job, catch up, resume loads | slot against catch-up, restarts | no slot lost, no job twice at once |
| organisations (`db.py` 519-990, `ops/undo_merges.py`, `ops/org_*.py`, `resolution/`) | the forest `merged_into`, aliases | resolve, merge, repoint, undo | merges of merges, concurrent resolves | no chains, live heads, undo restores |
| calls and programmes (`db.py` 1560-1750) | `call`, its dates | upsert, count unlisted | optional fields of later pages | nothing erased |
| billing (`billing.py`) | `billing_subscription`, `billing_event` | webhook events, checkouts | duplicates, reordering, two subscriptions | last state wins, one plan an account |
| accounts, sessions, API keys (`accounts.py`, `apikeys.py`) | users, tokens, sessions | register, verify, sign in, reset | tokens spent once, throttles | revoked means revoked |
| workspaces (`workspace.py`) | members, invitations, rows | invite, join, leave, dissolve | seats under concurrent joins | seats bounded, rows follow members |
| backups (`ops/backup.py`) | dumps, manifests, shipped copies | create, ship, prune, verify | failure between dump and manifest | never the last one pruned |
| enrichment queue (`enrichment/`) | `enrichment_job` | queue, batch, collect, retry | a notice that changes meanwhile, lost batches | every job ends, nothing stale applied |
| caches and connection bounds (`listcache.py`, `stats.py`, `db.bounded_connect`) | semaphores, stored answers | ask, renew, wait | stale answers, timeouts | no leak, bounded staleness |
| normalisation, classification | none | pure mappings | boundaries | a reference definition |
| read API, analytics, digests, web, infrastructure | derived tables or none | queries, mails | | out of scope |

`PROJECT.json` lists every component with its status, and every hazard with its line.

## 2. The plan

Order: what loses data for good comes first, since it cannot be collected again; then what
decides when data is collected; then what people pay for.

Done:

1. `Archive` (with `Ledger`, the abstract specification it implements), with `ArchiveProofs`;
2. `RawStore` and `Landing`;
3. `Compaction`;
4. `RawArchive`: landing and compaction composed;
5. `History`; the proofs about 2 to 5 are in `RawArchiveProofs`, as all four share store and index;
6. `Replay`, with `ReplayProofs`;
7. `Organisations`, with `OrganisationsProofs`;
8. `Worker` (the scheduler, the catch-up, run records), with `WorkerProofs`;
9. `LiveWalk`, with `LiveWalkProofs`;
10. `Billing`, with `BillingProofs`;
11. `Workspace`, with `WorkspaceProofs`.

To do:

12. calls: `upsert_call` against concurrent runs, `count_unlisted`;
13. accounts, sessions and API keys: tokens, the second factor, throttles;
14. backups (create, ship, prune, freshness); connection bounds and cached answers; pure
    functions (`same_value`, `login_wait`) against reference definitions;
15. of the organisations: an abstract specification (a partition of spellings and numbers
    into bodies), candidate pairs from their proposal on, mixed countries.

Proofs to do: `UndoRestores` of `Organisations`, which needs what a batch left of the tables it began with, through partial
undos and later batches; that no number or PIC is on two rows (in its `TypeOK`); the history loads on one store with landing and compaction.

## 3. The modules

### Archive

`Archive.tla` is `upsert_opportunity` and `append_version`, one SQL statement a step, in
any number of sessions. `versions` and `rows` are the committed tables; `txVersions` and
`txRows` what each session wrote since its last commit, at once the row locks it holds;
`spVersions`, `spRows` the savepoint of the record in work (`Quarantine.guard`). A
statement reads what is committed at that moment and the session's own writes. `LookUp`
is the SELECT by native number and `_disambiguated_id`, `Carry` the rule for the date of
publication, `ReadLatest` and `Compare` the reads and comparisons, `WriteAttributes` the
attribute-only UPDATE, `Create` the two INSERTs of a new notice, `CloseOpen`,
`InsertVersion` and `Serve` the three statements of `append_version`. A statement
on a locked row waits; `Deadlock` is Postgres ending one session of a circle;
`RecordError` is the UNIQUE constraint refusing a version number or a native number.

Abstractions. A payload is a record of what the rules tell apart: a fact of the publisher,
a reading of the mapper, deadline, date of publication, update instant, notice date, link,
buyer, and its hash. Status is one of the facts; `StatusMoves` are the facts it alone tells apart while the source's own code for
it stays. Update instants are numbers, where one comparison of the code (`Newer`) is of their texts: the order is the same while the offset
from UTC is. A record that cannot be read is passed over (a ValueError) or raises. Instants of the database's clock are counted
per notice, each later than the one before. A run reads its records in any order, which
covers newest first (the feed) and oldest first (replays).

`Ledger.tla` is what the archive promises: histories that grow at the end, one content at
a time, no content twice and none older than the last. The committed versions of `Archive` are shown
to implement it.

### RawStore, Landing

`RawStore.tla` holds the objects, the index, names and keys: `storage_key`, `bundle_key`,
`record_key`, `compact_bundle_key`. A payload is identified with its hash. The day in a name
is one day: the day is part of what makes names differ, so this is the hard case.

`Landing.tla` is a run: `StartRun`; records that are skipped (`SkipRecord`), landed (`Land`)
or raise (`Quarantine`); `DrainBundle` and `DrainPool`, then `Commit` (`_checkpoint`) or
`FinishRun`; `Fail` (roll back, then `finish_run` commits the failure alone), of a record, a write, or
anything else a run may raise (`Interrupted`); `Crash`; and writes
of a pool whose run is over (`StrayWrite`). A write may be done, refused, or done and reported
as failed. What a job finds indexed, when a load resumes (`AlreadyIngested`) and when a walk skips what is held (`Lands`), is
what is indexed for its own source (`HashesOf`); two sources may deliver the same content and each indexes it for itself.
A checkpoint may come after any record, which covers `every=` and the time limit of
`_pulled`. A killed run's row stays `running` until it is reaped; here it counts as failed at once.
A record that `raw_held` finds is not landed again; one whose upsert raises keeps its line in
the buffer and loses its row, as the savepoint has it. A load has no quarantine: a record that raises ends it each time,
so `EventuallyLanded` is of the jobs that their own records do not fail (`Passes`).

### Compaction, RawArchive

`Compaction.tla` follows `compact_chunk` step by step, including what a run first does with the
journal of an earlier one (`drain_pending`), keys that name two contents (`ambiguous_keys`),
`--keep-originals` and `--chunk`, and a kill between any two steps with a deletion of many
objects done in part. The keys of a chunk are in any order in which none has its first row after another's (`Orders`), which
is what its SELECT gives. `RawArchive.tla` puts `Landing` and `Compaction` on one store and index.

### History

`History.tla` is `run_history`: chunks of a day fetched, bundled under the name of day and chunk,
committed, the day marked in a transaction of its own; resumption and `--no-resume`; the daily
allowance of days; the hold after a refusal for rate. Two loads of one source may run at once
(the worker's thread and a command). Two rows of one payload under one key are one row here. The
source answers the same whenever it is asked (section 6 says what happens when it does not).

### Replay

`Replay.tla` is `run_placsp_replay` for one dataset and one year, as the year goes by: the month's
file grows, months end, the annual file takes their place. Units are skipped when marked, read from
their committed progress, retried when the connection is lost, failed, stopped or killed. Rows are
the set of archived entries; what archiving an entry does is `Archive`'s business. `Year` is what the parser can read of
the year, in the order of the stamps, and `Ends` says how much of it the months hold, since it is the same entries that the annual
file has; entries that cannot be read are not delivered and not counted (section 6). The file of a month that is
over is taken to be complete.

### Organisations

`Organisations.tla` is how a notice's buyer is found, how rows are merged and how a batch of merges
is undone. `org` is the table `organisation` (a name, `merged_into`, the number and how it was
found, a PIC, the defence flag and its source, the batch and the instant of its merge), `alias` is
`organisation_alias`, `notice` the buyer of the serving row and `archived` the buyer in the payload
of its latest version, `counted` the awards without an `excluded_reason`, `candidate` the pairs that
were decided, `repointed` and `carried` the lines merges write to `organisation_repair`, and `asOf`
what versions said when each merge was done (`observed_at <` the start of the batch).

`Resolve` reads and decides as `_resolve_organisation` does (number, then alias, then namesake),
`Serve` is the commit of what was decided, with the alias and the inherited flag, and `Quarantine` the
unique index refusing a number that another row has got since; a buyer that has itself got a number since is left as it is
(`Stores`). Merges may come in between. `Merge` is
`merge_organisations` with `repoint_merged` and `carry_to_head`; `BeginBatch` and `EndBatch` bound a
tool's run. `Undo` is `undo_merges.run`: the plan (`Stays`, `BackTo`, `AliasBack`, `NoticeBack`, `Donors`,
`Unflagged`, `MovedBy`) and what it writes, for a whole batch or any of its rows.

Abstractions. All rows are of one country. Merges and undos are tools run by hand, one at a time, and
each is one transaction and so one step. `pic` stands for PIC and VAT number. Only the decided candidate pairs
are kept, since only they are read by an undo. A batch that merges nothing leaves no trace and is left out.
Auxiliary variables remember where a number was first stored, where an alias was filed, what the tables
were when a batch began, and whether one of the two exceptions of section 6 has happened (`astray`).

### Worker

`Worker.tla` is the process of `worker.py` over its starts. The scheduler's slots (`Fire`) and the
catch-up's thread (`CatchUp`: first the daily jobs by their source's last success, then the rare
ones by the last start in `job_run`) both start jobs through `run_job`, whose steps are `Enter` (`_RUNNING`),
`Begin` (`start_run`), `Finish` (`finish_run`) and `Close` (`record_finish`), in a thread each (`RunJob`).
`Boot` is `main` up to the scheduler's start, with a database (then `Interrupted` closes what dead
workers left open) or without (`blind`). `Crash` is the death of the process at any point. An operator's
command opens and ends a run of its own next to all this. Times are ticks; of the tables the module keeps what is read again.

### LiveWalk

`LiveWalk.tla` is `run_placsp_live` for one dataset, a night a day. The publisher's entries are
numbered in the order of their stamps; the live feed is a chain of files of `Size` entries which may
freeze and then burst. A run reads back from the head to the mark of the last complete walk and at
least `MinPages` pages, at most `HardCap`, loads what it read, closes with a status and then leaves its mark; if the
newest entry is old, it reads the archives of the month, and of the month before in its first days. Runs break
off or are killed anywhere, links are refused, entries cannot be parsed or raise until the code is mended.
A run that closed without a mark and one that failed are told apart, as `newest_entry_at` is set in a transaction of its own.

### Billing

`Billing.tla` is `create_checkout` and the webhook next to Creem, the payment provider. Creem's subscriptions
change (`Change`, `Refund`, `Dispute`, `PeriodEnds`) and say so in events that are delivered in any order, again
after an answer that was lost, and several at once (`Deliver`). A handler that finds the account's row locks
it, and is one step; one that finds none to lock is two or three (`tx`): it reads, waits for the checkout's lock
(`BeforeCheckout`) and writes (`Commit`). The row notes whether its last event kept the status (`kept`, a refund that
does not end the plan) and whether its checkout still held a founding place (`late`).

Two events of one account at once are modelled in full, and the account is noted in `overlapped`: the row is then
looked up without a lock, and the properties are of the other accounts (section 6).

### Workspace

`Workspace.tla` is a request as it is: `accounts.current` reads plan, workspace and role in one statement
(`request`), and the handler acts on that in later ones, while other requests of the same and other
accounts go on. `invite` and `join` lock the workspace's row between counting and inserting; who writes a
row that refers to it waits for that lock. The time of an invitation is judged by `now()`, which is when the request's
transaction began: a request keeps the tokens that had expired by then (`over`), so that one may take an invitation as open that a later one
counts no more. `dissolve`, `leave`, `remove`, `cancel` and the writing of a row are single
statements or transactions on what was read before, `stale` notes the accounts for which a row was written on
a reading that no longer held, `spent` the tokens that let somebody in, and `late` the members who joined after their token's time (`expired`).

## 4. The runs

| run | states | what it checks |
|---|---|---|
| `archive_races` | 137 000 | `IntervalsMeet`, `ServingIsLatest`, `DiffsAreTrue`, `OneBuyer`, `ImplementsLedger`, `RunsEnd`: two sessions, overlapping feeds of one folder number, one entry of another body, one unreadable, one crash |
| `archive_long` | 118 000 | `DatesKept`, `LinkKept`, `EventuallyServesNewest`: one session, six records in any order, run after run |
| `history_loads` | 7 000 | `MarkedIsLoaded`, `EventuallyLoaded`: two loads, a refusal, two failures |
| `landing_runs` | 109 000 | `RowsResolve`, `SuccessIndexesAll`, `WrittenOnce`, `EventuallyLanded`: a bundling walk and a pooled load of two sources with one record in common, one record that raises, two runs each, one fault |
| `compaction_one` | 2 700 | `OrphansAreJournaled`, `ReadsTheSame`, `EventuallyCompacted`: every chunk size and mode, two kills |
| `raw_archive` | 1 049 000 | `RowsResolve`: a load, which a record may fail, and a compactor at once on one store |
| `organisations` | 1 158 000 | `NoChains`, `IdentifiersKept`, `UndoRestores`: two runs next to two batches of merges and their undos, whole or in part |
| `replay_months` | 48 000 | `ProgressIsCommitted`, `DoneIsReplayed`, `EventuallyMarked`: replays during a year, three failures of any kind or runs from scratch; a month that its quarantined entries stop for good, and two that they do not |
| `worker` | 109 000 | `OneAtATime`, `RunsEndRightly`, `SlotsAreMet`: a daily and a weekly job, two starts, kills anywhere, a database that is away, an operator's run |
| `billing` | 2 230 000 | `RowFollowsCreem`, `PaidIsHeldOrTold`, `FoundingCap`, `FirstStays`, `NeverBackwards`: two tabs of one account, another account, one founding place, two webhook calls at once |
| `livewalk` | 2 740 000 | `MarkStands`, `PromptlyHeld`, `SuccessIsComplete`, `OverlapIsRetried`: five entries, seven days, a month's end, a frozen feed, one fault |
| `workspace` | 2 047 000 | `SeatsAreKept`, `RowsFollow`, `TokensWorkOnce`: three accounts, two seats, two requests at once, a change of plan or an invitation that expires under them |

All runs pass. Each property has a mutant: a plausible bug (the definition next to the one it
replaces, marked "Mutated") under which TLC finds the property violated.

Bounds. Two sessions are enough for every pairwise race on a row, and a circle of two is the
shortest deadlock; the feeds are chosen so that each rule decides between two records (older by
instant, older by day, same content, same instant with other facts, attributes only, another buyer, another mapping, no mapping). One
fault suffices to separate any two adjacent steps; where recovery from a failure can itself fail
(compaction, history) there are two, and three where a unit may also be poisoned (replay). Landing has two runs a job, the second after any end of
the first, and the proof has no bound. Chunks of one to three rows put a shared key inside one chunk, across
two, and at its end. Three months hold one that is whole, one that ends while it is read, and one
that is current. For the organisations: three rows (one with a number, one without, one with a PIC) and one a run creates;
two merges are what a chain takes, in one batch or in two, taken apart whole or in part and in either order,
and two runs race for one new row and for one number. For the worker: a crash inside the first start, the catch-up
of the second, and a slot that falls between, before and after either. For the live walk: files of two entries and caps of two
make a walk that is whole, capped, and overlapping; four days a month put its end inside the stale limit. For billing: a
subscription that changes three times next to a second one and another account's, so that events of one can be older than,
newer than, or of other subscriptions than the row. For the workspaces: an owner, a member and an outsider, two seats so that the last one is raced for.
`workspace` was also run with one workspace and two invitations to an address, and with two changes of plan. The theorems
of section 5 have no bound.

Type invariants (`TypeOK`, `CompactionTypeOK`) are stated in every module. Those of `Archive`, `Billing`, `Compaction`, `History`, `Replay` and `Workspace` are theorems;
the shapes of `Landing`, `Organisations`, `Worker` and `LiveWalk` are parts of their inductive invariants; all but that of `Archive`
were evaluated by TLC with the configurations above, and are left out of the runs.

Deadlock is checked except in `landing_runs`, `raw_archive`, `organisations`, `worker`, `billing` and `livewalk`, where what is
counted (runs, merges, starts, changes of a subscription, days) is used up in the end and the system is done.

Fairness, and why the code justifies it:

- `Archive`: a run goes on with its next statement and the scheduler starts it again (WF); a statement that
  waits for a row is SF, because Postgres grants a row lock in the order it was asked for. Checkpoints in
  the middle of a run and crashes are never forced.
- `Landing`, `RawArchive`: runs go on (WF), a pool works off its queue (WF), and a run that is idle with
  records left takes one in the end (SF): the code checkpoints once in so many records and cannot drain for ever.
- `Compaction`: the tool is run again after it stopped. `History`, `Replay`: the command is run again
  (the worker's threads and catch-up do, its operator does), a run goes on, and a hold passes with time.
- `Worker`: threads go on, the scheduler fires what is due, the catch-up comes to its end, time passes and a worker that died is started again
  (its container restarts). That a start finds its database is not assumed.
- `LiveWalk`, `Billing`, `Workspace`, `Organisations`: none. Their properties are of safety: nothing in the code promises
  that a feed recovers, that Creem delivers, that a person acts or that a tool is run.

## 5. What is proved

`RawArchiveProofs.tla` proves, about landing, for any set of jobs, loads, payloads, rows, faults and number of runs:

- `RowsAlwaysResolve`: no committed row of `raw_ingest` is ever without its payload;
- `PayloadsWrittenOnce`: what a committed row points at is never written again with anything else;
- `SuccessIsComplete`: a run that ended in success has every readable record of its source indexed for that source.

They assume `LandingAssumption` (types of the constants; ids of rows that are unique and say the source; loads of different sources
have no object in common, as `storage_key` has the source in the name) and `FixedTag = {}`,
that no job names its own bundles: section 6 says what happens otherwise, so the assumption is needed.

`RowsResolve` is not inductive: a row is committed long after its key was given out, so one must know that
each uncommitted row's payload is on its way to that key. The inductive invariant `IInv` adds: objects named by a
hash hold that payload (`ObjectsTrue`), and for each job (`JobOK`): an uncommitted row is in the buffer of the bundle to be
written at its line, or in the store already, or its write is in the pool (`OnTheWay`); a job that is off
has no such rows (`Idle`), after a drain all of them are in the store (`Settled`), and no bundle of a future part or run exists
yet (`Fresh`, `Numbered`). One lemma per action shows that it keeps
`IInv`; `Bystander` and `StoreSame` carry the other jobs' parts over it. `SuccessIsComplete` uses a second invariant, `Accounted`: a run's
records are still to come, or indexed in the run's view, or quarantined.

About compaction, for any rows, objects, chunk sizes, modes and kills:

- `CompactionReadsTheSame`: every row keeps reading what it read, through every step;
- `NoUnknownOrphan`: an original no row points at is in the journal, so that the next run removes it;
- `CompactionTypes`.

They assume `OneCompactor`: with two there is the clash of names of section 6. `NoUnknownOrphan` also assumes that every plain object
has its row when compaction begins; that is what a finished load leaves behind. The invariant `CInv` follows a chunk through its steps (`ChunkOK`): what was
read, what the bundle holds, that the rows about to be moved still point at the originals, and that no row does before these are
deleted. The name of the bundle is free because the row that names it is still on its own key (`FirstIsPlain`), while the one that names
a bundle in use is in a bundle itself (`Moved`). `OInv` adds the originals whose rows were moved (`Gone`), in the journal before the rows are.

About both at once (`SharedRowsResolve`, `SharedReadsTheSame`): the same two properties hold of a compactor that works next to the runs. `Setting`
names what this rests on: one compactor, no names of the day, no load that lands again what is indexed (section 6 says what happens
with each), and no two loads of one payload: the only load with single objects is the Atlas one. `AInv` joins `IInv` and `CInv` by what neither knows
of the other (`Shared`): ids of committed and uncommitted rows never meet, and nothing a load has still to land or to commit is in a
compactor's hands (`Ahead`), since the object it would delete is that of a committed row that a load of the same source has indexed with the same content (`Touched`, `Loaded`).

About the history loads, for any days, chunk sizes, loads at once, allowances, refusals and failures: `MarkedDaysAreLoaded`
(`MarkedIsLoaded`), `LoadedRowsResolve` (no committed row without its payload, though loads write over each other's bundles) and `HistoryTypes`. `HInv`: a bundle of a day
holds the chunk its name says, whoever wrote it (`BundlesTrue`); a load has in hand the chunk it is at, and the chunks before it are
stored and indexed (`LoadOK`, `ChunkIn`); a marked day is in, chunk by chunk, up to one that is not full (`DayIn`). That these add up to
the day is `InSomeChunk`, by the least chunk that reaches as far as the notice.

`ReplayProofs.tla` proves, for any year, months, entries, checkpoints, attempts and faults, with runs resumed or from scratch: `SkippedIsCommitted`
(`ProgressIsCommitted`), `MarkedIsReplayed` (`DoneIsReplayed`) and `ReplayTypes`. The invariant `RInv`: the file in hand is a stretch of the year that begins where the
unit does, and all of it if the unit is over (`InHand`); what was read of it is archived, about to be, or quarantined (`Reading`), so that a checkpoint may
count it; a run without a failed unit has replayed what is no longer in its list (`Covered`); and unless January was marked, or was still in a run's list, when the year ended,
what marks it afterwards is the whole year (`Hiding`). `UnitIs` says which unit is in hand: months of the range the run was asked for, or the annual file alone.

`ArchiveProofs.tla` proves `TypeCorrect`, the type invariant of `Archive` for any sessions and records: every table,
pending table and local variable keeps its shape through all the statements, in particular that a statement never
reads a version that is not there.

It also proves, for any sessions, records, feeds, faults and any order of the SQL statements:

- `VersionsMeet`: the committed versions of a notice are numbered without a gap and meet in time, the last one open;
- `LatestIsServed`: a row serves its latest version;
- `ChangesAreTrue`: what a version says changed is what differs from the one before it;
- `NoFlipFlop`, `OrderedByStamp`: no content is archived twice, and none after a newer state;
- `BuyerIsOne`: a notice keeps the body that filed it;
- `OnlyAppends`: a step never changes a committed version, except to close the one that was open;
- `ArchiveImplementsLedger`: the committed versions are a behaviour of `Ledger`.

None of these is inductive: a commit publishes what was written many statements earlier, when other versions may
have been committed. `IInv` adds to the type invariant: what is committed of each notice is sound (`Committed`);
no notice has uncommitted writes of two sessions, which is what its row lock is for (`Exclusive`);
what a session has pending, and what its savepoint would restore, is sound too except for the one version its
`append_version` is in the middle of, and has grown from what is committed now (`Pending`);
and what the session read before it holds the lock is either still so or leads to a number that is taken (`Working`): the
version it compared with is still there under its number (`Reading`), the next number is refused if another
session has used it (`NumberTaken`), and the closed and the appended version fit (`Closing`, `Appended`). So a stale comparison
ends in `RecordError` and never in a history: that is the argument for leaving the reads of
`upsert_opportunity` without `FOR UPDATE`. Each statement keeps a session's own part (`ClosedSound`, `AppendSound`, `StepKeeps`),
a commit keeps everybody else's (`PublishIInv`), and `StepGrows` gives `OnlyAppends` and the refinement.

`LinksKept` (`LinkKept`) holds for any sessions too: what a session has written of a row follows what is committed of it (`RowsFollow`), and the
version it is about to serve is a new one for the row (`Behind`; `LInv`). `DatesAreKept` (`DatesKept`) holds where no number is in the windows of two sessions
(`Apart`), as when each source has numbers of its own and one run at a time. Section 6 says what goes wrong otherwise, so the hypothesis is
needed. `DInv`: a session writes the notices its source delivers only, with true dates (`Dating`), so nobody else's version comes between what it read and what
it writes (`Comparing`).

`OrganisationsProofs.tla` proves `PointersAreShort`: for any rows, names, numbers, runs, batches and undos of any part of
them, `merged_into` always points at a live row that exists, so that one hop finds the body. A merge keeps this because both rows are live
and the absorbed one's followers move on with it. An undo keeps it because a pointer goes back only to a row that is taken apart
in the same step, and because a batch whose head was merged since is refused (`Proved`). `IInv` adds what this rests on: unused rows are unmerged
(`Shapes`), what runs have decided has the shape they wrote (`Decided`), and any part of the log has a latest line (`Logged`), without which
the line an undo goes by would be no line of the log.

It also proves `IdentifiersStay` (`IdentifiersKept`): a spelling leads to the body it was filed under and a number to the body it
was first stored on, through any merges, chains of them and undos of whole batches or single rows, with runs that decided before and commit after, as
long as nothing went `astray` (section 6 says what is excluded, and that it happens). Nothing stored says which row a row was merged into once that one was merged too, since
pointers are moved on: the proof takes it from the log (`Up`), and shows that the merges are a forest whose roots are
what `merged_into` says (`Forest`). A line of `organisation_repair` that moved a row on at the present merge of another (`Rides`) is there exactly for the rows below that
one; by `Lines` an undo that follows the latest line of a row it should not follow would follow one of an older merge for some row, and be `Misled`: so where none is,
each row goes back to the member above it (`LatestRides`). A pair whose head was moved on has no candidate (`Paired`), so that the rows an undo takes apart are right
under a live one (`UndoMembers`). Of numbers, the stamps say who gave (`Stamps`: one giver a head, whose stamp says so), and givers lead from the row a number was
first stored on to the one it is on (`Chains`); an undo cuts that chain at its end or leaves it alone. An alias is where it was filed, or where that row
stands (`Aliased`). `KInv` joins these, and was checked by TLC first, also with overrides of conflicting numbers and with five merges of four rows.

`WorkerProofs.tla` proves, for any jobs, sources, slots, starts and operator's runs: `NeverTwice` (`OneAtATime`), a process never does a job twice
at once; `OwnersEndTheirRuns` (`LiveRunsStayOpen`, the safety half of `RunsEndRightly`), the run of a living process stays open until that process ends it, unless it is older
than a day. `IInv`: a job that is being done is in `_RUNNING` and is done by one thread (`Alone`), and no thread, waiting call or catch-up outlives
its process (`NothingOutlives`); so what a start closes can only be a dead worker's, since an open row carries its owner.

`LiveWalkProofs.tla` proves all four properties of the live walk, for any sizes of files, caps, limits, entries, days and faults: `MarkCovers` (`MarkStands`),
`SuccessHolds` (`SuccessIsComplete`), `OverlapRetries` (`OverlapIsRetried`), `HeldInTime` (`PromptlyHeld`). A walk reads a run of the newest entries without
a gap; the mark is left only when that run reaches back to the mark before, so that what is held or told of grows without holes; and
what comes due under a feed that froze is of a month whose archive is read that night. The last needs
the assumption `0 < StaleDays < Early <= MonthLength`: the 36 hours of `placsp_stale_hours`, by which an entry of two days ago is stale or
not, against the first three days of the month (`now.day <= 3`). It is exact: with a longer limit or one day less there is a gap at a month's end.

`BillingProofs.tla` proves all five properties of the webhook, for any accounts, checkouts, plans, places and changes:
`SubscriptionStays` (`FirstStays`), `OlderChangesNothing` (`NeverBackwards`), `RowIsRight` (`RowFollowsCreem`), `NothingUnseen` (`PaidIsHeldOrTold`),
`PlacesAreKept` (`FoundingCap`), and `TypeCorrect`. The argument: events, transactions and rows say what is true of Creem's subscriptions at the
stamp they carry (`Sound`), a transaction alone on its account finds the row as it read it (`Alone`), and so an event that is answered was
applied, or skipped because the row is newer, or another's (`Handles`). Then, of an account with one subscription,
the payment is still to be answered or has made the row, and what Creem said last is still to be answered or is in the row (`Followed`);
of a subscription that is charged, it has the row, or the operator knows, or its checkout is still to be answered (`Paid`); and nobody gets a
founding place who did not hold it as a customer or by an open checkout (`Capped`, `PlaceWasHeld`), while a checkout counts both.

`WorkspaceProofs.tla` proves all three properties of the workspaces, for any accounts, requests, seats and bounds, and two more: `SeatsSuffice` (`SeatsAreKept`), `RowsAreShared` (`RowsFollow`),
`TokensWork` (`TokensWorkOnce`), `OwnersStayIn` (`OwnersAreIn`: a workspace has its owner among its members, and one that is gone has neither member,
open invitation nor row) and `TypeCorrect`. `Locks` says what a handler knows between its count and its insert: it is the only transaction of its
workspace, and the place or the invitation it found is still there (`Found`, `StillFound`), an invitation perhaps only for those who began as early;
`SeatsSuffice` says that the members fit the seats, always, and that those who joined in time fit them together with the invitations that are still good; tokens that were spent are never those of an open invitation (`SpentIsShut`).

Only model-checked: `UndoRestores` of the organisations, which compares an undo with the tables its batch began with, any number of
partial undos and later batches ago (TLC checked it with three merges, too); `InterruptedIsClosed` in `RunsEndRightly`; all liveness (`RunsEnd`, the `Eventually...` properties, `SlotsAreMet`).
Liveness under fairness and ENABLED are out of TLAPS's reach, as is induction over data. Where a property needs a sum over data
(the chunks of a day, the entries of a year), the modules say where each part begins, and a least element takes the place of the induction.

## 6. What the code does not do as it says

Seen while modelling. The properties are stated so that they hold of the code as it is: what they leave out is below.

Archive and raw store:

- the topic pages' bundles have a name of the day (`run_topic_details` opens its `BundleWriter` with the tag "topics"), so a second run of a
  day overwrites the first one's, although `rawstore.py` says "Each run gets its own name";
- a load that lands again what is indexed (`refresh_known`, `--no-resume`) may commit a row whose object a compactor is deleting: `_still_referenced` sees committed rows only,
  although "a committed `raw_ingest` row always has its object in the store";
- two compactors that start at one row with chunks of different sizes write one bundle name;
- the notice date of a row follows an entry that is not the newest, when two sessions handle a notice at once
  (`upsert_opportunity`, `newer`): the UPDATE that changes no version compares with what was read before;
- a date of publication that another session's version brought in between is not carried to the next version
  (`upsert_opportunity` reads it before it writes): `DatesKept` is checked for one session, and proved where no two
  sessions have records of one number (`Apart`).

Loads and replays:

- a unit is marked under the first day of its month, and the annual file under January's: a replayed January hides the annual file of its
  year, although "the annual file covers every month"; `worker.py` avoids the same clash for awards;
- a history day that is loaded twice rewrites its bundles, and the source need not answer the same (TenderNed's `detailError`):
  committed rows of the first load then name the wrong lines;
- a load that finishes lifts a hold another load was given meanwhile (`note_backfill_finished`);
- `Quarantine` says it is "only for the daily runs", and a replayed unit goes through it and is marked done with the records it
  left out; entries that `fetch_archive` could not read are not reported to the replay either, although it says that such
  a unit must not be marked. No later replay reads them. The allowance of quarantined entries is per attempt: a unit that is resumed passes with more of them in all, one that starts over each time never does,
  and one with more of them between two checkpoints stops there however often it is resumed (`EventuallyMarked` is of the others).

Live walk:

- once a walk is capped, the mark does not move again, as every later walk has further to go, although the code says "the gap stays the next run's to close";
- the mark passes quarantined entries; they are tried again only while they are in the first `placsp_pages` pages;
- the entries of an archive that cannot be parsed make the run of that archive partial (`run_placsp_live`, `stale_reason`); they are
  tried again only while the feed stays frozen and its archive is read again;
- before the first mark there is neither a cap's verdict nor a reach back.

Organisations:

- `undo_merges.plan` reads the pointers that merges moved on without asking when (the query for `moves` beside it
  asks), so it may follow a merge that was undone before, and give a notice to the wrong member;
- a run that read its buyer before a merge may store the number on the row that was absorbed meanwhile, whose head
  then takes another: `IdentifiersKept` and `UndoRestores` are stated for histories without these two (`astray`);
- undoing a batch clears the defence flag of a head without a source that has a flagged member, although an earlier batch, which
  stays, may have given it;
- `same_winner_twice` looks at the awards of the absorbed row only, not at those of the rows merged into it earlier;
- a notice first served between two merges of a batch stays on its head when the batch is undone, and goes where the
  head goes from then on;
- an alias filed on a head by number while a batch stands outranks the member's own afterwards (.97 against .95).

Billing:

- of two events of one account at once, one looks the row up without a lock and waits for the checkout's: an older `active` may then revive a subscription that
  was cancelled meanwhile, a second subscription may replace the first, and an account's own newer event may be dropped as `second_subscription`;
- a refund that does not end the plan moves `last_event_at`, so an earlier change that is still to be delivered is dropped as older (`kept`);
- a late event of a subscription that is over and was replaced overwrites its successor when that is over too;
- a founding place may be given twice when a payment is delivered after the hour its checkout was held (`late`); the
  self-check (`docs/verification/accounts/wp124-selfcheck.md`, of the repository) says only "held longer than an hour and then paid";
- an account that is deleted with a checkout open leaves the payment without an account.

Workspaces:

- who asks to join while its invitation is good is let in after its time, as both `invite` and `join` compare with the beginning of their transaction: if another
  place was offered in between, members and open invitations are one more than the seats, although
  "members and open invitations together" have them (`late`; the members alone never exceed the seats);
- a request that read its workspace before its account left or was removed writes its row with that workspace, and one that read before a join
  writes it without (`stale`);
- two members may put one item on the shortlist at once, which is then on it twice, although there is "one entry per item in a workspace";
- a change of a teammate's entry that is deleted meanwhile, or whose owner leaves, inserts a new row for that owner in the workspace;
- a client that a member is creating while it is removed is created.

Enrichment, which nothing starts yet: a batch with two notices of one input pays for it twice; a crash between the batch's creation and its record submits the jobs
again, although "the same input is never paid for twice -- not on a re-run, not after a restart"; a job superseded by a change that is then undone keeps its notice from being queued; a result collected late overwrites a newer one.

## 7. What is not modelled

The components marked `not_modelled` in `PROJECT.json`, each with its reason: planned (section 2), pure queries,
pure mappings of one record, I/O, or code that nothing starts. Most lines of the code are of these kinds: the read API, the mappings of
some thirty sources, derived tables that are rewritten in one transaction. Inside the modelled ones: the wording of messages and counters, the
classification columns and the contract period of the serving row, the write budget and the bundle cache of
the store, the content of mapped records beyond what the rules tell apart, the pauses between attempts,
and the award payloads that travel with some records. Of the organisations: how pairs are proposed and matched (`resolution/`,
the matchers of `ops/org_*.py`), other countries, and a merge by one person while another person's tool runs. Of the worker: the threads
of background loads and the wrappers of single jobs. Of billing: signatures, the export, the portal, the deletion of an account. Of the workspaces: the limits on mails,
client profiles, the deletion of an account.

## 8. Running it

    tlc -workers 2 -config ArchiveRaces.cfg MCArchive
    tlapm RawArchiveProofs.tla

and so on: each run's module and configuration are in `PROJECT.json`. The modules with proofs are `ArchiveProofs`,
`BillingProofs`, `LiveWalkProofs`, `OrganisationsProofs`, `RawArchiveProofs`, `ReplayProofs`, `WorkerProofs` and `WorkspaceProofs`. `organisations`,
`archive_races`, `workspace`, `livewalk` and `billing` take one to three minutes with two workers, the others less.
