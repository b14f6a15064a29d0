------------------------------- MODULE History -------------------------------
(* The history loads of dgate/pipeline.py (`run_history`): a source's past,   *)
(* one publication day at a time, in bundles named by the day and the chunk.  *)
(* Days are marked done in `backfill_day`, each after its rows are committed; *)
(* a refusal for rate is kept in `backfill_stop` with the time to stay away.  *)
(* Two loads of one source may run at once: the worker resumes the TED        *)
(* history in a thread, and the same command is run by hand. The source       *)
(* answers the same for a day whenever it is asked.                           *)
EXTENDS RawStore, FiniteSetsExt

CONSTANTS
  Loaders,       \* processes that load the history of the source
  FromScratch,   \* those run with --no-resume
  DayCount,      \* days asked for: 1..DayCount
  MaxDays,       \* days a load stops after (--max-days)
  ChunkSize,     \* BUNDLE_CHUNK
  Published,     \* what the source answers for a day, whenever it is asked
  Unmapped,      \* payloads the mapper refuses: stored, not indexed
  MaxStops,      \* bound on refusals for rate
  MaxFailures    \* bound on failures and crashes

Days == 1..DayCount

ASSUME HistoryAssumption ==
  /\ DayCount \in Nat
  /\ ChunkSize \in Nat \ {0}
  /\ FromScratch \subseteq Loaders
  /\ MaxDays \in [Loaders -> Nat \ {0}]
  /\ Published \in [Days -> Seq(Payloads)]
  /\ Unmapped \subseteq Payloads
  /\ MaxStops \in Nat
  /\ MaxFailures \in Nat
  /\ None \notin Payloads

VARIABLES
  marked,        \* backfill_day
  hold,          \* backfill_stop.resume_after is ahead
  stage,         \* "off", "fetch", "fetched", "stored" (a chunk is), "read" (the day)
  todo,          \* days the load has still to do; the first is in hand
  piece,         \* the number of the chunk in hand (`part`)
  chunk,         \* its payloads, once fetched
  loaded,        \* days this load has marked
  stops,         \* refusals so far
  failures       \* failures and crashes so far

loading == <<stage, todo, piece, chunk, loaded>>
historyVars == <<stored, marked, hold, loading, stops, failures>>

HistoryInit ==
  /\ store = << >>
  /\ raw = {}
  /\ marked = {}
  /\ hold = FALSE
  /\ stage = [l \in Loaders |-> "off"]
  /\ todo = [l \in Loaders |-> {}]
  /\ piece = [l \in Loaders |-> 0]
  /\ chunk = [l \in Loaders |-> << >>]
  /\ loaded = [l \in Loaders |-> 0]
  /\ stops = 0
  /\ failures = 0

------------------------------------------------------------------------------
(* The day in hand.                                                           *)
Day(l) == Min(todo[l])

(* The chunk of a day a load comes to (`_in_chunks`): the last one is shorter *)
(* than the others and may be empty.                                          *)
ChunkOf(notices, k) ==
  SubSeq(notices, k * ChunkSize + 1, Min({(k + 1) * ChunkSize, Len(notices)}))

(* Mutated: one chunk is taken for the day.                                   *)
LastChunkFirst(notices) == TRUE

LastChunk(notices) == Len(notices) < ChunkSize

(* Mutated: what is marked already is asked for again.                        *)
PendingAll(l) == Days

(* The days a load sets out to do.                                            *)
Pending(l) == IF l \in FromScratch THEN Days ELSE Days \ marked

(* `backfill_resume_after`: the source has refused and is not to be asked yet. *)
Held(l) == hold

(* A load begins, unless it is held.                                          *)
StartLoad(l) ==
  /\ stage[l] = "off"
  /\ ~Held(l)
  /\ stage' = [stage EXCEPT ![l] = "fetch"]
  /\ todo' = [todo EXCEPT ![l] = Pending(l)]
  /\ piece' = [piece EXCEPT ![l] = 0]
  /\ loaded' = [loaded EXCEPT ![l] = 0]
  /\ UNCHANGED <<stored, marked, hold, chunk, stops, failures>>

(* What is left of a load that ends, however it ends: its uncommitted rows    *)
(* are rolled back, what it put in the store stays.                           *)
Leave(l) ==
  /\ stage' = [stage EXCEPT ![l] = "off"]
  /\ todo' = [todo EXCEPT ![l] = {}]
  /\ piece' = [piece EXCEPT ![l] = 0]
  /\ chunk' = [chunk EXCEPT ![l] = << >>]
  /\ loaded' = [loaded EXCEPT ![l] = 0]

(* Whether the load has a day to go on with.                                  *)
HasDay(l) == todo[l] # {} /\ loaded[l] < MaxDays[l]

Fetching(l) == stage[l] = "fetch" /\ (piece[l] > 0 \/ HasDay(l))

(* The next chunk is read from the source.                                    *)
FetchChunk(l) ==
  /\ Fetching(l)
  /\ chunk' = [chunk EXCEPT ![l] = ChunkOf(Published[Day(l)], piece[l])]
  /\ stage' = [stage EXCEPT ![l] = "fetched"]
  /\ UNCHANGED <<stored, marked, hold, todo, piece, loaded, stops, failures>>

(* The bundle of the chunk is put in the store, over what has its name.       *)
Bundled(l) == Put(store, DayBundle(Day(l), piece[l]), chunk[l])

StoreChunk(l) ==
  /\ stage[l] = "fetched"
  /\ store' = Bundled(l)
  /\ stage' = [stage EXCEPT ![l] = "stored"]
  /\ UNCHANGED <<raw, marked, hold, todo, piece, chunk, loaded, stops, failures>>

(* The key of a payload of the chunk.                                         *)
KeyOf(l, i) == RecordKey(DayBundle(Day(l), piece[l]), i)

(* The rows of a chunk. Two of one payload under one key are one here.        *)
RowsOf(l) ==
  {Row(None, chunk[l][i], KeyOf(l, i)) :
     i \in {j \in DOMAIN chunk[l] : chunk[l][j] \notin Unmapped}}

(* The chunk's notices are indexed, archived where they are of interest, and  *)
(* committed together.                                                        *)
CommitChunk(l) ==
  /\ stage[l] = "stored"
  /\ raw' = raw \cup RowsOf(l)
  /\ chunk' = [chunk EXCEPT ![l] = << >>]
  /\ IF LastChunk(chunk[l])
     THEN stage' = [stage EXCEPT ![l] = "read"] /\ UNCHANGED piece
     ELSE stage' = [stage EXCEPT ![l] = "fetch"] /\ piece' = [piece EXCEPT ![l] = @ + 1]
  /\ UNCHANGED <<store, marked, hold, todo, loaded, stops, failures>>

(* `mark_backfill_day`, a transaction of its own.                             *)
MarkDay(l) ==
  /\ stage[l] = "read"
  /\ marked' = marked \cup {Day(l)}
  /\ todo' = [todo EXCEPT ![l] = @ \ {Day(l)}]
  /\ piece' = [piece EXCEPT ![l] = 0]
  /\ loaded' = [loaded EXCEPT ![l] = @ + 1]
  /\ stage' = [stage EXCEPT ![l] = "fetch"]
  /\ UNCHANGED <<stored, hold, chunk, stops, failures>>

(* The load is through; one that was not cut short lifts the source's hold.   *)
FinishLoad(l) ==
  /\ stage[l] = "fetch"
  /\ piece[l] = 0
  /\ ~HasDay(l)
  /\ Leave(l)
  /\ hold' = (hold /\ loaded[l] >= MaxDays[l])
  /\ UNCHANGED <<stored, marked, stops, failures>>

(* The source refuses for rate, at any request of a day.                      *)
RateLimited(l) ==
  /\ Fetching(l)
  /\ stops < MaxStops
  /\ stops' = stops + 1
  /\ Leave(l)
  /\ hold' = TRUE
  /\ UNCHANGED <<stored, marked, failures>>

(* An exception or a killed process, at any point. The write of a bundle may  *)
(* have been done all the same.                                               *)
LoadFails(l) ==
  /\ stage[l] # "off"
  /\ failures < MaxFailures
  /\ failures' = failures + 1
  /\ Leave(l)
  /\ \/ UNCHANGED store
     \/ stage[l] = "fetched" /\ store' = Bundled(l)
  /\ UNCHANGED <<raw, marked, hold, stops>>

(* The wait is over.                                                          *)
CooldownOver ==
  /\ hold
  /\ hold' = FALSE
  /\ UNCHANGED <<stored, marked, loading, stops, failures>>

------------------------------------------------------------------------------
LoadStep(l) == FetchChunk(l) \/ StoreChunk(l) \/ CommitChunk(l) \/ MarkDay(l) \/ FinishLoad(l)

HistoryNext ==
  \/ \E l \in Loaders : StartLoad(l) \/ LoadStep(l) \/ RateLimited(l) \/ LoadFails(l)
  \/ CooldownOver

HistorySpec == HistoryInit /\ [][HistoryNext]_historyVars

(* The command is run again, goes on while it runs, and time passes.          *)
HistoryFairness ==
  /\ \A l \in Loaders : WF_historyVars(StartLoad(l)) /\ WF_historyVars(LoadStep(l))
  /\ WF_historyVars(CooldownOver)

HistoryFairSpec == HistorySpec /\ HistoryFairness

------------------------------------------------------------------------------
(* The variables have their types.                                            *)
BundleNames == [kind: {"day"}, of: Days, run: {0}, part: Nat]
LoadedRows == [id: {None}, hash: Payloads, key: [name: BundleNames, line: Nat \ {0}]]

HistoryTypeOK ==
  /\ DOMAIN store \subseteq BundleNames
  /\ \A n \in DOMAIN store : store[n] \in Seq(Payloads)
  /\ raw \subseteq LoadedRows
  /\ marked \subseteq Days
  /\ hold \in BOOLEAN
  /\ stage \in [Loaders -> {"off", "fetch", "fetched", "stored", "read"}]
  /\ todo \in [Loaders -> SUBSET Days]
  /\ \A l \in Loaders : stage[l] \in {"fetched", "stored", "read"} => todo[l] # {}
  /\ piece \in [Loaders -> Nat]
  /\ \A l \in Loaders : piece[l] > 0 => todo[l] # {}
  /\ chunk \in [Loaders -> Seq(Payloads)]
  /\ loaded \in [Loaders -> Nat]
  /\ stops \in Nat /\ failures \in Nat

(* A day marked done is loaded in full: every notice the mapper can read is   *)
(* indexed under a key that reads it back (`mark_backfill_day`: a marker that *)
(* runs ahead of the data turns an interrupted day into a permanent hole).    *)
MarkedIsLoaded ==
  \A d \in marked : \A i \in DOMAIN Published[d] :
    Published[d][i] \notin Unmapped =>
      \E row \in raw : row.hash = Published[d][i] /\ Get(store, row.key) = row.hash

(* A load that is cut off, stopped or run again goes on to the end: every day *)
(* is marked, and stays so.                                                   *)
EventuallyLoaded == <>[](marked = Days)
==============================================================================
