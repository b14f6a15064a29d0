------------------------------ MODULE Compaction -----------------------------
(* dgate/ops/compact_raw.py: payloads landed one object each are copied into  *)
(* a bundle that is read back, the rows are repointed and the originals       *)
(* journaled in one transaction, and only then are the originals deleted.     *)
(* This is the only place where ingested payloads leave the store.            *)
EXTENDS RawStore, SequencesExt

CONSTANTS
  Compactors,    \* processes that run the tool
  Sizes,         \* values of --chunk
  Landed,        \* the rows there at the beginning
  Objects,       \* and the objects
  MaxBreaks      \* bound on failures and kills

ASSUME CompactionAssumption ==
  /\ IsFiniteSet(Landed)
  /\ \A row \in Landed :
       /\ row = Row(row.id, row.hash, RecordKey(row.key.name, 1))
       /\ row.id \in Nat /\ row.hash \in Payloads /\ IsPlain(row.key)
  /\ \A a, b \in Landed : a.id = b.id => a = b
  /\ \A name \in DOMAIN Objects : name.kind # "compact" /\ Objects[name] \in Seq(Payloads)
  /\ Sizes \subseteq Nat \ {0}
  /\ MaxBreaks \in Nat

VARIABLES
  pending,       \* compaction_pending: the journal of originals to delete
  step,          \* where each compactor is
  job,           \* its local variables
  breaks         \* failures and kills so far

compacting == <<pending, step, job, breaks>>
compactionVars == <<stored, compacting>>

Steps == {"off", "drain", "drop", "forget", "skip", "next", "read", "write",
          "verify", "point", "repoint", "used", "delete", "clear"}

(* size, keep: --chunk and --keep-originals. after: the last row of the chunk *)
(* before. keys: the originals in work. hash: the content expected of each.   *)
(* read: the payloads read. first, last: the chunk's first and last row. ids: *)
(* the rows found to point at the originals.                                  *)
NoJob == [size |-> 1, keep |-> FALSE, after |-> 0, avoid |-> {}, keys |-> << >>,
          hash |-> << >>, read |-> << >>, first |-> 0, last |-> 0, ids |-> {}]

CompactionInit ==
  /\ store = Objects
  /\ raw = Landed
  /\ pending = {}
  /\ step = [c \in Compactors |-> "off"]
  /\ job = [c \in Compactors |-> NoJob]
  /\ breaks = 0

------------------------------------------------------------------------------
PlainRows == {row \in raw : IsPlain(row.key)}

(* `_still_referenced`: originals a committed row points at.                  *)
StillReferenced(names) == {row.key.name : row \in PlainRows} \cap names

(* Mutated: recorded more than once.                                          *)
AmbiguousByRows ==
  {name \in {row.key.name : row \in PlainRows} :
     \E a, b \in PlainRows : a.key.name = name /\ b.key.name = name /\ a.id # b.id}

(* `ambiguous_keys`: recorded under more than one content hash.               *)
Ambiguous ==
  {name \in {row.key.name : row \in PlainRows} :
     \E a, b \in PlainRows : a.key.name = name /\ b.key.name = name /\ a.hash # b.hash}

(* Rows of `next_chunk`: still on plain keys, after the last chunk's, in the  *)
(* order of their ids.                                                        *)
Candidates(after, avoid) ==
  {row \in PlainRows : row.id > after /\ row.key.name \notin avoid}

Chunk(after, avoid, size) ==
  LET cs == Candidates(after, avoid)
  IN  {row \in cs : Cardinality({r \in cs : r.id < row.id}) < size}

NamesOf(rows) == {row.key.name : row \in rows}

(* The first row of a chunk on a key.                                         *)
FirstOn(rows, name) ==
  CHOOSE row \in rows : /\ row.key.name = name
                        /\ \A r \in rows : r.key.name = name => row.id <= r.id

(* One line for each distinct key, in the order of the first row of each:     *)
(* there is one such order.                                                   *)
Orders(rows) ==
  {keys \in Bijection(1..Cardinality(NamesOf(rows)), NamesOf(rows)) :
     \A i, j \in DOMAIN keys :
       i < j => FirstOn(rows, keys[i]).id < FirstOn(rows, keys[j]).id}

Expected(rows) == [name \in NamesOf(rows) |-> FirstOn(rows, name).hash]

TwoHashes(rows) == \E row \in rows : row.hash # Expected(rows)[row.key.name]

Goes(c, there) == step' = [step EXCEPT ![c] = there]

(* The line of the bundle each original's rows are to point at.               *)
LineOf(j, name) == CHOOSE i \in DOMAIN j.keys : j.keys[i] = name

Bundle(j) == CompactBundle(j.first)

------------------------------------------------------------------------------
(* `drain_pending`: what an earlier run journaled and did not delete.         *)

Start(c) ==
  /\ step[c] = "off"
  /\ \E size \in Sizes, keep \in BOOLEAN :
       job' = [job EXCEPT ![c] =
         [NoJob EXCEPT !.size = size, !.keep = keep, !.keys = SetToSeq(pending)]]
  /\ Goes(c, IF pending = {} THEN "skip" ELSE "drain")
  /\ UNCHANGED <<stored, pending, breaks>>

(* What a committed row still points at is not safe to delete.                *)
DrainCheck(c) ==
  /\ step[c] = "drain"
  /\ job' = [job EXCEPT ![c].keys =
       SetToSeq(ToSet(job[c].keys) \ StillReferenced(ToSet(job[c].keys)))]
  /\ Goes(c, "drop")
  /\ UNCHANGED <<stored, pending, breaks>>

DrainDelete(c) ==
  /\ step[c] = "drop"
  /\ store' = Without(store, ToSet(job[c].keys))
  /\ Goes(c, "forget")
  /\ UNCHANGED <<raw, pending, job, breaks>>

DrainClear(c) ==
  /\ step[c] = "forget"
  /\ pending' = pending \ ToSet(job[c].keys)
  /\ Goes(c, "skip")
  /\ UNCHANGED <<stored, job, breaks>>

------------------------------------------------------------------------------
(* `compact` and `compact_chunk`.                                             *)

SkipAmbiguous(c) ==
  /\ step[c] = "skip"
  /\ job' = [job EXCEPT ![c].avoid = Ambiguous]
  /\ Goes(c, "next")
  /\ UNCHANGED <<stored, pending, breaks>>

Stop(c) ==
  /\ Goes(c, "off")
  /\ job' = [job EXCEPT ![c] = NoJob]

(* The next rows in id order; none left, or two hashes under one key, stop    *)
(* the run.                                                                   *)
NextChunk(c) ==
  /\ step[c] = "next"
  /\ LET rows == Chunk(job[c].after, job[c].avoid, job[c].size)
     IN  IF rows = {} \/ TwoHashes(rows)
         THEN Stop(c)
         ELSE \E keys \in Orders(rows), first, last \in rows :
                /\ \A row \in rows : first.id <= row.id /\ row.id <= last.id
                /\ Goes(c, "read")
                /\ job' = [job EXCEPT ![c] =
                     [@ EXCEPT !.keys = keys, !.hash = Expected(rows),
                               !.first = first.id, !.last = last.id]]
  /\ UNCHANGED <<stored, pending, breaks>>

(* 1. Every original is read and checked against the hash it was landed with. *)
ReadOriginals(c) ==
  /\ step[c] = "read"
  /\ LET j     == job[c]
         found == [i \in DOMAIN j.keys |-> Get(store, RecordKey(j.keys[i], 1))]
     IN  IF \A i \in DOMAIN j.keys : found[i] = j.hash[j.keys[i]]
         THEN Goes(c, "write") /\ job' = [job EXCEPT ![c].read = found]
         ELSE Stop(c)
  /\ UNCHANGED <<stored, pending, breaks>>

(* 2. The bundle is written, and read back line by line.                      *)
WriteBundle(c) ==
  /\ step[c] = "write"
  /\ store' = Put(store, Bundle(job[c]), job[c].read)
  /\ Goes(c, "verify")
  /\ UNCHANGED <<raw, pending, job, breaks>>

BundleMatches(j) ==
  /\ Len(store[Bundle(j)]) = Len(j.keys)
  /\ \A i \in DOMAIN j.keys : store[Bundle(j)][i] = j.hash[j.keys[i]]

VerifyBundle(c) ==
  /\ step[c] = "verify"
  /\ IF BundleMatches(job[c]) THEN Goes(c, "point") /\ UNCHANGED job ELSE Stop(c)
  /\ UNCHANGED <<stored, pending, breaks>>

(* Every row that points at the originals, not only those of the chunk.       *)
Pointing(j) == {row \in PlainRows : row.key.name \in ToSet(j.keys)}

FindRows(c) ==
  /\ step[c] = "point"
  /\ job' = [job EXCEPT ![c].ids = {<<row.id, row.key.name>> : row \in Pointing(job[c])}]
  /\ Goes(c, "repoint")
  /\ UNCHANGED <<stored, pending, breaks>>

(* Mutated: the originals are not journaled.                                  *)
JournaledNot(j) == pending

(* The journal with the chunk's originals in it.                              *)
Journaled(j) == pending \cup ToSet(j.keys)

(* 3. The rows are repointed, by id, and the originals journaled, together.   *)
Repointed(j, row) ==
  IF \E name \in ToSet(j.keys) : <<row.id, name>> \in j.ids
  THEN LET name == CHOOSE n \in ToSet(j.keys) : <<row.id, n>> \in j.ids
       IN  [row EXCEPT !.key = RecordKey(Bundle(j), LineOf(j, name))]
  ELSE row

Repoint(c) ==
  /\ step[c] = "repoint"
  /\ raw' = {Repointed(job[c], row) : row \in raw}
  /\ pending' = Journaled(job[c])
  /\ IF job[c].keep
     THEN Goes(c, "next") /\ job' = [job EXCEPT ![c].after = job[c].last]
     ELSE Goes(c, "used") /\ UNCHANGED job
  /\ UNCHANGED <<store, breaks>>

(* 4. Originals a row still points at stop the run.                           *)
CheckUsed(c) ==
  /\ step[c] = "used"
  /\ IF StillReferenced(ToSet(job[c].keys)) = {}
     THEN Goes(c, "delete") /\ UNCHANGED job
     ELSE Stop(c)
  /\ UNCHANGED <<stored, pending, breaks>>

Delete(c) ==
  /\ step[c] = "delete"
  /\ store' = Without(store, ToSet(job[c].keys))
  /\ Goes(c, "clear")
  /\ UNCHANGED <<raw, pending, job, breaks>>

(* Only then is the journal cleared of them.                                  *)
Clear(c) ==
  /\ step[c] = "clear"
  /\ pending' = pending \ ToSet(job[c].keys)
  /\ job' = [job EXCEPT ![c].after = job[c].last]
  /\ Goes(c, "next")
  /\ UNCHANGED <<stored, breaks>>

------------------------------------------------------------------------------
(* The run is killed, or the store or the database fails it. A deletion of    *)
(* many objects may have done a part of them, a put may have been done.       *)
Break(c) ==
  /\ step[c] # "off"
  /\ breaks < MaxBreaks
  /\ breaks' = breaks + 1
  /\ Stop(c)
  /\ \/ /\ step[c] \in {"drop", "delete"}
        /\ \E some \in SUBSET ToSet(job[c].keys) : store' = Without(store, some)
     \/ UNCHANGED store
  /\ UNCHANGED <<raw, pending>>

Compact(c) ==
  \/ DrainCheck(c) \/ DrainDelete(c) \/ DrainClear(c) \/ SkipAmbiguous(c) \/ NextChunk(c)
  \/ ReadOriginals(c) \/ WriteBundle(c) \/ VerifyBundle(c) \/ FindRows(c) \/ Repoint(c)
  \/ CheckUsed(c) \/ Delete(c) \/ Clear(c)

CompactionNext == \E c \in Compactors : Start(c) \/ Compact(c) \/ Break(c)

CompactionSpec == CompactionInit /\ [][CompactionNext]_compactionVars

(* The tool is run again whenever it stopped, and a run goes on.              *)
CompactionFairness ==
  \A c \in Compactors : WF_compactionVars(Start(c)) /\ WF_compactionVars(Compact(c))

CompactionFairSpec == CompactionSpec /\ CompactionFairness

------------------------------------------------------------------------------
(* The variables have their types.                                            *)
CompactionTypeOK ==
  /\ \A n \in DOMAIN store : store[n] \in Seq(Payloads)
  /\ \A row \in raw : row.id \in Nat /\ row.hash \in Payloads /\ row.key.line \in Nat \ {0}
  /\ \A name \in pending : name.kind = "object"
  /\ step \in [Compactors -> Steps]
  /\ breaks \in 0..MaxBreaks

(* Whatever a row reads, it reads the same after any step: no order of reads, *)
(* writes, repointing, deletions and failures loses a payload or gives a row  *)
(* another's (the order of steps 1 to 4 of compact_raw).                      *)
ReadsTheSameStep ==
  \A row \in raw : \E now \in raw' :
    /\ now.id = row.id
    /\ Get(store, row.key) = row.hash => Get(store', now.key) = row.hash
ReadsTheSame == [][ReadsTheSameStep]_stored

(* An original that no row points at is in the journal: a kill at any point   *)
(* leaves no orphan nobody knows about (migration 0010).                      *)
OrphansAreJournaled ==
  \A name \in DOMAIN store :
    name.kind = "object" /\ name \notin {row.key.name : row \in raw} => name \in pending

(* In the end every key that can be verified is in a bundle, the originals    *)
(* are gone and the journal is empty, also after runs that were killed or     *)
(* that kept the originals.                                                   *)
EverythingCompacted ==
  /\ pending = {}
  /\ \A name \in DOMAIN store : name.kind = "object" =>
       \E a, b \in raw : a.key.name = name /\ b.key.name = name /\ a.hash # b.hash
EventuallyCompacted == <>[]EverythingCompacted
==============================================================================
