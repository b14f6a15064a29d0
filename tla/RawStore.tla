------------------------------ MODULE RawStore -------------------------------
(* The raw payload store (dgate/rawstore.py) and `raw_ingest`, the table that *)
(* says under which key each landed payload is stored. Every component that   *)
(* lands, moves or reads payloads shares these variables.                     *)
EXTENDS Integers, Sequences, FiniteSets

CONSTANTS
  Payloads,      \* what sources deliver; a payload is identified by its hash
  None           \* "nothing"

VARIABLES
  store,         \* the objects: name -> the payloads in it, one a line
  raw            \* raw_ingest, committed

stored == <<store, raw>>

------------------------------------------------------------------------------
(* Names and keys.                                                            *)

Name(kind, of, run, part) == [kind |-> kind, of |-> of, run |-> run, part |-> part]

(* `storage_key`: one object per payload, named by the content hash. The day  *)
(* in the key is the day all of this happens in.                              *)
ObjectName(payload) == Name("object", payload, 0, 0)

(* The bundle of one checkpoint of one run (BundleWriter).                    *)
RunBundle(writer, run, part) == Name("run", writer, run, part)

(* The bundle of one chunk of one publication day (`bundle_key`).             *)
DayBundle(day, part) == Name("day", day, 0, part)

(* Mutated: every compacted chunk goes to one name.                           *)
CompactBundleOfDay(firstId) == Name("compact", None, 0, 0)

(* The bundle of a compacted chunk, named by its first row (`compact-<id>`).  *)
CompactBundle(firstId) == Name("compact", None, firstId, 0)

(* `record_key`: one line of a bundle. A plain object is its only line.       *)
RecordKey(name, line) == [name |-> name, line |-> line]
PlainKey(payload) == RecordKey(ObjectName(payload), 1)

(* storage_key NOT LIKE '%#%'.                                                *)
IsPlain(key) == key.name.kind = "object"

------------------------------------------------------------------------------
(* What the store does.                                                       *)

Put(objects, name, lines) ==
  [n \in DOMAIN objects \cup {name} |-> IF n = name THEN lines ELSE objects[n]]

Without(objects, names) == [n \in DOMAIN objects \ names |-> objects[n]]

(* `get`: the payload under a key, or None where there is none.               *)
Get(objects, key) ==
  IF key.name \in DOMAIN objects /\ key.line \in DOMAIN objects[key.name]
  THEN objects[key.name][key.line]
  ELSE None

(* A row of raw_ingest: `record_raw`.                                         *)
Row(id, payload, key) == [id |-> id, hash |-> payload, key |-> key]

(* The keys under which the index lists a payload's content.                  *)
KeysOf(rows) == {row.key : row \in rows}

------------------------------------------------------------------------------
(* Every committed row reads back the payload it was recorded for: the index  *)
(* never points at an object that was not written, was overwritten with       *)
(* something else, or was deleted (BufferedWriter and `_store_raw`).          *)
RowsResolve == \A row \in raw : Get(store, row.key) = row.hash
==============================================================================
