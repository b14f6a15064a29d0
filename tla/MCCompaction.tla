---------------------------- MODULE MCCompaction -----------------------------
(* Small instances of Compaction.                                             *)
EXTENDS Compaction, TLC

CONSTANTS p1, p2, p3, early, one, two

(* Three payloads landed under keys of their own, the first of them twice.    *)
(* An early key without a hash was overwritten: two rows, one payload left.   *)
EarlyName == Name("object", early, 0, 0)
EarlyKey == RecordKey(EarlyName, 1)

SomeRows ==
  {Row(1, p1, PlainKey(p1)), Row(2, p2, PlainKey(p2)), Row(3, p2, EarlyKey),
   Row(4, p3, EarlyKey), Row(5, p1, PlainKey(p1)), Row(6, p3, PlainKey(p3))}

SomeObjects ==
  (ObjectName(p1) :> <<p1>>) @@ (ObjectName(p2) :> <<p2>>) @@ (ObjectName(p3) :> <<p3>>)
  @@ (EarlyName :> <<p3>>)
==============================================================================
