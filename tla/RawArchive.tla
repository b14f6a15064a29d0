----------------------------- MODULE RawArchive ------------------------------
(* Landing and compaction on one store and one index, at the same time: the   *)
(* worker's jobs go on landing payloads while an operator compacts those      *)
(* landed before. Each step is one of Landing's or one of Compaction's.       *)
EXTENDS Landing, Compaction

landing == <<working, control, faults>>
archiveVars == <<stored, landing, compacting>>

(* The store is empty at first: everything compacted was landed by a run.     *)
ArchiveInit == Init /\ CompactionInit

ArchiveNext ==
  \/ Next /\ UNCHANGED compacting
  \/ CompactionNext /\ UNCHANGED landing

ArchiveSpec == ArchiveInit /\ [][ArchiveNext]_archiveVars
==============================================================================
