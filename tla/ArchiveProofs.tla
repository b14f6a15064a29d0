---------------------------- MODULE ArchiveProofs ----------------------------
(* Theorems about Archive that hold for any sessions, feeds and bounds: the   *)
(* types, the committed histories and the row that serves them, the ledger    *)
(* they implement, the links, and the dates.                                  *)
EXTENDS Archive, TLAPS

(* Every row a session sees belongs to a notice with at least one version,    *)
(* also in the middle of a transaction.                                       *)
HasVersions ==
  /\ \A k \in Keys : rows[k] # None => versions[k] # << >>
  /\ \A s \in Sessions, k \in Keys :
       /\ txVersions[s][k] # << >>
       /\ spVersions[s][k] # << >>
       /\ txRows[s][k] # None => Versions(s, k) # << >>
       /\ spRows[s][k] # None => spVersions[s][k] # None \/ versions[k] # << >>

(* A session executing a statement has a record in work, whose notice it sees *)
(* unless it is about to create it.                                           *)
TaskOK ==
  \A s \in Sessions :
    /\ pc[s] \in Statements => task[s] \in Task
    /\ pc[s] \in Statements \ {"create"} =>
         /\ Versions(s, task[s].key) # << >>
         /\ ServingRow(s, task[s].key) # None
    /\ pc[s] = "carry" => task[s].held \in Row

TInv == TypeOK /\ HasVersions /\ TaskOK

(* The notices no other session has touched are seen as they are committed.   *)
LEMMA ViewTypes ==
  ASSUME TypeOK, NEW s \in Sessions, NEW k \in Keys
  PROVE  /\ Versions(s, k) \in Seq(Version)
         /\ ServingRow(s, k) \in Maybe(Row)
  BY DEF TypeOK, Versions, ServingRow, Maybe

(* NULL is neither a number, a history nor a row.                             *)
LEMMA NoneIsNothing ==
  None # << >> /\ None \notin Nat /\ None \notin Row /\ None \notin Opportunity
<1>1. << >> \in Seq(Version)
  OBVIOUS
<1> QED BY <1>1, ArchiveAssumption DEF ArchiveAssumption

LEMMA InitTInv == Init => TInv
<1> SUFFICES ASSUME Init PROVE TInv
  OBVIOUS
<1>1. TypeOK
  BY DEF Init, TypeOK, Untouched, Maybe, Outcomes
<1>2. HasVersions
  BY NoneIsNothing DEF Init, HasVersions, Untouched
<1>3. TaskOK
  BY DEF Init, TaskOK, Statements
<1> QED BY <1>1, <1>2, <1>3 DEF TInv

------------------------------------------------------------------------------
(* What another session does without committing leaves a session's view as    *)
(* it is, and its task with it.                                               *)

(* The parts of the state session s has to itself.                            *)
Own(s) == <<txVersions[s], txRows[s], spVersions[s], spRows[s], pc[s], task[s]>>

LEMMA OthersKeepTInv ==
  ASSUME TInv, NEW s \in Sessions, UNCHANGED tables,
         \A t \in Sessions \ {s} : UNCHANGED Own(t)
  PROVE  /\ \A k \in Keys : rows'[k] # None => versions'[k] # << >>
         /\ \A t \in Sessions \ {s}, k \in Keys :
              /\ txVersions'[t][k] # << >>
              /\ spVersions'[t][k] # << >>
              /\ txRows'[t][k] # None => Versions(t, k)' # << >>
              /\ spRows'[t][k] # None => spVersions'[t][k] # None \/ versions'[k] # << >>
         /\ \A t \in Sessions \ {s} :
              /\ pc'[t] \in Statements => task'[t] \in Task
              /\ pc'[t] \in Statements \ {"create"} =>
                   /\ Versions(t, task[t].key)' # << >>
                   /\ ServingRow(t, task[t].key)' # None
              /\ pc'[t] = "carry" => task'[t].held \in Row
  BY DEF TInv, HasVersions, TaskOK, Own, tables, Versions, ServingRow

(* A step of one session keeps the invariant if it keeps the types and what   *)
(* the invariant says of that session.                                        *)
LEMMA SessionStep ==
  ASSUME TInv, NEW s \in Sessions, UNCHANGED tables,
         \A t \in Sessions \ {s} : UNCHANGED Own(t),
         TypeOK',
         \A k \in Keys :
           /\ txVersions'[s][k] # << >>
           /\ spVersions'[s][k] # << >>
           /\ txRows'[s][k] # None => Versions(s, k)' # << >>
           /\ spRows'[s][k] # None => spVersions'[s][k] # None \/ versions'[k] # << >>,
         pc'[s] \in Statements => task'[s] \in Task,
         pc'[s] \in Statements \ {"create"} =>
           /\ Versions(s, task[s].key)' # << >>
           /\ ServingRow(s, task[s].key)' # None,
         pc'[s] = "carry" => task'[s].held \in Row
  PROVE  TInv'
  BY OthersKeepTInv DEF TInv, HasVersions, TaskOK

LEMMA RollbackTInv ==
  ASSUME TInv, NEW s \in Sessions, Rollback(s), faults' \in Nat
  PROVE  TInv'
<1>1. TypeOK'
  BY DEF TInv, TypeOK, Rollback, tables, Untouched, Maybe, Outcomes
<1>2. \A t \in Sessions \ {s} : UNCHANGED Own(t)
  BY DEF TInv, TypeOK, Rollback, Own
<1>3. \A k \in Keys : txVersions'[s][k] = None /\ spVersions'[s][k] = None
                   /\ txRows'[s][k] = None /\ spRows'[s][k] = None
  BY DEF TInv, TypeOK, Rollback, Untouched
<1>4. pc'[s] = "off"
  BY DEF TInv, TypeOK, Rollback
<1> QED
  BY <1>1, <1>2, <1>3, <1>4, SessionStep, NoneIsNothing DEF Rollback, Statements

LEMMA QuarantineTInv ==
  ASSUME TInv, NEW s \in Sessions, Quarantine(s), faults' \in Nat
  PROVE  TInv'
<1>1. TypeOK'
  BY DEF TInv, TypeOK, Quarantine, Release, tables, Untouched, Maybe
<1>2. \A t \in Sessions \ {s} : UNCHANGED Own(t)
  BY DEF TInv, TypeOK, Quarantine, Release, Own
<1>3. \A k \in Keys : /\ txVersions'[s][k] = spVersions[s][k] /\ txRows'[s][k] = spRows[s][k]
                     /\ spVersions'[s][k] = None /\ spRows'[s][k] = None
  BY DEF TInv, TypeOK, Quarantine, Release, Untouched
<1>4. pc'[s] = "idle"
  BY DEF TInv, TypeOK, Quarantine, Release
<1>5. \A k \in Keys :
         /\ txVersions'[s][k] # << >>
         /\ spVersions'[s][k] # << >>
         /\ txRows'[s][k] # None => Versions(s, k)' # << >>
         /\ spRows'[s][k] # None => spVersions'[s][k] # None \/ versions'[k] # << >>
  BY <1>3, NoneIsNothing DEF TInv, HasVersions, Versions, Quarantine, tables
<1> QED
  BY <1>1, <1>2, <1>4, <1>5, SessionStep DEF Quarantine, Statements

LEMMA RecordErrorTInv ==
  ASSUME TInv, NEW s \in Sessions, RecordError(s), faults' \in Nat
  PROVE  TInv'
  BY RollbackTInv, QuarantineTInv DEF RecordError

(* A statement that ends the work on a record and writes at most one entry of *)
(* each table.                                                                *)
LEMMA ReleaseTInv ==
  ASSUME TInv, NEW s \in Sessions, Release(s),
         UNCHANGED <<tables, txVersions, txRows, left, quarantined, outcome, faults>>
  PROVE  TInv'
<1>1. TypeOK'
  BY DEF TInv, TypeOK, Release, tables, Untouched, Maybe
<1>2. \A t \in Sessions \ {s} : UNCHANGED Own(t)
  BY DEF TInv, TypeOK, Release, Own
<1>3. \A k \in Keys :
         /\ txVersions'[s][k] # << >>
         /\ spVersions'[s][k] # << >>
         /\ txRows'[s][k] # None => Versions(s, k)' # << >>
         /\ spRows'[s][k] # None => spVersions'[s][k] # None \/ versions'[k] # << >>
  BY NoneIsNothing DEF TInv, TypeOK, HasVersions, Versions, Release, Untouched, tables
<1>4. pc'[s] = "idle"
  BY DEF TInv, TypeOK, Release
<1> QED
  BY <1>1, <1>2, <1>3, <1>4, SessionStep DEF Statements

LEMMA PublishTInv ==
  ASSUME TInv, NEW s \in Sessions, Publish(s), pc[s] = "idle",
         UNCHANGED <<task, left, quarantined, faults>>,
         \/ UNCHANGED pc
         \/ pc' = [pc EXCEPT ![s] = "off"],
         outcome' \in [Sessions -> Outcomes]
  PROVE  TInv'
<1>1. TypeOK'
  BY ViewTypes DEF TInv, TypeOK, Publish, Untouched, Maybe
<1>2. \A k \in Keys : /\ versions[k] # << >> => versions'[k] # << >>
                      /\ rows[k] # None => rows'[k] # None
                      /\ rows'[k] # None => versions'[k] # << >>
  <2>1. \A k \in Keys : versions'[k] = Versions(s, k) /\ rows'[k] = ServingRow(s, k)
    BY DEF Publish
  <2> QED BY <2>1, NoneIsNothing DEF TInv, HasVersions, Versions, ServingRow
<1>3. \A t \in Sessions, k \in Keys :
         /\ t # s => txVersions'[t][k] = txVersions[t][k] /\ txRows'[t][k] = txRows[t][k]
         /\ t = s => txVersions'[t][k] = None /\ txRows'[t][k] = None
         /\ spVersions'[t][k] = spVersions[t][k]
         /\ spRows'[t][k] = spRows[t][k]
  BY DEF TInv, TypeOK, Publish, Untouched
<1>4. HasVersions'
  <2>1. \A k \in Keys : rows'[k] # None => versions'[k] # << >>
    BY <1>2
  <2> SUFFICES ASSUME NEW t \in Sessions, NEW k \in Keys
               PROVE  /\ txVersions'[t][k] # << >>
                      /\ spVersions'[t][k] # << >>
                      /\ txRows'[t][k] # None => Versions(t, k)' # << >>
                      /\ spRows'[t][k] # None => spVersions'[t][k] # None \/ versions'[k] # << >>
    BY <2>1 DEF HasVersions
  <2>2. /\ txVersions[t][k] # << >>
        /\ spVersions[t][k] # << >>
        /\ txRows[t][k] # None => Versions(t, k) # << >>
        /\ spRows[t][k] # None => spVersions[t][k] # None \/ versions[k] # << >>
    BY DEF TInv, HasVersions
  <2> QED
    BY <1>2, <1>3, <2>2, NoneIsNothing DEF Versions
<1>5. \A t \in Sessions : pc'[t] \in Statements => t # s /\ pc'[t] = pc[t]
  BY DEF TInv, TypeOK, Statements
<1>6. TaskOK'
  <2> SUFFICES ASSUME NEW t \in Sessions, pc'[t] \in Statements
               PROVE  /\ task'[t] \in Task
                      /\ pc'[t] # "create" =>
                           /\ Versions(t, task[t].key)' # << >>
                           /\ ServingRow(t, task[t].key)' # None
                      /\ pc'[t] = "carry" => task'[t].held \in Row
    BY DEF TaskOK, Statements
  <2>1. task'[t] \in Task /\ task'[t] = task[t] /\ pc'[t] = pc[t] /\ t # s
    BY <1>5 DEF TInv, TaskOK
  <2>2. PICK k \in Keys : k = task[t].key
    BY <2>1 DEF Task
  <2>3. pc[t] # "create" => Versions(t, k) # << >> /\ ServingRow(t, k) # None
    BY <2>1, <2>2 DEF TInv, TaskOK
  <2>4. pc[t] # "create" => Versions(t, k)' # << >> /\ ServingRow(t, k)' # None
    <3>1. txVersions'[t][k] = txVersions[t][k] /\ txRows'[t][k] = txRows[t][k]
      BY <1>3, <2>1
    <3>2. /\ versions[k] # << >> => versions'[k] # << >>
          /\ rows[k] # None => rows'[k] # None
      BY <1>2
    <3>3. Versions(t, k) # << >> => Versions(t, k)' # << >>
      BY <3>1, <3>2 DEF Versions
    <3>4. ServingRow(t, k) # None => ServingRow(t, k)' # None
      BY <3>1, <3>2 DEF ServingRow
    <3> QED BY <2>3, <3>3, <3>4
  <2>5. Versions(t, task[t].key)' = Versions(t, k)' /\ ServingRow(t, task[t].key)' = ServingRow(t, k)'
    BY <2>1, <2>2 DEF Versions, ServingRow
  <2> QED
    BY <2>1, <2>4, <2>5 DEF TInv, TaskOK
<1> QED BY <1>1, <1>4, <1>6 DEF TInv

------------------------------------------------------------------------------
(* The operators the statements are built from keep the types.                *)

LEMMA DatedType ==
  ASSUME NEW r \in Opportunity
  PROVE  Dated(r) \in Opportunity
  BY DEF Dated, Opportunity, Maybe

LEMMA HeldUnderType ==
  ASSUME NEW s, NEW r \in Opportunity
  PROVE  HeldUnder(s, r) \in Keys
  BY DEF HeldUnder, Keys, Opportunity, Maybe

LEMMA CarriedType ==
  ASSUME NEW held \in Opportunity, NEW stamped, NEW p
  PROVE  Carried(held, stamped, p) \in Maybe(Nat)
  BY DEF Carried, Opportunity, Maybe

LEMMA ServedRowType ==
  ASSUME NEW row \in Row, NEW p \in Opportunity, NEW after \in Nat
  PROVE  ServedRow(row, p, after) \in Row
  BY DEF ServedRow, Row, Opportunity, Coalesce, Maybe

LEMMA AttributesType ==
  ASSUME NEW row \in Row, NEW p \in Opportunity, NEW moves \in BOOLEAN
  PROVE  [row EXCEPT !.link  = AttributeLink(row, p),
                     !.noted = IF moves THEN p.noted ELSE row.noted,
                     !.dated = IF moves THEN p.stamp ELSE row.dated] \in Row
  BY ZenonT(60) DEF AttributeLink, Row, Opportunity, Coalesce, Maybe

LEMMA ClosedType ==
  ASSUME NEW h \in Seq(Version), NEW at \in Nat
  PROVE  Closed(h, at) \in Seq(Version) /\ Len(Closed(h, at)) = Len(h)
<1>1. DOMAIN h = 1..Len(h) /\ Len(h) \in Nat
  OBVIOUS
<1>2. \A i \in 1..Len(h) : [h[i] EXCEPT !.to = at] \in Version
  <2> TAKE i \in 1..Len(h)
  <2>1. h[i] \in Version
    OBVIOUS
  <2> QED BY <2>1 DEF Version, Maybe
<1>3. Closed(h, at) \in [1..Len(h) -> Version]
  BY <1>1, <1>2 DEF Closed
<1> QED BY <1>1, <1>3

LEMMA NewVersionType ==
  ASSUME NEW s, NEW p \in Opportunity, NEW prev, NEW from \in Nat
  PROVE  [payload |-> p, changed |-> changed_fields(prev, p),
          notes |-> VersionNotes(s, prev, p), from |-> from, to |-> None] \in Version
<1>1. changed_fields(prev, p) \in SUBSET Fields
  BY DEF changed_fields
<1>2. VersionNotes(s, prev, p) \in SUBSET Kinds
  BY DEF VersionNotes, Kinds
<1> QED BY <1>1, <1>2 DEF Version, Maybe

LEMMA LatestType ==
  ASSUME NEW h \in Seq(Version), h # << >>
  PROVE  h[Len(h)] \in Version /\ Len(h) \in Nat \ {0}
  OBVIOUS

------------------------------------------------------------------------------
(* One lemma for each action.                                                 *)

LEMMA StartRunTInv ==
  ASSUME TInv, NEW s \in Sessions, StartRun(s)
  PROVE  TInv'
<1>1. TypeOK'
  BY ArchiveAssumption DEF ArchiveAssumption, TInv, TypeOK, StartRun, tables, tx, Outcomes
<1>2. \A t \in Sessions \ {s} : UNCHANGED Own(t)
  BY DEF TInv, TypeOK, StartRun, Own, tx
<1>3. pc'[s] = "idle"
  BY DEF TInv, TypeOK, StartRun
<1>4. \A k \in Keys : /\ txVersions'[s][k] # << >> /\ spVersions'[s][k] # << >>
                      /\ txRows'[s][k] # None => Versions(s, k)' # << >>
                      /\ spRows'[s][k] # None => spVersions'[s][k] # None \/ versions'[k] # << >>
  BY DEF TInv, HasVersions, StartRun, Versions, tx, tables
<1> QED
  BY <1>1, <1>2, <1>3, <1>4, SessionStep DEF StartRun, Statements

LEMMA MapRecordTInv ==
  ASSUME TInv, NEW s \in Sessions, MapRecord(s)
  PROVE  TInv'
<1>1. faults' \in Nat
  BY DEF TInv, TypeOK, MapRecord
<1>2. CASE Rollback(s)
  BY <1>1, <1>2, RollbackTInv
<1>3. CASE /\ UNCHANGED <<tables, tx, pc, task, outcome>>
           /\ \E r \in left[s] : left' = [left EXCEPT ![s] = @ \ {r}]
           /\ quarantined' \in {quarantined, [quarantined EXCEPT ![s] = @ + 1]}
  <2>1. quarantined' \in [Sessions -> Nat] /\ left' \in [Sessions -> SUBSET Opportunity]
    BY <1>3 DEF TInv, TypeOK
  <2>2. TypeOK'
    BY <1>1, <1>3, <2>1 DEF TInv, TypeOK, tables, tx
  <2> QED
    BY <1>3, <2>2 DEF TInv, HasVersions, TaskOK, tables, tx, Versions, ServingRow
<1> QED BY <1>2, <1>3 DEF MapRecord

LEMMA LookUpTInv ==
  ASSUME TInv, NEW s \in Sessions, LookUp(s)
  PROVE  TInv'
<1>1. PICK r \in left[s] :
        LET opp  == Dated(r)
            key  == HeldUnder(s, r)
            held == ServingRow(s, key)
            asks == /\ held # None
                    /\ opp.published = None
                    /\ held.payload.published # None
                    /\ r.native \in LocalKey
        IN /\ r.hash \notin Malformed
           /\ left' = [left EXCEPT ![s] = @ \ {r}]
           /\ pc' = [pc EXCEPT ![s] = IF held = None THEN "create"
                                      ELSE IF asks THEN "carry" ELSE "latest"]
           /\ task' = [task EXCEPT ![s] =
                [opp |-> opp, key |-> key, held |-> IF asks THEN held ELSE None,
                 prev |-> None, after |-> 0, at |-> None]]
  BY DEF LookUp
<1>2. r \in Opportunity
  BY DEF TInv, TypeOK
<1> DEFINE opp  == Dated(r)
           key  == HeldUnder(s, r)
           held == ServingRow(s, key)
           asks == /\ held # None
                   /\ opp.published = None
                   /\ held.payload.published # None
                   /\ r.native \in LocalKey
           new  == [opp |-> opp, key |-> key, held |-> IF asks THEN held ELSE None,
                    prev |-> None, after |-> 0, at |-> None]
<1>3. opp \in Opportunity /\ key \in Keys /\ held \in Maybe(Row)
  BY <1>2, DatedType, HeldUnderType, ViewTypes DEF TInv
<1>4. new \in Task /\ new.key = key /\ new.held = (IF asks THEN held ELSE None)
  BY <1>3 DEF Task, Maybe
<1>5. task'[s] = new
  BY <1>1 DEF TInv, TypeOK
<1>6. /\ pc'[s] = IF held = None THEN "create" ELSE IF asks THEN "carry" ELSE "latest"
      /\ pc'[s] \in Statements
  BY <1>1 DEF TInv, TypeOK, Statements
<1>7. TypeOK'
  <2>1. task' \in [Sessions -> Maybe(Task)] /\ left' \in [Sessions -> SUBSET Opportunity]
    BY <1>1, <1>4 DEF TInv, TypeOK, Maybe
  <2>2. pc' \in [Sessions -> Statements \cup {"off", "idle"}]
    BY <1>1 DEF TInv, TypeOK, Statements
  <2>3. spVersions' \in [Sessions -> [Keys -> Maybe(Seq(Version))]]
        /\ spRows' \in [Sessions -> [Keys -> Maybe(Row)]]
    BY DEF LookUp, TInv, TypeOK
  <2> QED BY <2>1, <2>2, <2>3 DEF LookUp, TInv, TypeOK, tables
<1>8. \A t \in Sessions \ {s} : UNCHANGED Own(t)
  BY <1>1 DEF LookUp, TInv, TypeOK, Own
<1>9. \A k \in Keys : /\ txVersions'[s][k] = txVersions[s][k] /\ txRows'[s][k] = txRows[s][k]
                      /\ spVersions'[s][k] = txVersions[s][k] /\ spRows'[s][k] = txRows[s][k]
                      /\ versions'[k] = versions[k] /\ rows'[k] = rows[k]
  BY DEF LookUp, TInv, TypeOK, tables
<1>10. \A k \in Keys :
         /\ txVersions'[s][k] # << >>
         /\ spVersions'[s][k] # << >>
         /\ txRows'[s][k] # None => Versions(s, k)' # << >>
         /\ spRows'[s][k] # None => spVersions'[s][k] # None \/ versions'[k] # << >>
  BY <1>9 DEF TInv, HasVersions, Versions
<1>11. pc'[s] # "create" => Versions(s, key) # << >> /\ held # None
  BY <1>3, <1>6, NoneIsNothing DEF TInv, HasVersions, Versions, ServingRow
<1>12. PICK k \in Keys : k = key
  BY <1>3
<1>13. Versions(s, k)' = Versions(s, k) /\ ServingRow(s, k)' = ServingRow(s, k)
  BY <1>9 DEF Versions, ServingRow
<1>14. Versions(s, task[s].key)' = Versions(s, k)' /\ ServingRow(s, task[s].key)' = ServingRow(s, k)'
  BY <1>4, <1>5, <1>12 DEF Versions, ServingRow
<1>15. pc'[s] = "carry" => task'[s].held \in Row
  BY <1>3, <1>4, <1>5, <1>6 DEF Maybe
<1> HIDE DEF new, asks, held, key, opp
<1>16. task'[s] \in Task
  BY <1>4, <1>5
<1>17. UNCHANGED tables
  BY DEF LookUp
<1>18. pc'[s] # "create" => Versions(s, task[s].key)' # << >> /\ ServingRow(s, task[s].key)' # None
  BY <1>11, <1>12, <1>13, <1>14 DEF held
<1> QED
  BY <1>7, <1>8, <1>10, <1>15, <1>16, <1>17, <1>18, SessionStep

(* A statement that writes nothing and stays in the record.                   *)
LEMMA ReadTInv ==
  ASSUME TInv, NEW s \in Sessions, NEW st \in Statements \ {"create", "carry"}, NEW new \in Task,
         pc[s] \in Statements \ {"create"},
         new.key = task[s].key,
         pc' = [pc EXCEPT ![s] = st],
         task' = [task EXCEPT ![s] = new],
         UNCHANGED <<tables, tx, left, quarantined, outcome, faults>>
  PROVE  TInv'
<1>1. TypeOK'
  BY DEF TInv, TypeOK, tables, tx, Maybe, Statements
<1>2. \A t \in Sessions \ {s} : UNCHANGED Own(t)
  BY DEF TInv, TypeOK, Own, tx
<1>3. pc'[s] = st /\ task'[s] = new /\ pc'[s] # "carry"
  BY DEF TInv, TypeOK, Statements
<1>4. \A k \in Keys :
         /\ txVersions'[s][k] # << >>
         /\ spVersions'[s][k] # << >>
         /\ txRows'[s][k] # None => Versions(s, k)' # << >>
         /\ spRows'[s][k] # None => spVersions'[s][k] # None \/ versions'[k] # << >>
  BY DEF TInv, HasVersions, Versions, tables, tx
<1>5. /\ Versions(s, task[s].key)' # << >>
      /\ ServingRow(s, task[s].key)' # None
  BY <1>3 DEF TInv, TaskOK, Versions, ServingRow, tables, tx
<1> QED
  BY <1>1, <1>2, <1>3, <1>4, <1>5, SessionStep

(* The record in work, and the history and row of its notice, have types.     *)
LEMMA InWork ==
  ASSUME TInv, NEW s \in Sessions, pc[s] \in Statements
  PROVE  /\ task[s] \in Task
         /\ task[s].key \in Keys
         /\ task[s].opp \in Opportunity
         /\ task[s].after \in Nat
         /\ task[s].at \in Maybe(Nat)
         /\ task[s].prev \in Maybe(Opportunity)
         /\ task[s].held \in Maybe(Row)
         /\ Versions(s, task[s].key) \in Seq(Version)
         /\ ServingRow(s, task[s].key) \in Maybe(Row)
         /\ pc[s] # "create" => /\ Versions(s, task[s].key) # << >>
                               /\ ServingRow(s, task[s].key) \in Row
<1>1. task[s] \in Task
  BY DEF TInv, TaskOK
<1>2. task[s].key \in Keys /\ task[s].opp \in Opportunity /\ task[s].after \in Nat
      /\ task[s].at \in Maybe(Nat) /\ task[s].prev \in Maybe(Opportunity) /\ task[s].held \in Maybe(Row)
  BY <1>1 DEF Task
<1>3. Versions(s, task[s].key) \in Seq(Version) /\ ServingRow(s, task[s].key) \in Maybe(Row)
  BY <1>2, ViewTypes DEF TInv
<1> QED
  BY <1>1, <1>2, <1>3 DEF TInv, TaskOK, Maybe

LEMMA CarryTInv ==
  ASSUME TInv, NEW s \in Sessions, Carry(s)
  PROVE  TInv'
<1> DEFINE t   == task[s]
           at  == Latest(s, t.key).payload.stamp # None
           new == [t EXCEPT !.opp = [t.opp EXCEPT !.published = Carried(t.held.payload, at, t.opp)],
                            !.held = None]
<1>1. pc[s] = "carry" /\ pc[s] \in Statements \ {"create"}
  BY DEF Carry, Statements
<1>2. t.held \in Row
  BY <1>1 DEF TInv, TaskOK
<1>3. Carried(t.held.payload, at, t.opp) \in Maybe(Nat)
  <2>1. t.held.payload \in Opportunity
    BY <1>2 DEF Row
  <2> QED BY <2>1, CarriedType
<1>4. [t.opp EXCEPT !.published = Carried(t.held.payload, at, t.opp)] \in Opportunity
  BY <1>1, <1>3, InWork DEF Opportunity
<1>5. new \in Task /\ new.key = t.key
  BY <1>1, <1>4, InWork DEF Task, Maybe
<1>6. task' = [task EXCEPT ![s] = new] /\ pc' = [pc EXCEPT ![s] = "latest"]
      /\ UNCHANGED <<tables, tx, left, quarantined, outcome, faults>>
  BY DEF Carry
<1>7. "latest" \in Statements \ {"create", "carry"}
  BY DEF Statements
<1> HIDE DEF new
<1> QED BY <1>1, <1>5, <1>6, <1>7, ReadTInv

LEMMA ReadLatestTInv ==
  ASSUME TInv, NEW s \in Sessions, ReadLatest(s)
  PROVE  TInv'
<1> DEFINE t    == task[s]
           h    == Versions(s, t.key)
           new  == [t EXCEPT !.prev = Latest(s, t.key).payload, !.after = Len(h)]
<1>1. pc[s] \in Statements \ {"create"}
  BY DEF ReadLatest, Statements
<1>2. CASE Release(s)
  BY <1>2, ReleaseTInv DEF ReadLatest
<1>3. CASE /\ pc' = [pc EXCEPT ![s] = "seen"]
           /\ task' = [task EXCEPT ![s] = new]
           /\ UNCHANGED <<spVersions, spRows>>
  <2>1. Latest(s, t.key) \in Version /\ Len(h) \in Nat
    BY <1>1, InWork, LatestType DEF Latest, LatestVersion
  <2>2. new \in Task /\ new.key = t.key
    BY <1>1, <2>1, InWork DEF Task, Maybe, Version
  <2>3. "seen" \in Statements \ {"create", "carry"}
    BY DEF Statements
  <2>4. UNCHANGED <<tables, tx, left, quarantined, outcome, faults>>
    BY <1>3 DEF ReadLatest, tx
  <2> HIDE DEF new
  <2> QED BY <1>1, <1>3, <2>2, <2>3, <2>4, ReadTInv
<1> QED BY <1>2, <1>3 DEF ReadLatest

LEMMA CompareTInv ==
  ASSUME TInv, NEW s \in Sessions, Compare(s)
  PROVE  TInv'
<1>1. pc[s] \in Statements \ {"create"}
  BY DEF Compare, Statements
<1>2. CASE Release(s)
  BY <1>2, ReleaseTInv DEF Compare
<1>3. ASSUME NEW st \in {"attrs", "close"}, pc' = [pc EXCEPT ![s] = st],
             UNCHANGED <<task, spVersions, spRows>>
      PROVE  TInv'
  <2>1. st \in Statements \ {"create", "carry"}
    BY DEF Statements
  <2>2. task' = [task EXCEPT ![s] = task[s]]
    BY <1>3 DEF TInv, TypeOK
  <2>3. UNCHANGED <<tables, tx, left, quarantined, outcome, faults>>
    BY <1>3 DEF Compare, tx
  <2> QED BY <1>1, <1>3, <2>1, <2>2, <2>3, InWork, ReadTInv
<1> QED BY <1>2, <1>3 DEF Compare

(* A statement that ends the work on a record with the notice written.        *)
LEMMA WriteTInv ==
  ASSUME TInv, NEW s \in Sessions, Release(s), NEW k \in Keys,
         UNCHANGED <<tables, left, quarantined, outcome, faults>>,
         NEW row \in Row, txRows' = Written(txRows, s, k, row),
         \/ UNCHANGED txVersions /\ Versions(s, k) # << >>
         \/ \E h \in Seq(Version) \ {<< >>} : txVersions' = Written(txVersions, s, k, h)
  PROVE  TInv'
<1>1. TypeOK'
  <2>1. txRows' \in [Sessions -> [Keys -> Maybe(Row)]]
    BY DEF TInv, TypeOK, Written, Maybe
  <2>2. \A h \in Seq(Version) : Written(txVersions, s, k, h) \in [Sessions -> [Keys -> Maybe(Seq(Version))]]
    BY DEF TInv, TypeOK, Written, Maybe
  <2>3. txVersions' \in [Sessions -> [Keys -> Maybe(Seq(Version))]]
    BY <2>2 DEF TInv, TypeOK
  <2> QED BY <2>1, <2>3 DEF TInv, TypeOK, Release, tables, Untouched, Maybe
<1>2. \A t \in Sessions \ {s} : UNCHANGED Own(t)
  BY DEF TInv, TypeOK, Release, Own, Written
<1>3. \A l \in Keys : /\ spVersions'[s][l] = None /\ spRows'[s][l] = None
                      /\ versions'[l] = versions[l]
                      /\ l # k => /\ txVersions'[s][l] = txVersions[s][l]
                                  /\ txRows'[s][l] = txRows[s][l]
  BY DEF TInv, TypeOK, Release, Untouched, Written, tables
<1>4. txVersions'[s][k] # << >> /\ Versions(s, k)' # << >>
  <2>1. CASE UNCHANGED txVersions /\ Versions(s, k) # << >>
    BY <1>3, <2>1 DEF TInv, HasVersions, Versions
  <2>2. CASE \E h \in Seq(Version) \ {<< >>} : txVersions' = Written(txVersions, s, k, h)
    <3>1. PICK h \in Seq(Version) \ {<< >>} : txVersions' = Written(txVersions, s, k, h)
      BY <2>2
    <3>2. txVersions'[s][k] = h
      BY <3>1 DEF TInv, TypeOK, Written
    <3> QED
      BY <3>1, <3>2, ArchiveAssumption DEF ArchiveAssumption, Versions
  <2> QED BY <2>1, <2>2
<1>5. \A l \in Keys :
         /\ txVersions'[s][l] # << >>
         /\ spVersions'[s][l] # << >>
         /\ txRows'[s][l] # None => Versions(s, l)' # << >>
         /\ spRows'[s][l] # None => spVersions'[s][l] # None \/ versions'[l] # << >>
  <2> TAKE l \in Keys
  <2>1. CASE l = k
    BY <1>3, <1>4, <2>1, NoneIsNothing
  <2>2. CASE l # k
    BY <1>3, <2>2, NoneIsNothing DEF TInv, HasVersions, Versions
  <2> QED BY <2>1, <2>2
<1>6. pc'[s] = "idle"
  BY DEF TInv, TypeOK, Release
<1> QED
  BY <1>1, <1>2, <1>5, <1>6, SessionStep DEF Statements

LEMMA WriteAttributesTInv ==
  ASSUME TInv, NEW s \in Sessions, WriteAttributes(s)
  PROVE  TInv'
<1> DEFINE t     == task[s]
           row   == ServingRow(s, t.key)
           moves == t.opp.noted # None /\ Newer(t.prev, t.opp)
           new   == [row EXCEPT !.link  = AttributeLink(row, t.opp),
                                !.noted = IF moves THEN t.opp.noted ELSE row.noted,
                                !.dated = IF moves THEN t.opp.stamp ELSE row.dated]
<1>1. pc[s] \in Statements \ {"create"}
  BY DEF WriteAttributes, Statements
<1>2. moves \in BOOLEAN
  BY DEF Newer
<1>3. new \in Row
  <2>1. row \in Row /\ t.opp \in Opportunity
    BY <1>1, InWork
  <2> HIDE DEF moves, row, t
  <2> QED BY <1>2, <2>1, AttributesType DEF new
<1>4. t.key \in Keys /\ Versions(s, t.key) # << >>
  BY <1>1, InWork
<1>5. Release(s) /\ txRows' = Written(txRows, s, t.key, new) /\ UNCHANGED txVersions
      /\ UNCHANGED <<tables, left, quarantined, outcome, faults>>
  BY DEF WriteAttributes
<1> HIDE DEF new
<1> QED BY <1>3, <1>4, <1>5, WriteTInv

LEMMA CreateTInv ==
  ASSUME TInv, NEW s \in Sessions, Create(s)
  PROVE  TInv'
<1>1. pc[s] \in Statements
  BY DEF Create, Statements
<1>2. faults' \in Nat
  BY DEF Create, TInv, TypeOK
<1>3. CASE RecordError(s)
  BY <1>2, <1>3, RecordErrorTInv
<1>4. CASE ~RecordError(s)
  <2> DEFINE k     == task[s].key
             p     == task[s].opp
             row   == [payload |-> p, current |-> 1, noted |-> p.noted, dated |-> p.stamp, link |-> p.link]
             first == [payload |-> p, changed |-> {},
                       notes |-> IF s \in Loads THEN {"history"} ELSE {}, from |-> 0, to |-> None]
  <2>1. p \in Opportunity /\ k \in Keys
    BY <1>1, InWork
  <2>2. row \in Row
    BY <2>1 DEF Row, Opportunity
  <2>3. first \in Version
    BY <2>1 DEF Version, Maybe, Kinds
  <2>4. /\ Release(s) /\ txRows' = Written(txRows, s, k, row)
        /\ txVersions' = Written(txVersions, s, k, <<first>>)
        /\ UNCHANGED <<tables, left, quarantined, outcome, faults>>
    BY <1>4 DEF Create
  <2> HIDE DEF row, first, k, p
  <2>5. <<first>> \in Seq(Version) \ {<< >>}
    BY <2>3
  <2> QED BY <2>1, <2>2, <2>4, <2>5, WriteTInv
<1> QED BY <1>3, <1>4

LEMMA ServeTInv ==
  ASSUME TInv, NEW s \in Sessions, Serve(s)
  PROVE  TInv'
<1> DEFINE t   == task[s]
           new == ServedRow(ServingRow(s, t.key), t.opp, t.after)
<1>1. pc[s] \in Statements \ {"create"}
  BY DEF Serve, Statements
<1>2. new \in Row
  BY <1>1, InWork, ServedRowType
<1>3. t.key \in Keys /\ Versions(s, t.key) # << >>
  BY <1>1, InWork
<1>4. Release(s) /\ txRows' = Written(txRows, s, t.key, new) /\ UNCHANGED txVersions
      /\ UNCHANGED <<tables, left, quarantined, outcome, faults>>
  BY DEF Serve
<1> HIDE DEF new
<1> QED BY <1>2, <1>3, <1>4, WriteTInv

(* A statement of append_version that writes the notice's versions only.      *)
LEMMA AppendingTInv ==
  ASSUME TInv, NEW s \in Sessions, pc[s] \in Statements \ {"create"},
         NEW st \in {"insert", "serve"}, pc' = [pc EXCEPT ![s] = st],
         NEW new \in Task, new.key = task[s].key, task' = [task EXCEPT ![s] = new],
         NEW h \in Seq(Version) \ {<< >>},
         txVersions' = Written(txVersions, s, task[s].key, h),
         UNCHANGED <<tables, txRows, spVersions, spRows, left, quarantined, outcome, faults>>
  PROVE  TInv'
<1> DEFINE k == task[s].key
<1>0. k \in Keys /\ st \in Statements
  BY InWork DEF Statements
<1>1. TypeOK'
  BY <1>0 DEF TInv, TypeOK, Written, tables, Maybe
<1>2. \A t \in Sessions \ {s} : UNCHANGED Own(t)
  BY DEF TInv, TypeOK, Own, Written
<1>3. \A l \in Keys : txVersions'[s][l] = (IF l = k THEN h ELSE txVersions[s][l])
  BY <1>0 DEF TInv, TypeOK, Written
<1>4. h # << >> /\ h # None
  BY ArchiveAssumption DEF ArchiveAssumption
<1>5. \A l \in Keys :
         /\ txVersions'[s][l] # << >>
         /\ spVersions'[s][l] # << >>
         /\ txRows'[s][l] # None => Versions(s, l)' # << >>
         /\ spRows'[s][l] # None => spVersions'[s][l] # None \/ versions'[l] # << >>
  BY <1>3, <1>4 DEF TInv, HasVersions, Versions, tables
<1>6. pc'[s] = st /\ task'[s] = new
  BY DEF TInv, TypeOK
<1>7. Versions(s, task[s].key)' # << >> /\ ServingRow(s, task[s].key)' # None
  <2>1. txVersions'[s][k] = h /\ task'[s].key = k
    BY <1>0, <1>3, <1>6
  <2>2. ServingRow(s, k) # None
    BY DEF TInv, TaskOK
  <2> QED BY <1>4, <2>1, <2>2 DEF Versions, ServingRow, tables
<1> QED
  BY <1>0, <1>1, <1>2, <1>5, <1>6, <1>7, SessionStep

LEMMA CloseOpenTInv ==
  ASSUME TInv, NEW s \in Sessions, CloseOpen(s)
  PROVE  TInv'
<1> DEFINE t   == task[s]
           h   == Versions(s, t.key)
           at  == Latest(s, t.key).from + 1
           new == [t EXCEPT !.at = at]
<1>1. pc[s] \in Statements \ {"create"}
  BY DEF CloseOpen, Statements
<1>2. h \in Seq(Version) /\ h # << >> /\ t \in Task
  BY <1>1, InWork
<1>3. at \in Nat
  <2>1. Latest(s, t.key) \in Version
    BY <1>2, LatestType DEF Latest, LatestVersion
  <2> QED BY <2>1 DEF Version
<1>4. CASE /\ txVersions' = Written(txVersions, s, t.key, Closed(h, at))
           /\ task' = [task EXCEPT ![s] = new]
  <2>1. Closed(h, at) \in Seq(Version) \ {<< >>}
    <3>1. Closed(h, at) \in Seq(Version) /\ Len(Closed(h, at)) = Len(h)
      BY <1>2, <1>3, ClosedType
    <3>2. Len(h) # 0
      BY <1>2, LatestType
    <3> HIDE DEF h, at
    <3> QED BY <3>1, <3>2
  <2>2. new \in Task /\ new.key = t.key
    BY <1>2, <1>3 DEF Task, Maybe
  <2>3. pc' = [pc EXCEPT ![s] = "insert"]
        /\ UNCHANGED <<tables, txRows, spVersions, spRows, left, quarantined, outcome, faults>>
    BY DEF CloseOpen
  <2> HIDE DEF new, h, at
  <2> QED BY <1>1, <1>4, <2>1, <2>2, <2>3, AppendingTInv
<1>5. CASE UNCHANGED <<task, txVersions>>
  <2>1. task' = [task EXCEPT ![s] = task[s]]
    BY <1>5 DEF TInv, TypeOK
  <2>2. pc' = [pc EXCEPT ![s] = "insert"] /\ "insert" \in Statements \ {"create", "carry"}
        /\ UNCHANGED <<tables, tx, left, quarantined, outcome, faults>>
    BY <1>5 DEF CloseOpen, Statements, tx
  <2> QED BY <1>1, <1>2, <2>1, <2>2, ReadTInv
<1> QED BY <1>4, <1>5 DEF CloseOpen

LEMMA InsertVersionTInv ==
  ASSUME TInv, NEW s \in Sessions, InsertVersion(s)
  PROVE  TInv'
<1> DEFINE t    == task[s]
           h    == Versions(s, t.key)
           from == Coalesce(t.at, Latest(s, t.key).from + 1)
           v    == [payload |-> t.opp, changed |-> changed_fields(t.prev, t.opp),
                    notes |-> VersionNotes(s, t.prev, t.opp), from |-> from, to |-> None]
<1>1. pc[s] \in Statements \ {"create"}
  BY DEF InsertVersion, Statements
<1>2. h \in Seq(Version) /\ h # << >> /\ t \in Task /\ t.opp \in Opportunity /\ t.at \in Maybe(Nat)
  BY <1>1, InWork
<1>3. from \in Nat
  <2>1. Latest(s, t.key).from \in Nat
    BY <1>2, LatestType DEF Latest, LatestVersion, Version
  <2> QED BY <1>2, <2>1 DEF Coalesce, Maybe
<1>4. CASE RecordError(s)
  BY <1>4, RecordErrorTInv DEF InsertVersion, TInv, TypeOK
<1>5. CASE ~RecordError(s)
  <2>1. v \in Version
    <3> HIDE DEF from, t
    <3> QED BY <1>2, <1>3, NewVersionType
  <2>2. Append(h, v) \in Seq(Version) \ {<< >>}
    <3> HIDE DEF h, v
    <3> QED BY <1>2, <2>1
  <2>3. txVersions' = Written(txVersions, s, t.key, Append(h, v))
        /\ pc' = [pc EXCEPT ![s] = "serve"]
        /\ UNCHANGED <<tables, txRows, spVersions, spRows, task, left, quarantined, outcome, faults>>
    BY <1>5 DEF InsertVersion
  <2>4. task' = [task EXCEPT ![s] = task[s]]
    BY <2>3 DEF TInv, TypeOK
  <2> HIDE DEF h, v
  <2> QED BY <1>1, <1>2, <2>2, <2>3, <2>4, AppendingTInv
<1> QED BY <1>4, <1>5

------------------------------------------------------------------------------
LEMMA NextTInv == TInv /\ [Next]_vars => TInv'
<1> SUFFICES ASSUME TInv, [Next]_vars PROVE TInv'
  OBVIOUS
<1>1. CASE UNCHANGED vars
  BY <1>1 DEF TInv, TypeOK, HasVersions, TaskOK, vars, tables, tx, Versions, ServingRow
<1>2. ASSUME NEW s \in Sessions, Crash(s) \/ Deadlock(s)
      PROVE  TInv'
  BY <1>2, RollbackTInv DEF Crash, Deadlock, TInv, TypeOK
<1>3. ASSUME NEW s \in Sessions, Commit(s)
      PROVE  TInv'
  <2>1. Publish(s) /\ pc[s] = "idle" /\ UNCHANGED <<task, left, quarantined, faults>> /\ UNCHANGED pc
        /\ outcome' \in [Sessions -> Outcomes]
    BY <1>3 DEF Commit, TInv, TypeOK
  <2> QED BY <2>1, PublishTInv
<1>4. ASSUME NEW s \in Sessions, FinishRun(s)
      PROVE  TInv'
  <2>1. Publish(s) /\ pc[s] = "idle" /\ UNCHANGED <<task, left, quarantined, faults>>
        /\ pc' = [pc EXCEPT ![s] = "off"]
        /\ outcome' \in [Sessions -> Outcomes]
    BY <1>4 DEF FinishRun, TInv, TypeOK, Outcomes
  <2> QED BY <2>1, PublishTInv
<1>5. ASSUME NEW s \in Sessions, StartRun(s) \/ Commit(s) \/ Crash(s) \/ Work(s)
      PROVE  TInv'
  BY <1>2, <1>3, <1>4, <1>5, StartRunTInv, MapRecordTInv, LookUpTInv, CarryTInv, ReadLatestTInv,
     CompareTInv, WriteAttributesTInv, CreateTInv, CloseOpenTInv, InsertVersionTInv, ServeTInv
     DEF Work
<1> QED BY <1>1, <1>5 DEF Next

(* Every variable keeps its type, for any sessions, records and bounds: no    *)
(* order of statements, rollbacks and commits puts a value where the code     *)
(* does not expect one (a row without a version, a task without its row).     *)
THEOREM TypeCorrect == Spec => []TypeOK
<1>1. TInv => TypeOK
  BY DEF TInv
<1> QED BY InitTInv, NextTInv, <1>1, PTL DEF Spec

------------------------------------------------------------------------------
(* The safety of Archive: committed histories are gap-free, true and          *)
(* append-only, the newest is served, and together they implement the Ledger. *)

(* A version is the same in a later state of its history, but for its end.    *)
Later(v, w) ==
  /\ w.payload = v.payload
  /\ w.changed = v.changed
  /\ w.notes = v.notes
  /\ w.from = v.from
  /\ v.to # None => w.to = v.to

Grown(old, new) ==
  /\ Len(old) <= Len(new)
  /\ \A i \in 1..Len(old) : Later(old[i], new[i])

(* Every version but the last ended where the next began.                     *)
Meeting(h) ==
  \A i \in 1..(Len(h) - 1) :
    /\ h[i].to # None
    /\ h[i].from < h[i].to
    /\ h[i + 1].from = h[i].to

(* A version may follow the one before it, and says what it changed.          *)
Follows(prev, v) ==
  /\ ~Older(v.payload, prev.payload)
  /\ v.changed = changed_fields(prev.payload, v.payload)
  /\ v.changed # {}
  /\ \E s \in Sessions : v.notes = VersionNotes(s, prev.payload, v.payload)

Ordered(h) == \A i \in 1..(Len(h) - 1) : Follows(h[i], h[i + 1])

Distinct(h) ==
  \A i, j \in 1..Len(h) : h[i].payload.hash = h[j].payload.hash => i = j

Stamped(h) ==
  \A i, j \in 1..Len(h) :
    /\ i < j
    /\ \A m \in i..j : h[m].payload.stamp # None
    => h[i].payload.stamp <= h[j].payload.stamp

(* Under a number that is unique within a buyer, one buyer has it all.        *)
Bought(k, h) ==
  k.native \in LocalKey =>
    \A i \in 1..Len(h) :
      /\ h[i].payload.buyer = h[1].payload.buyer
      /\ k.by # None => h[i].payload.buyer = k.by

(* A history with nothing wrong but, perhaps, the end of its last version.    *)
Sound(k, h) == Meeting(h) /\ Ordered(h) /\ Distinct(h) /\ Stamped(h) /\ Bought(k, h)

LastOpen(h) == h # << >> => h[Len(h)].to = None

(* The row serves the latest version of the history.                          *)
Serves(h, r) ==
  /\ h # << >>
  /\ r.current = Len(h)
  /\ r.payload = h[Len(h)].payload

Committed ==
  \A k \in Keys :
    /\ Sound(k, versions[k])
    /\ LastOpen(versions[k])
    /\ rows[k] = None => versions[k] = << >>
    /\ rows[k] # None => Serves(versions[k], rows[k])

(* What a session wrote of a notice, versions v and row r, could be committed.*)
Pair(k, v, r) ==
  /\ v # None => /\ r # None
                 /\ Sound(k, v)
                 /\ LastOpen(v)
                 /\ Grown(versions[k], v)
  /\ r # None => Serves(Coalesce(v, versions[k]), r)

(* No row is locked by two sessions.                                          *)
Exclusive ==
  \A s, t \in Sessions : s # t =>
    \A k \in Keys :
      /\ txVersions[s][k] # None => txVersions[t][k] = None
      /\ txRows[s][k] # None => txRows[t][k] = None

(* The session is between the first and the last statement of append_version. *)
Appending(s, k) == pc[s] \in {"insert", "serve"} /\ task[s].key = k

(* What the session has pending is fit to be committed, and so is what its    *)
(* savepoint would take it back to.                                           *)
Pending(s) ==
  \A k \in Keys :
    /\ spVersions[s][k] # None => txVersions[s][k] # None
    /\ spRows[s][k] # None => txRows[s][k] # None
    /\ pc[s] \in {"off", "idle"} => spVersions[s][k] = None /\ spRows[s][k] = None
    /\ Pair(k, spVersions[s][k], spRows[s][k])
    /\ ~Appending(s, k) => Pair(k, txVersions[s][k], txRows[s][k])

(* The version the session compares with is still there, under its number.    *)
Reading(s) ==
  LET t == task[s]
      h == Versions(s, t.key)
  IN  /\ t.after \in 1..Len(h)
      /\ t.prev = h[t.after].payload
      /\ pc[s] \in {"attrs", "close", "insert"} => ~Older(t.opp, t.prev)
      /\ pc[s] \in {"close", "insert"} =>
           /\ changed_fields(t.prev, t.opp) # {}
           /\ \A i \in 1..t.after : h[i].payload.hash # t.opp.hash

(* The open version is closed, unless the number of the next is taken.        *)
Closing(s) ==
  LET t == task[s]
      h == txVersions[s][t.key]
  IN  NumberTaken(s) \/ /\ h # None
                        /\ Sound(t.key, h)
                        /\ Grown(versions[t.key], h)
                        /\ t.at # None
                        /\ h[Len(h)].to = t.at
                        /\ h[Len(h)].from < t.at

(* The version is appended and the row is still to follow.                    *)
Appended(s) ==
  LET t == task[s]
      h == txVersions[s][t.key]
  IN  /\ h # None
      /\ Sound(t.key, h)
      /\ LastOpen(h)
      /\ Grown(versions[t.key], h)
      /\ Len(h) = t.after + 1
      /\ h[Len(h)].payload = t.opp

(* The notice in work is of the buyer the record names.                       *)
OfBuyer(s) ==
  LET t == task[s]
  IN  t.key.native \in LocalKey =>
        /\ t.key.by # None => t.opp.buyer = t.key.by
        /\ pc[s] # "create" => Versions(s, t.key)[1].payload.buyer = t.opp.buyer

Working(s) ==
  /\ pc[s] \in Statements => OfBuyer(s)
  /\ pc[s] \in {"seen", "attrs", "close", "insert"} => Reading(s)
  /\ pc[s] = "insert" => Closing(s)
  /\ pc[s] = "serve" => Appended(s)

IInv ==
  /\ TInv
  /\ Committed
  /\ Exclusive
  /\ \A s \in Sessions : Pending(s) /\ Working(s)

------------------------------------------------------------------------------
(* Histories.                                                                 *)

LEMMA VersionFields ==
  ASSUME NEW h \in Seq(Version), NEW i \in 1..Len(h)
  PROVE  /\ h[i] \in Version
         /\ h[i].payload \in Opportunity
         /\ h[i].from \in Nat
         /\ h[i].to \in Maybe(Nat)
<1>1. h[i] \in Version
  OBVIOUS
<1> QED BY <1>1 DEF Version

LEMMA GrownReflexive ==
  ASSUME NEW h \in Seq(Version)
  PROVE  Grown(h, h)
  BY DEF Grown, Later

LEMMA GrownTransitive ==
  ASSUME NEW f \in Seq(Version), NEW g \in Seq(Version), NEW h \in Seq(Version),
         Grown(f, g), Grown(g, h)
  PROVE  Grown(f, h)
<1>1. Len(f) <= Len(h)
  BY DEF Grown
<1>2. ASSUME NEW i \in 1..Len(f) PROVE Later(f[i], h[i])
  <2>1. i \in 1..Len(g)
    BY DEF Grown
  <2>2. Later(f[i], g[i]) /\ Later(g[i], h[i])
    BY <2>1 DEF Grown
  <2> QED BY <2>2 DEF Later
<1> QED BY <1>1, <1>2 DEF Grown

(* Closing a sound history changes the end of its last version only.          *)
LEMMA ClosedIs ==
  ASSUME NEW k \in Keys, NEW h \in Seq(Version), h # << >>, Sound(k, h), LastOpen(h), NEW at \in Nat
  PROVE  /\ Closed(h, at) \in Seq(Version)
         /\ Len(Closed(h, at)) = Len(h)
         /\ \A i \in 1..(Len(h) - 1) : Closed(h, at)[i] = h[i]
         /\ Closed(h, at)[Len(h)] = [h[Len(h)] EXCEPT !.to = at]
<1>1. DOMAIN h = 1..Len(h) /\ Len(h) \in Nat \ {0}
  OBVIOUS
<1>2. Closed(h, at) = [i \in 1..Len(h) |-> IF h[i].to = None THEN [h[i] EXCEPT !.to = at] ELSE h[i]]
  BY <1>1 DEF Closed
<1>3. \A i \in 1..(Len(h) - 1) : h[i].to # None
  BY DEF Sound, Meeting
<1>4. h[Len(h)].to = None
  BY DEF LastOpen
<1>5. \A i \in 1..(Len(h) - 1) : Closed(h, at)[i] = h[i]
  BY <1>1, <1>2, <1>3
<1>6. Closed(h, at)[Len(h)] = [h[Len(h)] EXCEPT !.to = at]
  BY <1>1, <1>2, <1>4
<1> QED BY <1>5, <1>6, ClosedType

LEMMA ClosedFields ==
  ASSUME NEW k \in Keys, NEW h \in Seq(Version), h # << >>, Sound(k, h), LastOpen(h), NEW at \in Nat
  PROVE  /\ \A i \in 1..Len(h) : /\ Closed(h, at)[i].payload = h[i].payload
                                 /\ Closed(h, at)[i].changed = h[i].changed
                                 /\ Closed(h, at)[i].notes = h[i].notes
                                 /\ Closed(h, at)[i].from = h[i].from
                                 /\ i # Len(h) => Closed(h, at)[i].to = h[i].to
         /\ Closed(h, at)[Len(h)].to = at
<1> DEFINE c == Closed(h, at)
<1>1. \A i \in 1..(Len(h) - 1) : c[i] = h[i]
  BY ClosedIs
<1>2. c[Len(h)] = [h[Len(h)] EXCEPT !.to = at]
  BY ClosedIs
<1>3. Len(h) \in 1..Len(h) /\ h[Len(h)] \in Version
  BY LatestType
<1>4. /\ c[Len(h)].payload = h[Len(h)].payload
      /\ c[Len(h)].changed = h[Len(h)].changed
      /\ c[Len(h)].notes = h[Len(h)].notes
      /\ c[Len(h)].from = h[Len(h)].from
      /\ c[Len(h)].to = at
  BY <1>2, <1>3 DEF Version
<1> HIDE DEF c
<1>5. \A i \in 1..Len(h) : i = Len(h) \/ i \in 1..(Len(h) - 1)
  BY <1>3
<1> QED BY <1>1, <1>4, <1>5 DEF c

LEMMA ClosedSound ==
  ASSUME NEW k \in Keys, NEW h \in Seq(Version), h # << >>, Sound(k, h), LastOpen(h), NEW at \in Nat
  PROVE  /\ Sound(k, Closed(h, at))
         /\ \A g \in Seq(Version) : Grown(g, h) => Grown(g, Closed(h, at))
<1> DEFINE c == Closed(h, at)
<1>1. Len(c) = Len(h) /\ Len(h) \in Nat
  <2>1. Len(c) = Len(h)
    BY ClosedIs
  <2> QED BY <2>1
<1>2. \A i \in 1..Len(h) : /\ c[i].payload = h[i].payload
                           /\ c[i].changed = h[i].changed
                           /\ c[i].notes = h[i].notes
                           /\ c[i].from = h[i].from
                           /\ i # Len(h) => c[i].to = h[i].to
  BY ClosedFields
<1> HIDE DEF c
<1>3. Meeting(c)
  <2> SUFFICES ASSUME NEW i \in 1..(Len(h) - 1)
               PROVE  c[i].to # None /\ c[i].from < c[i].to /\ c[i + 1].from = c[i].to
    BY <1>1 DEF Meeting
  <2>1. h[i].to # None /\ h[i].from < h[i].to /\ h[i + 1].from = h[i].to
    BY DEF Sound, Meeting
  <2>2. i \in 1..Len(h) /\ i + 1 \in 1..Len(h) /\ i # Len(h)
    BY <1>1
  <2> QED BY <1>2, <2>1, <2>2
<1>4. Ordered(c)
  <2> SUFFICES ASSUME NEW i \in 1..(Len(h) - 1)
               PROVE  Follows(c[i], c[i + 1])
    BY <1>1 DEF Ordered
  <2>1. Follows(h[i], h[i + 1])
    BY DEF Sound, Ordered
  <2>2. i \in 1..Len(h) /\ i + 1 \in 1..Len(h)
    BY <1>1
  <2> QED BY <1>2, <2>1, <2>2 DEF Follows
<1>5. Distinct(c)
  BY <1>1, <1>2 DEF Sound, Distinct
<1>6. Stamped(c)
  <2> SUFFICES ASSUME NEW i \in 1..Len(h), NEW j \in 1..Len(h), i < j,
                      \A m \in i..j : c[m].payload.stamp # None
               PROVE  c[i].payload.stamp <= c[j].payload.stamp
    BY <1>1 DEF Stamped
  <2>1. \A m \in i..j : h[m].payload.stamp # None
    BY <1>1, <1>2
  <2>2. h[i].payload.stamp <= h[j].payload.stamp
    BY <2>1 DEF Sound, Stamped
  <2> QED BY <1>2, <2>2
<1>7. Bought(k, c)
  <2>1. h # << >> => 1 \in 1..Len(h)
    BY LatestType
  <2> QED BY <1>1, <1>2, <2>1 DEF Sound, Bought
<1>8. ASSUME NEW g \in Seq(Version), Grown(g, h)
      PROVE  Grown(g, c)
  <2>1. Len(g) <= Len(c)
    BY <1>1, <1>8 DEF Grown
  <2>2. ASSUME NEW i \in 1..Len(g) PROVE Later(g[i], c[i])
    <3>1. i \in 1..Len(h) /\ Later(g[i], h[i])
      BY <1>1, <1>8 DEF Grown
    <3>2. i = Len(h) => g[i].to = None
      BY <3>1 DEF Later, LastOpen
    <3> QED BY <1>2, <3>1, <3>2 DEF Later
  <2> QED BY <2>1, <2>2 DEF Grown
<1> QED BY <1>3, <1>4, <1>5, <1>6, <1>7, <1>8 DEF Sound, c

(* Appending what may follow the last version, closed, keeps it sound.        *)
LEMMA AppendSound ==
  ASSUME NEW k \in Keys, NEW h \in Seq(Version), h # << >>, Sound(k, h), NEW v \in Version,
         h[Len(h)].to # None, h[Len(h)].from < h[Len(h)].to, v.from = h[Len(h)].to,
         v.to = None,
         Follows(h[Len(h)], v),
         \A i \in 1..Len(h) : h[i].payload.hash # v.payload.hash,
         k.native \in LocalKey => /\ h[1].payload.buyer = v.payload.buyer
                                  /\ k.by # None => v.payload.buyer = k.by
  PROVE  /\ Append(h, v) \in Seq(Version)
         /\ Len(Append(h, v)) = Len(h) + 1
         /\ Append(h, v)[Len(h) + 1] = v
         /\ Sound(k, Append(h, v))
         /\ LastOpen(Append(h, v))
         /\ \A g \in Seq(Version) : Grown(g, h) => Grown(g, Append(h, v))
<1> DEFINE n == Len(h)
           a == Append(h, v)
<1>1. n \in Nat \ {0} /\ a \in Seq(Version) /\ Len(a) = n + 1
  BY LatestType
<1>2. \A i \in 1..n : a[i] = h[i]
  OBVIOUS
<1>3. a[n + 1] = v
  OBVIOUS
<1> HIDE DEF a, n
<1>4. Meeting(a)
  <2> SUFFICES ASSUME NEW i \in 1..n
               PROVE  a[i].to # None /\ a[i].from < a[i].to /\ a[i + 1].from = a[i].to
    BY <1>1, SMTT(30) DEF Meeting
  <2>1. CASE i = n
    BY <1>1, <1>2, <1>3, <2>1 DEF n
  <2>2. CASE i # n
    <3>1. i \in 1..(Len(h) - 1) /\ i + 1 \in 1..n
      BY <1>1, <2>2 DEF n
    <3>2. h[i].to # None /\ h[i].from < h[i].to /\ h[i + 1].from = h[i].to
      BY <3>1 DEF Sound, Meeting
    <3> QED BY <1>2, <3>1, <3>2
  <2> QED BY <2>1, <2>2
<1>5. Ordered(a)
  <2> SUFFICES ASSUME NEW i \in 1..n
               PROVE  Follows(a[i], a[i + 1])
    BY <1>1 DEF Ordered
  <2>1. CASE i = n
    BY <1>1, <1>2, <1>3, <2>1 DEF n
  <2>2. CASE i # n
    <3>1. i \in 1..(Len(h) - 1) /\ i + 1 \in 1..n
      BY <1>1, <2>2 DEF n
    <3>2. Follows(h[i], h[i + 1])
      BY <3>1 DEF Sound, Ordered
    <3> QED BY <1>2, <3>1, <3>2
  <2> QED BY <2>1, <2>2
<1>6. Distinct(a)
  <2> SUFFICES ASSUME NEW i \in 1..(n + 1), NEW j \in 1..(n + 1),
                      a[i].payload.hash = a[j].payload.hash
               PROVE  i = j
    BY <1>1 DEF Distinct
  <2>1. \A m \in 1..(n + 1) : m = n + 1 \/ m \in 1..n
    BY <1>1
  <2>2. \A m \in 1..n : a[m].payload.hash # v.payload.hash
    BY <1>2 DEF n
  <2>3. CASE i \in 1..n /\ j \in 1..n
    BY <1>2, <2>3 DEF Sound, Distinct, n
  <2> QED BY <1>3, <2>1, <2>2, <2>3
<1>7. Stamped(a)
  <2> SUFFICES ASSUME NEW i \in 1..(n + 1), NEW j \in 1..(n + 1), i < j,
                      \A m \in i..j : a[m].payload.stamp # None
               PROVE  a[i].payload.stamp <= a[j].payload.stamp
    BY <1>1 DEF Stamped
  <2>1. CASE j \in 1..n
    <3>1. i \in 1..n /\ \A m \in i..j : m \in 1..n
      BY <1>1, <2>1
    <3>2. \A m \in i..j : h[m].payload.stamp # None
      BY <1>2, <3>1
    <3>3. h[i].payload.stamp <= h[j].payload.stamp
      BY <2>1, <3>1, <3>2 DEF Sound, Stamped, n
    <3> QED BY <1>2, <2>1, <3>1, <3>3
  <2>2. CASE j = n + 1
    <3>1. i \in 1..n /\ n \in i..j /\ j \in i..j
      BY <1>1, <2>2
    <3>2. h[n].payload.stamp # None /\ v.payload.stamp # None
      <4>1. a[n].payload.stamp # None /\ a[n + 1].payload.stamp # None
        BY <2>2, <3>1
      <4> QED BY <1>1, <1>2, <1>3, <4>1
    <3>3. h[n].payload.stamp \in Nat /\ v.payload.stamp \in Nat
      <4>1. h[n].payload \in Opportunity
        BY <1>1, VersionFields DEF n
      <4>2. v.payload \in Opportunity
        BY DEF Version
      <4> QED BY <3>2, <4>1, <4>2 DEF Opportunity, Maybe
    <3>4. h[n].payload.stamp <= v.payload.stamp
      BY <3>2, <3>3 DEF Follows, Older, n
    <3>5. h[i].payload.stamp <= h[n].payload.stamp /\ h[i].payload.stamp \in Nat
      <4>1. CASE i = n
        BY <3>3, <4>1
      <4>2. CASE i # n
        <5>1. \A m \in i..n : m \in 1..n /\ m \in i..j
          BY <1>1, <2>2, <3>1
        <5>2. \A m \in i..n : h[m].payload.stamp # None
          BY <1>2, <5>1
        <5>3. i < n /\ i \in 1..Len(h) /\ n \in 1..Len(h) /\ i \in i..n
          BY <1>1, <3>1, <4>2 DEF n
        <5>4. h[i].payload.stamp <= h[n].payload.stamp
          BY <5>2, <5>3 DEF Sound, Stamped
        <5>5. h[i].payload \in Opportunity
          BY <5>3, VersionFields
        <5> QED BY <5>2, <5>3, <5>4, <5>5 DEF Opportunity, Maybe
      <4> QED BY <4>1, <4>2
    <3>6. h[i].payload.stamp <= v.payload.stamp
      BY <3>3, <3>4, <3>5
    <3> QED BY <1>2, <1>3, <2>2, <3>1, <3>6
  <2> QED BY <1>1, <2>1, <2>2
<1>8. Bought(k, a)
  <2> SUFFICES ASSUME k.native \in LocalKey, NEW i \in 1..(n + 1)
               PROVE  /\ a[i].payload.buyer = a[1].payload.buyer
                      /\ k.by # None => a[i].payload.buyer = k.by
    BY <1>1 DEF Bought
  <2>1. 1 \in 1..n /\ a[1] = h[1]
    BY <1>1, <1>2
  <2>2. CASE i \in 1..n
    <3>1. h[i].payload.buyer = h[1].payload.buyer /\ (k.by # None => h[i].payload.buyer = k.by)
      BY <2>2 DEF Sound, Bought, n
    <3> QED BY <1>2, <2>1, <2>2, <3>1
  <2>3. CASE i = n + 1
    BY <1>3, <2>1, <2>3
  <2> QED BY <1>1, <2>2, <2>3
<1>9. LastOpen(a)
  BY <1>1, <1>3 DEF LastOpen
<1>10. ASSUME NEW g \in Seq(Version), Grown(g, h) PROVE Grown(g, a)
  BY <1>1, <1>2, <1>10 DEF Grown, n
<1> QED BY <1>1, <1>3, <1>4, <1>5, <1>6, <1>7, <1>8, <1>9, <1>10 DEF Sound, a, n

------------------------------------------------------------------------------
(* What a session sees, and what a step must show.                            *)

(* Outside append_version, what a session sees of a notice is fit to be       *)
(* committed.                                                                 *)
LEMMA ViewSound ==
  ASSUME IInv, NEW s \in Sessions, NEW k \in Keys, ~Appending(s, k)
  PROVE  /\ Versions(s, k) \in Seq(Version)
         /\ Sound(k, Versions(s, k))
         /\ LastOpen(Versions(s, k))
         /\ Grown(versions[k], Versions(s, k))
         /\ ServingRow(s, k) = None => Versions(s, k) = << >>
         /\ ServingRow(s, k) # None => Serves(Versions(s, k), ServingRow(s, k))
<1>1. Pair(k, txVersions[s][k], txRows[s][k])
  BY DEF IInv, Pending
<1>2. versions[k] \in Seq(Version) /\ Versions(s, k) \in Seq(Version)
  BY ViewTypes DEF IInv, TInv, TypeOK
<1>3. CASE txVersions[s][k] # None
  BY <1>1, <1>2, <1>3 DEF Pair, Versions, ServingRow, Coalesce
<1>4. CASE txVersions[s][k] = None
  <2>1. Versions(s, k) = versions[k]
    BY <1>4 DEF Versions
  <2>2. txRows[s][k] # None => Serves(versions[k], txRows[s][k])
    BY <1>1, <1>4 DEF Pair, Coalesce
  <2>3. /\ Sound(k, versions[k]) /\ LastOpen(versions[k])
        /\ rows[k] = None => versions[k] = << >>
        /\ rows[k] # None => Serves(versions[k], rows[k])
    BY DEF IInv, Committed
  <2>4. Grown(versions[k], versions[k])
    BY <1>2, GrownReflexive
  <2> QED BY <1>2, <2>1, <2>2, <2>3, <2>4 DEF ServingRow
<1> QED BY <1>3, <1>4

(* A session that commits nothing leaves the others as they are.              *)
LEMMA Bystander ==
  ASSUME NEW t \in Sessions, UNCHANGED tables, UNCHANGED Own(t), Pending(t) /\ Working(t)
  PROVE  (Pending(t) /\ Working(t))'
<1>1. Pending(t)'
  BY DEF Pending, Pair, Own, tables, Appending
<1>2. Working(t)'
  BY DEF Working, Reading, Closing, Appended, OfBuyer, NumberTaken, Versions, Own, tables
<1> QED BY <1>1, <1>2

(* A step of one session that commits nothing keeps the invariant if it keeps *)
(* what the invariant says of that session, and locks only what is free.      *)
LEMMA StepKeeps ==
  ASSUME IInv, TInv', NEW s \in Sessions, UNCHANGED tables,
         \A t \in Sessions \ {s} : UNCHANGED Own(t),
         \A k \in Keys :
           /\ txVersions'[s][k] # None => txVersions[s][k] # None \/ VersionHolders(s, k) = {}
           /\ txRows'[s][k] # None => txRows[s][k] # None \/ RowHolders(s, k) = {},
         (Pending(s) /\ Working(s))'
  PROVE  IInv'
<1>1. Committed'
  BY DEF IInv, Committed, tables
<1>2. Exclusive'
  <2> SUFFICES ASSUME NEW a \in Sessions, NEW b \in Sessions, a # b, NEW k \in Keys
               PROVE  /\ txVersions'[a][k] # None => txVersions'[b][k] = None
                      /\ txRows'[a][k] # None => txRows'[b][k] = None
    BY DEF Exclusive
  <2>1. \A t \in Sessions \ {s} : /\ txVersions'[t][k] = txVersions[t][k]
                                  /\ txRows'[t][k] = txRows[t][k]
    BY DEF Own
  <2>2. \A t \in Sessions \ {s} :
          /\ txVersions'[s][k] # None => txVersions[t][k] = None
          /\ txRows'[s][k] # None => txRows[t][k] = None
    BY DEF IInv, Exclusive, VersionHolders, RowHolders
  <2>3. /\ txVersions[a][k] # None => txVersions[b][k] = None
        /\ txRows[a][k] # None => txRows[b][k] = None
    BY DEF IInv, Exclusive
  <2> QED BY <2>1, <2>2, <2>3
<1>3. \A t \in Sessions \ {s} : (Pending(t) /\ Working(t))'
  BY Bystander DEF IInv
<1> QED BY <1>1, <1>2, <1>3 DEF IInv

(* A step that ends the work on a record, whatever it wrote.                  *)
LEMMA ReleasedKeeps ==
  ASSUME IInv, TInv', NEW s \in Sessions, UNCHANGED tables,
         \A t \in Sessions \ {s} : UNCHANGED Own(t),
         pc'[s] \in {"off", "idle"},
         \A k \in Keys :
           /\ spVersions'[s][k] = None /\ spRows'[s][k] = None
           /\ txVersions'[s][k] # None => txVersions[s][k] # None \/ VersionHolders(s, k) = {}
           /\ txRows'[s][k] # None => txRows[s][k] # None \/ RowHolders(s, k) = {}
           /\ Pair(k, txVersions[s][k], txRows[s][k])'
  PROVE  IInv'
<1>1. Pending(s)'
  BY DEF Pending, Pair
<1>2. Working(s)'
  BY DEF Working, Statements
<1> QED BY <1>1, <1>2, StepKeeps

LEMMA NothingPending ==
  ASSUME NEW k
  PROVE  Pair(k, None, None)
  BY DEF Pair

LEMMA RollbackIInv ==
  ASSUME IInv, TInv', NEW s \in Sessions, Rollback(s)
  PROVE  IInv'
<1>1. \A t \in Sessions \ {s} : UNCHANGED Own(t)
  BY DEF IInv, TInv, TypeOK, Rollback, Own
<1>2. \A k \in Keys : txVersions'[s][k] = None /\ spVersions'[s][k] = None
                   /\ txRows'[s][k] = None /\ spRows'[s][k] = None
  BY DEF IInv, TInv, TypeOK, Rollback, Untouched
<1>3. pc'[s] = "off"
  BY DEF IInv, TInv, TypeOK, Rollback
<1>4. \A k \in Keys : Pair(k, txVersions[s][k], txRows[s][k])'
  BY <1>2 DEF Pair
<1> QED BY <1>1, <1>2, <1>3, <1>4, ReleasedKeeps DEF Rollback

LEMMA QuarantineIInv ==
  ASSUME IInv, TInv', NEW s \in Sessions, Quarantine(s)
  PROVE  IInv'
<1>1. \A t \in Sessions \ {s} : UNCHANGED Own(t)
  BY DEF IInv, TInv, TypeOK, Quarantine, Release, Own
<1>2. \A k \in Keys : /\ txVersions'[s][k] = spVersions[s][k] /\ txRows'[s][k] = spRows[s][k]
                     /\ spVersions'[s][k] = None /\ spRows'[s][k] = None
  BY DEF IInv, TInv, TypeOK, Quarantine, Release, Untouched
<1>3. pc'[s] = "idle" /\ UNCHANGED tables
  BY DEF IInv, TInv, TypeOK, Quarantine, Release
<1>4. \A k \in Keys : Pair(k, txVersions[s][k], txRows[s][k])'
  <2> TAKE k \in Keys
  <2>1. Pair(k, spVersions[s][k], spRows[s][k])
    BY DEF IInv, Pending
  <2> QED BY <1>2, <1>3, <2>1 DEF Pair, tables
<1>5. \A k \in Keys : /\ spVersions[s][k] # None => txVersions[s][k] # None
                      /\ spRows[s][k] # None => txRows[s][k] # None
  BY DEF IInv, Pending
<1> QED BY <1>1, <1>2, <1>3, <1>4, <1>5, ReleasedKeeps

LEMMA RecordErrorIInv ==
  ASSUME IInv, TInv', NEW s \in Sessions, RecordError(s)
  PROVE  IInv'
  BY RollbackIInv, QuarantineIInv DEF RecordError

(* A record found unchanged, or stale: nothing is written.                    *)
LEMMA ReleaseIInv ==
  ASSUME IInv, TInv', NEW s \in Sessions, Release(s), \A k \in Keys : ~Appending(s, k),
         UNCHANGED <<tables, txVersions, txRows>>
  PROVE  IInv'
<1>1. \A t \in Sessions \ {s} : UNCHANGED Own(t)
  BY DEF IInv, TInv, TypeOK, Release, Own
<1>2. \A k \in Keys : spVersions'[s][k] = None /\ spRows'[s][k] = None
  BY DEF IInv, TInv, TypeOK, Release, Untouched
<1>3. pc'[s] = "idle"
  BY DEF IInv, TInv, TypeOK, Release
<1>4. \A k \in Keys : Pair(k, txVersions[s][k], txRows[s][k])'
  <2> TAKE k \in Keys
  <2>1. Pair(k, txVersions[s][k], txRows[s][k])
    BY DEF IInv, Pending
  <2> QED BY <2>1 DEF Pair, tables
<1> QED BY <1>1, <1>2, <1>3, <1>4, ReleasedKeeps

(* A statement of a record that goes on, and writes nothing.                  *)
LEMMA ReadKeeps ==
  ASSUME IInv, TInv', NEW s \in Sessions, UNCHANGED <<tables, tx>>,
         \A t \in Sessions \ {s} : pc'[t] = pc[t] /\ task'[t] = task[t],
         pc[s] \notin {"off", "idle", "insert", "serve"},
         pc'[s] \notin {"off", "idle"},
         Working(s)'
  PROVE  IInv'
<1>1. \A t \in Sessions \ {s} : UNCHANGED Own(t)
  BY DEF Own, tx
<1>2. Pending(s)'
  BY DEF IInv, Pending, Pair, Appending, tables, tx
<1> QED BY <1>1, <1>2, StepKeeps DEF tx

------------------------------------------------------------------------------
(* One lemma for each action.                                                 *)

LEMMA StartRunIInv ==
  ASSUME IInv, TInv', NEW s \in Sessions, StartRun(s)
  PROVE  IInv'
<1>1. \A t \in Sessions \ {s} : UNCHANGED Own(t)
  BY DEF IInv, TInv, TypeOK, StartRun, Own, tx
<1>2. pc'[s] = "idle"
  BY DEF IInv, TInv, TypeOK, StartRun
<1>3. \A k \in Keys : /\ spVersions'[s][k] = None /\ spRows'[s][k] = None
                      /\ Pair(k, txVersions[s][k], txRows[s][k])'
  BY DEF IInv, Pending, StartRun, Appending, Pair, tx, tables
<1> QED BY <1>1, <1>2, <1>3, ReleasedKeeps DEF StartRun, tx

LEMMA MapRecordIInv ==
  ASSUME IInv, TInv', NEW s \in Sessions, MapRecord(s)
  PROVE  IInv'
<1>1. CASE Rollback(s)
  BY <1>1, RollbackIInv
<1>2. CASE UNCHANGED <<tables, tx, pc, task>>
  <2>1. \A t \in Sessions : UNCHANGED Own(t)
    BY <1>2 DEF Own, tx
  <2>2. \A t \in Sessions : (Pending(t) /\ Working(t))'
    BY <1>2, <2>1, Bystander DEF IInv
  <2> QED BY <1>2, <2>1, <2>2, StepKeeps DEF tx
<1> QED BY <1>1, <1>2 DEF MapRecord

(* The first version of a history is of the buyer the latest is of.           *)
LEMMA FirstBuyer ==
  ASSUME NEW k \in Keys, NEW h \in Seq(Version), h # << >>, Sound(k, h), k.native \in LocalKey
  PROVE  /\ h[1].payload.buyer = h[Len(h)].payload.buyer
         /\ k.by # None => h[1].payload.buyer = k.by
<1>1. Len(h) \in 1..Len(h) /\ 1 \in 1..Len(h)
  BY LatestType
<1> QED BY <1>1 DEF Sound, Bought

LEMMA LookUpIInv ==
  ASSUME IInv, TInv', NEW s \in Sessions, LookUp(s)
  PROVE  IInv'
<1>1. PICK r \in left[s] :
        LET opp  == Dated(r)
            key  == HeldUnder(s, r)
            held == ServingRow(s, key)
            asks == /\ held # None
                    /\ opp.published = None
                    /\ held.payload.published # None
                    /\ r.native \in LocalKey
        IN /\ pc' = [pc EXCEPT ![s] = IF held = None THEN "create"
                                      ELSE IF asks THEN "carry" ELSE "latest"]
           /\ task' = [task EXCEPT ![s] =
                [opp |-> opp, key |-> key, held |-> IF asks THEN held ELSE None,
                 prev |-> None, after |-> 0, at |-> None]]
  BY DEF LookUp
<1> DEFINE key == HeldUnder(s, r)
           h   == Versions(s, key)
<1>2. r \in Opportunity /\ key \in Keys
  BY HeldUnderType DEF IInv, TInv, TypeOK
<1>3. pc[s] = "idle" /\ \A k \in Keys : ~Appending(s, k)
  BY DEF LookUp, Appending
<1>4. /\ task'[s].key = key /\ task'[s].opp = Dated(r)
      /\ pc'[s] \in {"create", "carry", "latest"}
      /\ pc'[s] # "create" => ServingRow(s, key) # None
  BY <1>1 DEF IInv, TInv, TypeOK
<1>5. Dated(r).buyer = r.buyer
  BY <1>2 DEF Dated, Opportunity
<1>6. \A k \in Keys :
        /\ txVersions'[s][k] = txVersions[s][k] /\ txRows'[s][k] = txRows[s][k]
        /\ spVersions'[s][k] = txVersions[s][k] /\ spRows'[s][k] = txRows[s][k]
        /\ UNCHANGED tables
        /\ Versions(s, k)' = Versions(s, k)
  BY DEF LookUp, IInv, TInv, TypeOK, tables, Versions
<1>7. \A t \in Sessions \ {s} : UNCHANGED Own(t)
  BY <1>1 DEF LookUp, IInv, TInv, TypeOK, Own
<1>8. Pending(s)'
  <2>1. \A k \in Keys : Pair(k, txVersions[s][k], txRows[s][k])
    BY <1>3 DEF IInv, Pending
  <2>2. \A k \in Keys : Pair(k, txVersions[s][k], txRows[s][k])' /\ Pair(k, spVersions[s][k], spRows[s][k])'
    BY <1>6, <2>1 DEF Pair, tables
  <2> QED BY <1>4, <1>6, <2>2 DEF Pending
<1>9. ASSUME key.native \in LocalKey
      PROVE  /\ key.by # None => r.buyer = key.by
             /\ ServingRow(s, key) # None => h[1].payload.buyer = r.buyer
  <2>1. key.by # None => r.buyer = key.by
    BY DEF HeldUnder
  <2>2. ASSUME ServingRow(s, key) # None
        PROVE  h[1].payload.buyer = r.buyer
    <3>1. /\ h \in Seq(Version) /\ h # << >> /\ Sound(key, h)
          /\ ServingRow(s, key).payload = h[Len(h)].payload
      BY <1>2, <1>3, <2>2, ViewSound DEF Serves
    <3>2. /\ h[1].payload.buyer = h[Len(h)].payload.buyer
          /\ key.by # None => h[1].payload.buyer = key.by
      BY <1>2, <1>9, <3>1, FirstBuyer
    <3>3. CASE key.by # None
      BY <2>1, <3>2, <3>3
    <3>4. CASE key.by = None
      <4>1. r.buyer # None
        BY <1>2, ArchiveAssumption DEF ArchiveAssumption, Opportunity
      <4>2. key.native = r.native
        BY DEF HeldUnder
      <4>3. key = [native |-> r.native, by |-> None]
        BY <3>4, <4>1 DEF HeldUnder
      <4>4. ServingRow(s, key).payload.buyer = r.buyer
        BY <1>9, <2>2, <3>4, <4>1, <4>2, <4>3 DEF HeldUnder
      <4> QED BY <3>1, <3>2, <4>4
    <3> QED BY <3>3, <3>4
  <2> QED BY <2>1, <2>2
<1>10. Working(s)'
  <2>1. OfBuyer(s)'
    <3>1. Versions(s, task[s].key)' = h
      BY <1>2, <1>4, <1>6 DEF Versions
    <3> QED BY <1>4, <1>5, <1>9, <3>1 DEF OfBuyer
  <2> QED BY <1>4, <2>1 DEF Working
<1> QED BY <1>2, <1>6, <1>7, <1>8, <1>10, StepKeeps

LEMMA CarryIInv ==
  ASSUME IInv, TInv', NEW s \in Sessions, Carry(s)
  PROVE  IInv'
<1>1. pc[s] = "carry" /\ pc[s] \in Statements /\ UNCHANGED <<tables, tx>>
  BY DEF Carry, Statements
<1>2. task[s] \in Task /\ task[s].opp \in Opportunity
  BY <1>1, InWork DEF IInv
<1>3. task'[s].key = task[s].key /\ task'[s].opp.buyer = task[s].opp.buyer
  <2>1. PICK d : task' = [task EXCEPT ![s] = [task[s] EXCEPT !.opp = [task[s].opp EXCEPT !.published = d],
                                                             !.held = None]]
    BY DEF Carry
  <2>2. task'[s] = [task[s] EXCEPT !.opp = [task[s].opp EXCEPT !.published = d], !.held = None]
    BY <2>1 DEF IInv, TInv, TypeOK
  <2>3. task'[s].key = task[s].key /\ task'[s].opp = [task[s].opp EXCEPT !.published = d]
    BY <1>2, <2>2 DEF Task
  <2> QED BY <1>2, <2>3 DEF Opportunity
<1>4. pc'[s] = "latest" /\ \A t \in Sessions \ {s} : pc'[t] = pc[t] /\ task'[t] = task[t]
  BY DEF Carry, IInv, TInv, TypeOK
<1>5. OfBuyer(s)
  BY <1>1 DEF IInv, Working
<1>6. Versions(s, task[s].key)' = Versions(s, task[s].key)
  BY <1>1, <1>3 DEF Versions, tables, tx
<1>7. Working(s)'
  BY <1>1, <1>3, <1>4, <1>5, <1>6 DEF Working, OfBuyer
<1> QED BY <1>1, <1>4, <1>7, ReadKeeps

LEMMA ReadLatestIInv ==
  ASSUME IInv, TInv', NEW s \in Sessions, ReadLatest(s)
  PROVE  IInv'
<1> DEFINE t == task[s]
           h == Versions(s, t.key)
<1>1. pc[s] = "latest" /\ pc[s] \in Statements
  BY DEF ReadLatest, Statements
<1>2. /\ t \in Task /\ t.key \in Keys /\ h \in Seq(Version) /\ h # << >>
  BY <1>1, InWork DEF IInv
<1>3. CASE Release(s)
  BY <1>1, <1>3, ReleaseIInv DEF ReadLatest, Appending
<1>4. CASE /\ pc' = [pc EXCEPT ![s] = "seen"]
           /\ task' = [task EXCEPT ![s] = [t EXCEPT !.prev = Latest(s, t.key).payload, !.after = Len(h)]]
           /\ UNCHANGED <<spVersions, spRows>>
  <2>1. UNCHANGED <<tables, tx>>
    BY <1>4 DEF ReadLatest, tx
  <2>2. /\ task'[s].key = t.key /\ task'[s].opp = t.opp
        /\ task'[s].prev = h[Len(h)].payload /\ task'[s].after = Len(h)
    BY <1>2, <1>4 DEF IInv, TInv, TypeOK, Task, Latest, LatestVersion
  <2>3. pc'[s] = "seen" /\ \A u \in Sessions \ {s} : pc'[u] = pc[u] /\ task'[u] = task[u]
    BY <1>4 DEF IInv, TInv, TypeOK
  <2>4. Versions(s, task[s].key)' = h
    BY <2>1, <2>2 DEF Versions, tables, tx
  <2>5. OfBuyer(s)'
    BY <1>1, <2>2, <2>3, <2>4 DEF IInv, Working, OfBuyer
  <2>6. Reading(s)'
    <3>1. Len(h) \in 1..Len(h)
      BY <1>2, LatestType
    <3> QED BY <2>2, <2>3, <2>4, <3>1 DEF Reading
  <2>7. Working(s)'
    BY <2>3, <2>5, <2>6 DEF Working
  <2> QED BY <1>1, <2>1, <2>3, <2>7, ReadKeeps
<1> QED BY <1>3, <1>4 DEF ReadLatest

LEMMA CompareIInv ==
  ASSUME IInv, TInv', NEW s \in Sessions, Compare(s)
  PROVE  IInv'
<1> DEFINE t == task[s]
           h == Versions(s, t.key)
<1>1. pc[s] = "seen" /\ pc[s] \in Statements
  BY DEF Compare, Statements
<1>2. /\ t \in Task /\ t.key \in Keys /\ h \in Seq(Version) /\ h # << >>
  BY <1>1, InWork DEF IInv
<1>3. CASE Release(s)
  BY <1>1, <1>3, ReleaseIInv DEF Compare, Appending
<1>4. CASE /\ ~IsArchived(h, t.opp) /\ ~Older(t.opp, t.prev)
           /\ pc' = [pc EXCEPT ![s] = IF changed_fields(t.prev, t.opp) = {} THEN "attrs" ELSE "close"]
           /\ UNCHANGED <<task, spVersions, spRows>>
  <2>1. UNCHANGED <<tables, tx>> /\ UNCHANGED task
    BY <1>4 DEF Compare, tx
  <2>2. /\ pc'[s] \in {"attrs", "close"}
        /\ pc'[s] = "close" => changed_fields(t.prev, t.opp) # {}
        /\ \A u \in Sessions \ {s} : pc'[u] = pc[u] /\ task'[u] = task[u]
    BY <1>4 DEF IInv, TInv, TypeOK
  <2>3. Versions(s, task[s].key)' = h
    BY <2>1 DEF Versions, tables, tx
  <2>4. OfBuyer(s)'
    BY <1>1, <2>1, <2>2, <2>3 DEF IInv, Working, OfBuyer
  <2>5. Reading(s)'
    <3>1. t.after \in 1..Len(h) /\ t.prev = h[t.after].payload
      BY <1>1 DEF IInv, Working, Reading
    <3>2. \A i \in 1..t.after : h[i].payload.hash # t.opp.hash
      BY <1>2, <1>4, <3>1 DEF IsArchived
    <3> QED BY <1>4, <2>1, <2>2, <2>3, <3>1, <3>2 DEF Reading
  <2>6. Working(s)'
    BY <2>2, <2>4, <2>5 DEF Working
  <2> QED BY <1>1, <2>1, <2>2, <2>6, ReadKeeps
<1> QED BY <1>3, <1>4 DEF Compare

(* What Release leaves of the savepoint.                                      *)
LEMMA Released ==
  ASSUME IInv, NEW s \in Sessions, Release(s)
  PROVE  /\ pc'[s] = "idle"
         /\ \A k \in Keys : spVersions'[s][k] = None /\ spRows'[s][k] = None
         /\ \A t \in Sessions \ {s} : /\ pc'[t] = pc[t] /\ task'[t] = task[t]
                                      /\ spVersions'[t] = spVersions[t]
                                      /\ spRows'[t] = spRows[t]
  BY DEF IInv, TInv, TypeOK, Release, Untouched

LEMMA WriteAttributesIInv ==
  ASSUME IInv, TInv', NEW s \in Sessions, WriteAttributes(s)
  PROVE  IInv'
<1> DEFINE t     == task[s]
           key   == t.key
           row   == ServingRow(s, key)
           moves == t.opp.noted # None /\ Newer(t.prev, t.opp)
           new   == [row EXCEPT !.link  = AttributeLink(row, t.opp),
                                !.noted = IF moves THEN t.opp.noted ELSE row.noted,
                                !.dated = IF moves THEN t.opp.stamp ELSE row.dated]
<1>1. pc[s] = "attrs" /\ pc[s] \in Statements \ {"create"} /\ \A k \in Keys : ~Appending(s, k)
  BY DEF WriteAttributes, Statements, Appending
<1>2. key \in Keys /\ row \in Row
  BY <1>1, InWork DEF IInv
<1>3. new.current = row.current /\ new.payload = row.payload /\ new # None
  <2>1. new.current = row.current /\ new.payload = row.payload
    BY <1>2 DEF Row
  <2>2. new \in Row
    <3>1. t.opp \in Opportunity /\ moves \in BOOLEAN
      BY <1>1, InWork DEF IInv, Newer
    <3> HIDE DEF t, row, moves
    <3> QED BY <1>2, <3>1, AttributesType DEF new
  <2> HIDE DEF new
  <2> QED BY <2>1, <2>2, NoneIsNothing
<1> HIDE DEF new
<1>4. UNCHANGED <<tables, txVersions>> /\ Release(s) /\ RowHolders(s, key) = {}
      /\ txRows' = Written(txRows, s, key, new)
  BY DEF WriteAttributes, new
<1>5. \A k \in Keys : txRows'[s][k] = IF k = key THEN new ELSE txRows[s][k]
  BY <1>2, <1>4 DEF IInv, TInv, TypeOK, Written
<1>6. \A u \in Sessions \ {s} : UNCHANGED Own(u)
  BY <1>4, Released DEF IInv, TInv, TypeOK, Written, Own
<1>7. \A k \in Keys : Pair(k, txVersions[s][k], txRows[s][k])'
  <2> TAKE k \in Keys
  <2>1. Pair(k, txVersions[s][k], txRows[s][k])
    BY <1>1 DEF IInv, Pending
  <2>2. CASE k # key
    BY <1>4, <1>5, <2>1, <2>2 DEF Pair, tables
  <2>3. CASE k = key
    <3>1. Serves(Versions(s, key), row)
      BY <1>1, <1>2, NoneIsNothing, ViewSound
    <3>2. Serves(Coalesce(txVersions[s][key], versions[key]), new)
      BY <1>3, <3>1 DEF Serves, Versions, Coalesce
    <3>3. txRows'[s][k] = new /\ txVersions'[s][k] = txVersions[s][k] /\ versions'[k] = versions[k]
      BY <1>4, <1>5, <2>3 DEF tables
    <3> QED BY <1>3, <2>1, <2>3, <3>2, <3>3 DEF Pair
  <2> QED BY <2>2, <2>3
<1> QED BY <1>4, <1>5, <1>6, <1>7, Released, ReleasedKeeps

(* The first version of a notice is a sound history.                          *)
LEMMA FirstSound ==
  ASSUME NEW k \in Keys, NEW v \in Version, v.to = None,
         k.native \in LocalKey /\ k.by # None => v.payload.buyer = k.by
  PROVE  /\ Sound(k, <<v>>) /\ LastOpen(<<v>>) /\ Grown(<< >>, <<v>>)
         /\ <<v>> \in Seq(Version) /\ <<v>> # << >> /\ Len(<<v>>) = 1 /\ <<v>>[1] = v
<1> DEFINE h == <<v>>
<1>1. h \in Seq(Version) /\ Len(h) = 1 /\ h[1] = v /\ h # << >>
  OBVIOUS
<1> HIDE DEF h
<1>2. \A i \in 1..Len(h) : i = 1
  BY <1>1
<1>3. Meeting(h) /\ Ordered(h)
  BY <1>1 DEF Meeting, Ordered
<1>4. Distinct(h) /\ Stamped(h) /\ Bought(k, h)
  BY <1>1, <1>2 DEF Distinct, Stamped, Bought
<1>5. LastOpen(h) /\ Grown(<< >>, h)
  BY <1>1 DEF LastOpen, Grown
<1> QED BY <1>1, <1>3, <1>4, <1>5 DEF Sound, h

LEMMA CreateIInv ==
  ASSUME IInv, TInv', NEW s \in Sessions, Create(s)
  PROVE  IInv'
<1> DEFINE key   == task[s].key
           p     == task[s].opp
           row   == [payload |-> p, current |-> 1, noted |-> p.noted, dated |-> p.stamp, link |-> p.link]
           first == [payload |-> p, changed |-> {},
                     notes |-> IF s \in Loads THEN {"history"} ELSE {}, from |-> 0, to |-> None]
<1>1. pc[s] = "create" /\ pc[s] \in Statements /\ \A k \in Keys : ~Appending(s, k)
  BY DEF Create, Statements, Appending
<1>2. key \in Keys /\ p \in Opportunity
  BY <1>1, InWork DEF IInv
<1>3. CASE RecordError(s)
  BY <1>3, RecordErrorIInv
<1>4. CASE ~RecordError(s)
  <2>1. /\ ServingRow(s, key) = None /\ RowHolders(s, key) = {}
        /\ Release(s) /\ UNCHANGED tables
        /\ txRows' = Written(txRows, s, key, row)
        /\ txVersions' = Written(txVersions, s, key, <<first>>)
    BY <1>4 DEF Create
  <2>2. first \in Version /\ first.to = None /\ first.payload = p
    BY <1>2 DEF Version, Maybe, Kinds
  <2>3. row \in Row /\ row.current = 1 /\ row.payload = p
    BY <1>2 DEF Row, Opportunity
  <2> HIDE DEF row, first
  <2>4. \A k \in Keys : /\ txRows'[s][k] = IF k = key THEN row ELSE txRows[s][k]
                        /\ txVersions'[s][k] = IF k = key THEN <<first>> ELSE txVersions[s][k]
    BY <1>2, <2>1 DEF IInv, TInv, TypeOK, Written
  <2>5. \A u \in Sessions \ {s} : UNCHANGED Own(u)
    BY <2>1, Released DEF IInv, TInv, TypeOK, Written, Own
  <2>6. versions[key] = << >>
    <3>1. /\ Versions(s, key) = << >> /\ Grown(versions[key], Versions(s, key))
          /\ versions[key] \in Seq(Version)
      BY <1>1, <1>2, <2>1, ViewSound DEF IInv, TInv, TypeOK
    <3>2. Len(versions[key]) = 0
      BY <3>1 DEF Grown
    <3> QED BY <3>1, <3>2
  <2>7. VersionHolders(s, key) = {}
    <3> SUFFICES ASSUME NEW u \in Sessions \ {s}, txVersions[u][key] # None PROVE FALSE
      BY DEF VersionHolders
    <3>1. txRows[u][key] = None /\ rows[key] = None
      BY <1>2, <2>1 DEF RowHolders, ServingRow
    <3>2. CASE Appending(u, key)
      <4>1. ServingRow(u, key) # None
        BY <3>2 DEF IInv, TInv, TaskOK, Appending, Statements
      <4> QED BY <3>1, <4>1 DEF ServingRow
    <3>3. CASE ~Appending(u, key)
      BY <1>2, <3>1, <3>3 DEF IInv, Pending, Pair
    <3> QED BY <3>2, <3>3
  <2>8. Pair(key, <<first>>, row)
    <3>1. key.native \in LocalKey /\ key.by # None => p.buyer = key.by
      BY <1>1 DEF IInv, Working, OfBuyer
    <3>2. /\ Sound(key, <<first>>) /\ LastOpen(<<first>>) /\ Grown(<< >>, <<first>>)
          /\ <<first>> \in Seq(Version) /\ <<first>> # << >> /\ Len(<<first>>) = 1 /\ <<first>>[1] = first
      BY <1>2, <2>2, <3>1, FirstSound
    <3>3. row # None /\ <<first>> # None
      BY <2>3, <3>2, ArchiveAssumption DEF ArchiveAssumption
    <3>4. Serves(<<first>>, row)
      BY <2>2, <2>3, <3>2 DEF Serves
    <3> QED BY <2>6, <3>2, <3>3, <3>4 DEF Pair, Coalesce
  <2>9. \A k \in Keys : Pair(k, txVersions[s][k], txRows[s][k])'
    <3> TAKE k \in Keys
    <3>1. Pair(k, txVersions[s][k], txRows[s][k])
      BY <1>1 DEF IInv, Pending
    <3>2. CASE k # key
      BY <2>1, <2>4, <3>1, <3>2 DEF Pair, tables
    <3>3. CASE k = key
      <4>1. txVersions'[s][k] = <<first>> /\ txRows'[s][k] = row /\ versions'[k] = versions[k]
        BY <2>1, <2>4, <3>3 DEF tables
      <4> QED BY <2>8, <3>3, <4>1 DEF Pair
    <3> QED BY <3>2, <3>3
  <2> QED BY <2>1, <2>4, <2>5, <2>7, <2>9, Released, ReleasedKeeps
<1> QED BY <1>3, <1>4

LEMMA CloseOpenIInv ==
  ASSUME IInv, TInv', NEW s \in Sessions, CloseOpen(s)
  PROVE  IInv'
<1> DEFINE t   == task[s]
           key == t.key
           h   == Versions(s, key)
           at  == Latest(s, key).from + 1
           c   == Closed(h, at)
<1>1. pc[s] = "close" /\ pc[s] \in Statements \ {"create"} /\ \A k \in Keys : ~Appending(s, k)
  BY DEF CloseOpen, Statements, Appending
<1>2. t \in Task /\ key \in Keys /\ h \in Seq(Version) /\ h # << >>
  BY <1>1, InWork DEF IInv
<1>3. Sound(key, h) /\ LastOpen(h) /\ Grown(versions[key], h)
  BY <1>1, <1>2, ViewSound
<1>4. /\ pc'[s] = "insert" /\ UNCHANGED <<tables, txRows, spVersions, spRows>>
      /\ VersionHolders(s, key) = {}
      /\ \A u \in Sessions \ {s} : pc'[u] = pc[u]
  BY DEF CloseOpen, IInv, TInv, TypeOK
<1>5. /\ t.after \in 1..Len(h) /\ t.prev = h[t.after].payload
      /\ ~Older(t.opp, t.prev) /\ changed_fields(t.prev, t.opp) # {}
      /\ \A i \in 1..t.after : h[i].payload.hash # t.opp.hash
  BY <1>1 DEF IInv, Working, Reading
<1>6. OfBuyer(s)
  BY <1>1 DEF IInv, Working
<1>7. CASE /\ txVersions' = Written(txVersions, s, key, c)
           /\ task' = [task EXCEPT ![s] = [t EXCEPT !.at = at]]
  <2>1. h[Len(h)] \in Version /\ at = h[Len(h)].from + 1 /\ h[Len(h)].from \in Nat /\ at \in Nat
    <3>1. Latest(s, key) = h[Len(h)]
      BY DEF Latest, LatestVersion
    <3>2. h[Len(h)] \in Version
      <4> HIDE DEF h
      <4> QED BY <1>2, LatestType
    <3> QED BY <3>1, <3>2 DEF Version
  <2> HIDE DEF h, at
  <2>2. /\ c \in Seq(Version) /\ Len(c) = Len(h) /\ Sound(key, c) /\ Grown(versions[key], c)
        /\ \A i \in 1..Len(h) : c[i].payload = h[i].payload /\ c[i].from = h[i].from
        /\ c[Len(h)].to = at
    <3>1. versions[key] \in Seq(Version)
      BY <1>2 DEF IInv, TInv, TypeOK
    <3>2. c \in Seq(Version) /\ Len(c) = Len(h)
      BY <1>2, <1>3, <2>1, ClosedIs
    <3>3. /\ \A i \in 1..Len(h) : c[i].payload = h[i].payload /\ c[i].from = h[i].from
          /\ c[Len(h)].to = at
      BY <1>2, <1>3, <2>1, ClosedFields
    <3>4. Sound(key, c) /\ Grown(versions[key], c)
      BY <1>2, <1>3, <2>1, <3>1, ClosedSound
    <3> QED BY <3>2, <3>3, <3>4
  <2> HIDE DEF c
  <2>3. \A k \in Keys : txVersions'[s][k] = IF k = key THEN c ELSE txVersions[s][k]
    BY <1>2, <1>7 DEF IInv, TInv, TypeOK, Written
  <2>4. /\ task'[s].key = key /\ task'[s].at = at /\ task'[s].opp = t.opp
        /\ task'[s].prev = t.prev /\ task'[s].after = t.after
        /\ \A u \in Sessions \ {s} : task'[u] = task[u]
    BY <1>2, <1>7 DEF IInv, TInv, TypeOK, Task
  <2>5. \A u \in Sessions \ {s} : UNCHANGED Own(u)
    BY <1>4, <1>7, <2>4 DEF IInv, TInv, TypeOK, Written, Own
  <2>6. c # None
    BY <2>2, ArchiveAssumption DEF ArchiveAssumption
  <2>7. Pending(s)'
    <3>1. \A k \in Keys : k # key => Pair(k, txVersions[s][k], txRows[s][k])
      BY <1>1 DEF IInv, Pending
    <3>2. \A k \in Keys : /\ spVersions[s][k] # None => txVersions[s][k] # None
                          /\ spRows[s][k] # None => txRows[s][k] # None
                          /\ Pair(k, spVersions[s][k], spRows[s][k])
      BY DEF IInv, Pending
    <3>3. \A k \in Keys : Pair(k, spVersions[s][k], spRows[s][k])'
      BY <1>4, <3>2 DEF Pair, tables
    <3>4. \A k \in Keys : ~Appending(s, k)' => Pair(k, txVersions[s][k], txRows[s][k])'
      BY <1>4, <2>3, <2>4, <3>1 DEF Appending, Pair, tables
    <3>5. \A k \in Keys : /\ spVersions'[s][k] # None => txVersions'[s][k] # None
                          /\ spRows'[s][k] # None => txRows'[s][k] # None
      BY <1>4, <2>3, <2>6, <3>2
    <3> QED BY <1>4, <3>3, <3>4, <3>5 DEF Pending
  <2>8. Versions(s, task[s].key)' = c /\ txVersions'[s][key] = c
    BY <1>2, <2>3, <2>4, <2>6 DEF Versions
  <2>9. 1 \in 1..Len(h) /\ Len(h) \in 1..Len(h)
    BY <1>2, LatestType DEF h
  <2>10. OfBuyer(s)'
    <3>1. c[1].payload = h[1].payload
      BY <2>2, <2>9
    <3>2. key.native \in LocalKey => h[1].payload.buyer = t.opp.buyer /\ (key.by # None => t.opp.buyer = key.by)
      BY <1>1, <1>6 DEF OfBuyer, h
    <3> QED BY <2>4, <2>8, <3>1, <3>2 DEF OfBuyer
  <2>11. Reading(s)'
    BY <1>4, <1>5, <2>2, <2>4, <2>8 DEF Reading
  <2>12. Closing(s)'
    <3>1. at # None /\ c[Len(c)].to = at /\ c[Len(c)].from < at
      <4>1. c[Len(h)].from = h[Len(h)].from
        BY <2>2, <2>9
      <4>2. at # None
        BY <2>1, NoneIsNothing
      <4> QED BY <2>1, <2>2, <4>1, <4>2
    <3> QED BY <1>4, <2>2, <2>4, <2>6, <2>8, <3>1 DEF Closing, Sound, tables
  <2>13. Working(s)'
    BY <1>4, <2>10, <2>11, <2>12 DEF Working
  <2> QED BY <1>4, <2>3, <2>5, <2>7, <2>13, StepKeeps
<1>8. CASE UNCHANGED <<task, txVersions>> /\ Len(h) > t.after
  <2>1. \A u \in Sessions \ {s} : UNCHANGED Own(u)
    BY <1>4, <1>8 DEF Own
  <2>2. UNCHANGED <<tables, tx>> /\ \A u \in Sessions \ {s} : pc'[u] = pc[u] /\ task'[u] = task[u]
    BY <1>4, <1>8 DEF tx
  <2>3. Versions(s, task[s].key)' = h
    BY <1>8, <2>2 DEF Versions, tables
  <2>4. OfBuyer(s)' /\ Reading(s)'
    BY <1>1, <1>4, <1>5, <1>6, <1>8, <2>3 DEF OfBuyer, Reading
  <2>5. Closing(s)'
    BY <1>8, <2>3 DEF Closing, NumberTaken
  <2>6. Working(s)'
    BY <1>4, <2>4, <2>5 DEF Working
  <2> QED BY <1>1, <1>4, <2>2, <2>6, ReadKeeps
<1> QED BY <1>7, <1>8 DEF CloseOpen

LEMMA InsertVersionIInv ==
  ASSUME IInv, TInv', NEW s \in Sessions, InsertVersion(s)
  PROVE  IInv'
<1> DEFINE t    == task[s]
           key  == t.key
           h    == Versions(s, key)
           last == h[Len(h)]
           from == Coalesce(t.at, Latest(s, key).from + 1)
           v    == [payload |-> t.opp, changed |-> changed_fields(t.prev, t.opp),
                    notes |-> VersionNotes(s, t.prev, t.opp), from |-> from, to |-> None]
           a    == Append(h, v)
<1>1. pc[s] = "insert" /\ pc[s] \in Statements \ {"create"}
  BY DEF InsertVersion, Statements
<1>2. t \in Task /\ key \in Keys /\ t.opp \in Opportunity /\ t.at \in Maybe(Nat)
      /\ h \in Seq(Version) /\ h # << >>
  BY <1>1, InWork DEF IInv
<1>3. CASE RecordError(s)
  BY <1>3, RecordErrorIInv
<1>4. CASE ~RecordError(s)
  <2>1. /\ ~NumberTaken(s)
        /\ txVersions' = Written(txVersions, s, key, a)
        /\ pc' = [pc EXCEPT ![s] = "serve"]
        /\ UNCHANGED <<tables, txRows, spVersions, spRows, task>>
    BY <1>4 DEF InsertVersion
  <2>2. /\ t.after \in 1..Len(h) /\ t.prev = h[t.after].payload
        /\ ~Older(t.opp, t.prev) /\ changed_fields(t.prev, t.opp) # {}
        /\ \A i \in 1..t.after : h[i].payload.hash # t.opp.hash
    BY <1>1 DEF IInv, Working, Reading
  <2>3. t.after = Len(h) /\ t.prev = last.payload
    <3>1. ~(Len(h) > t.after)
      BY <2>1 DEF NumberTaken
    <3>2. t.after = Len(h)
      <4> HIDE DEF h, t
      <4> QED BY <1>2, <2>2, <3>1
    <3> QED BY <2>2, <3>2
  <2>4. /\ txVersions[s][key] # None /\ h = txVersions[s][key]
        /\ Sound(key, h) /\ Grown(versions[key], h)
        /\ t.at # None /\ last.to = t.at /\ last.from < t.at
    BY <1>1, <2>1 DEF IInv, Working, Closing, Versions
  <2>5. OfBuyer(s)
    BY <1>1 DEF IInv, Working
  <2>6. from = t.at /\ from \in Nat
    BY <1>2, <2>4 DEF Coalesce, Maybe
  <2> HIDE DEF from
  <2>7. v \in Version
    <3> HIDE DEF t
    <3> QED BY <1>2, <2>6, NewVersionType
  <2>8. /\ v.payload = t.opp /\ v.from = last.to /\ v.to = None
        /\ v.changed = changed_fields(last.payload, t.opp)
        /\ v.notes = VersionNotes(s, last.payload, t.opp)
    BY <2>3, <2>4, <2>6
  <2> HIDE DEF v
  <2>9. Follows(last, v)
    BY <2>2, <2>3, <2>8 DEF Follows
  <2>10. key.native \in LocalKey => /\ h[1].payload.buyer = v.payload.buyer
                                    /\ key.by # None => v.payload.buyer = key.by
    BY <1>1, <2>5, <2>8 DEF OfBuyer
  <2>11. versions[key] \in Seq(Version)
    BY <1>2 DEF IInv, TInv, TypeOK
  <2>12. \A i \in 1..Len(h) : h[i].payload.hash # v.payload.hash
    BY <2>2, <2>3, <2>8
  <2>13. last.to # None /\ last.from < last.to /\ v.from = last.to
    BY <2>4, <2>8
  <2>14. /\ a \in Seq(Version) /\ Len(a) = Len(h) + 1 /\ a[Len(h) + 1] = v
         /\ Sound(key, a) /\ LastOpen(a) /\ Grown(versions[key], a)
    <3> HIDE DEF h
    <3> QED BY <1>2, <2>4, <2>7, <2>8, <2>9, <2>10, <2>11, <2>12, <2>13, AppendSound
  <2>15. a # None /\ 1 \in 1..Len(h) /\ a[1] = h[1]
    <3>1. a # None
      BY <2>14, ArchiveAssumption DEF ArchiveAssumption
    <3> HIDE DEF h
    <3>2. Len(h) \in Nat \ {0}
      BY <1>2, LatestType
    <3>3. 1 \in 1..Len(h) /\ Append(h, v)[1] = h[1]
      BY <1>2, <2>7, <3>2
    <3> QED BY <3>1, <3>3 DEF a
  <2> HIDE DEF a
  <2>16. \A k \in Keys : txVersions'[s][k] = IF k = key THEN a ELSE txVersions[s][k]
    BY <1>2, <2>1 DEF IInv, TInv, TypeOK, Written
  <2>17. /\ pc'[s] = "serve" /\ task'[s] = t
         /\ \A u \in Sessions \ {s} : UNCHANGED Own(u)
    BY <2>1 DEF IInv, TInv, TypeOK, Written, Own
  <2>18. Pending(s)'
    <3>1. \A k \in Keys : k # key => Pair(k, txVersions[s][k], txRows[s][k])
      BY DEF IInv, Pending, Appending
    <3>2. \A k \in Keys : /\ spVersions[s][k] # None => txVersions[s][k] # None
                          /\ spRows[s][k] # None => txRows[s][k] # None
                          /\ Pair(k, spVersions[s][k], spRows[s][k])
      BY DEF IInv, Pending
    <3>3. \A k \in Keys : Pair(k, spVersions[s][k], spRows[s][k])'
      BY <2>1, <3>2 DEF Pair, tables
    <3>4. \A k \in Keys : ~Appending(s, k)' => Pair(k, txVersions[s][k], txRows[s][k])'
      BY <2>1, <2>16, <2>17, <3>1 DEF Appending, Pair, tables
    <3>5. \A k \in Keys : /\ spVersions'[s][k] # None => txVersions'[s][k] # None
                          /\ spRows'[s][k] # None => txRows'[s][k] # None
      BY <2>1, <2>15, <2>16, <3>2
    <3> QED BY <2>17, <3>3, <3>4, <3>5 DEF Pending
  <2>19. Versions(s, task[s].key)' = a /\ txVersions'[s][key] = a
    BY <1>2, <2>15, <2>16, <2>17 DEF Versions
  <2>20. Appended(s)'
    <3>1. Len(a) = t.after + 1 /\ a[Len(a)].payload = t.opp
      BY <2>3, <2>8, <2>14
    <3> QED BY <2>1, <2>14, <2>15, <2>17, <2>19, <3>1 DEF Appended, Sound, LastOpen, tables
  <2>21. OfBuyer(s)'
    <3>1. key.native \in LocalKey => h[1].payload.buyer = t.opp.buyer /\ (key.by # None => t.opp.buyer = key.by)
      BY <1>1, <2>5 DEF OfBuyer
    <3> QED BY <2>15, <2>17, <2>19, <3>1 DEF OfBuyer
  <2>22. Working(s)'
    BY <2>17, <2>20, <2>21 DEF Working
  <2>23. txVersions[s][key] # None /\ UNCHANGED txRows
    BY <2>1, <2>4
  <2> QED BY <2>1, <2>16, <2>17, <2>18, <2>22, <2>23, StepKeeps
<1> QED BY <1>3, <1>4

LEMMA ServeIInv ==
  ASSUME IInv, TInv', NEW s \in Sessions, Serve(s)
  PROVE  IInv'
<1> DEFINE t   == task[s]
           key == t.key
           h   == txVersions[s][key]
           new == ServedRow(ServingRow(s, key), t.opp, t.after)
<1>1. pc[s] = "serve" /\ pc[s] \in Statements \ {"create"}
      /\ \A k \in Keys : k # key => ~Appending(s, k)
  BY DEF Serve, Statements, Appending
<1>2. key \in Keys /\ t.opp \in Opportunity /\ t.after \in Nat /\ ServingRow(s, key) \in Row
  BY <1>1, InWork DEF IInv
<1>3. new # None /\ new.current = t.after + 1 /\ new.payload = t.opp
  <2>1. new \in Row
    BY <1>2, ServedRowType
  <2> QED BY <2>1, NoneIsNothing DEF ServedRow
<1> HIDE DEF new
<1>4. UNCHANGED <<tables, txVersions>> /\ Release(s) /\ RowHolders(s, key) = {}
      /\ txRows' = Written(txRows, s, key, new)
  BY DEF Serve, new
<1>5. \A k \in Keys : txRows'[s][k] = IF k = key THEN new ELSE txRows[s][k]
  BY <1>2, <1>4 DEF IInv, TInv, TypeOK, Written
<1>6. \A u \in Sessions \ {s} : UNCHANGED Own(u)
  BY <1>4, Released DEF IInv, TInv, TypeOK, Written, Own
<1>7. /\ h # None /\ Sound(key, h) /\ LastOpen(h) /\ Grown(versions[key], h)
      /\ Len(h) = t.after + 1 /\ h[Len(h)].payload = t.opp
  BY <1>1 DEF IInv, Working, Appended
<1>8. Serves(h, new)
  <2>1. h # << >>
    BY <1>2 DEF IInv, TInv, HasVersions
  <2> QED BY <1>3, <1>7, <2>1 DEF Serves
<1>9. \A k \in Keys : Pair(k, txVersions[s][k], txRows[s][k])'
  <2> TAKE k \in Keys
  <2>1. CASE k # key
    <3>1. Pair(k, txVersions[s][k], txRows[s][k])
      BY <1>1, <2>1 DEF IInv, Pending
    <3> QED BY <1>4, <1>5, <2>1, <3>1 DEF Pair, tables
  <2>2. CASE k = key
    <3>1. txRows'[s][k] = new /\ txVersions'[s][k] = h /\ versions'[k] = versions[key]
      BY <1>4, <1>5, <2>2 DEF tables
    <3> HIDE DEF h
    <3>2. Pair(key, h, new)
      BY <1>3, <1>7, <1>8 DEF Pair, Coalesce
    <3> QED BY <2>2, <3>1, <3>2 DEF Pair
  <2> QED BY <2>1, <2>2
<1> QED BY <1>4, <1>5, <1>6, <1>9, Released, ReleasedKeeps

(* A commit: the others hold nothing of what it changes, and what they have   *)
(* read is still there.                                                       *)
LEMMA PublishIInv ==
  ASSUME IInv, TInv', NEW s \in Sessions, Publish(s), pc[s] = "idle", pc'[s] \in {"off", "idle"},
         UNCHANGED task, \A t \in Sessions \ {s} : pc'[t] = pc[t]
  PROVE  IInv'
<1>1. \A k \in Keys : ~Appending(s, k)
  BY DEF Appending
<1>2. \A k \in Keys : versions'[k] = Versions(s, k) /\ rows'[k] = ServingRow(s, k)
  BY DEF Publish
<1>3. \A k \in Keys : txVersions'[s][k] = None /\ txRows'[s][k] = None
  BY DEF Publish, IInv, TInv, TypeOK, Untouched
<1>4. \A t \in Sessions \ {s} : txVersions'[t] = txVersions[t] /\ txRows'[t] = txRows[t]
  BY DEF Publish, IInv, TInv, TypeOK
<1>5. UNCHANGED <<spVersions, spRows>>
  BY DEF Publish
<1>6. Committed'
  BY <1>1, <1>2, ViewSound DEF Committed
<1>7. Exclusive'
  BY <1>3, <1>4 DEF IInv, Exclusive
<1>8. \A k \in Keys : versions'[k] \in Seq(Version) /\ versions[k] \in Seq(Version)
                      /\ Grown(versions[k], versions'[k])
  BY <1>1, <1>2, ViewSound DEF IInv, TInv, TypeOK
<1>9. \A k \in Keys, t \in Sessions \ {s} :
        versions'[k] = versions[k] \/ /\ txVersions[t][k] = None /\ txRows[t][k] = None
                                      /\ spVersions[t][k] = None /\ spRows[t][k] = None
  <2> TAKE k \in Keys, t \in Sessions \ {s}
  <2>1. CASE txVersions[s][k] = None
    BY <1>2, <2>1 DEF Versions
  <2>2. CASE txVersions[s][k] # None
    <3>1. txRows[s][k] # None
      BY <1>1, <2>2 DEF IInv, Pending, Pair
    <3>2. txVersions[t][k] = None /\ txRows[t][k] = None
      BY <2>2, <3>1 DEF IInv, Exclusive
    <3> QED BY <3>2 DEF IInv, Pending
  <2> QED BY <2>1, <2>2
<1>10. ASSUME NEW t \in Sessions \ {s} PROVE Pending(t)'
  <2>1. \A k \in Keys : Appending(t, k)' <=> Appending(t, k)
    BY DEF Appending
  <2>2. ASSUME NEW k \in Keys, NEW v, NEW r, versions'[k] = versions[k] \/ (v = None /\ r = None), Pair(k, v, r)
        PROVE  /\ v # None => r # None /\ Sound(k, v) /\ LastOpen(v) /\ Grown(versions'[k], v)
               /\ r # None => Serves(Coalesce(v, versions'[k]), r)
    BY <2>2 DEF Pair
  <2>3. \A k \in Keys : Pair(k, spVersions[t][k], spRows[t][k])'
    <3> TAKE k \in Keys
    <3>1. Pair(k, spVersions[t][k], spRows[t][k])
      BY DEF IInv, Pending
    <3>2. versions'[k] = versions[k] \/ (spVersions[t][k] = None /\ spRows[t][k] = None)
      BY <1>9
    <3> QED BY <1>5, <2>2, <3>1, <3>2 DEF Pair
  <2>4. \A k \in Keys : ~Appending(t, k) => Pair(k, txVersions[t][k], txRows[t][k])'
    <3> SUFFICES ASSUME NEW k \in Keys, ~Appending(t, k) PROVE Pair(k, txVersions[t][k], txRows[t][k])'
      OBVIOUS
    <3>1. Pair(k, txVersions[t][k], txRows[t][k])
      BY DEF IInv, Pending
    <3>2. versions'[k] = versions[k] \/ (txVersions[t][k] = None /\ txRows[t][k] = None)
      BY <1>9
    <3> QED BY <1>4, <2>2, <3>1, <3>2 DEF Pair
  <2> QED BY <1>4, <1>5, <2>1, <2>3, <2>4 DEF IInv, Pending
<1>11. ASSUME NEW t \in Sessions \ {s} PROVE Working(t)'
  <2> DEFINE key == task[t].key
             h   == Versions(t, key)
  <2>1. CASE pc[t] \notin Statements
    BY <2>1 DEF Working, Statements
  <2>2. CASE pc[t] \in Statements
    <3>1. key \in Keys /\ h \in Seq(Version) /\ (pc[t] # "create" => h # << >>)
      BY <2>2, InWork DEF IInv
    <3>2. h' \in Seq(Version) /\ Grown(h, h') /\ (txVersions[t][key] # None => h' = h)
      <4>1. CASE txVersions[t][key] # None
        BY <1>4, <3>1, <4>1, GrownReflexive DEF Versions
      <4>2. CASE txVersions[t][key] = None
        BY <1>4, <1>8, <3>1, <4>2 DEF Versions
      <4> QED BY <4>1, <4>2
    <3>3. pc'[t] = pc[t] /\ task'[t] = task[t]
      OBVIOUS
    <3>4. txVersions[t][key] # None => versions'[key] = versions[key]
      BY <1>9, <3>1
    <3>5. /\ Len(h) <= Len(h') /\ Len(h) \in Nat /\ Len(h') \in Nat
          /\ \A i \in 1..Len(h) : i \in 1..Len(h') /\ h'[i].payload = h[i].payload
      <4>1. Len(h) \in Nat /\ Len(h') \in Nat
        BY <3>1, <3>2
      <4> HIDE DEF h
      <4> QED BY <3>2, <4>1 DEF Grown, Later
    <3>6. OfBuyer(t)'
      <4>1. OfBuyer(t)
        BY <2>2 DEF IInv, Working
      <4>2. pc[t] # "create" => h'[1].payload = h[1].payload
        <5>1. h # << >> => 1 \in 1..Len(h)
          <6> HIDE DEF h
          <6> QED BY <3>1, LatestType
        <5> QED BY <3>1, <3>5, <5>1
      <4> QED BY <3>3, <4>1, <4>2 DEF OfBuyer
    <3>7. pc[t] \in {"seen", "attrs", "close", "insert"} => Reading(t)'
      <4> SUFFICES ASSUME pc[t] \in {"seen", "attrs", "close", "insert"} PROVE Reading(t)'
        OBVIOUS
      <4>1. Reading(t)
        BY DEF IInv, Working
      <4>2. task[t].after \in 1..Len(h) /\ task[t].prev = h[task[t].after].payload
        BY <4>1 DEF Reading
      <4>3. task[t].after \in 1..Len(h') /\ task[t].prev = h'[task[t].after].payload
        BY <3>5, <4>2
      <4>4. \A i \in 1..task[t].after : h'[i].payload = h[i].payload
        <5>1. \A i \in 1..task[t].after : i \in 1..Len(h)
          <6> HIDE DEF h
          <6> QED BY <3>5, <4>2
        <5> QED BY <3>5, <5>1
      <4> QED BY <3>3, <4>1, <4>3, <4>4 DEF Reading
    <3>8. pc[t] = "insert" => Closing(t)'
      <4> SUFFICES ASSUME pc[t] = "insert" PROVE Closing(t)'
        OBVIOUS
      <4>1. Closing(t) /\ task[t].after \in Nat
        BY <2>2, InWork DEF IInv, Working
      <4>2. CASE NumberTaken(t)
        <5>1. Len(h) > task[t].after
          BY <4>2 DEF NumberTaken
        <5>2. Len(h') > task[t].after
          <6> HIDE DEF h
          <6> QED BY <3>5, <4>1, <5>1
        <5> QED BY <3>3, <5>2 DEF Closing, NumberTaken
      <4>3. CASE ~NumberTaken(t)
        BY <1>4, <3>3, <3>4, <4>1, <4>3 DEF Closing, Sound
      <4> QED BY <4>2, <4>3
    <3>9. pc[t] = "serve" => Appended(t)'
      <4> SUFFICES ASSUME pc[t] = "serve" PROVE Appended(t)'
        OBVIOUS
      <4>1. Appended(t)
        BY DEF IInv, Working
      <4> QED BY <1>4, <3>3, <3>4, <4>1 DEF Appended, Sound, LastOpen
    <3> QED BY <3>3, <3>6, <3>7, <3>8, <3>9 DEF Working
  <2> QED BY <2>1, <2>2
<1>12. Pending(s)' /\ Working(s)'
  <2>1. \A k \in Keys : spVersions'[s][k] = None /\ spRows'[s][k] = None
    BY <1>5 DEF IInv, Pending
  <2>2. Pending(s)'
    BY <1>3, <2>1 DEF Pending, Pair
  <2> QED BY <2>2 DEF Working, Statements
<1> QED BY <1>6, <1>7, <1>10, <1>11, <1>12 DEF IInv

------------------------------------------------------------------------------
LEMMA InitIInv == Init => IInv
<1> SUFFICES ASSUME Init PROVE IInv
  OBVIOUS
<1>1. TInv
  BY InitTInv
<1>2. \A s \in Sessions, k \in Keys :
        /\ versions[k] = << >> /\ rows[k] = None
        /\ txVersions[s][k] = None /\ txRows[s][k] = None
        /\ spVersions[s][k] = None /\ spRows[s][k] = None
        /\ pc[s] = "off"
  BY DEF Init, Untouched
<1>3. ASSUME NEW k \in Keys PROVE Sound(k, << >>) /\ LastOpen(<< >>)
  BY DEF Sound, Meeting, Ordered, Distinct, Stamped, Bought, LastOpen
<1>4. Committed
  <2>1. \A k \in Keys : versions[k] = << >> /\ rows[k] = None
    BY DEF Init
  <2> QED BY <1>3, <2>1 DEF Committed
<1>5. Exclusive
  BY <1>2 DEF Exclusive
<1>6. \A s \in Sessions : Pending(s) /\ Working(s)
  <2> TAKE s \in Sessions
  <2>1. Pending(s)
    BY <1>2 DEF Pending, Pair
  <2>2. Working(s)
    BY <1>2 DEF Init, Working, Statements
  <2> QED BY <2>1, <2>2
<1> QED BY <1>1, <1>4, <1>5, <1>6 DEF IInv

LEMMA NextIInv == IInv /\ [Next]_vars => IInv'
<1> SUFFICES ASSUME IInv, [Next]_vars PROVE IInv'
  OBVIOUS
<1>1. TInv'
  BY NextTInv DEF IInv
<1>2. CASE UNCHANGED vars
  <2>1. \A s \in Sessions : (Pending(s) /\ Working(s))'
    BY <1>2, Bystander DEF IInv, vars, tables, tx, Own
  <2>2. Committed' /\ Exclusive'
    BY <1>2 DEF IInv, Committed, Exclusive, vars, tables, tx
  <2> QED BY <1>1, <2>1, <2>2 DEF IInv
<1>3. ASSUME NEW s \in Sessions, Commit(s) \/ FinishRun(s)
      PROVE  IInv'
  <2>1. /\ Publish(s) /\ pc[s] = "idle" /\ UNCHANGED task
        /\ pc'[s] \in {"off", "idle"} /\ \A t \in Sessions \ {s} : pc'[t] = pc[t]
    BY <1>3 DEF Commit, FinishRun, IInv, TInv, TypeOK
  <2> QED BY <1>1, <2>1, PublishIInv
<1>4. ASSUME NEW s \in Sessions, Crash(s) \/ Deadlock(s)
      PROVE  IInv'
  BY <1>1, <1>4, RollbackIInv DEF Crash, Deadlock
<1>5. ASSUME NEW s \in Sessions, StartRun(s) \/ Commit(s) \/ Crash(s) \/ Work(s)
      PROVE  IInv'
  BY <1>1, <1>3, <1>4, <1>5, StartRunIInv, MapRecordIInv, LookUpIInv, CarryIInv, ReadLatestIInv,
     CompareIInv, WriteAttributesIInv, CreateIInv, CloseOpenIInv, InsertVersionIInv, ServeIInv
     DEF Work
<1> QED BY <1>2, <1>5 DEF Next

LEMMA Invariance == Spec => []IInv
  BY InitIInv, NextIInv, PTL DEF Spec

------------------------------------------------------------------------------
(* What is committed of a notice is gap-free, with exactly the last version   *)
(* open, for any number of sessions and any interleaving of the statements of *)
(* append_version.                                                            *)
THEOREM VersionsMeet == Spec => []IntervalsMeet
<1>1. IInv => IntervalsMeet
  <2> SUFFICES ASSUME IInv, NEW k \in Keys
               PROVE  /\ rows[k] # None <=> versions[k] # << >>
                      /\ \A i \in DOMAIN versions[k] :
                           IF i = Len(versions[k]) THEN versions[k][i].to = None
                           ELSE /\ versions[k][i].to # None
                                /\ versions[k][i].from < versions[k][i].to
                                /\ versions[k][i + 1].from = versions[k][i].to
    BY DEF IntervalsMeet
  <2>1. versions[k] \in Seq(Version)
    BY DEF IInv, TInv, TypeOK
  <2>2. /\ Meeting(versions[k]) /\ LastOpen(versions[k])
        /\ rows[k] # None <=> versions[k] # << >>
    BY DEF IInv, Committed, Sound, Serves
  <2>3. DOMAIN versions[k] = 1..Len(versions[k]) /\ Len(versions[k]) \in Nat
    BY <2>1
  <2> QED BY <2>1, <2>2, <2>3 DEF Meeting, LastOpen
<1> QED BY Invariance, <1>1, PTL

(* The row of a notice serves the latest version, whatever the order of two   *)
(* sessions' closes, inserts, updates and commits.                            *)
THEOREM LatestIsServed == Spec => []ServingIsLatest
<1>1. IInv => ServingIsLatest
  BY DEF IInv, Committed, Serves, ServingIsLatest
<1> QED BY Invariance, <1>1, PTL

(* Every version says what changed since the version archived just before it, *)
(* although that was read several statements earlier.                         *)
THEOREM ChangesAreTrue == Spec => []DiffsAreTrue
<1>1. IInv => DiffsAreTrue
  <2> SUFFICES ASSUME IInv, NEW k \in Keys, NEW i \in 2..Len(versions[k])
               PROVE  LET prev == versions[k][i - 1].payload
                          p    == versions[k][i].payload
                      IN  /\ versions[k][i].changed = changed_fields(prev, p)
                          /\ versions[k][i].changed # {}
                          /\ \E s \in Sessions : versions[k][i].notes = VersionNotes(s, prev, p)
    BY DEF DiffsAreTrue
  <2>1. versions[k] \in Seq(Version) /\ Ordered(versions[k])
    BY DEF IInv, TInv, TypeOK, Committed, Sound
  <2>2. i - 1 \in 1..(Len(versions[k]) - 1) /\ (i - 1) + 1 = i
    BY <2>1
  <2>3. Follows(versions[k][i - 1], versions[k][i])
    BY <2>1, <2>2 DEF Ordered
  <2> QED BY <2>3 DEF Follows
<1> QED BY Invariance, <1>1, PTL

(* No content of a notice is archived twice.                                  *)
THEOREM NoFlipFlop == Spec => []ContentOnce
<1>1. IInv => ContentOnce
  <2> SUFFICES ASSUME IInv, NEW k \in Keys
               PROVE  \A i, j \in DOMAIN versions[k] :
                        versions[k][i].payload.hash = versions[k][j].payload.hash => i = j
    BY DEF ContentOnce
  <2>1. versions[k] \in Seq(Version) /\ Distinct(versions[k])
    BY DEF IInv, TInv, TypeOK, Committed, Sound
  <2>2. DOMAIN versions[k] = 1..Len(versions[k])
    BY <2>1
  <2> QED BY <2>1, <2>2 DEF Distinct
<1> QED BY Invariance, <1>1, PTL

(* Stamped versions of a notice are in the order of the source's instants.    *)
THEOREM OrderedByStamp == Spec => []StampsForward
<1>1. IInv => StampsForward
  <2> SUFFICES ASSUME IInv, NEW k \in Keys,
                      NEW i \in DOMAIN versions[k], NEW j \in DOMAIN versions[k],
                      i < j, \A m \in i..j : versions[k][m].payload.stamp # None
               PROVE  versions[k][i].payload.stamp <= versions[k][j].payload.stamp
    BY DEF StampsForward
  <2>1. versions[k] \in Seq(Version) /\ Stamped(versions[k])
    BY DEF IInv, TInv, TypeOK, Committed, Sound
  <2>2. i \in 1..Len(versions[k]) /\ j \in 1..Len(versions[k])
    BY <2>1
  <2> QED BY <2>1, <2>2 DEF Stamped
<1> QED BY Invariance, <1>1, PTL

(* The versions of a notice under a buyer's own number are of one buyer.      *)
THEOREM BuyerIsOne == Spec => []OneBuyer
<1>1. IInv => OneBuyer
  <2> SUFFICES ASSUME IInv, NEW k \in Keys, k.native \in LocalKey,
                      NEW i \in DOMAIN versions[k], NEW j \in DOMAIN versions[k]
               PROVE  versions[k][i].payload.buyer = versions[k][j].payload.buyer
    BY DEF OneBuyer
  <2>1. versions[k] \in Seq(Version) /\ Bought(k, versions[k])
    BY DEF IInv, TInv, TypeOK, Committed, Sound
  <2>2. i \in 1..Len(versions[k]) /\ j \in 1..Len(versions[k])
    BY <2>1
  <2> QED BY <2>1, <2>2 DEF Bought
<1> QED BY Invariance, <1>1, PTL

------------------------------------------------------------------------------
(* What a step does to the committed versions: nothing, or it commits what a  *)
(* session sees, which has grown from them.                                   *)
LEMMA StepGrows ==
  ASSUME IInv, [Next]_vars
  PROVE  \A k \in Keys : Grown(versions[k], versions'[k])
<1>1. \A k \in Keys : Grown(versions[k], versions[k])
  BY GrownReflexive DEF IInv, TInv, TypeOK
<1>2. CASE UNCHANGED versions
  BY <1>1, <1>2
<1>3. ASSUME NEW s \in Sessions, Publish(s), pc[s] = "idle"
      PROVE  \A k \in Keys : Grown(versions[k], versions'[k])
  <2>1. \A k \in Keys : ~Appending(s, k) /\ versions'[k] = Versions(s, k)
    BY <1>3 DEF Appending, Publish
  <2> QED BY <2>1, ViewSound
<1>4. UNCHANGED versions \/ \E s \in Sessions : Publish(s) /\ pc[s] = "idle"
  BY ZenonT(60) DEF Next, vars, tables, StartRun, Commit, Crash, Rollback, Work, FinishRun,
         MapRecord, LookUp, Carry, ReadLatest, Compare, WriteAttributes, Create, RecordError, Quarantine, CloseOpen,
         InsertVersion, Serve, Deadlock
<1> QED BY <1>2, <1>3, <1>4

(* A commit only appends versions and closes the open one (the guard of       *)
(* migration 0094 never has to refuse one).                                   *)
THEOREM OnlyAppends == Spec => AppendOnly
<1>1. IInv /\ IInv' /\ [Next]_vars => [AppendOnlyStep]_vars
  <2> SUFFICES ASSUME IInv, IInv', [Next]_vars, NEW k \in Keys
               PROVE  /\ Len(versions'[k]) >= Len(versions[k])
                      /\ \A i \in DOMAIN versions[k] :
                           \/ versions'[k][i] = versions[k][i]
                           \/ /\ versions[k][i].to = None
                              /\ versions'[k][i] = [versions[k][i] EXCEPT !.to = versions'[k][i].to]
    BY DEF AppendOnlyStep
  <2>1. versions[k] \in Seq(Version) /\ versions'[k] \in Seq(Version)
    BY DEF IInv, TInv, TypeOK
  <2>2. Grown(versions[k], versions'[k])
    BY StepGrows
  <2>3. Len(versions'[k]) >= Len(versions[k])
    BY <2>1, <2>2 DEF Grown
  <2>4. ASSUME NEW i \in DOMAIN versions[k]
        PROVE  \/ versions'[k][i] = versions[k][i]
               \/ /\ versions[k][i].to = None
                  /\ versions'[k][i] = [versions[k][i] EXCEPT !.to = versions'[k][i].to]
    <3>1. i \in 1..Len(versions[k]) /\ i \in 1..Len(versions'[k])
      BY <2>1, <2>3
    <3>2. versions[k][i] \in Version /\ versions'[k][i] \in Version
      BY <2>1, <3>1
    <3>3. Later(versions[k][i], versions'[k][i])
      BY <2>2, <3>1 DEF Grown
    <3> QED BY <3>2, <3>3 DEF Later, Version
  <2> QED BY <2>3, <2>4
<1> QED BY Invariance, <1>1, PTL DEF Spec, AppendOnly

------------------------------------------------------------------------------
(* The contents of a history.                                                 *)
Payloads(h) == [i \in DOMAIN h |-> h[i].payload]

LEMMA PayloadsOf ==
  ASSUME NEW h \in Seq(Version)
  PROVE  /\ Payloads(h) \in Seq(Opportunity)
         /\ Len(Payloads(h)) = Len(h)
         /\ \A i \in 1..Len(h) : Payloads(h)[i] = h[i].payload
<1>1. DOMAIN h = 1..Len(h) /\ Len(h) \in Nat
  OBVIOUS
<1>2. Payloads(h) \in [1..Len(h) -> Opportunity]
  BY <1>1, VersionFields DEF Payloads
<1>3. Payloads(h) \in Seq(Opportunity)
  BY <1>1, <1>2
<1>4. Len(Payloads(h)) = Len(h)
  BY <1>1, <1>2, <1>3
<1> QED BY <1>1, <1>3, <1>4 DEF Payloads

(* A sound history that grew from another grew as the ledger promises.        *)
LEMMA GrownAsPromised ==
  ASSUME NEW k \in Keys, NEW g \in Seq(Version), NEW h \in Seq(Version), Grown(g, h), Sound(k, h)
  PROVE  Promise!GrownFrom(Payloads(g), Payloads(h))
<1> DEFINE a == Payloads(g)
           b == Payloads(h)
<1>1. /\ a \in Seq(Opportunity) /\ Len(a) = Len(g) /\ \A i \in 1..Len(g) : a[i] = g[i].payload
      /\ b \in Seq(Opportunity) /\ Len(b) = Len(h) /\ \A i \in 1..Len(h) : b[i] = h[i].payload
  BY PayloadsOf
<1> HIDE DEF a, b
<1>2. Len(b) >= Len(a) /\ Len(a) \in Nat /\ Len(b) \in Nat
  BY <1>1 DEF Grown
<1>3. \A i \in 1..Len(a) : b[i] = a[i]
  BY <1>1, <1>2 DEF Grown, Later
<1>4. ASSUME NEW j \in (Len(a) + 1)..Len(b)
      PROVE  Promise!MayFollow(SubSeq(b, 1, j - 1), b[j])
  <2> DEFINE p == SubSeq(b, 1, j - 1)
  <2>1. j \in 1..Len(b) /\ j - 1 \in 0..Len(b) /\ j \in Nat
    BY <1>2
  <2>2. Len(p) = j - 1 /\ DOMAIN p = 1..(j - 1) /\ \A i \in 1..(j - 1) : p[i] = b[i]
    BY <1>1, <2>1
  <2> HIDE DEF p
  <2>3. \A i \in DOMAIN p : p[i] # b[j]
    <3> SUFFICES ASSUME NEW i \in 1..(j - 1), b[i] = b[j] PROVE FALSE
      BY <2>2
    <3>1. i \in 1..Len(h) /\ j \in 1..Len(h) /\ i # j
      BY <1>1, <2>1
    <3>2. h[i].payload.hash = h[j].payload.hash
      BY <1>1, <3>1
    <3> QED BY <3>1, <3>2 DEF Sound, Distinct
  <2>4. ASSUME p # << >> PROVE ~Older(b[j], p[Len(p)])
    <3>1. j - 1 # 0
      BY <1>1, <2>1, <2>2, <2>4 DEF p
    <3>2. j - 1 \in 1..(Len(h) - 1) /\ (j - 1) + 1 = j /\ j - 1 \in 1..Len(h) /\ j \in 1..Len(h)
      BY <1>1, <2>1, <3>1
    <3>3. Follows(h[j - 1], h[j])
      BY <3>2 DEF Sound, Ordered
    <3>4. b[j] = h[j].payload /\ p[Len(p)] = h[j - 1].payload
      BY <1>1, <2>1, <2>2, <3>1, <3>2, SMTT(30)
    <3> QED BY <3>3, <3>4 DEF Follows
  <2> QED BY <2>3, <2>4 DEF Promise!MayFollow, p
<1> QED BY <1>2, <1>3, <1>4 DEF Promise!GrownFrom, a, b

(* The archive implements the append-only ledger: seen through its committed  *)
(* versions, every step of every session is a step of the ledger or none.     *)
THEOREM ArchiveImplementsLedger == Spec => ImplementsLedger
<1> DEFINE history == [k \in Keys |-> [i \in DOMAIN versions[k] |-> versions[k][i].payload]]
<1>1. \A k \in Keys : history[k] = Payloads(versions[k])
  BY DEF Payloads
<1>2. ASSUME Init PROVE Promise!Init
  <2>1. \A k \in Keys : [i \in DOMAIN versions[k] |-> versions[k][i].payload] = << >>
    BY <1>2 DEF Init
  <2> QED BY <2>1 DEF Promise!Init
<1>3. ASSUME IInv, IInv', [Next]_vars PROVE Promise!Next
  <2>1. \A k \in Keys : versions'[k] \in Seq(Version)
    BY <1>3 DEF IInv, TInv, TypeOK
  <2>2. history' \in [Keys -> Seq(Opportunity)]
    BY <2>1, PayloadsOf DEF Payloads
  <2>3. ASSUME NEW k \in Keys PROVE Promise!GrownFrom(history[k], history'[k])
    <3>1. history[k] = Payloads(versions[k]) /\ history'[k] = Payloads(versions'[k])
      BY DEF Payloads
    <3>2. /\ versions[k] \in Seq(Version) /\ versions'[k] \in Seq(Version)
          /\ Grown(versions[k], versions'[k]) /\ Sound(k, versions'[k])
      BY <1>3, StepGrows DEF IInv, TInv, TypeOK, Committed
    <3> HIDE DEF history
    <3> QED BY <3>1, <3>2, GrownAsPromised
  <2> QED BY <2>2, <2>3 DEF Promise!Next
<1> HIDE DEF history
<1>4. IInv /\ IInv' /\ [Next]_vars => Promise!Next
  BY <1>3
<1> QED BY Invariance, <1>2, <1>4, PTL DEF Spec, ImplementsLedger, Promise!Spec

------------------------------------------------------------------------------
(* The links of the serving rows.                                             *)

(* Row a may become row b: its link is not lost, and not replaced without a   *)
(* new version.                                                               *)
FollowedBy(a, b) ==
  a # None =>
    /\ b # None
    /\ a.current <= b.current
    /\ a.link # None => /\ b.link # None
                        /\ b.current = a.current => b.link = a.link

(* The rows a session has pending may follow the ones committed.              *)
RowsFollow(s) ==
  \A k \in Keys :
    /\ spRows[s][k] # None => FollowedBy(rows[k], spRows[s][k])
    /\ txRows[s][k] # None => FollowedBy(rows[k], txRows[s][k])

(* The version about to be served is a new one for the row.                   *)
Behind(s) ==
  (pc[s] = "insert" /\ ~NumberTaken(s)) \/ pc[s] = "serve" =>
    ServingRow(s, task[s].key).current <= task[s].after

LInv == IInv /\ \A s \in Sessions : RowsFollow(s) /\ Behind(s)

LEMMA RowFields ==
  ASSUME IInv, NEW s \in Sessions, NEW k \in Keys
  PROVE  /\ ServingRow(s, k) \in Maybe(Row) /\ rows[k] \in Maybe(Row)
         /\ txRows[s][k] \in Maybe(Row) /\ spRows[s][k] \in Maybe(Row)
         /\ \A r \in Row : r.current \in Nat /\ r # None
<1>1. \A r \in Row : r.current \in Nat /\ r # None
  BY NoneIsNothing DEF Row
<1> QED BY <1>1, ViewTypes DEF IInv, TInv, TypeOK

LEMMA FollowedTransitive ==
  ASSUME NEW a \in Maybe(Row), NEW b \in Maybe(Row), NEW c \in Maybe(Row),
         FollowedBy(a, b), FollowedBy(b, c)
  PROVE  FollowedBy(a, c)
<1> SUFFICES ASSUME a # None PROVE FollowedBy(a, c)
  BY DEF FollowedBy
<1>1. b # None /\ c # None
  BY DEF FollowedBy
<1>2. a.current \in Nat /\ b.current \in Nat /\ c.current \in Nat
  BY <1>1 DEF Maybe, Row
<1>3. /\ a.current <= b.current /\ b.current <= c.current
      /\ a.link # None => b.link # None /\ (b.current = a.current => b.link = a.link)
      /\ b.link # None => c.link # None /\ (c.current = b.current => c.link = b.link)
  BY <1>1 DEF FollowedBy
<1>4. a.current <= c.current /\ (c.current = a.current => b.current = a.current /\ c.current = b.current)
  BY <1>2, <1>3
<1> QED BY <1>1, <1>3, <1>4 DEF FollowedBy

LEMMA FollowsItself ==
  ASSUME NEW r \in Maybe(Row)
  PROVE  FollowedBy(r, r)
  BY DEF FollowedBy, Maybe, Row

(* What a session sees may follow what is committed.                          *)
LEMMA ViewFollows ==
  ASSUME LInv, NEW s \in Sessions, NEW k \in Keys
  PROVE  FollowedBy(rows[k], ServingRow(s, k))
<1>1. CASE txRows[s][k] = None
  BY <1>1, RowFields, FollowsItself DEF LInv, ServingRow
<1>2. CASE txRows[s][k] # None
  BY <1>2 DEF LInv, RowsFollow, ServingRow
<1> QED BY <1>1, <1>2

(* A step of one session that commits nothing.                                *)
LEMMA StepFollows ==
  ASSUME LInv, IInv', NEW s \in Sessions, UNCHANGED tables,
         \A t \in Sessions \ {s} : UNCHANGED Own(t),
         (RowsFollow(s) /\ Behind(s))'
  PROVE  LInv'
<1>1. ASSUME NEW t \in Sessions \ {s} PROVE (RowsFollow(t) /\ Behind(t))'
  <2>1. RowsFollow(t)'
    BY DEF LInv, RowsFollow, Own, tables
  <2>2. Behind(t)'
    BY DEF LInv, Behind, Own, tables, NumberTaken, Versions, ServingRow
  <2> QED BY <2>1, <2>2
<1> QED BY <1>1 DEF LInv

(* A step that ends a record, or the run, without writing.                    *)
LEMMA GivenUpFollows ==
  ASSUME LInv, IInv', NEW s \in Sessions, UNCHANGED tables,
         \A t \in Sessions \ {s} : UNCHANGED Own(t),
         pc'[s] \notin {"insert", "serve"},
         \A k \in Keys : /\ txRows'[s][k] \in {None, txRows[s][k], spRows[s][k]}
                         /\ spRows'[s][k] \in {None, txRows[s][k], spRows[s][k]}
  PROVE  LInv'
<1>1. RowsFollow(s)'
  BY DEF LInv, RowsFollow, tables
<1>2. Behind(s)'
  BY DEF Behind
<1> QED BY <1>1, <1>2, StepFollows

LEMMA RollbackFollows ==
  ASSUME LInv, IInv', NEW s \in Sessions, Rollback(s)
  PROVE  LInv'
<1>1. /\ \A t \in Sessions \ {s} : UNCHANGED Own(t)
      /\ \A k \in Keys : txRows'[s][k] = None /\ spRows'[s][k] = None
      /\ pc'[s] = "off" /\ UNCHANGED tables
  BY DEF LInv, IInv, TInv, TypeOK, Rollback, Own, Untouched
<1> QED BY <1>1, GivenUpFollows

LEMMA RecordErrorFollows ==
  ASSUME LInv, IInv', NEW s \in Sessions, RecordError(s)
  PROVE  LInv'
<1>1. CASE Rollback(s)
  BY <1>1, RollbackFollows
<1>2. CASE Quarantine(s)
  <2>1. /\ \A t \in Sessions \ {s} : UNCHANGED Own(t)
        /\ \A k \in Keys : txRows'[s][k] = spRows[s][k] /\ spRows'[s][k] = None
        /\ pc'[s] = "idle" /\ UNCHANGED tables
    BY <1>2 DEF LInv, IInv, TInv, TypeOK, Quarantine, Release, Own, Untouched
  <2> QED BY <2>1, GivenUpFollows
<1> QED BY <1>1, <1>2 DEF RecordError

(* The steps that read.                                                       *)
LEMMA ReadingFollows ==
  ASSUME LInv, IInv', NEW s \in Sessions,
         StartRun(s) \/ MapRecord(s) \/ LookUp(s) \/ Carry(s) \/ ReadLatest(s) \/ Compare(s)
  PROVE  LInv'
<1> USE DEF LInv, IInv, TInv, TypeOK
<1>1. CASE StartRun(s)
  <2>1. /\ \A t \in Sessions \ {s} : UNCHANGED Own(t)
        /\ pc'[s] = "idle" /\ UNCHANGED <<tables, tx>>
    BY <1>1 DEF StartRun, Own, tx
  <2> QED BY <2>1, GivenUpFollows DEF tx
<1>2. CASE MapRecord(s)
  <2>1. Rollback(s) \/ (UNCHANGED <<tables, tx, pc, task>> /\ pc[s] = "idle")
    BY <1>2 DEF MapRecord
  <2> QED BY <2>1, RollbackFollows, GivenUpFollows DEF tx, Own
<1>3. CASE LookUp(s)
  <2>1. /\ \A t \in Sessions \ {s} : UNCHANGED Own(t)
        /\ pc'[s] \in {"create", "carry", "latest"} /\ UNCHANGED <<tables, txRows>>
        /\ spRows'[s] = txRows[s]
    BY <1>3 DEF LookUp, Own
  <2> QED BY <2>1, GivenUpFollows
<1>4. CASE Carry(s)
  <2>1. /\ \A t \in Sessions \ {s} : UNCHANGED Own(t)
        /\ pc'[s] = "latest" /\ UNCHANGED <<tables, tx>>
    BY <1>4 DEF Carry, Own, tx
  <2> QED BY <2>1, GivenUpFollows DEF tx
<1>5. CASE ReadLatest(s) \/ Compare(s)
  <2>1. /\ \A t \in Sessions \ {s} : UNCHANGED Own(t)
        /\ pc'[s] \in {"idle", "seen", "attrs", "close"} /\ UNCHANGED <<tables, txRows>>
        /\ \A k \in Keys : spRows'[s][k] \in {None, spRows[s][k]}
    BY <1>5 DEF ReadLatest, Compare, Release, Own, Untouched
  <2> QED BY <2>1, GivenUpFollows
<1> QED BY <1>1, <1>2, <1>3, <1>4, <1>5

(* The steps that write the row of the notice in work.                        *)
LEMMA RowWrittenFollows ==
  ASSUME LInv, IInv', NEW s \in Sessions, UNCHANGED tables, Release(s),
         \A t \in Sessions \ {s} : txVersions'[t] = txVersions[t],
         NEW key \in Keys, NEW new \in Row, txRows' = Written(txRows, s, key, new),
         FollowedBy(ServingRow(s, key), new)
  PROVE  LInv'
<1>1. \A t \in Sessions \ {s} : UNCHANGED Own(t)
  BY DEF LInv, IInv, TInv, TypeOK, Release, Written, Own
<1>2. \A k \in Keys : txRows'[s][k] = IF k = key THEN new ELSE txRows[s][k]
  BY DEF LInv, IInv, TInv, TypeOK, Written
<1>3. pc'[s] = "idle" /\ \A k \in Keys : spRows'[s][k] = None
  BY DEF LInv, IInv, TInv, TypeOK, Release, Untouched
<1>4. FollowedBy(rows[key], new)
  <2>1. FollowedBy(rows[key], ServingRow(s, key))
    BY ViewFollows
  <2>2. rows[key] \in Maybe(Row) /\ ServingRow(s, key) \in Maybe(Row) /\ new \in Maybe(Row)
    BY RowFields DEF LInv, Maybe
  <2> QED BY <2>1, <2>2, FollowedTransitive
<1>5. RowsFollow(s)'
  BY <1>2, <1>3, <1>4 DEF LInv, RowsFollow, tables
<1>6. Behind(s)'
  BY <1>3 DEF Behind
<1> QED BY <1>1, <1>5, <1>6, StepFollows

LEMMA WriteAttributesFollows ==
  ASSUME LInv, IInv', NEW s \in Sessions, WriteAttributes(s)
  PROVE  LInv'
<1> DEFINE t     == task[s]
           row   == ServingRow(s, t.key)
           moves == t.opp.noted # None /\ Newer(t.prev, t.opp)
           new   == [row EXCEPT !.link  = AttributeLink(row, t.opp),
                                !.noted = IF moves THEN t.opp.noted ELSE row.noted,
                                !.dated = IF moves THEN t.opp.stamp ELSE row.dated]
<1>1. t.key \in Keys /\ t.opp \in Opportunity /\ row \in Row
  BY InWork DEF LInv, IInv, WriteAttributes, Statements
<1>2. new \in Row
  BY <1>1, AttributesType
<1>3. new.current = row.current /\ new.link = Coalesce(row.link, t.opp.link)
  BY <1>1 DEF Row, AttributeLink
<1>4. FollowedBy(row, new)
  <2>1. row.current \in Nat /\ new # None
    BY <1>1, <1>2, NoneIsNothing DEF Row
  <2> HIDE DEF new, row
  <2> QED BY <1>3, <2>1 DEF FollowedBy, Coalesce
<1>5. /\ txRows' = Written(txRows, s, t.key, new) /\ Release(s)
      /\ UNCHANGED tables /\ UNCHANGED txVersions
  BY DEF WriteAttributes
<1> HIDE DEF new
<1> QED BY <1>1, <1>2, <1>4, <1>5, RowWrittenFollows

LEMMA CreateFollows ==
  ASSUME LInv, IInv', NEW s \in Sessions, Create(s)
  PROVE  LInv'
<1> DEFINE t   == task[s]
           p   == t.opp
           new == [payload |-> p, current |-> 1, noted |-> p.noted, dated |-> p.stamp, link |-> p.link]
<1>1. CASE RecordError(s)
  BY <1>1, RecordErrorFollows
<1>2. CASE ~RecordError(s)
  <2>1. t.key \in Keys /\ p \in Opportunity
    BY InWork DEF LInv, IInv, Create, Statements
  <2>2. new \in Row
    BY <2>1 DEF Opportunity, Row
  <2>3. /\ ServingRow(s, t.key) = None
        /\ txRows' = Written(txRows, s, t.key, new) /\ Release(s) /\ UNCHANGED tables
        /\ \E v : txVersions' = Written(txVersions, s, t.key, v)
    BY <1>2 DEF Create
  <2>4. \A u \in Sessions \ {s} : txVersions'[u] = txVersions[u]
    BY <2>3 DEF LInv, IInv, TInv, TypeOK, Written
  <2>5. FollowedBy(ServingRow(s, t.key), new)
    BY <2>3 DEF FollowedBy
  <2> HIDE DEF new
  <2> QED BY <2>1, <2>2, <2>3, <2>4, <2>5, RowWrittenFollows
<1> QED BY <1>1, <1>2

LEMMA ServeFollows ==
  ASSUME LInv, IInv', NEW s \in Sessions, Serve(s)
  PROVE  LInv'
<1> DEFINE t   == task[s]
           row == ServingRow(s, t.key)
           new == ServedRow(row, t.opp, t.after)
<1>1. t.key \in Keys /\ t.opp \in Opportunity /\ row \in Row /\ t.after \in Nat
  BY InWork DEF LInv, IInv, Serve, Statements
<1>2. new \in Row
  BY <1>1, ServedRowType
<1>3. row.current <= t.after
  BY DEF LInv, Behind, Serve
<1>4. new.current = t.after + 1 /\ new.link = Coalesce(t.opp.link, row.link)
  BY DEF ServedRow
<1>5. FollowedBy(row, new)
  <2>1. row.current \in Nat /\ new # None
    BY <1>1, <1>2, NoneIsNothing DEF Row
  <2>2. row.current <= new.current /\ new.current # row.current
    BY <1>1, <1>3, <1>4, <2>1
  <2> HIDE DEF new, row
  <2> QED BY <1>4, <2>1, <2>2 DEF FollowedBy, Coalesce
<1>6. /\ txRows' = Written(txRows, s, t.key, new) /\ Release(s)
      /\ UNCHANGED tables /\ UNCHANGED txVersions
  BY DEF Serve
<1> HIDE DEF new
<1> QED BY <1>1, <1>2, <1>5, <1>6, RowWrittenFollows

(* The steps that write the versions.                                         *)
LEMMA CloseOpenFollows ==
  ASSUME LInv, IInv', NEW s \in Sessions, CloseOpen(s)
  PROVE  LInv'
<1> DEFINE t   == task[s]
           key == t.key
           h   == Versions(s, key)
           row == ServingRow(s, key)
<1>1. /\ pc[s] = "close" /\ pc'[s] = "insert" /\ UNCHANGED <<tables, txRows, spVersions, spRows>>
      /\ task'[s].key = key /\ task'[s].after = t.after
      /\ \A u \in Sessions \ {s} : pc'[u] = pc[u] /\ task'[u] = task[u]
  <2>1. t \in Task
    BY InWork DEF LInv, IInv, CloseOpen, Statements
  <2> QED BY <2>1 DEF LInv, IInv, TInv, TypeOK, CloseOpen, Task
<1>2. key \in Keys /\ t.after \in Nat /\ h \in Seq(Version) /\ h # << >> /\ row \in Row
  BY <1>1, InWork DEF LInv, IInv, Statements
<1>3. ~Appending(s, key)
  BY <1>1 DEF Appending
<1>4. row.current = Len(h) /\ Sound(key, h) /\ LastOpen(h)
  <2>1. row # None
    BY <1>2, NoneIsNothing
  <2> QED BY <1>2, <1>3, <2>1, ViewSound DEF LInv, Serves
<1>5. Len(Versions(s, key)') = Len(h)
  <2>1. CASE UNCHANGED txVersions
    BY <1>1, <2>1 DEF Versions, tables
  <2>2. CASE txVersions' = Written(txVersions, s, key, Closed(h, Latest(s, key).from + 1))
    <3>1. Latest(s, key).from + 1 \in Nat
      <4>1. Latest(s, key) = h[Len(h)]
        BY DEF Latest, LatestVersion
      <4>2. h[Len(h)].from \in Nat
        BY <1>2, LatestType DEF Version
      <4> HIDE DEF h, key
      <4> QED BY <4>1, <4>2
    <3>2. /\ Closed(h, Latest(s, key).from + 1) \in Seq(Version)
          /\ Len(Closed(h, Latest(s, key).from + 1)) = Len(h)
      BY <1>2, <1>4, <3>1, ClosedIs
    <3>3. txVersions'[s][key] = Closed(h, Latest(s, key).from + 1)
      BY <1>2, <2>2 DEF LInv, IInv, TInv, TypeOK, Written
    <3>4. txVersions'[s][key] # None
      BY <3>2, <3>3, ArchiveAssumption DEF ArchiveAssumption
    <3>5. Versions(s, key)' = txVersions'[s][key]
      BY <1>1, <3>4 DEF Versions
    <3> HIDE DEF h
    <3> QED BY <3>2, <3>3, <3>5
  <2> QED BY <2>1, <2>2 DEF CloseOpen
<1>6. Behind(s)'
  <2>1. ServingRow(s, key)' = row
    BY <1>1 DEF ServingRow, tables
  <2>2. NumberTaken(s)' <=> Len(h) > t.after
    <3>1. NumberTaken(s)' <=> Len(Versions(s, key)') > task'[s].after
      BY <1>1 DEF NumberTaken, Versions
    <3> HIDE DEF h
    <3> QED BY <1>1, <1>5, <3>1
  <2>3. Len(h) \in Nat
    BY <1>2
  <2>4. ServingRow(s, task[s].key)' = row
    BY <1>1, <2>1 DEF ServingRow
  <2> HIDE DEF h, row
  <2> QED BY <1>1, <1>2, <1>4, <2>2, <2>3, <2>4 DEF Behind
<1>7. RowsFollow(s)'
  BY <1>1 DEF LInv, RowsFollow, tables
<1>8. \A u \in Sessions \ {s} : UNCHANGED Own(u)
  BY <1>1 DEF LInv, IInv, TInv, TypeOK, CloseOpen, Written, Own
<1> QED BY <1>1, <1>6, <1>7, <1>8, StepFollows

LEMMA InsertVersionFollows ==
  ASSUME LInv, IInv', NEW s \in Sessions, InsertVersion(s)
  PROVE  LInv'
<1>1. CASE RecordError(s)
  BY <1>1, RecordErrorFollows
<1>2. CASE ~RecordError(s)
  <2>1. /\ pc[s] = "insert" /\ ~NumberTaken(s) /\ pc' = [pc EXCEPT ![s] = "serve"]
        /\ UNCHANGED <<tables, txRows, spVersions, spRows, task>>
        /\ \E v : txVersions' = Written(txVersions, s, task[s].key, v)
    BY <1>2 DEF InsertVersion
  <2>2. \A u \in Sessions \ {s} : UNCHANGED Own(u)
    BY <2>1 DEF LInv, IInv, TInv, TypeOK, Written, Own
  <2>3. ServingRow(s, task[s].key).current <= task[s].after
    BY <2>1 DEF LInv, Behind
  <2>4. Behind(s)'
    BY <2>1, <2>3 DEF Behind, ServingRow, tables
  <2>5. RowsFollow(s)'
    BY <2>1 DEF LInv, RowsFollow, tables
  <2> QED BY <2>1, <2>2, <2>4, <2>5, StepFollows
<1> QED BY <1>1, <1>2

(* A commit: the rows others have written are not the ones it changes.        *)
LEMMA PublishFollows ==
  ASSUME LInv, IInv', NEW s \in Sessions, Publish(s), pc[s] = "idle", pc'[s] \in {"off", "idle"},
         UNCHANGED task, \A t \in Sessions \ {s} : pc'[t] = pc[t]
  PROVE  LInv'
<1>1. \A k \in Keys : versions'[k] = Versions(s, k) /\ rows'[k] = ServingRow(s, k)
  BY DEF Publish
<1>2. \A k \in Keys : txVersions'[s][k] = None /\ txRows'[s][k] = None
  BY DEF Publish, LInv, IInv, TInv, TypeOK, Untouched
<1>3. /\ UNCHANGED <<spVersions, spRows>>
      /\ \A t \in Sessions \ {s} : txVersions'[t] = txVersions[t] /\ txRows'[t] = txRows[t]
  BY DEF Publish, LInv, IInv, TInv, TypeOK
<1>4. \A k \in Keys : spRows[s][k] = None
  BY DEF LInv, IInv, Pending
<1>5. (RowsFollow(s) /\ Behind(s))'
  BY <1>2, <1>3, <1>4 DEF RowsFollow, Behind
<1>6. ASSUME NEW t \in Sessions \ {s}, NEW k \in Keys, txRows[t][k] # None
      PROVE  rows'[k] = rows[k]
  <2>1. txRows[s][k] = None
    BY <1>6 DEF LInv, IInv, Exclusive
  <2> QED BY <1>1, <2>1 DEF ServingRow
<1>7. ASSUME NEW t \in Sessions \ {s}, NEW k \in Keys, txVersions[t][k] # None
      PROVE  versions'[k] = versions[k]
  <2>1. txVersions[s][k] = None
    BY <1>7 DEF LInv, IInv, Exclusive
  <2> QED BY <1>1, <2>1 DEF Versions
<1>8. ASSUME NEW t \in Sessions \ {s} PROVE RowsFollow(t)'
  <2>1. \A k \in Keys : spRows[t][k] # None => txRows[t][k] # None
    BY DEF LInv, IInv, Pending
  <2>2. RowsFollow(t)
    BY DEF LInv
  <2> QED BY <1>3, <1>6, <2>1, <2>2 DEF RowsFollow
<1>9. ASSUME NEW t \in Sessions \ {s} PROVE Behind(t)'
  <2> DEFINE key == task[t].key
  <2> SUFFICES ASSUME (pc[t] = "insert" /\ ~NumberTaken(t)') \/ pc[t] = "serve"
               PROVE  ServingRow(t, key)'.current <= task[t].after
    <3>1. pc'[t] = pc[t] /\ task'[t] = task[t]
      OBVIOUS
    <3> QED BY <3>1 DEF Behind, ServingRow
  <2>1. key \in Keys /\ task[t].after \in Nat /\ ServingRow(t, key) \in Row
    BY InWork DEF LInv, IInv, Statements
  <2>2. CASE txRows[t][key] # None
    <3>1. ServingRow(t, key)' = ServingRow(t, key)
      BY <1>3, <2>1, <2>2 DEF ServingRow
    <3>2. pc[t] = "insert" => ~NumberTaken(t)
      <4> SUFFICES ASSUME pc[t] = "insert", NumberTaken(t) PROVE NumberTaken(t)'
        OBVIOUS
      <4>1. \/ Versions(t, key)' = Versions(t, key)
            \/ Versions(t, key)' = versions'[key] /\ Versions(t, key) = versions[key]
        BY <1>3, <2>1 DEF Versions
      <4>2. versions[key] \in Seq(Version) /\ versions'[key] \in Seq(Version)
            /\ Grown(versions[key], versions'[key])
        <5>1. ~Appending(s, key)
          BY DEF Appending
        <5> QED BY <1>1, <2>1, <5>1, ViewSound DEF LInv, IInv, TInv, TypeOK
      <4>3. Len(Versions(t, key)') >= Len(Versions(t, key))
        <5>1. Len(versions'[key]) >= Len(versions[key])
          BY <4>2 DEF Grown
        <5>2. Len(Versions(t, key)) \in Nat
          BY <2>1, ViewTypes DEF LInv, IInv, TInv
        <5> QED BY <4>1, <5>1, <5>2
      <4>4. Len(Versions(t, key)) \in Nat /\ Len(Versions(t, key)') \in Nat
        <5>1. Versions(t, key) \in Seq(Version) /\ Versions(t, key)' \in Seq(Version)
          BY <2>1, <4>1, <4>2, ViewTypes DEF LInv, IInv, TInv
        <5> QED BY <5>1
      <4>5. task'[t].key = key /\ task'[t].after = task[t].after
        OBVIOUS
      <4>6. NumberTaken(t)' <=> Len(Versions(t, key)') > task[t].after
        BY <4>5 DEF NumberTaken, Versions
      <4> QED BY <2>1, <4>3, <4>4, <4>6 DEF NumberTaken
    <3>3. ServingRow(t, key).current <= task[t].after
      BY <3>2 DEF LInv, Behind
    <3> QED BY <3>1, <3>3
  <2>3. CASE txRows[t][key] = None
    <3>1. ServingRow(t, key) = rows[key] /\ ServingRow(t, key)' = rows'[key]
      BY <1>3, <2>1, <2>3 DEF ServingRow
    <3>2. rows[key] # None /\ rows[key].current = Len(versions[key])
      BY <2>1, <3>1, NoneIsNothing DEF LInv, IInv, Committed, Serves
    <3>3. rows'[key] # None => rows'[key].current = Len(versions'[key])
      BY <2>1 DEF IInv, Committed, Serves
    <3>4. rows'[key] # None
      BY <1>1, <2>1, <3>2, ViewFollows DEF FollowedBy
    <3>5. CASE txVersions[t][key] # None
      <4>1. versions'[key] = versions[key] /\ Versions(t, key)' = Versions(t, key)
        BY <1>3, <1>7, <2>1, <3>5 DEF Versions
      <4>2. NumberTaken(t)' <=> NumberTaken(t)
        BY <4>1 DEF NumberTaken, Versions
      <4>3. ServingRow(t, key).current <= task[t].after
        BY <4>2 DEF LInv, Behind
      <4> QED BY <3>1, <3>2, <3>3, <3>4, <4>1, <4>3
    <3>6. CASE txVersions[t][key] = None
      <4>1. pc[t] # "serve"
        BY <3>6 DEF LInv, IInv, Working, Appended
      <4>2. pc[t] = "insert" /\ ~NumberTaken(t)'
        BY <4>1
      <4>3. Versions(t, key)' = versions'[key]
        BY <1>3, <2>1, <3>6 DEF Versions
      <4>4. ~(Len(versions'[key]) > task[t].after)
        <5>1. task'[t].key = key /\ task'[t].after = task[t].after
          OBVIOUS
        <5> QED BY <4>2, <4>3, <5>1 DEF NumberTaken, Versions
      <4>5. Len(versions'[key]) \in Nat
        BY <2>1 DEF IInv, TInv, TypeOK
      <4> QED BY <2>1, <3>1, <3>3, <3>4, <4>4, <4>5
    <3> QED BY <3>5, <3>6
  <2> QED BY <2>2, <2>3
<1> QED BY <1>5, <1>8, <1>9 DEF LInv

LEMMA InitLInv == Init => LInv
<1>1. ASSUME Init, NEW s \in Sessions PROVE RowsFollow(s) /\ Behind(s)
  <2>1. \A k \in Keys : txRows[s][k] = None /\ spRows[s][k] = None
    BY <1>1 DEF Init, Untouched
  <2>2. pc[s] = "off"
    BY <1>1 DEF Init
  <2> QED BY <2>1, <2>2 DEF RowsFollow, Behind
<1> QED BY <1>1, InitIInv DEF LInv

LEMMA NextLInv == LInv /\ [Next]_vars => LInv'
<1> SUFFICES ASSUME LInv, [Next]_vars PROVE LInv'
  OBVIOUS
<1>1. IInv'
  BY NextIInv DEF LInv
<1>2. CASE UNCHANGED vars
  <2>1. ASSUME NEW s \in Sessions PROVE (RowsFollow(s) /\ Behind(s))'
    BY <1>2 DEF LInv, RowsFollow, Behind, NumberTaken, Versions, ServingRow, vars, tables, tx
  <2> QED BY <1>1, <2>1 DEF LInv
<1>3. ASSUME NEW s \in Sessions, Commit(s) \/ FinishRun(s)
      PROVE  LInv'
  <2>1. /\ Publish(s) /\ pc[s] = "idle" /\ UNCHANGED task
        /\ pc'[s] \in {"off", "idle"} /\ \A t \in Sessions \ {s} : pc'[t] = pc[t]
    BY <1>3 DEF Commit, FinishRun, LInv, IInv, TInv, TypeOK
  <2> QED BY <1>1, <2>1, PublishFollows
<1>4. ASSUME NEW s \in Sessions, Crash(s) \/ Deadlock(s)
      PROVE  LInv'
  BY <1>1, <1>4, RollbackFollows DEF Crash, Deadlock
<1>5. ASSUME NEW s \in Sessions, StartRun(s) \/ Commit(s) \/ Crash(s) \/ Work(s)
      PROVE  LInv'
  BY <1>1, <1>3, <1>4, <1>5, ReadingFollows, WriteAttributesFollows, CreateFollows,
     CloseOpenFollows, InsertVersionFollows, ServeFollows DEF Work
<1> QED BY <1>2, <1>5 DEF Next

(* A link a serving row holds is never lost, and only a new version replaces  *)
(* it, whatever sessions write the attributes and versions of one notice at   *)
(* once: the row that is written follows the one that is locked.              *)
THEOREM LinksKept == Spec => LinkKept
<1>1. Spec => []LInv
  BY InitLInv, NextLInv, PTL DEF Spec
<1>2. LInv /\ LInv' /\ [Next]_vars => [LinkKeptStep]_vars
  <2> SUFFICES ASSUME LInv, LInv', [Next]_vars, NEW k \in Keys, rows[k] # None, rows[k].link # None
               PROVE  /\ rows'[k].link # None
                      /\ rows'[k].current = rows[k].current => rows'[k].link = rows[k].link
    BY DEF LinkKeptStep
  <2>1. UNCHANGED rows \/ \E s \in Sessions : Publish(s)
    BY ZenonT(60) DEF Next, vars, tables, StartRun, Commit, Crash, Rollback, Work, FinishRun,
       MapRecord, LookUp, Carry, ReadLatest, Compare, WriteAttributes, Create, RecordError, Quarantine, CloseOpen,
       InsertVersion, Serve, Deadlock
  <2>2. ASSUME NEW s \in Sessions, Publish(s) PROVE FollowedBy(rows[k], rows'[k])
    BY <2>2, ViewFollows DEF Publish
  <2> QED BY <2>1, <2>2 DEF FollowedBy
<1> QED BY <1>1, <1>2, PTL DEF Spec, LinkKept

------------------------------------------------------------------------------
(* The dates, where no two sessions deliver records of one number: each       *)
(* source has numbers of its own and one run at a time.                       *)

(* No number is in the windows of two sessions.                               *)
Apart ==
  \A s, t \in Sessions : s # t => \A r \in Feed[s], q \in Feed[t] : r.native # q.native

(* A number the session's source delivers.                                    *)
Delivered(s, k) == \E r \in Feed[s] : r.native = k.native

(* The date of publication of one version is not lost with the next.          *)
Keeps(prev, p) ==
  LET limit == Coalesce(p.deadline, prev.deadline)
  IN  prev.stamp # None /\ prev.published # None /\ p.published = None
        => limit # None /\ prev.published > limit

KeptIn(k, h) ==
  k.native \in LocalKey => \A i \in 1..(Len(h) - 1) : Keeps(h[i].payload, h[i + 1].payload)

(* The notice date of a row is of a record no older than the version held.    *)
DatedAfter(r) == r.dated # None /\ r.payload.stamp # None => r.dated >= r.payload.stamp

DatesTrue(k, v, r) == (v # None => KeptIn(k, v)) /\ (r # None => DatedAfter(r))

(* A session writes the notices its source delivers only, and with true dates.*)
Dating(s) ==
  /\ left[s] \subseteq Feed[s]
  /\ pc[s] \in Statements => Delivered(s, task[s].key)
  /\ \A k \in Keys :
       /\ txVersions[s][k] # None \/ txRows[s][k] # None => Delivered(s, k)
       /\ DatesTrue(k, txVersions[s][k], txRows[s][k])
       /\ DatesTrue(k, spVersions[s][k], spRows[s][k])

(* The version compared with is the latest all along, and the record in work  *)
(* keeps its date of publication.                                             *)
Comparing(s) ==
  LET t == task[s]
      h == Versions(s, t.key)
  IN  /\ pc[s] = "carry" => /\ t.held = ServingRow(s, t.key)
                            /\ t.held.payload.published # None
      /\ pc[s] \in {"latest", "seen", "attrs", "close", "insert"} /\ t.key.native \in LocalKey =>
           Keeps(h[Len(h)].payload, t.opp)
      /\ pc[s] \in {"seen", "attrs", "close", "insert"} => t.after = Len(h)

DInv ==
  /\ IInv
  /\ \A k \in Keys : DatesTrue(k, versions[k], rows[k])
  /\ \A s \in Sessions : Dating(s) /\ Comparing(s)

LEMMA NoDates ==
  ASSUME NEW k
  PROVE  DatesTrue(k, None, None)
  BY DEF DatesTrue

(* No other session has written a notice the session's source delivers.       *)
LEMMA OwnNotice ==
  ASSUME Apart, DInv, NEW s \in Sessions, NEW t \in Sessions \ {s}, NEW k \in Keys, Delivered(s, k)
  PROVE  txVersions[t][k] = None /\ txRows[t][k] = None
<1>1. ~Delivered(t, k)
  BY DEF Apart, Delivered
<1> QED BY <1>1 DEF DInv, Dating

(* What a session sees has true dates.                                        *)
LEMMA ViewDates ==
  ASSUME DInv, NEW s \in Sessions, NEW k \in Keys
  PROVE  /\ KeptIn(k, Versions(s, k))
         /\ ServingRow(s, k) # None => DatedAfter(ServingRow(s, k))
<1>1. versions[k] # None
  BY ArchiveAssumption DEF DInv, IInv, TInv, TypeOK, ArchiveAssumption
<1> QED BY <1>1 DEF DInv, Dating, DatesTrue, Versions, ServingRow

(* A step of one session that commits nothing.                                *)
LEMMA StepDates ==
  ASSUME DInv, IInv', NEW s \in Sessions, UNCHANGED tables,
         \A t \in Sessions \ {s} : UNCHANGED Own(t) /\ left'[t] = left[t],
         (Dating(s) /\ Comparing(s))'
  PROVE  DInv'
<1>1. \A k \in Keys : DatesTrue(k, versions[k], rows[k])'
  BY DEF DInv, DatesTrue, tables
<1>2. ASSUME NEW t \in Sessions \ {s} PROVE (Dating(t) /\ Comparing(t))'
  <2>1. Dating(t) /\ Comparing(t)
    BY DEF DInv
  <2>2. Dating(t)'
    BY <2>1 DEF Dating, DatesTrue, Own
  <2>3. Comparing(t)'
    BY <2>1 DEF Comparing, Versions, ServingRow, Own, tables
  <2> QED BY <2>2, <2>3
<1> QED BY <1>1, <1>2 DEF DInv

(* A step that writes nothing but, perhaps, gives up what was written.        *)
LEMMA DatingKept ==
  ASSUME DInv, NEW s \in Sessions, left'[s] \subseteq Feed[s],
         pc'[s] \in Statements => Delivered(s, task'[s].key),
         \A k \in Keys :
           /\ <<txVersions'[s][k], txRows'[s][k]>> \in
                {<<None, None>>, <<txVersions[s][k], txRows[s][k]>>, <<spVersions[s][k], spRows[s][k]>>}
           /\ <<spVersions'[s][k], spRows'[s][k]>> \in
                {<<None, None>>, <<txVersions[s][k], txRows[s][k]>>, <<spVersions[s][k], spRows[s][k]>>}
  PROVE  Dating(s)'
<1>1. ASSUME NEW k \in Keys
      PROVE  /\ txVersions'[s][k] # None \/ txRows'[s][k] # None => Delivered(s, k)
             /\ DatesTrue(k, txVersions'[s][k], txRows'[s][k])
             /\ DatesTrue(k, spVersions'[s][k], spRows'[s][k])
  <2>1. /\ txVersions[s][k] # None \/ txRows[s][k] # None => Delivered(s, k)
        /\ DatesTrue(k, txVersions[s][k], txRows[s][k])
        /\ DatesTrue(k, spVersions[s][k], spRows[s][k])
    BY DEF DInv, Dating
  <2>2. /\ spVersions[s][k] # None => txVersions[s][k] # None
        /\ spRows[s][k] # None => txRows[s][k] # None
    BY DEF DInv, IInv, Pending
  <2>3. DatesTrue(k, None, None)
    BY NoDates
  <2>4. /\ \/ txVersions'[s][k] = None /\ txRows'[s][k] = None
           \/ txVersions'[s][k] = txVersions[s][k] /\ txRows'[s][k] = txRows[s][k]
           \/ txVersions'[s][k] = spVersions[s][k] /\ txRows'[s][k] = spRows[s][k]
        /\ \/ spVersions'[s][k] = None /\ spRows'[s][k] = None
           \/ spVersions'[s][k] = txVersions[s][k] /\ spRows'[s][k] = txRows[s][k]
           \/ spVersions'[s][k] = spVersions[s][k] /\ spRows'[s][k] = spRows[s][k]
    OBVIOUS
  <2> QED BY <2>1, <2>2, <2>3, <2>4
<1> QED BY <1>1 DEF Dating, DatesTrue

LEMMA GivenUpDates ==
  ASSUME DInv, IInv', NEW s \in Sessions, UNCHANGED tables,
         \A t \in Sessions \ {s} : UNCHANGED Own(t) /\ left'[t] = left[t],
         pc'[s] \in {"off", "idle"}, left'[s] \subseteq Feed[s],
         \A k \in Keys :
           /\ <<txVersions'[s][k], txRows'[s][k]>> \in
                {<<None, None>>, <<txVersions[s][k], txRows[s][k]>>, <<spVersions[s][k], spRows[s][k]>>}
           /\ <<spVersions'[s][k], spRows'[s][k]>> \in
                {<<None, None>>, <<txVersions[s][k], txRows[s][k]>>, <<spVersions[s][k], spRows[s][k]>>}
  PROVE  DInv'
<1>1. Dating(s)'
  BY DatingKept DEF Statements
<1>2. Comparing(s)'
  BY DEF Comparing
<1> QED BY <1>1, <1>2, StepDates

LEMMA RollbackDates ==
  ASSUME DInv, IInv', NEW s \in Sessions, Rollback(s)
  PROVE  DInv'
<1>1. /\ \A t \in Sessions \ {s} : UNCHANGED Own(t) /\ left'[t] = left[t]
      /\ \A k \in Keys : /\ txRows'[s][k] = None /\ spRows'[s][k] = None
                         /\ txVersions'[s][k] = None /\ spVersions'[s][k] = None
      /\ pc'[s] = "off" /\ left'[s] = {} /\ UNCHANGED tables
  BY DEF DInv, IInv, TInv, TypeOK, Rollback, Own, Untouched
<1> QED BY <1>1, GivenUpDates

LEMMA RecordErrorDates ==
  ASSUME DInv, IInv', NEW s \in Sessions, RecordError(s)
  PROVE  DInv'
<1>1. CASE Rollback(s)
  BY <1>1, RollbackDates
<1>2. CASE Quarantine(s)
  <2>1. /\ \A t \in Sessions \ {s} : UNCHANGED Own(t) /\ left'[t] = left[t]
        /\ \A k \in Keys : /\ txRows'[s][k] = spRows[s][k] /\ spRows'[s][k] = None
                           /\ txVersions'[s][k] = spVersions[s][k] /\ spVersions'[s][k] = None
        /\ pc'[s] = "idle" /\ left'[s] = left[s] /\ UNCHANGED tables
    BY <1>2 DEF DInv, IInv, TInv, TypeOK, Quarantine, Release, Own, Untouched
  <2>2. left[s] \subseteq Feed[s]
    BY DEF DInv, Dating
  <2> QED BY <2>1, <2>2, GivenUpDates
<1> QED BY <1>1, <1>2 DEF RecordError

LEMMA StartRunDates ==
  ASSUME DInv, IInv', NEW s \in Sessions, StartRun(s)
  PROVE  DInv'
<1>1. /\ \A t \in Sessions \ {s} : UNCHANGED Own(t) /\ left'[t] = left[t]
      /\ pc'[s] = "idle" /\ left'[s] = Feed[s] /\ UNCHANGED <<tables, tx>>
  BY DEF DInv, IInv, TInv, TypeOK, StartRun, Own, tx
<1> QED BY <1>1, GivenUpDates DEF tx

LEMMA MapRecordDates ==
  ASSUME DInv, IInv', NEW s \in Sessions, MapRecord(s)
  PROVE  DInv'
<1>1. CASE Rollback(s)
  BY <1>1, RollbackDates
<1>2. CASE ~Rollback(s)
  <2>1. /\ \A t \in Sessions \ {s} : UNCHANGED Own(t) /\ left'[t] = left[t]
        /\ pc'[s] = "idle" /\ left'[s] \subseteq left[s] /\ UNCHANGED <<tables, tx>>
    BY <1>2 DEF DInv, IInv, TInv, TypeOK, MapRecord, Own, tx
  <2>2. left[s] \subseteq Feed[s]
    BY DEF DInv, Dating
  <2> QED BY <2>1, <2>2, GivenUpDates DEF tx
<1> QED BY <1>1, <1>2

(* A record that states no date of publication keeps the one held, or asks    *)
(* for it.                                                                    *)
LEMMA LookUpDates ==
  ASSUME DInv, IInv', NEW s \in Sessions, LookUp(s)
  PROVE  DInv'
<1> PICK r \in left[s] :
           LET opp   == Dated(r)
               key   == HeldUnder(s, r)
               held  == ServingRow(s, key)
               asks  == /\ held # None
                        /\ opp.published = None
                        /\ held.payload.published # None
                        /\ r.native \in LocalKey
           IN /\ left' = [left EXCEPT ![s] = @ \ {r}]
              /\ pc' = [pc EXCEPT ![s] = IF held = None THEN "create"
                                         ELSE IF asks THEN "carry" ELSE "latest"]
              /\ task' = [task EXCEPT ![s] =
                   [opp |-> opp, key |-> key, held |-> IF asks THEN held ELSE None,
                    prev |-> None, after |-> 0, at |-> None]]
  BY DEF LookUp
<1>1. r \in Feed[s] /\ r \in Opportunity /\ left[s] \subseteq Feed[s]
  BY DEF DInv, IInv, TInv, TypeOK, Dating
<1>2. PICK key \in Keys : key = HeldUnder(s, r) /\ key.native = r.native
  BY <1>1, HeldUnderType DEF HeldUnder
<1> DEFINE opp  == Dated(r)
           held == ServingRow(s, key)
           h    == Versions(s, key)
           asks == /\ held # None
                   /\ opp.published = None
                   /\ held.payload.published # None
                   /\ r.native \in LocalKey
<1>3. Delivered(s, key)
  BY <1>1, <1>2 DEF Delivered
<1>4. /\ UNCHANGED <<tables, txVersions, txRows>>
      /\ spVersions'[s] = txVersions[s] /\ spRows'[s] = txRows[s]
      /\ \A t \in Sessions \ {s} : UNCHANGED Own(t) /\ left'[t] = left[t]
  BY DEF DInv, IInv, TInv, TypeOK, LookUp, Own
<1>5. /\ pc'[s] = IF held = None THEN "create" ELSE IF asks THEN "carry" ELSE "latest"
      /\ task'[s].key = key /\ task'[s].opp = opp /\ task'[s].held = IF asks THEN held ELSE None
      /\ left'[s] \subseteq Feed[s]
  BY <1>1, <1>2 DEF DInv, IInv, TInv, TypeOK
<1>6. Dating(s)'
  BY <1>3, <1>4, <1>5, DatingKept
<1>7. Versions(s, key)' = h /\ ServingRow(s, key)' = held
  BY <1>4 DEF Versions, ServingRow, tables
<1>8. ASSUME pc'[s] = "latest", key.native \in LocalKey
      PROVE  Keeps(h[Len(h)].payload, opp)
  <2>1. held # None /\ (opp.published # None \/ held.payload.published = None)
    BY <1>2, <1>5, <1>8
  <2>2. held.payload = h[Len(h)].payload
    <3>1. ~Appending(s, key)
      BY DEF Appending, LookUp
    <3> QED BY <1>2, <2>1, <3>1, ViewSound DEF DInv, Serves
  <2> HIDE DEF held, h, opp
  <2> QED BY <2>1, <2>2 DEF Keeps
<1>9. Comparing(s)'
  <2>1. Versions(s, task[s].key)' = h /\ ServingRow(s, task[s].key)' = held
    BY <1>5, <1>7 DEF Versions, ServingRow
  <2> HIDE DEF held, h, opp
  <2> QED BY <1>5, <1>8, <2>1 DEF Comparing, asks
<1> QED BY <1>4, <1>6, <1>9, StepDates

(* The date carried into a record is the one its notice is not to lose.       *)
LEMMA CarriedKeeps ==
  ASSUME NEW prev \in Opportunity, NEW p \in Opportunity, prev.published # None,
         NEW new, new.deadline = p.deadline,
         new.published = Carried(prev, prev.stamp # None, p)
  PROVE  Keeps(prev, new)
<1> DEFINE limit == Coalesce(p.deadline, prev.deadline)
<1>1. prev.published \in Nat /\ limit \in Maybe(Nat)
  BY DEF Opportunity, Maybe, Coalesce
<1>2. SUFFICES ASSUME prev.stamp # None, new.published = None
               PROVE  limit # None /\ prev.published > limit
  BY DEF Keeps
<1>3. ~(limit = None \/ prev.published <= limit)
  BY <1>2 DEF Carried
<1>4. limit \in Nat
  BY <1>1, <1>3 DEF Maybe
<1> HIDE DEF limit
<1> QED BY <1>1, <1>3, <1>4

LEMMA CarryDates ==
  ASSUME DInv, IInv', NEW s \in Sessions, Carry(s)
  PROVE  DInv'
<1> DEFINE t   == task[s]
           key == t.key
           h   == Versions(s, key)
           new == [t.opp EXCEPT !.published = Carried(t.held.payload, Latest(s, key).payload.stamp # None, t.opp)]
<1>1. pc[s] = "carry" /\ pc[s] \in Statements
  BY DEF Carry, Statements
<1>2. /\ key \in Keys /\ t.opp \in Opportunity /\ t \in Task /\ h \in Seq(Version) /\ h # << >>
      /\ ServingRow(s, key) \in Row
  BY <1>1, InWork DEF DInv, IInv
<1>3. t.held = ServingRow(s, key) /\ t.held.payload.published # None
  BY <1>1 DEF DInv, Comparing
<1>4. h[Len(h)].payload = t.held.payload
  <2>1. ~Appending(s, key) /\ ServingRow(s, key) # None
    BY <1>1, <1>2, NoneIsNothing DEF Appending
  <2> QED BY <1>2, <1>3, <2>1, ViewSound DEF DInv, Serves
<1>5. Keeps(h[Len(h)].payload, new)
  <2>1. t.held.payload \in Opportunity
    BY <1>2, <1>3 DEF Row
  <2>2. new.deadline = t.opp.deadline
        /\ new.published = Carried(t.held.payload, t.held.payload.stamp # None, t.opp)
    BY <1>2, <1>4 DEF Latest, LatestVersion, Opportunity
  <2> HIDE DEF new, h
  <2> QED BY <1>2, <1>3, <1>4, <2>1, <2>2, CarriedKeeps
<1>6. /\ pc'[s] = "latest" /\ task'[s].opp = new /\ task'[s].key = key
      /\ UNCHANGED <<tables, tx, left>>
      /\ \A u \in Sessions \ {s} : UNCHANGED Own(u)
  BY <1>2 DEF DInv, IInv, TInv, TypeOK, Carry, Own, tx, Task
<1>7. Dating(s)'
  <2>1. left[s] \subseteq Feed[s] /\ Delivered(s, key)
    BY <1>1 DEF DInv, Dating
  <2> QED BY <1>6, <2>1, DatingKept DEF tx
<1>8. Comparing(s)'
  <2>1. Versions(s, task[s].key)' = h
    BY <1>6 DEF Versions, tables, tx
  <2> HIDE DEF new, h, key
  <2> QED BY <1>5, <1>6, <2>1 DEF Comparing
<1> QED BY <1>6, <1>7, <1>8, StepDates

LEMMA ReadLatestDates ==
  ASSUME DInv, IInv', NEW s \in Sessions, ReadLatest(s)
  PROVE  DInv'
<1> DEFINE t   == task[s]
           key == t.key
           h   == Versions(s, key)
<1>1. /\ UNCHANGED <<tables, txVersions, txRows, left>>
      /\ \A u \in Sessions \ {s} : UNCHANGED Own(u)
  BY DEF DInv, IInv, TInv, TypeOK, ReadLatest, Release, Own
<1>2. left[s] \subseteq Feed[s] /\ Delivered(s, key)
  BY DEF DInv, Dating, ReadLatest, Statements
<1>3. CASE Release(s)
  <2>1. pc'[s] = "idle" /\ \A k \in Keys : spVersions'[s][k] = None /\ spRows'[s][k] = None
    BY <1>3 DEF DInv, IInv, TInv, TypeOK, Release, Untouched
  <2> QED BY <1>1, <1>2, <2>1, GivenUpDates
<1>4. CASE ~Release(s)
  <2>1. t \in Task
    BY InWork DEF DInv, IInv, ReadLatest, Statements
  <2>2. /\ pc'[s] = "seen" /\ UNCHANGED <<spVersions, spRows>>
        /\ task'[s].key = key /\ task'[s].opp = t.opp /\ task'[s].after = Len(h)
    <3>1. /\ pc' = [pc EXCEPT ![s] = "seen"] /\ UNCHANGED <<spVersions, spRows>>
          /\ task' = [task EXCEPT
               ![s] = [t EXCEPT !.prev = Latest(s, key).payload, !.after = Len(h)]]
      BY <1>4 DEF ReadLatest
    <3> HIDE DEF h
    <3> QED BY <2>1, <3>1 DEF DInv, IInv, TInv, TypeOK, Task
  <2>3. key.native \in LocalKey => Keeps(h[Len(h)].payload, t.opp)
    BY DEF DInv, Comparing, ReadLatest
  <2>4. Dating(s)'
    BY <1>1, <1>2, <2>2, DatingKept
  <2>5. Versions(s, task[s].key)' = h
    BY <1>1, <2>2 DEF Versions, tables
  <2>6. Comparing(s)'
    <3> HIDE DEF h, key
    <3> QED BY <2>2, <2>3, <2>5 DEF Comparing
  <2> QED BY <1>1, <2>4, <2>6, StepDates
<1> QED BY <1>3, <1>4

LEMMA CompareDates ==
  ASSUME DInv, IInv', NEW s \in Sessions, Compare(s)
  PROVE  DInv'
<1>1. /\ UNCHANGED <<tables, txVersions, txRows, left>>
      /\ \A u \in Sessions \ {s} : UNCHANGED Own(u)
  BY DEF DInv, IInv, TInv, TypeOK, Compare, Release, Own
<1>2. left[s] \subseteq Feed[s] /\ Delivered(s, task[s].key)
  BY DEF DInv, Dating, Compare, Statements
<1>3. CASE Release(s)
  <2>1. pc'[s] = "idle" /\ \A k \in Keys : spVersions'[s][k] = None /\ spRows'[s][k] = None
    BY <1>3 DEF DInv, IInv, TInv, TypeOK, Release, Untouched
  <2> QED BY <1>1, <1>2, <2>1, GivenUpDates
<1>4. CASE ~Release(s)
  <2>1. pc[s] = "seen" /\ pc'[s] \in {"attrs", "close"} /\ UNCHANGED <<task, spVersions, spRows>>
    BY <1>4 DEF DInv, IInv, TInv, TypeOK, Compare
  <2>2. Dating(s)'
    BY <1>1, <1>2, <2>1, DatingKept
  <2>3. Comparing(s)
    BY DEF DInv
  <2>4. Comparing(s)'
    BY <1>1, <2>1, <2>3 DEF Comparing, Versions, ServingRow, tables
  <2> QED BY <1>1, <2>2, <2>4, StepDates
<1> QED BY <1>3, <1>4

(* A step that writes what it has of the notice in work.                      *)
LEMMA WrittenDates ==
  ASSUME DInv, IInv', NEW s \in Sessions, UNCHANGED <<tables, left>>,
         \A t \in Sessions \ {s} : UNCHANGED Own(t),
         NEW key \in Keys, Delivered(s, key), NEW v, NEW r, DatesTrue(key, v, r),
         \A k \in Keys :
           /\ txVersions'[s][k] = IF k = key THEN v ELSE txVersions[s][k]
           /\ txRows'[s][k] = IF k = key THEN r ELSE txRows[s][k]
           /\ \/ spVersions'[s][k] = None /\ spRows'[s][k] = None
              \/ spVersions'[s][k] = spVersions[s][k] /\ spRows'[s][k] = spRows[s][k],
         pc'[s] \in Statements => task'[s].key = key,
         Comparing(s)'
  PROVE  DInv'
<1>1. left'[s] \subseteq Feed[s]
  BY DEF DInv, Dating
<1>2. ASSUME NEW k \in Keys
      PROVE  /\ txVersions'[s][k] # None \/ txRows'[s][k] # None => Delivered(s, k)
             /\ DatesTrue(k, txVersions'[s][k], txRows'[s][k])
             /\ DatesTrue(k, spVersions'[s][k], spRows'[s][k])
  <2>1. /\ txVersions[s][k] # None \/ txRows[s][k] # None => Delivered(s, k)
        /\ DatesTrue(k, txVersions[s][k], txRows[s][k])
        /\ DatesTrue(k, spVersions[s][k], spRows[s][k])
    BY DEF DInv, Dating
  <2>2. DatesTrue(k, None, None)
    BY NoDates
  <2>3. CASE k = key
    <3>1. txVersions'[s][k] = v /\ txRows'[s][k] = r
      BY <2>3
    <3> QED BY <2>1, <2>2, <2>3, <3>1
  <2>4. CASE k # key
    <3>1. txVersions'[s][k] = txVersions[s][k] /\ txRows'[s][k] = txRows[s][k]
      BY <2>4
    <3> QED BY <2>1, <2>2, <3>1
  <2> QED BY <2>3, <2>4
<1>3. Dating(s)'
  BY <1>1, <1>2 DEF Dating, DatesTrue
<1> QED BY <1>3, StepDates

(* The attributes of a row change, what it serves does not.                   *)
LEMMA WriteAttributesDates ==
  ASSUME DInv, IInv', NEW s \in Sessions, WriteAttributes(s)
  PROVE  DInv'
<1> DEFINE t     == task[s]
           key   == t.key
           h     == Versions(s, key)
           row   == ServingRow(s, key)
           moves == t.opp.noted # None /\ Newer(t.prev, t.opp)
           new   == [row EXCEPT !.link  = AttributeLink(row, t.opp),
                                !.noted = IF moves THEN t.opp.noted ELSE row.noted,
                                !.dated = IF moves THEN t.opp.stamp ELSE row.dated]
<1>1. pc[s] = "attrs" /\ pc[s] \in Statements
  BY DEF WriteAttributes, Statements
<1>2. key \in Keys /\ t.opp \in Opportunity /\ row \in Row /\ h \in Seq(Version) /\ h # << >>
  BY <1>1, InWork DEF DInv, IInv
<1>3. new.payload = row.payload /\ new.dated = IF moves THEN t.opp.stamp ELSE row.dated
  BY <1>2 DEF Row
<1>4. row.payload = t.prev
  <2>1. ~Appending(s, key) /\ row # None
    BY <1>1, <1>2, NoneIsNothing DEF Appending
  <2>2. row.payload = h[Len(h)].payload
    BY <1>2, <2>1, ViewSound DEF DInv, Serves
  <2>3. t.after = Len(h) /\ t.prev = h[t.after].payload
    BY <1>1 DEF DInv, IInv, Working, Reading, Comparing
  <2> QED BY <2>2, <2>3
<1>5. DatedAfter(row)
  BY <1>2, ViewDates, NoneIsNothing
<1>6. DatedAfter(new)
  <2> HIDE DEF new, row
  <2> QED BY <1>3, <1>4, <1>5 DEF DatedAfter, Newer
<1>7. DatesTrue(key, txVersions[s][key], new)
  <2>1. DatesTrue(key, txVersions[s][key], txRows[s][key])
    BY <1>2 DEF DInv, Dating
  <2> QED BY <1>6, <2>1 DEF DatesTrue
<1> HIDE DEF new
<1>8. /\ UNCHANGED <<tables, txVersions, left>> /\ Release(s)
      /\ txRows' = Written(txRows, s, key, new)
  BY DEF WriteAttributes, new
<1>9. /\ \A k \in Keys :
           /\ txRows'[s][k] = IF k = key THEN new ELSE txRows[s][k]
           /\ spVersions'[s][k] = None /\ spRows'[s][k] = None
      /\ pc'[s] = "idle"
      /\ \A u \in Sessions \ {s} : UNCHANGED Own(u)
  BY <1>2, <1>8 DEF DInv, IInv, TInv, TypeOK, Written, Release, Untouched, Own
<1>10. Comparing(s)' /\ pc'[s] \notin Statements
  BY <1>9 DEF Comparing, Statements
<1>11. Delivered(s, key)
  BY <1>1 DEF DInv, Dating
<1> QED BY <1>2, <1>7, <1>8, <1>9, <1>10, <1>11, WrittenDates

LEMMA CreateDates ==
  ASSUME DInv, IInv', NEW s \in Sessions, Create(s)
  PROVE  DInv'
<1> DEFINE t   == task[s]
           key == t.key
           p   == t.opp
           row == [payload |-> p, current |-> 1, noted |-> p.noted, dated |-> p.stamp, link |-> p.link]
           v   == [payload |-> p, changed |-> {}, notes |-> IF s \in Loads THEN {"history"} ELSE {},
                   from |-> 0, to |-> None]
<1>1. CASE RecordError(s)
  BY <1>1, RecordErrorDates DEF Create
<1>2. CASE ~RecordError(s)
  <2>1. pc[s] \in Statements /\ key \in Keys /\ p \in Opportunity
    BY InWork DEF DInv, IInv, Create, Statements
  <2>2. Delivered(s, key)
    BY <2>1 DEF DInv, Dating
  <2>3. KeptIn(key, <<v>>)
    BY DEF KeptIn
  <2>4. DatedAfter(row)
    BY <2>1 DEF DatedAfter, Opportunity, Maybe
  <2>5. DatesTrue(key, <<v>>, row)
    BY <2>3, <2>4 DEF DatesTrue
  <2> HIDE DEF v, row
  <2>6. /\ txRows' = Written(txRows, s, key, row) /\ txVersions' = Written(txVersions, s, key, <<v>>)
        /\ Release(s) /\ UNCHANGED <<tables, left>>
    BY <1>2 DEF Create, v, row
  <2>7. /\ \A k \in Keys :
             /\ txVersions'[s][k] = IF k = key THEN <<v>> ELSE txVersions[s][k]
             /\ txRows'[s][k] = IF k = key THEN row ELSE txRows[s][k]
             /\ spVersions'[s][k] = None /\ spRows'[s][k] = None
        /\ pc'[s] = "idle"
        /\ \A u \in Sessions \ {s} : UNCHANGED Own(u)
    BY <2>1, <2>6 DEF DInv, IInv, TInv, TypeOK, Written, Release, Untouched, Own
  <2>8. Comparing(s)' /\ pc'[s] \notin Statements
    BY <2>7 DEF Comparing, Statements
  <2> QED BY <2>1, <2>2, <2>5, <2>6, <2>7, <2>8, WrittenDates
<1> QED BY <1>1, <1>2

(* Nobody takes the number of the next version of a notice of one's own.      *)
LEMMA NumberIsFree ==
  ASSUME DInv, NEW s \in Sessions, pc[s] \in {"close", "insert"}
  PROVE  /\ task[s].after = Len(Versions(s, task[s].key))
         /\ Len(Versions(s, task[s].key)) \in Nat
         /\ ~NumberTaken(s)
<1>1. Versions(s, task[s].key) \in Seq(Version)
  BY InWork DEF DInv, IInv, Statements
<1>2. Len(Versions(s, task[s].key)) \in Nat
  BY <1>1
<1>3. task[s].after = Len(Versions(s, task[s].key))
  BY DEF DInv, Comparing
<1> QED BY <1>2, <1>3 DEF NumberTaken

LEMMA CloseOpenDates ==
  ASSUME DInv, IInv', NEW s \in Sessions, CloseOpen(s)
  PROVE  DInv'
<1> DEFINE t   == task[s]
           key == t.key
           h   == Versions(s, key)
           at  == Latest(s, key).from + 1
           new == Closed(h, at)
<1>1. pc[s] = "close" /\ pc[s] \in Statements
  BY DEF CloseOpen, Statements
<1>2. key \in Keys /\ t \in Task /\ h \in Seq(Version) /\ h # << >>
  BY <1>1, InWork DEF DInv, IInv
<1>3. at \in Nat
  <2>1. Latest(s, key) = h[Len(h)]
    BY DEF Latest, LatestVersion
  <2>2. h[Len(h)].from \in Nat
    BY <1>2, LatestType DEF Version
  <2> HIDE DEF h, key
  <2> QED BY <2>1, <2>2
<1>4. Sound(key, h) /\ LastOpen(h)
  <2>1. ~Appending(s, key)
    BY <1>1 DEF Appending
  <2> QED BY <1>2, <2>1, ViewSound DEF DInv
<1> HIDE DEF at
<1>5. /\ new \in Seq(Version) /\ Len(new) = Len(h) /\ Len(h) \in Nat \ {0}
      /\ \A i \in 1..Len(h) : new[i].payload = h[i].payload
  <2> HIDE DEF h, key
  <2>1. new \in Seq(Version) /\ Len(new) = Len(h)
    BY <1>2, <1>3, <1>4, ClosedIs
  <2>2. \A i \in 1..Len(h) : new[i].payload = h[i].payload
    BY <1>2, <1>3, <1>4, ClosedFields
  <2> QED BY <1>2, <2>1, <2>2, LatestType
<1>6. t.after = Len(h)
  BY <1>1, NumberIsFree
<1>7. /\ txVersions' = Written(txVersions, s, key, new)
      /\ pc' = [pc EXCEPT ![s] = "insert"]
      /\ UNCHANGED <<tables, txRows, spVersions, spRows, left>>
      /\ task'[s].key = key /\ task'[s].after = t.after /\ task'[s].opp = t.opp
      /\ \A u \in Sessions \ {s} : task'[u] = task[u]
  <2>1. ~(Len(h) > t.after)
    BY <1>1, NumberIsFree DEF NumberTaken
  <2> QED BY <1>2, <2>1 DEF CloseOpen, at, DInv, IInv, TInv, TypeOK, Task
<1> HIDE DEF new
<1>8. /\ \A k \in Keys : txVersions'[s][k] = IF k = key THEN new ELSE txVersions[s][k]
      /\ pc'[s] = "insert"
      /\ \A u \in Sessions \ {s} : UNCHANGED Own(u)
  BY <1>2, <1>7 DEF DInv, IInv, TInv, TypeOK, Written, Own
<1>9. KeptIn(key, new)
  <2>1. KeptIn(key, h)
    BY <1>2, ViewDates
  <2>2. \A i \in 1..(Len(h) - 1) : i \in 1..Len(h) /\ i + 1 \in 1..Len(h)
    BY <1>5
  <2> QED BY <1>5, <2>1, <2>2 DEF KeptIn
<1>10. DatesTrue(key, new, txRows[s][key])
  <2>1. DatesTrue(key, txVersions[s][key], txRows[s][key])
    BY <1>2 DEF DInv, Dating
  <2> QED BY <1>9, <2>1 DEF DatesTrue
<1>11. Comparing(s)'
  <2>1. new # None
    BY <1>5, ArchiveAssumption DEF ArchiveAssumption
  <2>2. Versions(s, task[s].key)' = new
    BY <1>2, <1>7, <1>8, <2>1 DEF Versions
  <2>3. key.native \in LocalKey => Keeps(new[Len(new)].payload, t.opp)
    <3>1. key.native \in LocalKey => Keeps(h[Len(h)].payload, t.opp)
      BY <1>1 DEF DInv, Comparing
    <3>2. new[Len(new)].payload = h[Len(h)].payload
      BY <1>5
    <3> QED BY <3>1, <3>2
  <2> HIDE DEF h, key
  <2> QED BY <1>5, <1>6, <1>7, <1>8, <2>2, <2>3 DEF Comparing
<1>12. Delivered(s, key)
  BY <1>1 DEF DInv, Dating
<1> QED BY <1>2, <1>7, <1>8, <1>10, <1>11, <1>12, WrittenDates

LEMMA InsertVersionDates ==
  ASSUME DInv, IInv', NEW s \in Sessions, InsertVersion(s)
  PROVE  DInv'
<1> DEFINE t   == task[s]
           key == t.key
           h   == Versions(s, key)
           v   == [payload |-> t.opp, changed |-> changed_fields(t.prev, t.opp),
                   notes |-> VersionNotes(s, t.prev, t.opp),
                   from |-> Coalesce(t.at, Latest(s, key).from + 1), to |-> None]
           new == Append(h, v)
<1>1. pc[s] = "insert" /\ pc[s] \in Statements
  BY DEF InsertVersion, Statements
<1>2. key \in Keys /\ h \in Seq(Version) /\ h # << >>
  BY <1>1, InWork DEF DInv, IInv
<1>3. v.payload = t.opp
  OBVIOUS
<1> HIDE DEF v
<1>4. /\ txVersions' = Written(txVersions, s, key, new)
      /\ pc' = [pc EXCEPT ![s] = "serve"]
      /\ UNCHANGED <<tables, txRows, spVersions, spRows, task, left>>
  BY <1>1, NumberIsFree DEF InsertVersion, v
<1>5. KeptIn(key, new)
  <2>1. KeptIn(key, h)
    BY <1>2, ViewDates
  <2>2. key.native \in LocalKey => Keeps(h[Len(h)].payload, v.payload)
    BY <1>1, <1>3 DEF DInv, Comparing
  <2>3. /\ Len(new) = Len(h) + 1 /\ Len(h) \in Nat \ {0}
        /\ new[Len(h) + 1] = v /\ \A i \in 1..Len(h) : new[i] = h[i]
    <3> HIDE DEF h
    <3> QED BY <1>2, LatestType
  <2> HIDE DEF new, h, key
  <2> SUFFICES ASSUME key.native \in LocalKey, NEW i \in 1..Len(h)
               PROVE  Keeps(new[i].payload, new[i + 1].payload)
    BY <2>3 DEF KeptIn
  <2>4. CASE i = Len(h)
    BY <2>2, <2>3, <2>4
  <2>5. CASE i # Len(h)
    <3>1. i \in 1..(Len(h) - 1) /\ i + 1 \in 1..Len(h)
      BY <2>3, <2>5
    <3> QED BY <2>1, <2>3, <3>1 DEF KeptIn
  <2> QED BY <2>4, <2>5
<1> HIDE DEF new
<1>6. /\ \A k \in Keys : txVersions'[s][k] = IF k = key THEN new ELSE txVersions[s][k]
      /\ pc'[s] = "serve"
      /\ \A u \in Sessions \ {s} : UNCHANGED Own(u)
  BY <1>2, <1>4 DEF DInv, IInv, TInv, TypeOK, Written, Own
<1>7. DatesTrue(key, new, txRows[s][key])
  <2>1. DatesTrue(key, txVersions[s][key], txRows[s][key])
    BY <1>2 DEF DInv, Dating
  <2> QED BY <1>5, <2>1 DEF DatesTrue
<1>8. Comparing(s)'
  BY <1>6 DEF Comparing
<1>9. Delivered(s, key)
  BY <1>1 DEF DInv, Dating
<1> QED BY <1>2, <1>4, <1>6, <1>7, <1>8, <1>9, WrittenDates

LEMMA ServeDates ==
  ASSUME DInv, IInv', NEW s \in Sessions, Serve(s)
  PROVE  DInv'
<1> DEFINE t   == task[s]
           key == t.key
           new == ServedRow(ServingRow(s, key), t.opp, t.after)
<1>1. pc[s] \in Statements
  BY DEF Serve, Statements
<1>2. key \in Keys /\ t.opp \in Opportunity
  BY <1>1, InWork DEF DInv, IInv
<1>3. new.payload = t.opp /\ new.dated = t.opp.stamp
  BY DEF ServedRow
<1>4. DatedAfter(new)
  <2>1. t.opp.stamp \in Maybe(Nat)
    BY <1>2 DEF Opportunity
  <2> HIDE DEF new
  <2> QED BY <1>3, <2>1 DEF DatedAfter, Maybe
<1> HIDE DEF new
<1>5. DatesTrue(key, txVersions[s][key], new)
  <2>1. DatesTrue(key, txVersions[s][key], txRows[s][key])
    BY <1>2 DEF DInv, Dating
  <2> QED BY <1>4, <2>1 DEF DatesTrue
<1>6. /\ UNCHANGED <<tables, txVersions, left>> /\ Release(s)
      /\ txRows' = Written(txRows, s, key, new)
  BY DEF Serve, new
<1>7. /\ \A k \in Keys :
           /\ txRows'[s][k] = IF k = key THEN new ELSE txRows[s][k]
           /\ spVersions'[s][k] = None /\ spRows'[s][k] = None
      /\ pc'[s] = "idle"
      /\ \A u \in Sessions \ {s} : UNCHANGED Own(u)
  BY <1>2, <1>6 DEF DInv, IInv, TInv, TypeOK, Written, Release, Untouched, Own
<1>8. Comparing(s)' /\ pc'[s] \notin Statements
  BY <1>7 DEF Comparing, Statements
<1>9. Delivered(s, key)
  BY <1>1 DEF DInv, Dating
<1> QED BY <1>2, <1>5, <1>6, <1>7, <1>8, <1>9, WrittenDates

(* A commit changes no notice another session works on.                       *)
LEMMA PublishDates ==
  ASSUME Apart, DInv, IInv', NEW s \in Sessions, Publish(s), pc'[s] \in {"off", "idle"},
         UNCHANGED <<task, left>>, \A t \in Sessions \ {s} : pc'[t] = pc[t]
  PROVE  DInv'
<1>1. \A k \in Keys : versions'[k] = Versions(s, k) /\ rows'[k] = ServingRow(s, k)
  BY DEF Publish
<1>2. \A k \in Keys : txVersions'[s][k] = None /\ txRows'[s][k] = None
  BY DEF Publish, DInv, IInv, TInv, TypeOK, Untouched
<1>3. /\ UNCHANGED <<spVersions, spRows>>
      /\ \A t \in Sessions \ {s} : txVersions'[t] = txVersions[t] /\ txRows'[t] = txRows[t]
  BY DEF Publish, DInv, IInv, TInv, TypeOK
<1>4. \A k \in Keys : DatesTrue(k, versions[k], rows[k])'
  <2>1. \A k \in Keys : DatesTrue(k, Versions(s, k), ServingRow(s, k))
    BY ViewDates DEF DatesTrue
  <2> QED BY <1>1, <2>1 DEF DatesTrue
<1>5. (Dating(s) /\ Comparing(s))'
  <2>1. left[s] \subseteq Feed[s]
    BY DEF DInv, Dating
  <2>2. Dating(s)'
    BY <1>2, <1>3, <2>1, DatingKept DEF Statements
  <2>3. Comparing(s)'
    BY DEF Comparing
  <2> QED BY <2>2, <2>3
<1>6. ASSUME NEW t \in Sessions \ {s} PROVE (Dating(t) /\ Comparing(t))'
  <2>1. Dating(t) /\ Comparing(t)
    BY DEF DInv
  <2>2. Dating(t)'
    BY <1>3, <2>1 DEF Dating, DatesTrue
  <2>3. CASE pc[t] \in Statements
    <3> DEFINE key == task[t].key
    <3>1. key \in Keys
      BY <2>3, InWork DEF DInv, IInv
    <3>2. txVersions[s][key] = None /\ txRows[s][key] = None
      BY <2>1, <2>3, <3>1, OwnNotice DEF Dating
    <3>3. versions'[key] = versions[key] /\ rows'[key] = rows[key]
      BY <1>1, <3>1, <3>2 DEF Versions, ServingRow
    <3>4. Versions(t, key)' = Versions(t, key) /\ ServingRow(t, key)' = ServingRow(t, key)
      BY <1>3, <3>3 DEF Versions, ServingRow
    <3>5. /\ task'[t] = task[t] /\ pc'[t] = pc[t]
          /\ Versions(t, task[t].key)' = Versions(t, key)
          /\ ServingRow(t, task[t].key)' = ServingRow(t, key)
      BY <3>4 DEF Versions, ServingRow
    <3> QED BY <2>1, <2>2, <3>5 DEF Comparing
  <2>4. CASE pc[t] \notin Statements
    BY <2>2, <2>4 DEF Comparing, Statements
  <2> QED BY <2>3, <2>4
<1> QED BY <1>4, <1>5, <1>6 DEF DInv

LEMMA InitDInv == Init => DInv
<1> SUFFICES ASSUME Init PROVE DInv
  OBVIOUS
<1>1. \A k \in Keys : versions[k] = << >> /\ rows[k] = None
  BY DEF Init
<1>2. \A k \in Keys : DatesTrue(k, versions[k], rows[k])
  BY <1>1 DEF DatesTrue, KeptIn
<1>3. ASSUME NEW s \in Sessions PROVE Dating(s) /\ Comparing(s)
  <2>1. /\ pc[s] = "off" /\ left[s] = {}
        /\ \A k \in Keys : /\ txVersions[s][k] = None /\ txRows[s][k] = None
                           /\ spVersions[s][k] = None /\ spRows[s][k] = None
    BY DEF Init, Untouched
  <2>2. Dating(s)
    BY <2>1, NoDates DEF Dating, Statements
  <2> QED BY <2>1, <2>2 DEF Comparing
<1> QED BY <1>2, <1>3, InitIInv DEF DInv

LEMMA NextDInv == Apart /\ DInv /\ [Next]_vars => DInv'
<1> SUFFICES ASSUME Apart, DInv, [Next]_vars PROVE DInv'
  OBVIOUS
<1>1. IInv'
  BY NextIInv DEF DInv
<1>2. CASE UNCHANGED vars
  <2>1. \A k \in Keys : DatesTrue(k, versions[k], rows[k])'
    BY <1>2 DEF DInv, DatesTrue, vars, tables
  <2>2. ASSUME NEW s \in Sessions PROVE (Dating(s) /\ Comparing(s))'
    <3>1. Dating(s) /\ Comparing(s)
      BY DEF DInv
    <3>2. Dating(s)'
      BY <1>2, <3>1 DEF Dating, DatesTrue, vars, tx
    <3>3. Comparing(s)'
      BY <1>2, <3>1 DEF Comparing, Versions, ServingRow, vars, tables, tx
    <3> QED BY <3>2, <3>3
  <2> QED BY <1>1, <2>1, <2>2 DEF DInv
<1>3. ASSUME NEW s \in Sessions, Commit(s) \/ FinishRun(s)
      PROVE  DInv'
  <2>1. /\ Publish(s) /\ UNCHANGED <<task, left>>
        /\ pc'[s] \in {"off", "idle"} /\ \A t \in Sessions \ {s} : pc'[t] = pc[t]
    BY <1>3 DEF Commit, FinishRun, DInv, IInv, TInv, TypeOK
  <2> QED BY <1>1, <2>1, PublishDates
<1>4. ASSUME NEW s \in Sessions, Crash(s) \/ Deadlock(s)
      PROVE  DInv'
  BY <1>1, <1>4, RollbackDates DEF Crash, Deadlock
<1>5. ASSUME NEW s \in Sessions, StartRun(s) \/ Commit(s) \/ Crash(s) \/ Work(s)
      PROVE  DInv'
  BY <1>1, <1>3, <1>4, <1>5, StartRunDates, MapRecordDates, LookUpDates, CarryDates, ReadLatestDates,
     CompareDates, WriteAttributesDates, CreateDates, CloseOpenDates, InsertVersionDates, ServeDates
     DEF Work
<1> QED BY <1>2, <1>5 DEF Next

(* Where each source's numbers are its own and it has one run at a time, the  *)
(* date a call was published is never lost with a later entry that states     *)
(* none, and the notice date never falls behind the version served, whatever  *)
(* the order of the records, the checkpoints, the failures and the crashes.   *)
THEOREM DatesAreKept == Apart => (Spec => []DatesKept)
<1>1. DInv => DatesKept
  <2> SUFFICES ASSUME DInv PROVE DatesKept
    OBVIOUS
  <2>1. ASSUME NEW k \in Keys, k.native \in LocalKey, NEW i \in 2..Len(versions[k])
        PROVE  Keeps(versions[k][i - 1].payload, versions[k][i].payload)
    <3>1. versions[k] \in Seq(Version) /\ versions[k] # None
      BY ArchiveAssumption DEF DInv, IInv, TInv, TypeOK, ArchiveAssumption
    <3>2. i - 1 \in 1..(Len(versions[k]) - 1) /\ (i - 1) + 1 = i
      BY <3>1
    <3>3. KeptIn(k, versions[k])
      BY <3>1 DEF DInv, DatesTrue
    <3>4. Keeps(versions[k][i - 1].payload, versions[k][(i - 1) + 1].payload)
      BY <2>1, <3>2, <3>3 DEF KeptIn
    <3> QED BY <3>2, <3>4
  <2>2. PublicationKept
    BY <2>1 DEF PublicationKept, Keeps
  <2>3. NoticeDateFollows
    BY DEF DInv, DatesTrue, DatedAfter, NoticeDateFollows
  <2> QED BY <2>2, <2>3 DEF DatesKept
<1>2. ASSUME Apart PROVE Spec => []DInv
  <2>1. DInv /\ [Next]_vars => DInv'
    BY <1>2, NextDInv
  <2> QED BY <2>1, InitDInv, PTL DEF Spec
<1>3. ASSUME Apart PROVE Spec => []DatesKept
  BY <1>1, <1>2, <1>3, PTL
<1> QED BY <1>3
==============================================================================
