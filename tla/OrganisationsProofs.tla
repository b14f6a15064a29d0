------------------------ MODULE OrganisationsProofs ------------------------
(* Proofs about Organisations, for any rows, batches and runs and any order   *)
(* of resolutions, merges and undos: a merged row points at a live one        *)
(* (`IInv`), and what a notice states of its buyer stays with its body, which *)
(* needs what the merges of all rows look like together (`KInv`).             *)
EXTENDS Organisations, FiniteSetTheorems, WellFoundedInduction, TLAPS

(* The tables that pointers depend on. An unused row is not merged.           *)
Shapes ==
  /\ last \in 0..MaxOrg
  /\ org \in [Orgs -> Row]
  /\ \A o \in Orgs : Merged(o) => Exists(o)
  /\ batch \in 0..MaxBatch
  /\ archived \in [Notices -> 0..MaxOrg]
  /\ asOf \in Seq([Notices -> 0..MaxOrg])

(* What a session has decided states a number, or none.                       *)
Decided ==
  /\ DOMAIN task = Sessions
  /\ \A s \in Sessions : task[s] # Idle =>
       /\ task[s].st \in Statements
       /\ task[s].does.number \in Numbers \cup {None}

Moves == [row : Orgs, old : Orgs, new : Orgs, at : Nat]

(* The log of pointers that were moved on, and that any part of it has a      *)
(* latest line, which is what an undo goes by.                                *)
Logged ==
  /\ repointed \subseteq Moves
  /\ \A r \in repointed : r.at <= Len(asOf)
  /\ \A log \in SUBSET repointed : log # {} => \E r \in log : \A q \in log : q.at <= r.at

IInv == Shapes /\ Decided /\ Logged /\ NoChains

------------------------------------------------------------------------------
LEMMA Constants ==
  /\ MaxOrg \in Nat
  /\ MaxBatch \in Nat
  /\ NoOrg \notin Orgs
  /\ None \notin Names \cup Numbers \cup Pics
BY OrganisationsAssumption DEF OrganisationsAssumption, NoOrg, Orgs

LEMMA InitIInv == Init => IInv
<1>1. ASSUME Init PROVE IInv
  <2>1. /\ last = Len(Listed)
        /\ Listed \in Seq(Entry)
        /\ Len(Listed) <= MaxOrg
    BY <1>1, OrganisationsAssumption DEF Init, OrganisationsAssumption
  <2>2. last \in 0..MaxOrg
    BY <2>1, Constants
  <2>3. Absent \in Row
    BY Constants DEF Absent, Row, NoOrg
  <2>4. \A o \in Orgs : org[o] \in Row /\ org[o].into = NoOrg
    <3>1. TAKE o \in Orgs
    <3>2. CASE o > Len(Listed)
      <4>1. org[o] = Absent
        BY <1>1, <3>1, <3>2 DEF Init
      <4> QED BY <4>1, <2>3 DEF Absent
    <3>3. CASE ~(o > Len(Listed))
      <4>1. o \in 1..Len(Listed)
        BY <3>3, <2>1, Constants DEF Orgs
      <4>2. Listed[o] \in Entry
        BY <4>1, <2>1
      <4>3. org[o] = [NewRow(Listed[o].name, Listed[o].number) EXCEPT
                        !.pic = Listed[o].pic, !.flag = Listed[o].flag,
                        !.source = Listed[o].source]
        BY <1>1, <3>1, <3>3 DEF Init
      <4> QED BY <4>2, <4>3, <2>3 DEF Entry, NewRow, Absent, Row
    <3> QED BY <3>2, <3>3
  <2>5. org \in [Orgs -> Row]
    BY <1>1, <2>4 DEF Init
  <2>6. Shapes
    <3>1. /\ batch = 0
          /\ archived = [n \in Notices |-> NoOrg]
          /\ asOf = << >>
      BY <1>1 DEF Init
    <3>2. archived \in [Notices -> 0..MaxOrg]
      BY <3>1, Constants DEF NoOrg
    <3>3. \A o \in Orgs : Merged(o) => Exists(o)
      BY <2>4 DEF Merged
    <3> QED BY <2>2, <2>5, <3>1, <3>2, <3>3, Constants DEF Shapes
  <2>7. Decided
    BY <1>1 DEF Init, Decided
  <2>8. Logged
    BY <1>1 DEF Init, Logged
  <2>9. NoChains
    BY <2>4 DEF NoChains, Merged
  <2> QED BY <2>6, <2>7, <2>8, <2>9 DEF IInv
<1> QED BY <1>1

------------------------------------------------------------------------------
(* Steps that move no pointer.                                                *)

LEMMA SamePointers ==
  ASSUME Shapes, NoChains,
         last' \in 0..MaxOrg,
         last <= last',
         \A o \in Orgs : org'[o].into = org[o].into
  PROVE  /\ NoChains'
         /\ \A o \in Orgs : Merged(o)' => Exists(o)'
<1>1. last \in Nat /\ last' \in Nat
  BY Constants DEF Shapes
<1>2. \A o \in Orgs : Merged(o)' <=> Merged(o)
  BY DEF Merged
<1>3. \A o : Exists(o) => Exists(o)'
  BY <1>1 DEF Exists
<1>4. ASSUME NEW o \in Orgs, Merged(o)'
      PROVE  Exists(o)' /\ Exists(org[o].into)' /\ ~Merged(org[o].into)'
  <2>1. Exists(o) /\ Exists(org[o].into) /\ ~Merged(org[o].into)
    BY <1>2, <1>4 DEF Shapes, NoChains
  <2>2. org[o].into \in Orgs
    BY <2>1, <1>1, Constants DEF Shapes, Exists, Orgs
  <2> QED BY <2>1, <2>2, <1>2, <1>3
<1>5. NoChains'
  BY <1>4 DEF NoChains
<1> QED BY <1>4, <1>5

LEMMA AttachStates ==
  ASSUME NEW o, NEW number, NEW named, NEW rank
  PROVE  Attach(o, number, named, rank).number \in {number, None}
BY DEF Attach, Decide

LEMMA ByNameStates ==
  ASSUME NEW name, NEW number, NEW d \in ByName(name, number)
  PROVE  d.number \in {number, None}
<1>1. CASE AliasesOf(name) # {}
  <2>1. PICK k : d = Attach(Live(alias[k].org), number, NoOrg, 0)
    BY <1>1 DEF ByName
  <2> QED BY <2>1, AttachStates
<1>2. CASE AliasesOf(name) = {} /\ Namesakes(name) # {}
  <2>1. PICK o : d = Attach(o, number, o, 1)
    BY <1>2 DEF ByName
  <2> QED BY <2>1, AttachStates
<1>3. CASE AliasesOf(name) = {} /\ Namesakes(name) = {}
  BY <1>3 DEF ByName, Decide
<1> QED BY <1>1, <1>2, <1>3

(* What a run decides states the number of its notice, or none.               *)
LEMMA DecisionStates ==
  ASSUME NEW st \in Statements, NEW d \in Decisions(st)
  PROVE  d.number \in Numbers \cup {None}
<1>1. st.number \in Numbers \cup {None}
  BY OrganisationsAssumption DEF OrganisationsAssumption
<1>2. CASE Holders(st.number) = {}
  <2>1. d \in ByName(st.name, st.number)
    BY <1>2 DEF Decisions
  <2> QED BY <2>1, <1>1, ByNameStates
<1>3. CASE Holders(st.number) # {}
  <2>1. PICK o : d \in ByNumber(o) \/ d \in ByName(st.name, None)
    BY <1>3 DEF Decisions
  <2>2. CASE d \in ByNumber(o)
    BY <2>2 DEF ByNumber, Decide
  <2>3. CASE d \in ByName(st.name, None)
    BY <2>3, ByNameStates
  <2> QED BY <2>1, <2>2, <2>3
<1> QED BY <1>2, <1>3

LEMMA ResolveIInv == ASSUME IInv, NEW s \in Sessions, Resolve(s) PROVE IInv'
<1>a. PICK st \in Statements : \E d \in Decisions(st) :
        task' = [task EXCEPT ![s] = [notice |-> st.notice, st |-> st, does |-> d]]
  BY DEF Resolve
<1>1. PICK d \in Decisions(st) :
        task' = [task EXCEPT ![s] = [notice |-> st.notice, st |-> st, does |-> d]]
  BY <1>a
<1>2. UNCHANGED <<last, org, repointed, archived, asOf, runs>>
  BY DEF Resolve
<1>3. Decided'
  <2>1. d.number \in Numbers \cup {None}
    BY DecisionStates
  <2> QED BY <1>1, <2>1 DEF IInv, Decided, Idle
<1>4. Shapes' /\ Logged' /\ NoChains'
  BY <1>2 DEF IInv, Shapes, Logged, NoChains, Merged, Exists, runs
<1> QED BY <1>3, <1>4 DEF IInv

LEMMA QuarantineIInv == ASSUME IInv, NEW s \in Sessions, Quarantine(s) PROVE IInv'
<1>1. task' = [task EXCEPT ![s] = Idle]
  BY DEF Quarantine
<1>2. UNCHANGED <<last, org, repointed, archived, asOf, runs>>
  BY DEF Quarantine
<1>3. Decided'
  BY <1>1 DEF IInv, Decided, Idle
<1>4. Shapes' /\ Logged' /\ NoChains'
  BY <1>2 DEF IInv, Shapes, Logged, NoChains, Merged, Exists, runs
<1> QED BY <1>3, <1>4 DEF IInv

LEMMA BatchIInv == ASSUME IInv, BeginBatch \/ EndBatch PROVE IInv'
<1>1. UNCHANGED <<last, org, repointed, archived, asOf, task>>
  BY DEF BeginBatch, EndBatch
<1>2. batch' \in 0..MaxBatch
  BY Constants DEF BeginBatch, EndBatch, IInv, Shapes
<1> QED BY <1>1, <1>2 DEF IInv, Shapes, Decided, Logged, NoChains, Merged, Exists

LEMMA NewRowIsRow ==
  ASSUME NEW name \in Names, NEW number \in Numbers \cup {None}
  PROVE  NewRow(name, number) \in Row /\ NewRow(name, number).into = NoOrg
<1>1. Absent \in Row /\ Absent.into = NoOrg
  BY Constants DEF Absent, Row, NoOrg
<1>2. PICK stamp \in {"none", "resolved"} :
        NewRow(name, number) = [Absent EXCEPT !.name = name, !.number = number, !.stamp = stamp]
  BY DEF NewRow
<1> QED BY <1>1, <1>2 DEF Row

(* The row of a buyer as a run leaves it points where it did.                 *)
LEMMA ServedRow ==
  ASSUME Shapes,
         NEW o \in Orgs, NEW st \in Statements, NEW does,
         does.number \in Numbers \cup {None},
         does.buyer = NoOrg => ~Exists(o)
  PROVE  LET row == Inherited(o, Numbered(o, st, does), st.name)
         IN  row \in Row /\ row.into = org[o].into
<1> DEFINE numbered == Numbered(o, st, does)
<1>1. st.name \in Names
  BY OrganisationsAssumption DEF OrganisationsAssumption
<1>2. org[o] \in Row
  BY DEF Shapes
<1>3. numbered \in Row /\ numbered.into = org[o].into
  <2>1. CASE does.buyer = NoOrg
    <3>1. numbered = NewRow(st.name, does.number)
      BY <2>1 DEF Numbered
    <3>2. org[o].into = NoOrg
      BY <2>1 DEF Shapes, Merged
    <3> QED BY <1>1, <3>1, <3>2, NewRowIsRow
  <2>2. CASE does.buyer # NoOrg /\ Stores(o, does)
    <3>1. numbered = [org[o] EXCEPT !.number = does.number, !.stamp = "resolved"]
      BY <2>2 DEF Numbered
    <3> QED BY <1>2, <3>1 DEF Row
  <2>3. CASE does.buyer # NoOrg /\ ~Stores(o, does)
    <3>1. numbered = org[o]
      BY <2>3 DEF Numbered
    <3> QED BY <1>2, <3>1
  <2> QED BY <2>1, <2>2, <2>3
<1>4. Inherited(o, numbered, st.name) \in
        {numbered, [numbered EXCEPT !.flag = TRUE, !.source = TRUE]}
  BY DEF Inherited
<1>5. [numbered EXCEPT !.flag = TRUE, !.source = TRUE] \in Row
  BY <1>3 DEF Row
<1>6. [numbered EXCEPT !.flag = TRUE, !.source = TRUE].into = numbered.into
  BY <1>3 DEF Row
<1> QED BY <1>3, <1>4, <1>5, <1>6

LEMMA ServeIInv == ASSUME IInv, NEW s \in Sessions, Serve(s) PROVE IInv'
<1> DEFINE st == task[s].st
           does == task[s].does
           o == Buyer(does)
           row == Inherited(o, Numbered(o, st, does), st.name)
<1>1. /\ st \in Statements
      /\ does.number \in Numbers \cup {None}
      /\ o \in Orgs
      /\ st.notice \in Notices
  BY OrganisationsAssumption DEF Serve, IInv, Decided, OrganisationsAssumption
<1>2. /\ org' = [org EXCEPT ![o] = row]
      /\ last' = IF does.buyer = NoOrg THEN o ELSE last
      /\ archived' = [archived EXCEPT ![st.notice] = o]
      /\ task' = [task EXCEPT ![s] = Idle]
      /\ UNCHANGED <<repointed, asOf, runs>>
  BY DEF Serve
<1>3. last \in 0..MaxOrg /\ MaxOrg \in Nat
  BY Constants DEF IInv, Shapes
<1>4. does.buyer = NoOrg => o = last + 1
  BY DEF Buyer
<1>5. does.buyer = NoOrg => ~Exists(o)
  BY <1>3, <1>4 DEF Exists
<1>6. row \in Row /\ row.into = org[o].into
  BY <1>1, <1>5, ServedRow DEF IInv
<1> HIDE DEF st, does, o, row
<1>7. last' \in 0..MaxOrg /\ last <= last'
  BY <1>1, <1>2, <1>3, <1>4 DEF Orgs
<1>8. org' \in [Orgs -> Row] /\ \A p \in Orgs : org'[p].into = org[p].into
  BY <1>1, <1>2, <1>6 DEF IInv, Shapes
<1>9. NoChains' /\ \A p \in Orgs : Merged(p)' => Exists(p)'
  BY <1>7, <1>8, SamePointers DEF IInv
<1>10. archived' \in [Notices -> 0..MaxOrg]
  BY <1>1, <1>2, <1>3 DEF IInv, Shapes, Orgs
<1>11. Shapes'
  BY <1>2, <1>7, <1>8, <1>9, <1>10 DEF IInv, Shapes, runs
<1>12. Decided'
  BY <1>2 DEF IInv, Decided, Idle
<1>13. Logged'
  BY <1>2 DEF IInv, Logged
<1> QED BY <1>9, <1>11, <1>12, <1>13 DEF IInv

------------------------------------------------------------------------------
(* A merge.                                                                   *)

LEMMA KeptIsRow ==
  ASSUME Shapes, NEW keep \in Orgs, NEW absorbed \in Orgs
  PROVE  Kept(keep, absorbed) \in Row /\ Kept(keep, absorbed).into = org[keep].into
<1> DEFINE k == org[keep]
           a == org[absorbed]
           number == IF GivesNumber(keep, absorbed)
                     THEN [k EXCEPT !.number = a.number, !.stamp = "merge"] ELSE k
           pic == IF GivesPic(keep, absorbed) THEN [number EXCEPT !.pic = a.pic] ELSE number
<1>1. k \in Row /\ a \in Row
  BY DEF Shapes
<1>2. number \in Row /\ number.into = k.into
  BY <1>1 DEF Row
<1>3. pic \in Row /\ pic.into = k.into
  BY <1>1, <1>2 DEF Row
<1>4. Kept(keep, absorbed) = [pic EXCEPT !.flag = k.flag \/ a.flag]
  BY DEF Kept
<1>5. (k.flag \/ a.flag) \in BOOLEAN
  BY <1>1 DEF Row
<1> HIDE DEF pic
<1> QED BY <1>3, <1>4, <1>5 DEF Row

LEMMA AbsorbedIsRow ==
  ASSUME Shapes, NEW keep \in Orgs, NEW absorbed \in Orgs
  PROVE  Absorbed(keep, absorbed) \in Row /\ Absorbed(keep, absorbed).into = keep
<1>1. org[absorbed] \in Row
  BY DEF Shapes
<1>2. Len(asOf) + 1 \in Nat /\ batch \in 0..MaxBatch
  BY DEF Shapes
<1> QED BY <1>1, <1>2 DEF Absorbed, Row

(* What a merge logs is later than what is in the log.                        *)
LEMMA LogGrows ==
  ASSUME Logged, Len(asOf) \in Nat,
         Len(asOf)' = Len(asOf) + 1,
         NEW new \in SUBSET Moves,
         \A r \in new : r.at = Len(asOf) + 1,
         repointed' = repointed \cup new
  PROVE  Logged'
<1>1. repointed' \subseteq Moves
  BY DEF Logged
<1>2. \A r \in repointed' : r.at \in Nat /\ r.at <= Len(asOf)'
  BY <1>1 DEF Logged, Moves
<1>3. ASSUME NEW log \in SUBSET repointed', log # {}
      PROVE  \E r \in log : \A q \in log : q.at <= r.at
  <2>1. CASE log \cap new = {}
    <3>1. log \in SUBSET repointed
      BY <2>1
    <3> QED BY <3>1, <1>3 DEF Logged
  <2>2. CASE log \cap new # {}
    <3>1. PICK r \in log : r \in new
      BY <2>2
    <3>2. \A q \in log : q.at <= r.at
      BY <3>1, <1>2
    <3> QED BY <3>2
  <2> QED BY <2>1, <2>2
<1> QED BY <1>1, <1>2, <1>3 DEF Logged

LEMMA MergeIInv ==
  ASSUME IInv, NEW keep \in Orgs, NEW absorbed \in Orgs, NEW allow \in Overrides,
         Merge(keep, absorbed, allow)
  PROVE  IInv'
<1>1. /\ Exists(keep) /\ Exists(absorbed)
      /\ keep # absorbed
      /\ ~Merged(keep) /\ ~Merged(absorbed)
  BY DEF Merge, MayMerge
<1>2. /\ org' = [o \in Orgs |->
                   IF o = keep THEN Kept(keep, absorbed)
                   ELSE IF o = absorbed THEN Absorbed(keep, absorbed)
                   ELSE IF o \in Followers(absorbed, keep) THEN [org[o] EXCEPT !.into = keep]
                   ELSE org[o]]
      /\ repointed' = repointed \cup
           {[row |-> o, old |-> absorbed, new |-> keep, at |-> Len(asOf) + 1] :
              o \in Followers(absorbed, keep)}
      /\ asOf' = Append(asOf, archived)
      /\ UNCHANGED <<last, archived, runs, task>>
  BY DEF Merge
<1>3. org \in [Orgs -> Row] /\ NoOrg \notin Orgs
  BY Constants DEF IInv, Shapes
<1>4. ASSUME NEW o \in Orgs
      PROVE  /\ org'[o] \in Row
             /\ \/ org'[o].into = org[o].into /\ org[o].into # absorbed
                \/ org'[o].into = keep /\ (o = absorbed \/ org[o].into = absorbed)
  <2>1. CASE o = keep
    <3>1. org'[o] = Kept(keep, absorbed)
      BY <1>2, <2>1
    <3>2. org[o].into = NoOrg
      BY <1>1, <2>1 DEF Merged
    <3> QED BY <2>1, <3>1, <3>2, <1>3, KeptIsRow DEF IInv
  <2>2. CASE o # keep /\ o = absorbed
    BY <1>2, <2>2, AbsorbedIsRow DEF IInv
  <2>3. CASE o # keep /\ o # absorbed /\ o \in Followers(absorbed, keep)
    <3>1. org'[o] = [org[o] EXCEPT !.into = keep]
      BY <1>2, <2>3
    <3>2. org[o] \in Row /\ org[o].into = absorbed
      BY <1>3, <2>3 DEF Followers
    <3> QED BY <3>1, <3>2 DEF Row
  <2>4. CASE o # keep /\ o # absorbed /\ o \notin Followers(absorbed, keep)
    <3>1. org'[o] = org[o]
      BY <1>2, <2>4
    <3> QED BY <1>3, <2>4, <3>1 DEF Followers
  <2> QED BY <2>1, <2>2, <2>3, <2>4
<1>5. org'[keep].into = NoOrg
  <2>1. org'[keep] = Kept(keep, absorbed)
    BY <1>2
  <2> QED BY <2>1, <1>1, KeptIsRow DEF IInv, Merged
<1>6. \A o : Exists(o)' <=> Exists(o)
  BY <1>2 DEF Exists
<1>7. ASSUME NEW o \in Orgs, Merged(o)'
      PROVE  Exists(o)' /\ Exists(org[o].into)' /\ ~Merged(org[o].into)'
  <2>1. CASE org'[o].into = keep /\ (o = absorbed \/ org[o].into = absorbed)
    <3>1. Exists(o)
      BY <2>1, <1>1, <1>3 DEF IInv, Shapes, Merged
    <3> QED BY <2>1, <3>1, <1>1, <1>5, <1>6 DEF Merged
  <2>2. CASE org'[o].into = org[o].into /\ org[o].into # absorbed
    <3>1. Merged(o)
      BY <1>7, <2>2 DEF Merged
    <3>2. Exists(o) /\ Exists(org[o].into) /\ org[org[o].into].into = NoOrg
      BY <3>1 DEF IInv, Shapes, NoChains, Merged
    <3>3. org[o].into \in Orgs
      BY <3>2, Constants DEF IInv, Shapes, Exists, Orgs
    <3>4. org'[org[o].into].into = NoOrg
      BY <1>3, <1>4, <2>2, <3>2, <3>3
    <3> QED BY <2>2, <3>2, <3>4, <1>6 DEF Merged
  <2> QED BY <1>4, <2>1, <2>2
<1>8. NoChains' /\ \A o \in Orgs : Merged(o)' => Exists(o)'
  BY <1>7 DEF NoChains
<1>9. Shapes'
  <2>1. org' \in [Orgs -> Row]
    BY <1>2, <1>4
  <2>2. asOf' \in Seq([Notices -> 0..MaxOrg])
    BY <1>2 DEF IInv, Shapes
  <2> QED BY <1>2, <1>8, <2>1, <2>2 DEF IInv, Shapes, runs
<1>10. Logged'
  <2> DEFINE new == {[row |-> o, old |-> absorbed, new |-> keep, at |-> Len(asOf) + 1] :
                       o \in Followers(absorbed, keep)}
  <2>1. Len(asOf) \in Nat /\ Len(asOf)' = Len(asOf) + 1
    BY <1>2 DEF IInv, Shapes
  <2>2. new \in SUBSET Moves /\ \A r \in new : r.at = Len(asOf) + 1
    BY <2>1 DEF Followers, Moves
  <2>3. repointed' = repointed \cup new
    BY <1>2
  <2> HIDE DEF new
  <2> QED BY <2>1, <2>2, <2>3, LogGrows DEF IInv
<1>11. Decided'
  BY <1>2 DEF IInv, Decided
<1> QED BY <1>8, <1>9, <1>10, <1>11 DEF IInv

------------------------------------------------------------------------------
(* An undo.                                                                   *)

(* A row is put back on a member, where the log says so, or is left alone.    *)
LEMMA StaysSomewhere ==
  ASSUME IInv, NEW members \in SUBSET Orgs, NEW o \in Orgs, o \notin members
  PROVE  \/ Stays(members, o) \in members /\ Merged(o)
         \/ Stays(members, o) = org[o].into
<1>1. CASE MovedOn(members, o) = {}
  BY <1>1 DEF Stays
<1>2. CASE MovedOn(members, o) # {}
  <2>1. MovedOn(members, o) \in SUBSET repointed
    BY DEF MovedOn
  <2>2. \E r \in MovedOn(members, o) : \A q \in MovedOn(members, o) : q.at <= r.at
    BY <1>2, <2>1 DEF IInv, Logged
  <2>3. Latest(MovedOn(members, o)) \in MovedOn(members, o)
    BY <2>2 DEF Latest
  <2>4. Latest(MovedOn(members, o)).old \in members
    BY <2>3 DEF MovedOn
  <2>5. org[o].into \in Orgs
    BY <2>3 DEF MovedOn, IInv, Logged, Moves
  <2>6. Merged(o)
    BY <2>5, Constants DEF Merged
  <2> QED BY <1>2, <2>4, <2>6 DEF Stays
<1> QED BY <1>1, <1>2

LEMMA MemberIsRow ==
  ASSUME Shapes, NEW members, NEW m \in Orgs, org[m].into \in Orgs
  PROVE  MemberBack(members, m) \in Row /\ MemberBack(members, m).into = NoOrg
<1>1. org[m] \in Row /\ org[org[m].into] \in Row
  BY DEF Shapes
<1> DEFINE number == IF GaveNumber(members, m) THEN org[org[m].into].number ELSE org[m].number
           pic == IF GavePic(members, m) THEN org[org[m].into].pic ELSE org[m].pic
<1>2. number \in Numbers \cup {None} /\ pic \in Pics \cup {None}
  BY <1>1 DEF Row
<1>3. MemberBack(members, m) =
        [org[m] EXCEPT !.into = NoOrg, !.batch = 0, !.at = 0, !.number = number, !.pic = pic]
  BY <1>1 DEF MemberBack, Row
<1> HIDE DEF number, pic
<1>4. 0 \in 0..MaxBatch /\ 0 \in Nat
  BY Constants
<1>5. [org[m] EXCEPT !.into = NoOrg, !.batch = 0, !.at = 0, !.number = number, !.pic = pic]
        \in Row
  BY <1>1, <1>2, <1>4 DEF Row
<1>6. [org[m] EXCEPT !.into = NoOrg, !.batch = 0, !.at = 0, !.number = number, !.pic = pic].into
        = NoOrg
  BY <1>1 DEF Row
<1> QED BY <1>3, <1>5, <1>6

LEMMA HeadIsRow ==
  ASSUME Shapes, NEW members, NEW head \in Orgs
  PROVE  HeadBack(members, head) \in Row /\ HeadBack(members, head).into = org[head].into
<1> DEFINE gave == \E m \in Of(members, head) : GaveNumber(members, m)
           number == IF gave THEN [org[head] EXCEPT !.number = None, !.stamp = "none"]
                     ELSE org[head]
           gavePic == \E m \in Of(members, head) : GavePic(members, m)
           pic == IF gavePic THEN [number EXCEPT !.pic = None] ELSE number
<1>1. org[head] \in Row
  BY DEF Shapes
<1> HIDE DEF gave, gavePic
<1>2. number \in Row /\ number.into = org[head].into
  BY <1>1 DEF Row
<1>3. pic \in Row /\ pic.into = org[head].into
  BY <1>2 DEF Row
<1>4. HeadBack(members, head) =
        IF Unflagged(members, head) THEN [pic EXCEPT !.flag = FALSE] ELSE pic
  BY DEF HeadBack, gave, gavePic
<1> HIDE DEF pic
<1> QED BY <1>3, <1>4, ZenonT(60) DEF Row

LEMMA UndoIInv ==
  ASSUME IInv, NEW b \in 1..batch, NEW members \in SUBSET BatchRows(b), Undo(b, members)
  PROVE  IInv'
<1>1. members \in SUBSET Orgs /\ \A m \in members : Merged(m)
  BY DEF BatchRows
<1>2. org' = [o \in Orgs |->
               IF o \in members THEN MemberBack(members, o)
               ELSE IF Of(members, o) # {} THEN HeadBack(members, o)
               ELSE [org[o] EXCEPT !.into = Stays(members, o)]]
  BY DEF Undo
<1>3. UNCHANGED <<last, archived, repointed, asOf, runs, task>>
  BY DEF Undo
<1>4. org \in [Orgs -> Row] /\ NoOrg \notin Orgs
  BY Constants DEF IInv, Shapes
<1>5. \A o \in Orgs : Merged(o) =>
        /\ Exists(o)
        /\ org[o].into \in Orgs /\ Exists(org[o].into) /\ ~Merged(org[o].into)
  BY Constants DEF IInv, Shapes, NoChains, Exists, Orgs
<1>6. \A o \in Orgs : Of(members, o) # {} => ~Merged(o)
  BY DEF Undo, Proved, Of
<1>7. ASSUME NEW o \in Orgs
      PROVE  /\ org'[o] \in Row
             /\ \/ org'[o].into = NoOrg
                \/ org'[o].into \in members /\ Merged(o)
                \/ org'[o].into = org[o].into /\ o \notin members
  <2>1. CASE o \in members
    <3>1. org'[o] = MemberBack(members, o)
      BY <1>2, <2>1
    <3> QED BY <2>1, <3>1, <1>1, <1>5, MemberIsRow DEF IInv
  <2>2. CASE o \notin members /\ Of(members, o) # {}
    <3>1. org'[o] = HeadBack(members, o)
      BY <1>2, <2>2
    <3> QED BY <2>2, <3>1, HeadIsRow DEF IInv
  <2>3. CASE o \notin members /\ Of(members, o) = {}
    <3>1. org'[o] = [org[o] EXCEPT !.into = Stays(members, o)]
      BY <1>2, <2>3
    <3>2. org[o] \in Row
      BY <1>4
    <3>3. \/ Stays(members, o) \in members /\ Merged(o)
          \/ Stays(members, o) = org[o].into
      BY <2>3, <1>1, StaysSomewhere
    <3>4. Stays(members, o) \in Orgs \cup {NoOrg}
      BY <3>2, <3>3, <1>1 DEF Row
    <3> QED BY <2>3, <3>1, <3>2, <3>3, <3>4 DEF Row
  <2> QED BY <2>1, <2>2, <2>3
<1>8. \A m \in members : org'[m].into = NoOrg
  <2>1. TAKE m \in members
  <2>2. org'[m] = MemberBack(members, m)
    BY <1>1, <1>2
  <2> QED BY <2>2, <1>1, <1>5, MemberIsRow DEF IInv
<1>9. \A o \in Orgs : ~Merged(o) => org'[o].into = NoOrg
  BY <1>7 DEF Merged
<1>10. \A o : Exists(o)' <=> Exists(o)
  BY <1>3 DEF Exists
<1>11. ASSUME NEW o \in Orgs, Merged(o)'
       PROVE  Exists(o)' /\ Exists(org[o].into)' /\ ~Merged(org[o].into)'
  <2>1. Merged(o) /\ Exists(o)
    BY <1>5, <1>9, <1>11 DEF Merged
  <2>2. CASE org'[o].into \in members
    BY <2>1, <2>2, <1>1, <1>5, <1>8, <1>10 DEF Merged
  <2>3. CASE org'[o].into = org[o].into
    <3>1. org[o].into \in Orgs /\ Exists(org[o].into) /\ ~Merged(org[o].into)
      BY <2>1, <1>5
    <3>2. org'[org[o].into].into = NoOrg
      BY <3>1, <1>9
    <3> QED BY <2>1, <2>3, <3>1, <3>2, <1>10 DEF Merged
  <2> QED BY <1>7, <1>11, <2>2, <2>3 DEF Merged
<1>12. NoChains' /\ \A o \in Orgs : Merged(o)' => Exists(o)'
  BY <1>11 DEF NoChains
<1>13. org' \in [Orgs -> Row]
  BY <1>2, <1>7
<1>14. Shapes'
  BY <1>3, <1>12, <1>13 DEF IInv, Shapes, runs
<1>15. Logged' /\ Decided'
  BY <1>3 DEF IInv, Logged, Decided
<1> QED BY <1>12, <1>14, <1>15 DEF IInv

------------------------------------------------------------------------------
LEMMA NextIInv == IInv /\ [Next]_vars => IInv'
<1> SUFFICES ASSUME IInv, [Next]_vars PROVE IInv'
  OBVIOUS
<1>1. CASE \E s \in Sessions : Resolve(s) \/ Quarantine(s) \/ Serve(s)
  BY <1>1, ResolveIInv, QuarantineIInv, ServeIInv
<1>2. CASE BeginBatch \/ EndBatch
  BY <1>2, BatchIInv
<1>3. CASE \E keep, absorbed \in Orgs, allow \in Overrides : Merge(keep, absorbed, allow)
  BY <1>3, MergeIInv
<1>4. CASE \E b \in 1..batch : \E members \in SUBSET BatchRows(b) : Undo(b, members)
  BY <1>4, UndoIInv
<1>5. CASE UNCHANGED vars
  BY <1>5 DEF vars, runs, IInv, Shapes, Decided, Logged, NoChains, Merged, Exists
<1> QED BY <1>1, <1>2, <1>3, <1>4, <1>5 DEF Next

(* A pointer is one hop long: a merged row points at a live one, whatever     *)
(* runs resolve, batches merge and undos take apart, in any order.            *)
THEOREM PointersAreShort == Spec => []NoChains
<1>1. Init => IInv
  BY InitIInv
<1>2. IInv /\ [Next]_vars => IInv'
  BY NextIInv
<1>3. IInv => NoChains
  BY DEF IInv
<1> QED BY <1>1, <1>2, <1>3, PTL DEF Spec

------------------------------------------------------------------------------
(* What a notice states of its buyer stays with its body: `IdentifiersKept`.  *)

(* The row a merged row was merged into, whatever became of that row since.   *)
Up(o) == (CHOOSE r \in carried : r.at = org[o].at).head

(* The row a row stands for.                                                  *)
Root(o) == IF Merged(o) THEN org[o].into ELSE o

(* A row was moved on by the merge that `m` is now merged by.                 *)
Rides(o, m) ==
  /\ Merged(m)
  /\ [row |-> o, old |-> m, new |-> Up(m), at |-> org[m].at] \in repointed

(* A merged row whose number went to the row it was merged into.              *)
Giver(g) == Merged(g) /\ org[g].number = None /\ org[g].stamp # "none"

Does == [buyer : Orgs \cup {NoOrg}, number : Numbers \cup {None},
         named : Orgs \cup {NoOrg}, rank : 0..2]

DoesOK(does) ==
  /\ does \in Does
  /\ does.buyer # NoOrg => Exists(does.buyer)
  /\ does.named # NoOrg => Exists(does.named)

Intended == \A s \in Sessions : task[s] # Idle => DoesOK(task[s].does)

(* The tables a number or a spelling is looked up in.                         *)
Filing ==
  /\ alias \in [Names \X Sources ->
                  [org : Orgs \cup {NoOrg}, prev : Orgs \cup {NoOrg}, rank : 0..2]]
  /\ filed \in [Names \X Sources -> Orgs \cup {NoOrg}]
  /\ \A k \in Names \X Sources :
       alias[k].org # NoOrg => Exists(alias[k].org) /\ filed[k] \in Orgs
  /\ first \in [Numbers -> Orgs \cup {NoOrg}]
  /\ \A o \in Orgs : ~Exists(o) => org[o] = Absent

(* Each merge leaves a line, and each merged row has that of its own merge.   *)
Listing ==
  /\ \A r \in carried : r.at \in Nat /\ r.at <= Len(asOf) /\ r.head \in Orgs
  /\ \A r, q \in carried : r.at = q.at => r = q
  /\ \A o \in Orgs : Merged(o) => \E r \in carried : r.row = o /\ r.at = org[o].at

(* A pair that is decided is a row and the row it was merged into, in the     *)
(* batch that decided it.                                                     *)
Paired ==
  /\ DOMAIN candidate = Pairs
  /\ \A p \in Pairs : candidate[p] # 0 =>
       \E m \in Orgs : Merged(m) /\ org[m].batch = candidate[p] /\ p = {m, Up(m)}

(* A pointer leads where the merges lead; a row that came along with the one  *)
(* it was merged into, at any remove, has a line of that move, and no other   *)
(* row has.                                                                   *)
Forest ==
  /\ \A o \in Orgs : Merged(o) => org[o].into = Root(Up(o))
  /\ \A o \in Orgs : Merged(o) /\ Merged(Up(o)) => Rides(o, Up(o)) /\ org[o].at < org[Up(o)].at
  /\ \A o, m \in Orgs : Rides(o, m) => Merged(o) /\ (m = Up(o) \/ Rides(Up(o), m))
  /\ \A o, m \in Orgs : Merged(o) /\ Rides(Up(o), m) => Rides(o, m)

(* Lines of one merge name the same rows; a row's own merge is its last; what *)
(* moved a row on since it was merged is the row above it, or moved that one  *)
(* as well.                                                                   *)
Lines ==
  /\ \A r, q \in repointed : r.at = q.at => r.old = q.old /\ r.new = q.new
  /\ \A r \in repointed : r.row # r.new
  /\ \A r \in repointed : Merged(r.old) =>
       r.at <= org[r.old].at /\ (r.at = org[r.old].at => r.new = Up(r.old))
  /\ \A r \in repointed : Merged(r.row) /\ r.at >= org[r.row].at =>
       \/ r.old = Up(r.row)
       \/ [row |-> Up(r.row), old |-> r.old, new |-> r.new, at |-> r.at] \in repointed

(* The rows a number has been on, from the first to the one it is on.         *)
Chain(P, f, o) ==
  /\ P \in SUBSET Orgs /\ f \in P /\ o \in P
  /\ \A x \in P \ {o} : Giver(x) /\ Up(x) \in P
  /\ \A x \in P \ {f} : \E y \in P : Giver(y) /\ Up(y) = x

(* Which rows have given their number is told by the stamps, and a row has    *)
(* had its number from one.                                                   *)
Stamps ==
  /\ \A o \in Orgs : ~Merged(o) /\ org[o].number = None => org[o].stamp = "none"
  /\ \A o \in Orgs : org[o].number # None => org[o].stamp # "none"
  /\ \A g \in Orgs : Giver(g) => org[Up(g)].stamp = "merge"
  /\ \A g, h \in Orgs : Giver(g) /\ Giver(h) /\ Up(g) = Up(h) => g = h

Chains ==
  \A n \in Numbers : first[n] # NoOrg =>
    /\ org[first[n]].stamp = "resolved"
    /\ \E o \in Holders(n), P \in SUBSET Orgs : Chain(P, first[n], o)

(* An alias is where it was filed, or where that row stands now.              *)
Aliased ==
  \A k \in Names \X Sources : alias[k].org # NoOrg =>
    \/ alias[k].prev = NoOrg /\ alias[k].org = filed[k]
    \/ alias[k].prev = filed[k] /\ alias[k].org = Root(filed[k])

Straight == Forest /\ Lines /\ Stamps /\ Chains /\ Aliased

KInv == IInv /\ Intended /\ Filing /\ Listing /\ Paired /\ (~astray => Straight)

------------------------------------------------------------------------------
(* Where the hops lead, when they lead to an end at once.                     *)
LEMMA EndValue ==
  ASSUME NEW pointer, NEW o, NEW e, NEW hops \in Nat, hops # 0,
         e = IF pointer[o] = NoOrg THEN o ELSE pointer[o],
         pointer[e] = NoOrg
  PROVE  End(pointer, o, hops) = e
<1> DEFINE F(f, i) == IF i = 0 THEN o
                      ELSE LET here == f[i-1]
                           IN  IF pointer[here] = NoOrg THEN here ELSE pointer[here]
           w == [i \in 0..hops |-> IF i = 0 THEN o ELSE e]
           hop == CHOOSE f : f = [i \in 0..hops |-> F(f, i)]
<1>1. w = [i \in 0..hops |-> F(w, i)]
  <2>1. ASSUME NEW i \in 0..hops PROVE w[i] = F(w, i)
    <3>1. CASE i = 0
      BY <3>1
    <3>2. CASE i # 0
      <4>1. i - 1 \in 0..hops
        BY <3>2
      <4>2. w[i-1] = o \/ w[i-1] = e
        BY <4>1
      <4>3. F(w, i) = e
        BY <3>2, <4>2
      <4> QED BY <3>2, <4>3
    <3> QED BY <3>1, <3>2
  <2> QED BY <2>1
<1>2. hop = [i \in 0..hops |-> F(hop, i)]
  <2> HIDE DEF w, F
  <2> QED BY <1>1
<1>3. hop[hops] = e
  <2> DEFINE bad == {i \in 0..hops : hop[i] # w[i]}
  <2> HIDE DEF hop
  <2>1. ASSUME bad # {} PROVE FALSE
    <3>1. bad \subseteq Nat
      OBVIOUS
    <3>2. PICK i \in bad : \A j \in bad : <<j, i>> \notin OpToRel(<, Nat)
      BY <2>1, <3>1, WFMin, NatLessThanWellFounded
    <3>3. i \in 0..hops /\ hop[i] # w[i]
      OBVIOUS
    <3>4. i # 0
      BY <1>2, <3>3
    <3>5. i - 1 \in Nat /\ i - 1 < i /\ i - 1 \in 0..hops /\ i \in Nat
      BY <3>3, <3>4
    <3>6. <<i - 1, i>> \in OpToRel(<, Nat)
      BY <3>5 DEF OpToRel
    <3>7. hop[i - 1] = w[i - 1]
      BY <3>2, <3>5, <3>6
    <3>8. hop[i] = F(hop, i) /\ w[i] = F(w, i)
      <4> HIDE DEF F, w
      <4> QED BY <1>1, <1>2, <3>3
    <3>9. F(hop, i) = F(w, i)
      <4> HIDE DEF w
      <4> QED BY <3>7
    <3> QED BY <3>3, <3>8, <3>9
  <2>2. hops \in 0..hops
    OBVIOUS
  <2>3. hop[hops] = w[hops]
    BY <2>1, <2>2
  <2> QED BY <2>2, <2>3
<1>4. End(pointer, o, hops) = hop[hops]
  BY DEF End
<1> QED BY <1>3, <1>4

LEMMA UpIs ==
  ASSUME Listing, NEW o \in Orgs, Merged(o)
  PROVE  /\ \E r \in carried : r.row = o /\ r.at = org[o].at /\ r.head = Up(o)
         /\ Up(o) \in Orgs
         /\ org[o].at \in Nat /\ org[o].at <= Len(asOf)
<1>1. PICK r \in carried : r.row = o /\ r.at = org[o].at
  BY DEF Listing
<1>2. \A q \in carried : q.at = org[o].at => q = r
  BY <1>1 DEF Listing
<1>3. (CHOOSE q \in carried : q.at = org[o].at) = r
  BY <1>1, <1>2
<1>4. Up(o) = r.head
  BY <1>3 DEF Up
<1>5. r.at \in Nat /\ r.at <= Len(asOf) /\ r.head \in Orgs
  BY <1>1 DEF Listing
<1> QED BY <1>1, <1>4, <1>5

LEMMA OneMerge ==
  ASSUME Listing, NEW o \in Orgs, NEW p \in Orgs, Merged(o), Merged(p),
         org[o].at = org[p].at
  PROVE  o = p
<1>1. PICK r \in carried : r.row = o /\ r.at = org[o].at
  BY DEF Listing
<1>2. PICK q \in carried : q.row = p /\ q.at = org[p].at
  BY DEF Listing
<1> QED BY <1>1, <1>2 DEF Listing

LEMMA RootIs ==
  ASSUME IInv, NEW o \in Orgs
  PROVE  Root(o) \in Orgs /\ ~Merged(Root(o)) /\ Root(Root(o)) = Root(o)
                          /\ (Exists(o) => Exists(Root(o)))
<1>1. CASE Merged(o)
  <2>1. Exists(org[o].into) /\ ~Merged(org[o].into)
    BY <1>1 DEF IInv, NoChains
  <2>2. org[o].into \in Orgs
    BY <2>1, Constants DEF IInv, Shapes, Exists, Orgs
  <2> QED BY <1>1, <2>1, <2>2 DEF Root
<1>2. CASE ~Merged(o)
  BY <1>2 DEF Root
<1> QED BY <1>1, <1>2

LEMMA LiveIsRoot == ASSUME IInv, NEW o \in Orgs PROVE Live(o) = Root(o)
<1>1. Root(o) \in Orgs /\ ~Merged(Root(o))
  BY RootIs
<1>2. Pointers[o] = org[o].into /\ Pointers[Root(o)] = org[Root(o)].into
  BY <1>1 DEF Pointers
<1>3. /\ Root(o) = IF Pointers[o] = NoOrg THEN o ELSE Pointers[o]
      /\ Pointers[Root(o)] = NoOrg
  BY <1>1, <1>2 DEF Root, Merged
<1> QED BY <1>3, EndValue DEF Live

LEMMA ChainEnds ==
  ASSUME Listing, Len(asOf) \in Nat, Forest, NEW P, NEW f, NEW o, Chain(P, f, o)
  PROVE  Root(f) = Root(o)
<1> DEFINE Off == {x \in P : Root(x) # Root(o)}
           Left(x) == Len(asOf) - org[x].at
<1>1. ASSUME NEW x \in Off
      PROVE  /\ x \in Orgs /\ Merged(x) /\ Up(x) \in Off
             /\ org[x].at \in Nat /\ org[x].at <= Len(asOf)
             /\ Merged(Up(x)) => org[x].at < org[Up(x)].at
  <2>1. x \in Orgs /\ Giver(x) /\ Up(x) \in P /\ Merged(x)
    BY DEF Chain, Giver
  <2>2. Root(Up(x)) = Root(x)
    BY <2>1 DEF Forest, Root
  <2> QED BY <2>1, <2>2, UpIs DEF Forest
<1>2. ASSUME Off # {} PROVE FALSE
  <2> DEFINE S == {Left(x) : x \in Off}
  <2>1. S \subseteq Nat /\ S # {}
    BY <1>1, <1>2
  <2>2. PICK d \in S : \A e \in S : <<e, d>> \notin OpToRel(<, Nat)
    <3> HIDE DEF S
    <3> QED BY <2>1, WFMin, NatLessThanWellFounded
  <2>3. PICK x \in Off : d = Left(x)
    OBVIOUS
  <2>4. Up(x) \in Off /\ Left(Up(x)) \in S /\ Left(Up(x)) \in Nat /\ Left(x) \in Nat
    BY <1>1, <2>1
  <2>5. Left(Up(x)) < Left(x)
    <3>1. Merged(Up(x)) /\ org[x].at < org[Up(x)].at
      BY <1>1, <2>4
    <3>2. org[Up(x)].at \in Nat /\ org[x].at \in Nat
      BY <1>1, <2>4
    <3> QED BY <3>1, <3>2
  <2>6. <<Left(Up(x)), Left(x)>> \in OpToRel(<, Nat)
    <3> HIDE DEF Left
    <3> QED BY <2>4, <2>5 DEF OpToRel
  <2> QED BY <2>2, <2>3, <2>4, <2>6
<1>3. f \in P
  BY DEF Chain
<1> QED BY <1>2, <1>3

(* The invariant is what the property needs.                                  *)
LEMMA KInvKeeps == KInv => IdentifiersKept
<1> SUFFICES ASSUME KInv PROVE IdentifiersKept
  OBVIOUS
<1>0. Len(asOf) \in Nat
  BY DEF KInv, IInv, Shapes
<1>1. AliasesKept
  <2> SUFFICES ASSUME ~astray, NEW k \in DOMAIN alias, alias[k].org # NoOrg
               PROVE  Live(alias[k].org) = Live(filed[k])
    BY DEF AliasesKept
  <2>1. k \in Names \X Sources /\ filed[k] \in Orgs /\ alias[k].org \in Orgs
    BY DEF KInv, Filing
  <2>2. alias[k].org = filed[k] \/ alias[k].org = Root(filed[k])
    BY <2>1 DEF KInv, Straight, Aliased
  <2> QED BY <2>1, <2>2, RootIs, LiveIsRoot DEF KInv
<1>2. NumbersKept
  <2> SUFFICES ASSUME ~astray, NEW n \in Numbers, first[n] # NoOrg
               PROVE  \E o \in Holders(n) : Live(o) = Live(first[n])
    BY DEF NumbersKept
  <2>1. PICK o \in Holders(n), P \in SUBSET Orgs : Chain(P, first[n], o)
    BY DEF KInv, Straight, Chains
  <2>2. Root(first[n]) = Root(o)
    BY <1>0, <2>1, ChainEnds DEF KInv, Straight
  <2>3. first[n] \in Orgs /\ o \in Orgs
    BY <2>1 DEF Chain
  <2> QED BY <2>1, <2>2, <2>3, LiveIsRoot DEF KInv
<1> QED BY <1>1, <1>2 DEF IdentifiersKept

------------------------------------------------------------------------------
(* Steps that merge nothing and take nothing apart.                           *)

LEMMA UpStays ==
  ASSUME Listing, Listing', carried \subseteq carried',
         NEW o \in Orgs, Merged(o), org'[o].at = org[o].at
  PROVE  Up(o)' = Up(o)
<1>1. PICK r \in carried : r.row = o /\ r.at = org[o].at /\ r.head = Up(o)
  BY UpIs
<1>2. \A q \in carried' : q.at = org'[o].at => q = r
  BY <1>1 DEF Listing
<1>3. (CHOOSE q \in carried' : q.at = org'[o].at) = r
  BY <1>1, <1>2
<1> QED BY <1>1, <1>3 DEF Up

LEMMA SameLinks ==
  ASSUME IInv, Listing, Paired,
         \A o \in Orgs : /\ org'[o].into = org[o].into
                         /\ org'[o].batch = org[o].batch
                         /\ org'[o].at = org[o].at,
         UNCHANGED <<carried, repointed, candidate, asOf>>
  PROVE  /\ Listing' /\ Paired'
         /\ \A o \in Orgs : /\ Merged(o)' <=> Merged(o)
                            /\ Root(o)' = Root(o)
                            /\ Merged(o) => Up(o)' = Up(o)
         /\ Forest => Forest'
         /\ Lines => Lines'
<1>1. \A o \in Orgs : Merged(o)' <=> Merged(o)
  BY DEF Merged
<1>2. \A o \in Orgs : Root(o)' = Root(o)
  BY <1>1 DEF Root
<1>3. Listing'
  BY <1>1 DEF Listing
<1>4. \A o \in Orgs : Merged(o) => Up(o)' = Up(o)
  BY <1>3, UpStays
<1>5. Paired'
  BY <1>1, <1>4 DEF Paired
<1>6. \A o \in Orgs : Merged(o) => Up(o) \in Orgs
  BY UpIs
<1>7. \A o, m \in Orgs : Rides(o, m)' <=> Rides(o, m)
  BY <1>1, <1>4 DEF Rides
<1>8. ASSUME Forest PROVE Forest'
  <2>1. \A o \in Orgs : Merged(o)' => /\ Up(o)' = Up(o) /\ Up(o) \in Orgs
                                      /\ Root(Up(o))' = Root(Up(o))
                                      /\ Merged(Up(o))' <=> Merged(Up(o))
    <3>1. TAKE o \in Orgs
    <3>2. HAVE Merged(o)'
    <3>3. Up(o)' = Up(o) /\ Up(o) \in Orgs
      BY <1>1, <1>4, <1>6, <3>2
    <3> QED BY <3>3, <1>1, <1>2 DEF Root, Merged
  <2>2. \A o \in Orgs : Merged(o)' => org'[o].into = Root(Up(o))'
    BY <1>1, <2>1, <1>8 DEF Forest
  <2>3. \A o \in Orgs : Merged(o)' /\ Merged(Up(o))' =>
          Rides(o, Up(o))' /\ org'[o].at < org'[Up(o)'].at
    <3>1. TAKE o \in Orgs
    <3>2. HAVE Merged(o)' /\ Merged(Up(o))'
    <3>3. Merged(o) /\ Merged(Up(o)) /\ Up(o)' = Up(o) /\ Up(o) \in Orgs
      BY <1>1, <2>1, <3>2
    <3>4. Rides(o, Up(o)) /\ org[o].at < org[Up(o)].at
      BY <3>3, <1>8 DEF Forest
    <3>5. Rides(o, Up(o))'
      BY <3>3, <3>4, <1>4 DEF Rides, Merged
    <3> QED BY <3>3, <3>4, <3>5
  <2>4. \A o, m \in Orgs : Merged(o) => (Rides(Up(o), m)' <=> Rides(Up(o), m))
    <3>1. TAKE o, m \in Orgs
    <3>2. HAVE Merged(o)
    <3> QED BY <3>2, <1>4, <1>6, <1>1 DEF Rides
  <2>5. \A o, m \in Orgs : Rides(o, m)' => Merged(o)' /\ (m = Up(o)' \/ Rides(Up(o), m)')
    BY <1>1, <1>4, <1>7, <2>4, <1>8 DEF Forest
  <2>6. \A o, m \in Orgs : Merged(o)' /\ Rides(Up(o), m)' => Rides(o, m)'
    BY <1>1, <1>7, <2>4, <1>8 DEF Forest
  <2> QED BY <2>2, <2>3, <2>5, <2>6 DEF Forest
<1>9. ASSUME Lines, IInv PROVE Lines'
  <2>1. \A r \in repointed : r.row \in Orgs /\ r.old \in Orgs
    BY <1>9 DEF IInv, Logged, Moves
  <2> QED BY <2>1, <1>1, <1>4, <1>9 DEF Lines
<1> QED BY <1>1, <1>2, <1>3, <1>4, <1>5, <1>8, <1>9

LEMMA SameTables ==
  ASSUME UNCHANGED <<last, org, alias, candidate, repointed, carried, asOf, first, filed, astray>>,
         KInv, IInv', Intended'
  PROVE  KInv'
<1>1. \A o : Up(o)' = Up(o) /\ Root(o)' = Root(o) /\ (Merged(o)' <=> Merged(o))
                            /\ (Giver(o)' <=> Giver(o)) /\ (Exists(o)' <=> Exists(o))
  BY DEF Up, Root, Merged, Giver, Exists
<1>2. Filing'
  BY <1>1 DEF KInv, Filing
<1>3. Listing' /\ Paired' /\ (Forest => Forest') /\ (Lines => Lines')
  BY SameLinks DEF KInv
<1>4. Stamps => Stamps'
  BY <1>1 DEF Stamps
<1>5. \A P, f, o : Chain(P, f, o)' <=> Chain(P, f, o)
  BY <1>1 DEF Chain
<1>6. \A n : Holders(n)' = Holders(n)
  BY DEF Holders
<1>7. Chains => Chains'
  BY <1>5, <1>6 DEF Chains
<1>8. Aliased => Aliased'
  BY <1>1 DEF Aliased
<1> QED BY <1>2, <1>3, <1>4, <1>7, <1>8 DEF KInv, Straight

LEMMA AttachOK ==
  ASSUME NEW o \in Orgs, Exists(o), NEW number \in Numbers \cup {None},
         NEW named \in Orgs \cup {NoOrg}, named # NoOrg => Exists(named), NEW rank \in 0..2
  PROVE  DoesOK(Attach(o, number, named, rank))
<1>1. \A buyer \in Orgs \cup {NoOrg}, n \in Numbers \cup {None} :
        (buyer # NoOrg => Exists(buyer)) => DoesOK(Decide(buyer, n, named, rank))
  BY DEF DoesOK, Does, Decide
<1>2. \E buyer \in {o, NoOrg}, n \in {number, None} :
        Attach(o, number, named, rank) = Decide(buyer, n, named, rank)
  BY DEF Attach
<1> QED BY <1>1, <1>2

LEMMA LiveExists ==
  ASSUME IInv, NEW o \in Orgs, Exists(o)
  PROVE  Live(o) \in Orgs /\ Exists(Live(o))
BY RootIs, LiveIsRoot

LEMMA ByNameOK ==
  ASSUME IInv, Filing, NEW name \in Names, NEW number \in Numbers \cup {None},
         NEW d \in ByName(name, number)
  PROVE  DoesOK(d)
<1>1. CASE AliasesOf(name) # {}
  <2>1. PICK k \in Best(name) : d = Attach(Live(alias[k].org), number, NoOrg, 0)
    BY <1>1 DEF ByName
  <2>2. k \in Names \X Sources /\ alias[k].org # NoOrg
    BY DEF Best, AliasesOf
  <2>3. alias[k].org \in Orgs /\ Exists(alias[k].org)
    BY <2>2 DEF Filing
  <2>4. Live(alias[k].org) \in Orgs /\ Exists(Live(alias[k].org))
    BY <2>3, LiveExists
  <2> QED BY <2>1, <2>4, AttachOK
<1>2. CASE AliasesOf(name) = {} /\ Namesakes(name) # {}
  <2> DEFINE o == CHOOSE o \in Namesakes(name) : \A p \in Namesakes(name) : o <= p
  <2>1. Namesakes(name) \subseteq Nat
    BY DEF Namesakes, Orgs
  <2>2. PICK q \in Namesakes(name) : \A p \in Namesakes(name) : <<p, q>> \notin OpToRel(<, Nat)
    BY <1>2, <2>1, WFMin, NatLessThanWellFounded
  <2>3. \A p \in Namesakes(name) : q <= p
    <3>1. \A p, r \in Nat : <<p, r>> \notin OpToRel(<, Nat) => r <= p
      BY DEF OpToRel
    <3> QED BY <2>1, <2>2, <3>1
  <2>4. o \in Namesakes(name)
    BY <2>3
  <2>5. o \in Orgs /\ Exists(o)
    BY <2>4 DEF Namesakes
  <2>6. d = Attach(o, number, o, 1)
    BY <1>2 DEF ByName
  <2> HIDE DEF o
  <2> QED BY <2>5, <2>6, AttachOK
<1>3. CASE AliasesOf(name) = {} /\ Namesakes(name) = {}
  <2>1. d = Decide(NoOrg, number, NoOrg, 1)
    BY <1>3 DEF ByName
  <2> QED BY <2>1 DEF DoesOK, Does, Decide
<1> QED BY <1>1, <1>2, <1>3

LEMMA DecisionOK ==
  ASSUME IInv, Filing, NEW st \in Statements, NEW d \in Decisions(st)
  PROVE  DoesOK(d)
<1>1. st.name \in Names /\ st.number \in Numbers \cup {None}
  BY OrganisationsAssumption DEF OrganisationsAssumption
<1>2. CASE Holders(st.number) = {}
  BY <1>1, <1>2, ByNameOK DEF Decisions
<1>3. CASE Holders(st.number) # {}
  <2> DEFINE o == CHOOSE o \in Holders(st.number) : TRUE
  <2>1. o \in Orgs /\ st.number # None /\ org[o].number = st.number
    BY <1>3 DEF Holders
  <2>2. Exists(o)
    BY <2>1 DEF Filing, Absent
  <2>3. d \in ByNumber(o) \/ d \in ByName(st.name, None)
    BY <1>3 DEF Decisions
  <2> HIDE DEF o
  <2>4. CASE d \in ByNumber(o)
    <3>1. d = Decide(Live(o), None, Live(o), 2)
      BY <2>4 DEF ByNumber
    <3>2. Live(o) \in Orgs /\ Exists(Live(o))
      BY <2>1, <2>2, LiveExists
    <3> QED BY <3>1, <3>2 DEF DoesOK, Does, Decide
  <2>5. CASE d \in ByName(st.name, None)
    BY <1>1, <2>5, ByNameOK
  <2> QED BY <2>3, <2>4, <2>5
<1> QED BY <1>2, <1>3

LEMMA ResolveKInv == ASSUME KInv, NEW s \in Sessions, Resolve(s) PROVE KInv'
<1>1. PICK st \in Statements : \E d \in Decisions(st) :
        task' = [task EXCEPT ![s] = [notice |-> st.notice, st |-> st, does |-> d]]
  BY DEF Resolve
<1>2. PICK d \in Decisions(st) :
        task' = [task EXCEPT ![s] = [notice |-> st.notice, st |-> st, does |-> d]]
  BY <1>1
<1>3. UNCHANGED <<last, org, alias, candidate, repointed, carried, asOf, first, filed, astray>>
  BY DEF Resolve
<1>4. IInv'
  BY ResolveIInv DEF KInv
<1>5. DoesOK(d)
  BY DecisionOK DEF KInv
<1>6. \A x : DoesOK(x)' <=> DoesOK(x)
  BY <1>3 DEF DoesOK, Exists
<1>7. DOMAIN task = Sessions
  BY DEF KInv, IInv, Decided
<1>8. \A t \in Sessions : t # s => task'[t] = task[t]
  BY <1>2, <1>7
<1>9. task'[s].does = d
  BY <1>2, <1>7
<1>10. Intended'
  BY <1>5, <1>6, <1>8, <1>9 DEF KInv, Intended, Idle
<1> QED BY <1>3, <1>4, <1>10, SameTables

LEMMA QuarantineKInv == ASSUME KInv, NEW s \in Sessions, Quarantine(s) PROVE KInv'
<1>1. /\ task' = [task EXCEPT ![s] = Idle]
      /\ UNCHANGED <<last, org, alias, candidate, repointed, carried, asOf, first, filed, astray>>
  BY DEF Quarantine
<1>2. IInv'
  BY QuarantineIInv DEF KInv
<1>3. \A x : DoesOK(x)' <=> DoesOK(x)
  BY <1>1 DEF DoesOK, Exists
<1>4. DOMAIN task = Sessions
  BY DEF KInv, IInv, Decided
<1>5. \A t \in Sessions : task'[t] = task[t] \/ task'[t] = Idle
  BY <1>1, <1>4
<1>6. Intended'
  BY <1>3, <1>5 DEF KInv, Intended
<1> QED BY <1>1, <1>2, <1>6, SameTables

LEMMA BatchKInv == ASSUME KInv, BeginBatch \/ EndBatch PROVE KInv'
<1>1. UNCHANGED <<last, org, alias, candidate, repointed, carried, asOf, first, filed, astray, task>>
  BY DEF BeginBatch, EndBatch
<1>2. IInv'
  BY BatchIInv DEF KInv
<1>3. Intended'
  BY <1>1 DEF KInv, Intended, DoesOK, Exists
<1> QED BY <1>1, <1>2, <1>3, SameTables

(* A commit changes nothing of the buyer's row that merges go by, but for a   *)
(* number that no row has stored where there was none.                        *)
LEMMA ServedFields ==
  ASSUME KInv, NEW o \in Orgs, NEW st \in Statements, NEW does, DoesOK(does),
         does.buyer = NoOrg => ~Exists(o),
         ~Refused(o, does)
  PROVE  LET row == Inherited(o, Numbered(o, st, does), st.name)
         IN  /\ row.into = org[o].into /\ row.batch = org[o].batch /\ row.at = org[o].at
             /\ Stores(o, does) =>
                  /\ does.number \in Numbers
                  /\ org[o].number = None
                  /\ Holders(does.number) = {}
                  /\ row.number = does.number
                  /\ row.stamp = "resolved"
             /\ ~Stores(o, does) => row.number = org[o].number /\ row.stamp = org[o].stamp
<1> DEFINE numbered == Numbered(o, st, does)
           row == Inherited(o, numbered, st.name)
<1>1. org[o] \in Row
  BY DEF KInv, IInv, Shapes
<1>2. st.name \in Names
  BY OrganisationsAssumption DEF OrganisationsAssumption
<1>3. does.number \in Numbers \cup {None} /\ None \notin Numbers
  BY Constants DEF DoesOK, Does
<1>4. /\ numbered \in Row
      /\ numbered.into = org[o].into /\ numbered.batch = org[o].batch /\ numbered.at = org[o].at
      /\ Stores(o, does) => /\ org[o].number = None /\ does.number # None
                            /\ numbered.number = does.number /\ numbered.stamp = "resolved"
      /\ ~Stores(o, does) => numbered.number = org[o].number /\ numbered.stamp = org[o].stamp
  <2>1. CASE does.buyer = NoOrg
    <3>1. org[o] = Absent
      BY <2>1 DEF KInv, Filing
    <3>2. numbered = NewRow(st.name, does.number)
      BY <2>1 DEF Numbered
    <3>3. numbered \in Row
      BY <1>2, <1>3, <3>2, NewRowIsRow
    <3>4. Absent.number = None /\ Absent.stamp = "none" /\ Absent.into = NoOrg
          /\ Absent.batch = 0 /\ Absent.at = 0
      BY DEF Absent
    <3>5. /\ numbered.number = does.number
          /\ numbered.stamp = IF does.number = None THEN "none" ELSE "resolved"
          /\ numbered.into = NoOrg /\ numbered.batch = 0 /\ numbered.at = 0
      BY <3>2 DEF NewRow, Absent
    <3>6. Stores(o, does) <=> does.number # None
      BY <2>1 DEF Stores
    <3> QED BY <3>1, <3>3, <3>4, <3>5, <3>6
  <2>2. CASE does.buyer # NoOrg /\ Stores(o, does)
    <3>1. numbered = [org[o] EXCEPT !.number = does.number, !.stamp = "resolved"]
      BY <2>2 DEF Numbered
    <3>2. does.number # None /\ org[o].number = None
      BY <2>2 DEF Stores
    <3> QED BY <1>1, <1>3, <2>2, <3>1, <3>2 DEF Row
  <2>3. CASE does.buyer # NoOrg /\ ~Stores(o, does)
    <3>1. numbered = org[o]
      BY <2>3 DEF Numbered
    <3> QED BY <1>1, <2>3, <3>1
  <2> QED BY <2>1, <2>2, <2>3
<1>5. /\ row.into = numbered.into /\ row.batch = numbered.batch /\ row.at = numbered.at
      /\ row.number = numbered.number /\ row.stamp = numbered.stamp
  <2>1. row = numbered \/ row = [numbered EXCEPT !.flag = TRUE, !.source = TRUE]
    BY DEF Inherited
  <2> HIDE DEF numbered, row
  <2> QED BY <1>4, <2>1 DEF Row
<1>6. Stores(o, does) =>
        /\ does.number \in Numbers
        /\ org[o].number = None
        /\ Holders(does.number) = {}
        /\ row.number = does.number
        /\ row.stamp = "resolved"
  <2> SUFFICES ASSUME Stores(o, does)
               PROVE  /\ does.number \in Numbers
                      /\ org[o].number = None
                      /\ Holders(does.number) = {}
                      /\ row.number = does.number
                      /\ row.stamp = "resolved"
    OBVIOUS
  <2>1. Holders(does.number) = {}
    BY DEF Refused
  <2> HIDE DEF numbered, row
  <2> QED BY <1>3, <1>4, <1>5, <2>1
<1>7. ~Stores(o, does) => row.number = org[o].number /\ row.stamp = org[o].stamp
  <2> SUFFICES ASSUME ~Stores(o, does)
               PROVE  row.number = org[o].number /\ row.stamp = org[o].stamp
    OBVIOUS
  <2> HIDE DEF numbered, row
  <2> QED BY <1>4, <1>5
<1>8. row.into = org[o].into /\ row.batch = org[o].batch /\ row.at = org[o].at
  <2> HIDE DEF numbered, row
  <2> QED BY <1>4, <1>5
<1> QED BY <1>6, <1>7, <1>8

LEMMA ServeKInv == ASSUME KInv, NEW s \in Sessions, Serve(s) PROVE KInv'
<1> DEFINE st == task[s].st
           does == task[s].does
           o == Buyer(does)
           row == Inherited(o, Numbered(o, st, does), st.name)
           stored == Stores(o, does)
           files == Filed(st, does, o)
<1>1. /\ st \in Statements /\ o \in Orgs /\ DoesOK(does) /\ ~Refused(o, does)
      /\ st.name \in Names /\ st.source \in Sources
  BY OrganisationsAssumption
  DEF Serve, KInv, IInv, Decided, Intended, OrganisationsAssumption
<1>2. /\ org' = [org EXCEPT ![o] = row]
      /\ last' = IF does.buyer = NoOrg THEN o ELSE last
      /\ alias' = files
      /\ first' = IF stored THEN [first EXCEPT ![does.number] = o] ELSE first
      /\ filed' = [k \in DOMAIN alias |-> IF alias[k].org = NoOrg THEN files[k].org ELSE filed[k]]
      /\ astray' = (astray \/ (stored /\ Merged(o)))
      /\ task' = [task EXCEPT ![s] = Idle]
      /\ UNCHANGED <<candidate, repointed, carried, asOf>>
  BY DEF Serve
<1>3. last \in 0..MaxOrg /\ MaxOrg \in Nat /\ org \in [Orgs -> Row] /\ DOMAIN task = Sessions
  BY Constants DEF KInv, IInv, Shapes, Decided
<1>4. /\ does.buyer = NoOrg => o = last + 1 /\ ~Exists(o)
      /\ does.buyer # NoOrg => o = does.buyer /\ Exists(o)
  BY <1>1, <1>3 DEF Buyer, Exists, DoesOK
<1>5. does \in Does
  BY <1>1 DEF DoesOK
<1>6. /\ row.into = org[o].into /\ row.batch = org[o].batch /\ row.at = org[o].at
      /\ stored =>
           /\ does.number \in Numbers
           /\ org[o].number = None
           /\ Holders(does.number) = {}
           /\ row.number = does.number
           /\ row.stamp = "resolved"
      /\ ~stored => row.number = org[o].number /\ row.stamp = org[o].stamp
  BY <1>1, <1>4, ServedFields
<1>7. \A k \in Names \X Sources :
        \/ files[k] = alias[k]
        \/ /\ alias[k].org = NoOrg
           /\ files[k] = [org |-> IF does.named = NoOrg THEN o ELSE does.named,
                          prev |-> NoOrg, rank |-> does.rank]
  BY DEF Filed, KInv, Filing
<1>8. DOMAIN files = Names \X Sources
  BY DEF Filed, KInv, Filing
<1>9. IInv'
  BY ServeIInv DEF KInv
<1> HIDE DEF st, does, o, row, stored, files
<1>10. \A p \in Orgs : /\ org'[p].into = org[p].into
                       /\ org'[p].batch = org[p].batch
                       /\ org'[p].at = org[p].at
                       /\ p # o \/ ~stored => org'[p].number = org[p].number
                                              /\ org'[p].stamp = org[p].stamp
  BY <1>1, <1>2, <1>3, <1>6
<1>11. stored => /\ org'[o].number = does.number /\ org'[o].stamp = "resolved"
                 /\ does.number \in Numbers /\ org[o].number = None /\ Holders(does.number) = {}
  BY <1>1, <1>2, <1>3, <1>6
<1>12. /\ Listing' /\ Paired'
       /\ \A p \in Orgs : /\ Merged(p)' <=> Merged(p)
                          /\ Root(p)' = Root(p)
                          /\ Merged(p) => Up(p)' = Up(p)
       /\ Forest => Forest'
       /\ Lines => Lines'
  BY <1>2, <1>10, SameLinks DEF KInv
<1>13. \A p : /\ Exists(p) => Exists(p)'
              /\ Exists(p)' => Exists(p) \/ p = o
  BY <1>1, <1>2, <1>3, <1>4 DEF Exists, Orgs
<1>14. o \in 1..last'
  BY <1>1, <1>2, <1>3, <1>4 DEF Exists, Orgs
<1>15. Intended'
  <2>1. \A t \in Sessions : task'[t] = task[t] \/ task'[t] = Idle
    BY <1>2, <1>3
  <2>2. \A d : DoesOK(d) => DoesOK(d)'
    BY <1>13 DEF DoesOK
  <2> QED BY <2>1, <2>2 DEF KInv, Intended
<1>16. Filing'
  <2>1. \A k \in Names \X Sources :
          /\ files[k] \in [org : Orgs \cup {NoOrg}, prev : Orgs \cup {NoOrg}, rank : 0..2]
          /\ files[k].org # NoOrg => files[k].org \in 1..last' /\ files[k].org \in Orgs
    <3>1. TAKE k \in Names \X Sources
    <3>2. CASE files[k] = alias[k]
      <4>1. \A p : Exists(p) => p \in 1..last'
        BY <1>13 DEF Exists
      <4> QED BY <3>2, <4>1 DEF KInv, Filing
    <3>3. CASE files[k] = [org |-> IF does.named = NoOrg THEN o ELSE does.named,
                           prev |-> NoOrg, rank |-> does.rank]
      <4>1. does.named \in Orgs \cup {NoOrg} /\ does.rank \in 0..2
        BY <1>5 DEF Does
      <4>2. does.named # NoOrg => does.named \in 1..last'
        <5>1. \A p : Exists(p) => p \in 1..last'
          BY <1>13 DEF Exists
        <5> QED BY <1>1, <5>1 DEF DoesOK
      <4> QED BY <3>3, <4>1, <4>2, <1>1, <1>14
    <3> QED BY <1>7, <3>2, <3>3
  <2>2. alias' \in [Names \X Sources ->
                      [org : Orgs \cup {NoOrg}, prev : Orgs \cup {NoOrg}, rank : 0..2]]
    <3>1. alias' = [k \in Names \X Sources |-> files[k]]
      BY <1>2, <1>8 DEF files, Filed, KInv, Filing
    <3> QED BY <2>1, <3>1
  <2>3. /\ DOMAIN alias = Names \X Sources
        /\ filed \in [Names \X Sources -> Orgs \cup {NoOrg}]
        /\ first \in [Numbers -> Orgs \cup {NoOrg}]
    BY DEF KInv, Filing
  <2>4. filed' \in [Names \X Sources -> Orgs \cup {NoOrg}]
    BY <1>2, <2>1, <2>3
  <2>5. \A k \in Names \X Sources :
          alias'[k].org # NoOrg => Exists(alias[k].org)' /\ filed'[k] \in Orgs
    <3>1. TAKE k \in Names \X Sources
    <3>2. HAVE alias'[k].org # NoOrg
    <3>3. Exists(alias[k].org)' /\ files[k].org \in Orgs
      BY <1>2, <2>1, <3>2 DEF Exists
    <3>4. filed'[k] = IF alias[k].org = NoOrg THEN files[k].org ELSE filed[k]
      BY <1>2, <2>3
    <3>5. alias[k].org # NoOrg => filed[k] \in Orgs
      BY DEF KInv, Filing
    <3> QED BY <3>3, <3>4, <3>5
  <2>6. first' \in [Numbers -> Orgs \cup {NoOrg}]
    BY <1>1, <1>2, <1>11, <2>3
  <2>7. \A p \in Orgs : ~Exists(p)' => org'[p] = Absent
    <3>1. TAKE p \in Orgs
    <3>2. HAVE ~Exists(p)'
    <3>3. ~Exists(p) /\ p # o
      BY <1>13, <1>14, <3>2 DEF Exists
    <3> QED BY <1>2, <1>3, <3>3 DEF KInv, Filing
  <2> QED BY <2>2, <2>4, <2>5, <2>6, <2>7 DEF Filing
<1>17. ASSUME ~astray' PROVE Straight'
  <2>1. Straight /\ (stored => ~Merged(o))
    BY <1>2, <1>17 DEF KInv
  <2>2. \A g \in Orgs : Giver(g)' <=> Giver(g)
    BY <1>10, <1>12, <2>1 DEF Giver
  <2>3. \A g \in Orgs : Giver(g) => Up(g)' = Up(g) /\ Up(g) \in Orgs
    BY <1>12, UpIs DEF Giver, KInv
  <2>4. Stamps'
    <3>1. \A p \in Orgs : (~Merged(p) /\ org[p].number = None => org[p].stamp = "none")'
      BY <1>10, <1>11, <1>12, <2>1, Constants DEF Straight, Stamps
    <3>2. \A p \in Orgs : (org[p].number # None => org[p].stamp # "none")'
      BY <1>10, <1>11, <2>1 DEF Straight, Stamps
    <3>3. \A g \in Orgs : (Giver(g) => org[Up(g)].stamp = "merge")'
      <4>1. SUFFICES ASSUME NEW g \in Orgs, Giver(g)' PROVE org'[Up(g)'].stamp = "merge"
        OBVIOUS
      <4>2. Giver(g) /\ Up(g)' = Up(g) /\ Up(g) \in Orgs /\ org[Up(g)].stamp = "merge"
        BY <2>1, <2>2, <2>3, <4>1 DEF Straight, Stamps
      <4>3. stored => org[o].stamp = "none"
        BY <1>1, <1>11, <2>1 DEF Straight, Stamps
      <4> QED BY <1>10, <4>2, <4>3
    <3>4. \A g, h \in Orgs : (Giver(g) /\ Giver(h) /\ Up(g) = Up(h) => g = h)'
      BY <2>1, <2>2, <2>3 DEF Straight, Stamps
    <3> QED BY <3>1, <3>2, <3>3, <3>4 DEF Stamps
  <2>5. \A P, f, p : Chain(P, f, p) => Chain(P, f, p)'
    BY <2>2, <2>3 DEF Chain
  <2>6. Chains'
    <3> SUFFICES ASSUME NEW n \in Numbers, first'[n] # NoOrg
                 PROVE  /\ org'[first'[n]].stamp = "resolved"
                        /\ \E p \in Holders(n)', P \in SUBSET Orgs : Chain(P, first[n], p)'
      BY DEF Chains
    <3>1. first \in [Numbers -> Orgs \cup {NoOrg}]
      BY DEF KInv, Filing
    <3>2. CASE stored /\ n = does.number
      <4>1. first'[n] = o
        BY <1>2, <3>1, <3>2
      <4>2. PICK q \in Orgs : q = o
        BY <1>1
      <4>3. org'[q].stamp = "resolved" /\ q \in Holders(n)'
        BY <1>11, <3>2, <4>2, Constants DEF Holders
      <4>4. Chain({q}, q, q)'
        BY DEF Chain
      <4>5. Chain({q}, first[n], q)'
        BY <4>1, <4>2, <4>4 DEF Chain
      <4> QED BY <4>1, <4>2, <4>3, <4>5
    <3>3. CASE ~(stored /\ n = does.number)
      <4>1. first'[n] = first[n] /\ first[n] \in Orgs
        BY <1>2, <3>1, <3>3
      <4>2. org[first[n]].stamp = "resolved"
        BY <2>1, <4>1 DEF Straight, Chains
      <4>3. PICK p \in Holders(n), P \in SUBSET Orgs : Chain(P, first[n], p)
        BY <2>1, <4>1 DEF Straight, Chains
      <4>4. org'[first[n]].stamp = "resolved"
        BY <1>10, <1>11, <4>1, <4>2
      <4>5. p \in Orgs /\ n # None /\ org[p].number = n
        BY DEF Holders
      <4>6. p \in Holders(n)'
        BY <1>10, <1>11, <4>5 DEF Holders
      <4>7. Chain(P, first[n], p)'
        BY <2>5, <4>1, <4>3 DEF Chain
      <4> QED BY <4>1, <4>4, <4>6, <4>7
    <3> QED BY <3>2, <3>3
  <2>7. Aliased'
    <3> SUFFICES ASSUME NEW k \in Names \X Sources, alias'[k].org # NoOrg
                 PROVE  \/ alias'[k].prev = NoOrg /\ alias'[k].org = filed'[k]
                        \/ alias'[k].prev = filed'[k] /\ alias'[k].org = Root(filed[k])'
      BY DEF Aliased
    <3>1. filed'[k] = IF alias[k].org = NoOrg THEN files[k].org ELSE filed[k]
      BY <1>2 DEF KInv, Filing
    <3>2. CASE alias[k].org = NoOrg
      BY <1>2, <1>7, <3>1, <3>2
    <3>3. CASE alias[k].org # NoOrg
      <4>1. alias'[k] = alias[k] /\ filed'[k] = filed[k] /\ filed[k] \in Orgs
        BY <1>2, <1>7, <3>1, <3>3 DEF KInv, Filing
      <4>2. Root(filed[k])' = Root(filed[k])
        <5>1. Root(filed[k])' = IF org'[filed'[k]].into # NoOrg THEN org'[filed'[k]].into ELSE filed'[k]
          BY DEF Root, Merged
        <5> QED BY <1>10, <4>1, <5>1 DEF Root, Merged
      <4> QED BY <2>1, <3>3, <4>1, <4>2 DEF Straight, Aliased
    <3> QED BY <3>2, <3>3
  <2> QED BY <1>12, <2>1, <2>4, <2>6, <2>7 DEF Straight
<1> QED BY <1>9, <1>12, <1>15, <1>16, <1>17 DEF KInv

------------------------------------------------------------------------------
(* A merge.                                                                   *)

LEMMA MergeFields ==
  ASSUME KInv, NEW keep \in Orgs, NEW absorbed \in Orgs, NEW allow,
         Merge(keep, absorbed, allow)
  PROVE  /\ \A o \in Orgs \ {absorbed} :
              /\ org'[o].into = IF org[o].into = absorbed THEN keep ELSE org[o].into
              /\ org'[o].batch = org[o].batch /\ org'[o].at = org[o].at
              /\ o # keep \/ ~GivesNumber(keep, absorbed) =>
                   org'[o].number = org[o].number /\ org'[o].stamp = org[o].stamp
         /\ org'[absorbed].into = keep
         /\ org'[absorbed].batch = batch
         /\ org'[absorbed].at = Len(asOf) + 1
         /\ org'[absorbed].stamp = org[absorbed].stamp
         /\ GivesNumber(keep, absorbed) =>
              /\ org[keep].number = None /\ org[absorbed].number # None
              /\ org'[keep].number = org[absorbed].number
              /\ org'[keep].stamp = "merge"
              /\ org'[absorbed].number = None
         /\ ~GivesNumber(keep, absorbed) => org'[absorbed].number = org[absorbed].number
<1> DEFINE gives == GivesNumber(keep, absorbed)
           k == org[keep]
           a == org[absorbed]
           number == IF gives THEN [k EXCEPT !.number = a.number, !.stamp = "merge"] ELSE k
           pic == IF GivesPic(keep, absorbed) THEN [number EXCEPT !.pic = a.pic] ELSE number
<1>1. /\ keep # absorbed /\ ~Merged(keep) /\ ~Merged(absorbed)
  BY DEF Merge, MayMerge
<1>2. org' = [o \in Orgs |->
                   IF o = keep THEN Kept(keep, absorbed)
                   ELSE IF o = absorbed THEN Absorbed(keep, absorbed)
                   ELSE IF o \in Followers(absorbed, keep) THEN [org[o] EXCEPT !.into = keep]
                   ELSE org[o]]
  BY DEF Merge
<1>3. k \in Row /\ a \in Row /\ NoOrg \notin Orgs /\ \A o \in Orgs : org[o] \in Row
  BY Constants DEF KInv, IInv, Shapes
<1>4. gives => k.number = None /\ a.number # None
  BY DEF GivesNumber
<1>5. /\ Kept(keep, absorbed).into = k.into
      /\ Kept(keep, absorbed).batch = k.batch
      /\ Kept(keep, absorbed).at = k.at
      /\ gives => Kept(keep, absorbed).number = a.number /\ Kept(keep, absorbed).stamp = "merge"
      /\ ~gives => Kept(keep, absorbed).number = k.number /\ Kept(keep, absorbed).stamp = k.stamp
  <2>1. /\ number \in Row
        /\ number.into = k.into /\ number.batch = k.batch /\ number.at = k.at
        /\ gives => number.number = a.number /\ number.stamp = "merge"
        /\ ~gives => number = k
    <3> HIDE DEF gives, k, a
    <3> QED BY <1>3 DEF Row
  <2>2. /\ pic.into = number.into /\ pic.batch = number.batch /\ pic.at = number.at
        /\ pic.number = number.number /\ pic.stamp = number.stamp
        /\ pic \in Row
    <3> HIDE DEF number, k, a
    <3> QED BY <1>3, <2>1 DEF Row
  <2>3. Kept(keep, absorbed) = [pic EXCEPT !.flag = k.flag \/ a.flag]
    BY DEF Kept
  <2> DEFINE kept == Kept(keep, absorbed)
             flag == k.flag \/ a.flag
  <2>4. kept = [pic EXCEPT !.flag = flag]
    BY <2>3
  <2>5. /\ kept.into = pic.into /\ kept.batch = pic.batch /\ kept.at = pic.at
        /\ kept.number = pic.number /\ kept.stamp = pic.stamp
    <3> HIDE DEF kept, pic, flag
    <3> QED BY <2>2, <2>4 DEF Row
  <2> HIDE DEF number, pic, gives, k, a
  <2> QED BY <2>1, <2>2, <2>5
<1>6. /\ Absorbed(keep, absorbed).into = keep
      /\ Absorbed(keep, absorbed).batch = batch
      /\ Absorbed(keep, absorbed).at = Len(asOf) + 1
      /\ Absorbed(keep, absorbed).stamp = a.stamp
      /\ gives => Absorbed(keep, absorbed).number = None
      /\ ~gives => Absorbed(keep, absorbed).number = a.number
  <2> DEFINE n == IF gives THEN None ELSE a.number
             p == IF GivesPic(keep, absorbed) THEN None ELSE a.pic
             at == Len(asOf) + 1
  <2>1. Absorbed(keep, absorbed) =
          [a EXCEPT !.into = keep, !.batch = batch, !.at = at, !.number = n, !.pic = p]
    BY DEF Absorbed
  <2> HIDE DEF p, at
  <2>2. at = Len(asOf) + 1
    BY DEF at
  <2> HIDE DEF gives, a
  <2> QED BY <1>3, <2>1, <2>2 DEF Row
<1>7. org'[keep] = Kept(keep, absorbed) /\ org'[absorbed] = Absorbed(keep, absorbed)
  BY <1>1, <1>2
<1>8. ASSUME NEW o \in Orgs, o # keep, o # absorbed
      PROVE  /\ org'[o].into = IF org[o].into = absorbed THEN keep ELSE org[o].into
             /\ org'[o].batch = org[o].batch /\ org'[o].at = org[o].at
             /\ org'[o].number = org[o].number /\ org'[o].stamp = org[o].stamp
  <2>1. CASE org[o].into = absorbed
    <3>1. org'[o] = [org[o] EXCEPT !.into = keep]
      BY <1>2, <1>8, <2>1 DEF Followers
    <3> QED BY <1>3, <2>1, <3>1 DEF Row
  <2>2. CASE org[o].into # absorbed
    <3>1. org'[o] = org[o]
      BY <1>2, <1>8, <2>2 DEF Followers
    <3> QED BY <2>2, <3>1
  <2> QED BY <2>1, <2>2
<1>9. org[keep].into # absorbed
  BY <1>1, <1>3 DEF Merged
<1> HIDE DEF gives
<1>10. GivesNumber(keep, absorbed) <=> gives
  BY DEF gives
<1> QED BY <1>1, <1>4, <1>5, <1>6, <1>7, <1>8, <1>9, <1>10

LEMMA MergeLinks ==
  ASSUME KInv, NEW keep \in Orgs, NEW absorbed \in Orgs, NEW allow,
         Merge(keep, absorbed, allow)
  PROVE  /\ Listing'
         /\ \A o \in Orgs : Merged(o)' <=> Merged(o) \/ o = absorbed
         /\ \A o \in Orgs : Merged(o) => Up(o)' = Up(o) /\ Up(o) \in Orgs /\ o # absorbed
         /\ Up(absorbed)' = keep
         /\ \A o \in Orgs : Root(o)' = IF Root(o) = absorbed THEN keep ELSE Root(o)
         /\ \A o, m \in Orgs : m # absorbed => (Rides(o, m)' <=> Rides(o, m))
         /\ \A o \in Orgs : Rides(o, absorbed)' <=> org[o].into = absorbed
         /\ \A o \in Orgs : org[o].at \in Nat /\ (Merged(o) => org[o].at <= Len(asOf))
<1> DEFINE line == [row |-> absorbed, head |-> keep, at |-> Len(asOf) + 1,
                    pic |-> IF GivesPic(keep, absorbed) THEN org[absorbed].pic ELSE None,
                    twice |-> Twice(keep, absorbed)]
           moves == {[row |-> o, old |-> absorbed, new |-> keep, at |-> Len(asOf) + 1] :
                       o \in Followers(absorbed, keep)}
<1>1. /\ keep # absorbed /\ ~Merged(keep) /\ ~Merged(absorbed)
      /\ carried' = carried \cup {line}
      /\ repointed' = repointed \cup moves
      /\ asOf' = Append(asOf, archived)
  BY DEF Merge, MayMerge
<1>2. /\ Len(asOf) \in Nat /\ Len(asOf') = Len(asOf) + 1
      /\ NoOrg \notin Orgs /\ org \in [Orgs -> Row]
  BY <1>1, Constants DEF KInv, IInv, Shapes
<1>3. line.row = absorbed /\ line.head = keep /\ line.at = Len(asOf) + 1
  OBVIOUS
<1> HIDE DEF line
<1>4. /\ \A o \in Orgs \ {absorbed} :
           /\ org'[o].into = IF org[o].into = absorbed THEN keep ELSE org[o].into
           /\ org'[o].at = org[o].at
      /\ org'[absorbed].into = keep
      /\ org'[absorbed].at = Len(asOf) + 1
  BY MergeFields
<1>5. \A o \in Orgs : Merged(o)' <=> Merged(o) \/ o = absorbed
  BY <1>2, <1>4 DEF Merged
<1>6. \A o \in Orgs : Merged(o) => org[o].at \in Nat /\ org[o].at <= Len(asOf)
                                   /\ Up(o) \in Orgs /\ o # absorbed
  BY <1>1, UpIs DEF KInv
<1>7. \A o \in Orgs : org[o].at \in Nat
  BY <1>2 DEF Row
<1>8. Listing'
  <2>1. \A r \in carried : r.at \in Nat /\ r.at <= Len(asOf) /\ r.head \in Orgs
    BY DEF KInv, Listing
  <2>2. \A r \in carried' : r.at \in Nat /\ r.at <= Len(asOf') /\ r.head \in Orgs
    BY <1>1, <1>2, <1>3, <2>1
  <2>3. \A r, q \in carried' : r.at = q.at => r = q
    <3>1. \A r, q \in carried : r.at = q.at => r = q
      BY DEF KInv, Listing
    <3>2. \A r \in carried : r.at # line.at
      BY <1>2, <1>3, <2>1
    <3> QED BY <1>1, <3>1, <3>2
  <2>4. \A o \in Orgs : Merged(o)' => \E r \in carried' : r.row = o /\ r.at = org'[o].at
    <3>1. TAKE o \in Orgs
    <3>2. HAVE Merged(o)'
    <3>3. CASE o = absorbed
      BY <1>1, <1>3, <1>4, <3>3
    <3>4. CASE o # absorbed
      <4>1. Merged(o) /\ org'[o].at = org[o].at
        BY <1>4, <1>5, <3>2, <3>4
      <4> QED BY <1>1, <4>1 DEF KInv, Listing
    <3> QED BY <3>3, <3>4
  <2> QED BY <2>2, <2>3, <2>4 DEF Listing
<1>9. \A o \in Orgs : Merged(o) => Up(o)' = Up(o)
  <2>1. TAKE o \in Orgs
  <2>2. HAVE Merged(o)
  <2>3. org'[o].at = org[o].at
    BY <1>4, <1>6, <2>2
  <2> QED BY <1>1, <1>8, <2>2, <2>3, UpStays DEF KInv
<1>10. Up(absorbed)' = keep
  <2>1. \A q \in carried' : q.at = org'[absorbed].at => q = line
    BY <1>1, <1>3, <1>4, <1>8 DEF Listing
  <2>2. (CHOOSE q \in carried' : q.at = org'[absorbed].at) = line
    BY <1>1, <1>3, <1>4, <2>1
  <2> QED BY <1>3, <2>2 DEF Up
<1>11. \A o \in Orgs : Root(o)' = IF Root(o) = absorbed THEN keep ELSE Root(o)
  <2>1. TAKE o \in Orgs
  <2>2. CASE o = absorbed
    BY <1>1, <1>4, <1>5, <2>2 DEF Root
  <2>3. CASE o # absorbed
    BY <1>4, <1>5, <2>3 DEF Root
  <2> QED BY <2>2, <2>3
<1>12. \A r \in repointed : r.at <= Len(asOf) /\ r.at \in Nat
  BY DEF KInv, IInv, Logged, Moves
<1>13. \A o, m \in Orgs : m # absorbed => (Rides(o, m)' <=> Rides(o, m))
  <2>1. TAKE o, m \in Orgs
  <2>2. HAVE m # absorbed
  <2>3. CASE ~Merged(m)
    BY <1>5, <2>2, <2>3 DEF Rides
  <2>4. CASE Merged(m)
    <3> DEFINE l == [row |-> o, old |-> m, new |-> Up(m), at |-> org[m].at]
    <3>1. l \notin moves
      BY <2>2
    <3>2. Merged(m)' /\ Up(m)' = Up(m) /\ org'[m].at = org[m].at
      BY <1>4, <1>5, <1>9, <2>2, <2>4
    <3>3. Rides(o, m)' <=> l \in repointed'
      BY <3>2 DEF Rides
    <3>4. Rides(o, m) <=> l \in repointed
      BY <2>4 DEF Rides
    <3> HIDE DEF l, moves
    <3> QED BY <1>1, <3>1, <3>3, <3>4
  <2> QED BY <2>3, <2>4
<1>14. \A o \in Orgs : Rides(o, absorbed)' <=> org[o].into = absorbed
  <2>1. TAKE o \in Orgs
  <2> DEFINE l == [row |-> o, old |-> absorbed, new |-> keep, at |-> Len(asOf) + 1]
  <2>2. Rides(o, absorbed)' <=> l \in repointed'
    BY <1>4, <1>5, <1>10 DEF Rides
  <2>3. l \notin repointed
    <3>1. l.at = Len(asOf) + 1
      OBVIOUS
    <3> HIDE DEF l
    <3> QED BY <1>2, <1>12, <3>1
  <2>4. l \in moves <=> o \in Followers(absorbed, keep)
    OBVIOUS
  <2>5. o \in Followers(absorbed, keep) <=> org[o].into = absorbed
    BY <1>1, <1>2 DEF Followers, Merged
  <2> HIDE DEF l, moves
  <2> QED BY <1>1, <2>2, <2>3, <2>4, <2>5
<1> QED BY <1>5, <1>6, <1>7, <1>8, <1>9, <1>10, <1>11, <1>13, <1>14

LEMMA MergeForest ==
  ASSUME KInv, ~astray, NEW keep \in Orgs, NEW absorbed \in Orgs, NEW allow,
         Merge(keep, absorbed, allow)
  PROVE  Forest' /\ Lines'
<1>1. /\ keep # absorbed /\ ~Merged(keep) /\ ~Merged(absorbed)
  BY DEF Merge, MayMerge
<1>2. Forest /\ Lines
  BY DEF KInv, Straight
<1>3. /\ \A o \in Orgs : Merged(o)' <=> Merged(o) \/ o = absorbed
      /\ \A o \in Orgs : Merged(o) => Up(o)' = Up(o) /\ Up(o) \in Orgs /\ o # absorbed
      /\ Up(absorbed)' = keep
      /\ \A o \in Orgs : Root(o)' = IF Root(o) = absorbed THEN keep ELSE Root(o)
      /\ \A o, m \in Orgs : m # absorbed => (Rides(o, m)' <=> Rides(o, m))
      /\ \A o \in Orgs : Rides(o, absorbed)' <=> org[o].into = absorbed
      /\ \A o \in Orgs : org[o].at \in Nat /\ (Merged(o) => org[o].at <= Len(asOf))
  BY MergeLinks
<1>4. /\ \A o \in Orgs \ {absorbed} :
           /\ org'[o].into = IF org[o].into = absorbed THEN keep ELSE org[o].into
           /\ org'[o].at = org[o].at
      /\ org'[absorbed].into = keep
      /\ org'[absorbed].at = Len(asOf) + 1
  BY MergeFields
<1>5. Len(asOf) \in Nat /\ NoOrg \notin Orgs
  BY Constants DEF KInv, IInv, Shapes
<1>6. \A o \in Orgs : Merged(o) => (org[o].into = absorbed <=>
                                      Up(o) = absorbed \/ org[Up(o)].into = absorbed)
  BY <1>1, <1>2, <1>3, <1>5 DEF Forest, Root, Merged
<1>7. \A o \in Orgs : org[o].into = absorbed => Merged(o)
  BY <1>5 DEF Merged
<1>8. \A o \in Orgs : Merged(o)' => org'[o].into = Root(Up(o))'
  <2>1. TAKE o \in Orgs
  <2>2. HAVE Merged(o)'
  <2>3. CASE o = absorbed
    <3>1. Root(Up(o))' = IF org'[keep].into # NoOrg THEN org'[keep].into ELSE keep
      BY <1>3, <2>3 DEF Root, Merged
    <3>2. org'[keep].into = NoOrg
      BY <1>1, <1>4, <1>5 DEF Merged
    <3> QED BY <1>4, <2>3, <3>1, <3>2
  <2>4. CASE o # absorbed
    <3>1. PICK u \in Orgs : u = Up(o) /\ u = Up(o)' /\ Merged(o)
      BY <1>3, <2>2, <2>4
    <3>2. org[o].into = Root(u)
      BY <1>2, <3>1 DEF Forest
    <3>3. Root(u)' = IF Root(u) = absorbed THEN keep ELSE Root(u)
      BY <1>3
    <3>4. Root(Up(o))' = Root(u)'
      BY <3>1 DEF Root, Merged
    <3> QED BY <1>4, <2>4, <3>2, <3>3, <3>4
  <2> QED BY <2>3, <2>4
<1>9. ASSUME NEW o \in Orgs, Merged(o)', Merged(Up(o))'
      PROVE  Rides(o, Up(o))' /\ org'[o].at < org'[Up(o)'].at
  <2>1. o # absorbed
    <3>1. ASSUME o = absorbed PROVE FALSE
      <4>1. Merged(keep)'
        BY <1>3, <1>9, <3>1 DEF Merged
      <4> QED BY <1>1, <1>3, <4>1
    <3> QED BY <3>1
  <2>2. PICK u \in Orgs : u = Up(o) /\ u = Up(o)' /\ Merged(o)
    BY <1>3, <1>9, <2>1
  <2>3. Merged(u)'
    BY <1>9, <2>2 DEF Merged
  <2>4. Rides(o, u)' => Rides(o, Up(o))'
    BY <2>2 DEF Rides, Merged, Up
  <2>5. CASE u = absorbed
    <3>1. Rides(o, absorbed)'
      BY <1>3, <1>6, <2>2, <2>5
    <3>2. org'[o].at < org'[u].at
      BY <1>3, <1>4, <1>5, <2>1, <2>2, <2>5
    <3> QED BY <2>2, <2>4, <2>5, <3>1, <3>2
  <2>6. CASE u # absorbed
    <3>1. Merged(u)
      BY <1>3, <2>3, <2>6
    <3>2. Rides(o, u) /\ org[o].at < org[u].at
      BY <1>2, <2>2, <3>1 DEF Forest
    <3>3. Rides(o, u)' /\ org'[o].at < org'[u].at
      BY <1>3, <1>4, <2>1, <2>6, <3>2
    <3> QED BY <2>2, <2>4, <3>3
  <2> QED BY <2>5, <2>6
<1>10. ASSUME NEW o \in Orgs, NEW m \in Orgs, Rides(o, m)'
       PROVE  Merged(o)' /\ (m = Up(o)' \/ Rides(Up(o), m)')
  <2>1. Merged(o)
    BY <1>2, <1>3, <1>7, <1>10 DEF Forest
  <2>2. PICK u \in Orgs : u = Up(o) /\ u = Up(o)'
    BY <1>3, <2>1
  <2>3. Rides(u, m)' => Rides(Up(o), m)'
    BY <2>2 DEF Rides
  <2>4. m = u \/ Rides(u, m)'
    BY <1>2, <1>3, <1>6, <1>10, <2>1, <2>2 DEF Forest
  <2> QED BY <1>3, <2>1, <2>2, <2>3, <2>4
<1>11. ASSUME NEW o \in Orgs, NEW m \in Orgs, Merged(o)', Rides(Up(o), m)'
       PROVE  Rides(o, m)'
  <2>1. CASE o = absorbed
    <3>1. Rides(keep, m)'
      BY <1>3, <1>11, <2>1 DEF Rides
    <3>2. Merged(keep)
      BY <1>2, <1>3, <1>7, <3>1 DEF Forest
    <3> QED BY <1>1, <3>2
  <2>2. CASE o # absorbed
    <3>1. PICK u \in Orgs : u = Up(o) /\ u = Up(o)' /\ Merged(o)
      BY <1>3, <1>11, <2>2
    <3>2. Rides(u, m)'
      BY <1>11, <3>1 DEF Rides
    <3> QED BY <1>2, <1>3, <1>6, <3>1, <3>2 DEF Forest
  <2> QED BY <2>1, <2>2
<1>12. Forest'
  BY <1>8, <1>9, <1>10, <1>11 DEF Forest
<1>13. Lines'
  <2> DEFINE moves == {[row |-> o, old |-> absorbed, new |-> keep, at |-> Len(asOf) + 1] :
                         o \in Followers(absorbed, keep)}
  <2>1. repointed' = repointed \cup moves
    BY DEF Merge
  <2>2. \A r \in repointed : r \in Moves /\ r.at \in Nat /\ r.at <= Len(asOf)
    BY DEF KInv, IInv, Logged, Moves
  <2>3. \A r \in moves : /\ r.row \in Orgs /\ org[r.row].into = absorbed /\ r.row # keep
                         /\ r.old = absorbed /\ r.new = keep /\ r.at = Len(asOf) + 1
    BY DEF Followers
  <2>4. \A o \in Orgs : org[o].into = absorbed =>
          [row |-> o, old |-> absorbed, new |-> keep, at |-> Len(asOf) + 1] \in moves
    BY <1>1, <1>5 DEF Followers, Merged
  <2> HIDE DEF moves
  <2>5. \A r, q \in repointed' : r.at = q.at => r.old = q.old /\ r.new = q.new
    <3>1. \A r, q \in repointed : r.at = q.at => r.old = q.old /\ r.new = q.new
      BY <1>2 DEF Lines
    <3>2. \A r \in repointed, q \in moves : r.at # q.at
      BY <1>5, <2>2, <2>3
    <3> QED BY <2>1, <2>3, <3>1, <3>2
  <2>6. \A r \in repointed' : r.row # r.new
    BY <1>2, <2>1, <2>3 DEF Lines
  <2>8. ASSUME NEW r \in repointed', Merged(r.old)'
        PROVE  r.at <= org'[r.old].at /\ (r.at = org'[r.old].at => r.new = Up(r.old)')
    <3>1. CASE r \in repointed /\ r.old # absorbed
      <4>1. r.old \in Orgs
        BY <2>2, <3>1 DEF Moves
      <4>2. Merged(r.old) /\ Up(r.old)' = Up(r.old) /\ org'[r.old].at = org[r.old].at
        BY <1>3, <1>4, <2>8, <3>1, <4>1
      <4> QED BY <1>2, <3>1, <4>2 DEF Lines
    <3>2. CASE r \in repointed /\ r.old = absorbed
      BY <1>4, <1>5, <2>2, <3>2
    <3>3. CASE r \in moves
      <4>1. r.old = absorbed /\ r.new = keep /\ r.at = Len(asOf) + 1
        BY <2>3, <3>3
      <4>2. Up(r.old)' = keep
        BY <1>3, <4>1
      <4> QED BY <1>4, <1>5, <4>1, <4>2
    <3> QED BY <2>1, <3>1, <3>2, <3>3
  <2>7. ASSUME NEW r \in repointed', Merged(r.row)', r.at >= org'[r.row].at
        PROVE  \/ r.old = Up(r.row)'
               \/ [row |-> Up(r.row)', old |-> r.old, new |-> r.new, at |-> r.at] \in repointed'
    <3>1. CASE r \in repointed
      <4>1. r.row \in Orgs
        BY <2>2, <3>1 DEF Moves
      <4>2. r.row # absorbed
        BY <1>4, <1>5, <2>2, <2>7, <3>1
      <4>3. Merged(r.row) /\ Up(r.row)' = Up(r.row) /\ r.at >= org[r.row].at
        BY <1>3, <1>4, <2>7, <4>1, <4>2
      <4> QED BY <1>2, <2>1, <3>1, <4>3 DEF Lines
    <3>2. CASE r \in moves
      <4>1. PICK o \in Orgs : o = r.row /\ org[o].into = absorbed
        BY <2>3, <3>2
      <4>2. PICK u \in Orgs : u = Up(o) /\ u = Up(o)'
        BY <1>3, <1>7, <4>1
      <4>3. u = absorbed \/ org[u].into = absorbed
        BY <1>6, <1>7, <4>1, <4>2
      <4>4. Up(r.row)' = u
        BY <4>1, <4>2
      <4> QED BY <2>1, <2>3, <2>4, <3>2, <4>3, <4>4
    <3> QED BY <2>1, <3>1, <3>2
  <2> QED BY <2>5, <2>6, <2>7, <2>8 DEF Lines
<1> QED BY <1>12, <1>13

(* Who gives a number is a new giver, the only one of its head.               *)
LEMMA MergeGivers ==
  ASSUME KInv, ~astray, NEW keep \in Orgs, NEW absorbed \in Orgs, NEW allow,
         Merge(keep, absorbed, allow)
  PROVE  /\ \A g \in Orgs : Giver(g)' <=> \/ Giver(g)
                                          \/ g = absorbed /\ GivesNumber(keep, absorbed)
         /\ GivesNumber(keep, absorbed) => \A g \in Orgs : Giver(g) => Up(g) # keep
         /\ Stamps'
<1> DEFINE gives == GivesNumber(keep, absorbed)
<1>1. /\ keep # absorbed /\ ~Merged(keep) /\ ~Merged(absorbed)
  BY DEF Merge, MayMerge
<1>2. Stamps
  BY DEF KInv, Straight
<1>3. /\ \A o \in Orgs : Merged(o)' <=> Merged(o) \/ o = absorbed
      /\ \A o \in Orgs : Merged(o) => Up(o)' = Up(o) /\ Up(o) \in Orgs /\ o # absorbed
      /\ Up(absorbed)' = keep
  BY MergeLinks
<1>4. /\ \A o \in Orgs \ {absorbed} :
           o # keep \/ ~gives => org'[o].number = org[o].number /\ org'[o].stamp = org[o].stamp
      /\ org'[absorbed].stamp = org[absorbed].stamp
      /\ gives => /\ org[keep].number = None /\ org[absorbed].number # None
                  /\ org'[keep].number = org[absorbed].number
                  /\ org'[keep].stamp = "merge"
                  /\ org'[absorbed].number = None
      /\ ~gives => org'[absorbed].number = org[absorbed].number
  BY MergeFields
<1> HIDE DEF gives
<1>5. org[absorbed].number = None <=> org[absorbed].stamp = "none"
  BY <1>1, <1>2 DEF Stamps
<1>6. gives => org[keep].stamp = "none"
  BY <1>1, <1>2, <1>4 DEF Stamps
<1>7. ASSUME NEW g \in Orgs PROVE Giver(g)' <=> Giver(g) \/ (g = absorbed /\ gives)
  <2>1. CASE g = absorbed
    <3>1. ~Giver(g) /\ Merged(g)'
      BY <1>1, <1>3, <2>1 DEF Giver
    <3>2. Giver(g)' <=> org'[absorbed].number = None /\ org[absorbed].stamp # "none"
      BY <1>4, <2>1, <3>1 DEF Giver
    <3> QED BY <1>4, <1>5, <2>1, <3>1, <3>2
  <2>2. CASE g = keep
    BY <1>1, <1>3, <2>2 DEF Giver
  <2>3. CASE g # absorbed /\ g # keep
    BY <1>3, <1>4, <2>3 DEF Giver
  <2> QED BY <2>1, <2>2, <2>3
<1>8. gives => \A g \in Orgs : Giver(g) => Up(g) # keep
  BY <1>2, <1>6 DEF Stamps
<1>9. \A g \in Orgs : Giver(g) => Up(g)' = Up(g) /\ Up(g) \in Orgs /\ g # absorbed
  BY <1>3 DEF Giver
<1>10. Stamps'
  <2>1. \A o \in Orgs : (~Merged(o) /\ org[o].number = None => org[o].stamp = "none")'
    BY <1>2, <1>3, <1>4 DEF Stamps
  <2>2. \A o \in Orgs : (org[o].number # None => org[o].stamp # "none")'
    BY <1>2, <1>4 DEF Stamps
  <2>3. ASSUME NEW g \in Orgs, Giver(g)' PROVE org'[Up(g)'].stamp = "merge"
    <3>1. CASE g = absorbed /\ gives
      BY <1>3, <1>4, <3>1
    <3>2. CASE Giver(g)
      <4>1. Up(g)' = Up(g) /\ Up(g) \in Orgs /\ org[Up(g)].stamp = "merge"
        BY <1>2, <1>9, <3>2 DEF Stamps
      <4> QED BY <1>4, <4>1
    <3> QED BY <1>7, <2>3, <3>1, <3>2
  <2>4. ASSUME NEW g \in Orgs, NEW h \in Orgs, Giver(g)', Giver(h)', Up(g)' = Up(h)'
        PROVE  g = h
    <3>1. CASE Giver(g) /\ Giver(h)
      BY <1>2, <1>9, <2>4, <3>1 DEF Stamps
    <3>2. CASE ~(Giver(g) /\ Giver(h))
      BY <1>3, <1>7, <1>8, <1>9, <2>4, <3>2
    <3> QED BY <3>1, <3>2
  <2> QED BY <2>1, <2>2, <2>3, <2>4 DEF Stamps
<1> QED BY <1>7, <1>8, <1>10 DEF gives

LEMMA MergeChains ==
  ASSUME KInv, ~astray, NEW keep \in Orgs, NEW absorbed \in Orgs, NEW allow,
         Merge(keep, absorbed, allow)
  PROVE  Chains'
<1> DEFINE gives == GivesNumber(keep, absorbed)
<1>1. /\ keep # absorbed /\ ~Merged(keep) /\ ~Merged(absorbed) /\ first' = first
  BY DEF Merge, MayMerge
<1>2. Stamps /\ Chains
  BY DEF KInv, Straight
<1>3. /\ \A o \in Orgs : Merged(o) => Up(o)' = Up(o) /\ Up(o) \in Orgs /\ o # absorbed
      /\ Up(absorbed)' = keep
  BY MergeLinks
<1>4. /\ \A o \in Orgs \ {absorbed} :
           o # keep \/ ~gives => org'[o].number = org[o].number /\ org'[o].stamp = org[o].stamp
      /\ org'[absorbed].stamp = org[absorbed].stamp
      /\ gives => /\ org[keep].number = None /\ org[absorbed].number # None
                  /\ org'[keep].number = org[absorbed].number
      /\ ~gives => org'[absorbed].number = org[absorbed].number
  BY MergeFields
<1>5. \A g \in Orgs : Giver(g)' <=> Giver(g) \/ (g = absorbed /\ gives)
  BY MergeGivers
<1> HIDE DEF gives
<1>6. \A g \in Orgs : Giver(g) => Up(g)' = Up(g) /\ Merged(g) /\ g # absorbed
  BY <1>3 DEF Giver
<1>7. SUFFICES ASSUME NEW n \in Numbers, first[n] # NoOrg
               PROVE  /\ org'[first[n]].stamp = "resolved"
                      /\ \E o \in Holders(n)', P \in SUBSET Orgs : Chain(P, first[n], o)'
  BY <1>1 DEF Chains
<1>8. first[n] \in Orgs /\ org[first[n]].stamp = "resolved"
  BY <1>2, <1>7 DEF KInv, Filing, Chains
<1>9. org'[first[n]].stamp = "resolved"
  <2>1. gives => org[keep].stamp = "none"
    BY <1>1, <1>2, <1>4 DEF Stamps
  <2> QED BY <1>4, <1>8, <2>1
<1>10. PICK o \in Holders(n), P \in SUBSET Orgs : Chain(P, first[n], o)
  BY <1>2, <1>7 DEF Chains
<1>11. o \in Orgs /\ n # None /\ org[o].number = n
  BY DEF Holders
<1>12. PICK f \in Orgs : f = first[n]
  BY <1>8
<1>13. \A x \in P \ {o} : Giver(x) /\ Up(x) \in P
  BY <1>10 DEF Chain
<1>14. \A x \in P \ {f} : \E y \in P : Giver(y) /\ Up(y) = x
  BY <1>10, <1>12 DEF Chain
<1>15. f \in P /\ o \in P
  BY <1>10, <1>12 DEF Chain
<1>16. CASE gives /\ o = absorbed
  <2> DEFINE Q == P \cup {keep}
  <2>1. keep \in Holders(n)'
    BY <1>4, <1>11, <1>16 DEF Holders
  <2>2. keep \notin P
    BY <1>1, <1>6, <1>13, <1>16
  <2>3. \A x \in Q \ {keep} : Giver(x)' /\ Up(x)' \in Q
    <3>1. TAKE x \in Q \ {keep}
    <3>2. CASE x = absorbed
      BY <1>3, <1>5, <1>16, <3>2
    <3>3. CASE x # absorbed
      <4>1. x \in P \ {o}
        BY <1>16, <3>3
      <4> QED BY <1>5, <1>6, <1>13, <4>1
    <3> QED BY <3>2, <3>3
  <2>4. \A x \in Q \ {f} : \E y \in Q : Giver(y)' /\ Up(y)' = x
    <3>1. TAKE x \in Q \ {f}
    <3>2. CASE x = keep
      BY <1>3, <1>5, <1>15, <1>16, <3>2
    <3>3. CASE x # keep
      <4>1. PICK y \in P : Giver(y) /\ Up(y) = x
        BY <1>14, <3>3
      <4> QED BY <1>5, <1>6, <4>1
    <3> QED BY <3>2, <3>3
  <2>5. Q \in SUBSET Orgs /\ f \in Q /\ keep \in Q
    BY <1>15
  <2> HIDE DEF Q
  <2>6. PICK R \in SUBSET Orgs : R = Q
    BY <2>5
  <2>7. Chain(R, f, keep)'
    BY <2>3, <2>4, <2>5, <2>6 DEF Chain
  <2>8. Chain(R, first[n], keep)'
    BY <1>1, <1>12, <2>7 DEF Chain
  <2> QED BY <1>9, <2>1, <2>8
<1>17. CASE ~(gives /\ o = absorbed)
  <2>1. o \in Holders(n)'
    <3>1. gives => o # keep
      BY <1>4, <1>11
    <3> QED BY <1>4, <1>11, <1>17, <3>1 DEF Holders
  <2>2. \A x \in P \ {o} : Giver(x)' /\ Up(x)' \in P
    BY <1>5, <1>6, <1>13
  <2>3. \A x \in P \ {f} : \E y \in P : Giver(y)' /\ Up(y)' = x
    <3>1. TAKE x \in P \ {f}
    <3>2. PICK y \in P : Giver(y) /\ Up(y) = x
      BY <1>14
    <3> QED BY <1>5, <1>6, <3>2
  <2>4. Chain(P, f, o)'
    BY <1>15, <2>2, <2>3 DEF Chain
  <2>5. Chain(P, first[n], o)'
    BY <1>1, <1>12, <2>4 DEF Chain
  <2> QED BY <1>9, <2>1, <2>5
<1> QED BY <1>16, <1>17

LEMMA MergeAliases ==
  ASSUME KInv, NEW keep \in Orgs, NEW absorbed \in Orgs, NEW allow,
         Merge(keep, absorbed, allow)
  PROVE  Filing' /\ (Aliased => Aliased')
<1>1. /\ keep # absorbed /\ ~Merged(keep) /\ ~Merged(absorbed)
      /\ Exists(keep) /\ Exists(absorbed)
      /\ alias' = [k \in DOMAIN alias |->
                     IF alias[k].org = absorbed
                     THEN [alias[k] EXCEPT !.prev = Origin(alias[k]), !.org = keep]
                     ELSE alias[k]]
      /\ UNCHANGED <<last, first, filed>>
      /\ org' = [o \in Orgs |->
                   IF o = keep THEN Kept(keep, absorbed)
                   ELSE IF o = absorbed THEN Absorbed(keep, absorbed)
                   ELSE IF o \in Followers(absorbed, keep) THEN [org[o] EXCEPT !.into = keep]
                   ELSE org[o]]
  BY DEF Merge, MayMerge
<1>2. NoOrg \notin Orgs
  BY Constants
<1>3. Filing
  BY DEF KInv
<1>4. ASSUME NEW k \in Names \X Sources
      PROVE  /\ alias[k].org = absorbed =>
                  /\ alias'[k].org = keep /\ alias'[k].prev = Origin(alias[k])
                  /\ alias'[k] \in [org : Orgs \cup {NoOrg}, prev : Orgs \cup {NoOrg}, rank : 0..2]
             /\ alias[k].org # absorbed => alias'[k] = alias[k]
  <2>1. alias[k] \in [org : Orgs \cup {NoOrg}, prev : Orgs \cup {NoOrg}, rank : 0..2]
    BY <1>3 DEF Filing
  <2>2. k \in DOMAIN alias
    BY <1>3 DEF Filing
  <2>3. Origin(alias[k]) \in Orgs \cup {NoOrg}
    BY <2>1 DEF Origin
  <2> DEFINE origin == Origin(alias[k])
  <2>4. alias[k].org = absorbed => alias'[k] = [alias[k] EXCEPT !.prev = origin, !.org = keep]
    BY <1>1, <2>2
  <2>5. alias[k].org # absorbed => alias'[k] = alias[k]
    BY <1>1, <2>2
  <2>6. origin \in Orgs \cup {NoOrg}
    BY <2>3
  <2> HIDE DEF origin
  <2>7. alias[k].org = absorbed =>
          /\ alias'[k].org = keep /\ alias'[k].prev = origin
          /\ alias'[k] \in [org : Orgs \cup {NoOrg}, prev : Orgs \cup {NoOrg}, rank : 0..2]
    BY <2>1, <2>4, <2>6
  <2> QED BY <2>5, <2>7 DEF origin
<1>5. Filing'
  <2>1. alias' \in [Names \X Sources ->
                      [org : Orgs \cup {NoOrg}, prev : Orgs \cup {NoOrg}, rank : 0..2]]
    <3>1. DOMAIN alias' = Names \X Sources /\ alias' = [k \in DOMAIN alias' |-> alias'[k]]
      BY <1>1, <1>3 DEF Filing
    <3>2. \A k \in Names \X Sources :
            alias'[k] \in [org : Orgs \cup {NoOrg}, prev : Orgs \cup {NoOrg}, rank : 0..2]
      BY <1>3, <1>4 DEF Filing
    <3> QED BY <3>1, <3>2
  <2>2. \A k \in Names \X Sources :
          alias'[k].org # NoOrg => Exists(alias[k].org)' /\ filed'[k] \in Orgs
    <3>1. TAKE k \in Names \X Sources
    <3>2. HAVE alias'[k].org # NoOrg
    <3>3. alias[k].org # NoOrg
      BY <1>2, <1>4, <3>2
    <3>4. Exists(alias[k].org) /\ filed[k] \in Orgs
      BY <1>3, <3>3 DEF Filing
    <3>5. Exists(alias[k].org)'
      BY <1>1, <1>4, <3>4 DEF Exists
    <3> QED BY <1>1, <3>4, <3>5
  <2>3. \A o \in Orgs : ~Exists(o)' => org'[o] = Absent
    <3>1. TAKE o \in Orgs
    <3>2. HAVE ~Exists(o)'
    <3>3. ~Exists(o)
      BY <1>1, <3>2 DEF Exists
    <3>4. org[o] = Absent
      BY <1>3, <3>3 DEF Filing
    <3>5. o \notin Followers(absorbed, keep)
      BY <1>2, <3>4 DEF Followers, Absent
    <3> QED BY <1>1, <3>3, <3>4, <3>5
  <2> QED BY <1>1, <1>3, <2>1, <2>2, <2>3 DEF Filing
<1>6. ASSUME Aliased PROVE Aliased'
  <2> SUFFICES ASSUME NEW k \in Names \X Sources, alias'[k].org # NoOrg
               PROVE  \/ alias'[k].prev = NoOrg /\ alias'[k].org = filed'[k]
                      \/ alias'[k].prev = filed'[k] /\ alias'[k].org = Root(filed[k])'
    BY DEF Aliased
  <2>1. alias[k].org # NoOrg
    BY <1>2, <1>4
  <2>2. PICK f \in Orgs : f = filed[k] /\ f = filed'[k]
    BY <1>1, <1>3, <2>1 DEF Filing
  <2>3. Root(f)' = IF Root(f) = absorbed THEN keep ELSE Root(f)
    BY MergeLinks
  <2>4. Root(filed[k])' = Root(f)'
    BY <2>2 DEF Root, Merged
  <2>5. \/ alias[k].prev = NoOrg /\ alias[k].org = f
        \/ alias[k].prev = f /\ alias[k].org = Root(f)
    BY <1>6, <2>1, <2>2 DEF Aliased
  <2>6. f # NoOrg
    BY <1>2
  <2>7. CASE alias[k].org = absorbed
    <3>1. Origin(alias[k]) = f
      BY <2>5, <2>6, <2>7 DEF Origin
    <3>2. Root(f) = absorbed
      BY <1>1, <2>5, <2>7 DEF Root
    <3> QED BY <1>4, <2>2, <2>3, <2>4, <2>7, <3>1, <3>2
  <2>8. CASE alias[k].org # absorbed
    BY <1>4, <2>2, <2>3, <2>4, <2>5, <2>8
  <2> QED BY <2>7, <2>8
<1> QED BY <1>5, <1>6

LEMMA MergeKInv ==
  ASSUME KInv, NEW keep \in Orgs, NEW absorbed \in Orgs, NEW allow \in Overrides,
         Merge(keep, absorbed, allow)
  PROVE  KInv'
<1>1. IInv'
  BY MergeIInv DEF KInv
<1>2. Listing' /\ Filing'
  BY MergeLinks, MergeAliases
<1>3. Intended'
  BY DEF Merge, KInv, Intended, DoesOK, Exists
<1>4. Paired'
  <2>1. candidate' = [candidate EXCEPT ![{keep, absorbed}] = batch]
    BY DEF Merge
  <2>2. DOMAIN candidate' = Pairs
    BY <2>1 DEF KInv, Paired
  <2>3. ASSUME NEW p \in Pairs, candidate'[p] # 0
        PROVE  \E m \in Orgs : Merged(m)' /\ org'[m].batch = candidate'[p] /\ p = {m, Up(m)'}
    <3>1. CASE p = {keep, absorbed}
      <4>1. candidate'[p] = batch
        BY <2>1, <3>1 DEF KInv, Paired
      <4>2. Merged(absorbed)' /\ org'[absorbed].batch = batch /\ Up(absorbed)' = keep
        BY MergeLinks, MergeFields
      <4> QED BY <3>1, <4>1, <4>2
    <3>2. CASE p # {keep, absorbed}
      <4>1. candidate'[p] = candidate[p]
        BY <2>1, <3>2 DEF KInv, Paired
      <4>2. PICK m \in Orgs : Merged(m) /\ org[m].batch = candidate[p] /\ p = {m, Up(m)}
        BY <2>3, <4>1 DEF KInv, Paired
      <4>3. Merged(m)' /\ Up(m)' = Up(m) /\ m # absorbed
        BY <4>2, MergeLinks
      <4>4. org'[m].batch = org[m].batch
        BY <4>3, MergeFields
      <4> QED BY <4>1, <4>2, <4>3, <4>4
    <3> QED BY <3>1, <3>2
  <2> QED BY <2>2, <2>3 DEF Paired
<1>5. ASSUME ~astray' PROVE Straight'
  <2>1. ~astray
    BY <1>5 DEF Merge
  <2>2. Aliased
    BY <2>1 DEF KInv, Straight
  <2> QED BY <2>1, <2>2, MergeForest, MergeGivers, MergeChains, MergeAliases DEF Straight
<1> QED BY <1>1, <1>2, <1>3, <1>4, <1>5 DEF KInv

------------------------------------------------------------------------------
(* An undo.                                                                   *)

(* The rows an undo takes apart are right under a live row, and it is the one *)
(* they were merged into: a pair that was moved on since has no candidate.    *)
LEMMA UndoMembers ==
  ASSUME KInv, NEW b \in 1..batch, NEW members \in SUBSET BatchRows(b), Undo(b, members)
  PROVE  \A m \in members :
           /\ m \in Orgs /\ Merged(m) /\ Exists(m)
           /\ Up(m) = org[m].into
           /\ org[m].into \in Orgs /\ ~Merged(org[m].into) /\ Exists(org[m].into)
           /\ org[m].into \notin members
<1>1. TAKE m \in members
<1>2. m \in Orgs /\ Merged(m) /\ org[m].batch = b
  BY DEF BatchRows
<1>3. /\ candidate[{m, org[m].into}] = b /\ ~Merged(org[m].into)
  BY DEF Undo, Proved
<1>4. Exists(m) /\ Exists(org[m].into) /\ org[m].into \in Orgs
  BY <1>2, Constants DEF KInv, IInv, Shapes, NoChains, Exists, Orgs
<1>5. {m, org[m].into} \in Pairs
  <2>1. m # org[m].into
    BY <1>2, <1>3
  <2>2. IsFiniteSet({m}) /\ Cardinality({m}) = 1
    BY FS_Singleton
  <2>3. ASSUME NEW h, m # h PROVE Cardinality({m} \cup {h}) = 2
    <3>1. h \notin {m}
      BY <2>3
    <3>2. Cardinality({m} \cup {h}) = Cardinality({m}) + 1
      BY <2>2, <3>1, FS_AddElement
    <3> QED BY <2>2, <3>2
  <2>4. {m, org[m].into} = {m} \cup {org[m].into}
    OBVIOUS
  <2> QED BY <1>2, <1>4, <2>1, <2>3, <2>4 DEF Pairs
<1>6. PICK q \in Orgs : Merged(q) /\ {m, org[m].into} = {q, Up(q)}
  BY <1>3, <1>5, Constants DEF KInv, Paired
<1>7. q = m
  BY <1>3, <1>6
<1>8. Up(m) = org[m].into
  BY <1>2, <1>3, <1>6, <1>7
<1>9. org[m].into \notin members
  BY <1>3 DEF BatchRows
<1> QED BY <1>2, <1>3, <1>4, <1>8, <1>9

LEMMA LatestIs ==
  ASSUME IInv, NEW members, NEW o, MovedOn(members, o) # {}
  PROVE  /\ Latest(MovedOn(members, o)) \in MovedOn(members, o)
         /\ \A q \in MovedOn(members, o) : q.at <= Latest(MovedOn(members, o)).at
<1>1. MovedOn(members, o) \in SUBSET repointed
  BY DEF MovedOn
<1>2. \E r \in MovedOn(members, o) : \A q \in MovedOn(members, o) : q.at <= r.at
  BY <1>1 DEF IInv, Logged
<1> QED BY <1>2 DEF Latest

(* Where no row is misled, each line an undo follows is of the merge that is  *)
(* undone.                                                                    *)
LEMMA LatestRides ==
  ASSUME KInv, ~astray, ~astray',
         NEW b \in 1..batch, NEW members \in SUBSET BatchRows(b), Undo(b, members),
         NEW o \in Orgs, MovedOn(members, o) # {}
  PROVE  LET r == Latest(MovedOn(members, o))
         IN  /\ r.old \in members /\ r.old \in Orgs
             /\ Rides(o, r.old)
             /\ r.at = org[r.old].at
             /\ org[o].into = org[r.old].into
             /\ Merged(o)
<1> DEFINE At(p) == Latest(MovedOn(members, p)).at
           Old(p) == Latest(MovedOn(members, p)).old
           Bad == {p \in Orgs : MovedOn(members, p) # {} /\ At(p) # org[Old(p)].at}
           Left(p) == Len(asOf) - org[p].at
<1>1. Forest /\ Lines /\ IInv /\ Listing
  BY DEF KInv, Straight
<1>2. \A p \in Orgs : ~Misled(members, p)
  BY DEF Undo
<1>3. \A m \in members :
        /\ m \in Orgs /\ Merged(m) /\ Up(m) = org[m].into
        /\ org[m].into \in Orgs /\ ~Merged(org[m].into)
  BY UndoMembers
<1>4. NoOrg \notin Orgs /\ Len(asOf) \in Nat /\ org \in [Orgs -> Row]
  BY <1>1, Constants DEF IInv, Shapes
<1>5. ASSUME NEW p \in Orgs, MovedOn(members, p) # {}
      PROVE  /\ Old(p) \in members /\ Merged(p) /\ At(p) \in Nat
             /\ [row |-> p, old |-> Old(p), new |-> org[p].into, at |-> At(p)] \in repointed
             /\ \A q \in MovedOn(members, p) : q.at <= At(p)
             /\ At(p) >= org[p].at
  <2> DEFINE r == Latest(MovedOn(members, p))
  <2>1. r \in MovedOn(members, p) /\ \A q \in MovedOn(members, p) : q.at <= r.at
    BY <1>1, <1>5, LatestIs
  <2>2. r \in repointed /\ r.row = p /\ r.old \in members /\ org[p].into = r.new
    BY <2>1 DEF MovedOn
  <2>3. r \in Moves
    BY <1>1, <2>2 DEF IInv, Logged
  <2>4. Merged(p)
    BY <1>4, <2>2, <2>3 DEF Moves, Merged
  <2>5. ~(r.at < org[p].at)
    BY <1>2, <1>5 DEF Misled
  <2>6. org[p].at \in Nat /\ r.at \in Nat
    BY <1>4, <2>3 DEF Row, Moves
  <2>7. r = [row |-> p, old |-> r.old, new |-> org[p].into, at |-> r.at]
    BY <2>2, <2>3 DEF Moves
  <2> HIDE DEF r
  <2>8. r.at >= org[p].at
    BY <2>5, <2>6
  <2>9. r.at = At(p) /\ r.old = Old(p)
    BY DEF r
  <2> HIDE DEF At, Old
  <2> QED BY <2>1, <2>2, <2>4, <2>6, <2>7, <2>8, <2>9
<1> HIDE DEF At, Old
<1>6. \A p \in Orgs, m \in members :
        Rides(p, m) /\ org[p].into = org[m].into =>
          [row |-> p, old |-> m, new |-> Up(m), at |-> org[m].at] \in MovedOn(members, p)
  BY <1>3 DEF Rides, MovedOn
<1>7. ASSUME NEW p \in Orgs, MovedOn(members, p) # {}, At(p) = org[Old(p)].at
      PROVE  Rides(p, Old(p)) /\ org[p].into = org[Old(p)].into
  <2>1. Old(p) \in members
        /\ [row |-> p, old |-> Old(p), new |-> org[p].into, at |-> At(p)] \in repointed
    BY <1>5, <1>7
  <2> DEFINE l == [row |-> p, old |-> Old(p), new |-> org[p].into, at |-> At(p)]
  <2>2. l \in repointed /\ l.old = Old(p) /\ l.at = At(p) /\ l.new = org[p].into
    BY <2>1
  <2> HIDE DEF l
  <2>3. org[p].into = Up(Old(p))
    BY <1>1, <1>3, <1>7, <2>1, <2>2 DEF Lines
  <2> QED BY <1>3, <1>7, <2>1, <2>3 DEF Rides
<1>8. ASSUME NEW p \in Bad
      PROVE  /\ Up(p) \in Bad
             /\ org[p].at \in Nat /\ org[p].at <= Len(asOf)
             /\ org[p].at < org[Up(p)].at
  <2>1. /\ p \in Orgs /\ MovedOn(members, p) # {} /\ At(p) # org[Old(p)].at
    OBVIOUS
  <2> DEFINE m == Old(p)
             u == Up(p)
             h == org[p].into
             at == At(p)
             l == [row |-> p, old |-> m, new |-> h, at |-> at]
             q == [row |-> u, old |-> m, new |-> h, at |-> at]
  <2>2. /\ m \in members /\ m \in Orgs /\ Merged(p) /\ at \in Nat /\ at >= org[p].at
        /\ l \in repointed
        /\ \A k \in MovedOn(members, p) : k.at <= at
    BY <1>3, <1>5, <2>1
  <2>3. u \in Orgs /\ org[p].at \in Nat /\ org[p].at <= Len(asOf)
    BY <1>1, <2>1, <2>2, UpIs
  <2>4. at # org[m].at
    BY <2>1
  <2>5. /\ l.row = p /\ l.old = m /\ l.new = h /\ l.at = at
        /\ q.row = u /\ q.old = m /\ q.new = h /\ q.at = at
    OBVIOUS
  <2>6. org[p].into = Root(u)
    BY <1>1, <2>1, <2>2 DEF Forest
  <2> HIDE DEF m, u, h, at
  <2>7. at < org[m].at
    <3>1. at <= org[m].at
      BY <1>1, <1>3, <2>2, <2>5 DEF Lines
    <3>2. org[m].at \in Nat
      BY <1>4, <2>2 DEF Row
    <3> QED BY <2>2, <2>4, <3>1, <3>2
  <2>8. m # u
    <3>1. ASSUME m = u PROVE FALSE
      <4>1. Rides(p, m)
        BY <1>1, <1>3, <2>1, <2>2, <3>1 DEF Forest, u
      <4>2. org[p].into = org[m].into
        BY <1>3, <2>2, <2>6, <3>1 DEF Root
      <4>3. [row |-> p, old |-> m, new |-> Up(m), at |-> org[m].at] \in MovedOn(members, p)
        BY <1>6, <2>1, <2>2, <4>1, <4>2
      <4>4. org[m].at <= at
        BY <2>2, <4>3
      <4> QED BY <1>4, <2>2, <2>7, <4>4 DEF Row
    <3> QED BY <3>1
  <2>9. q \in repointed
    <3>1. Merged(l.row) /\ l.at >= org[l.row].at /\ l.old # Up(l.row)
      BY <2>2, <2>5, <2>8 DEF u
    <3>2. [row |-> Up(l.row), old |-> l.old, new |-> l.new, at |-> l.at] \in repointed
      BY <1>1, <2>2, <3>1 DEF Lines
    <3> QED BY <2>5, <3>2 DEF u
  <2> HIDE DEF q, l
  <2>10. Merged(u)
    <3>1. u # h
      BY <1>1, <2>5, <2>9 DEF Lines
    <3> QED BY <2>6, <3>1 DEF Root, h
  <2>11. org[u].into = h
    BY <2>6, <2>10 DEF Root, h
  <2>12. q \in MovedOn(members, u)
    BY <2>2, <2>5, <2>9, <2>11 DEF MovedOn
  <2>13. org[p].at < org[u].at
    BY <1>1, <2>1, <2>2, <2>10 DEF Forest, u
  <2>14. ASSUME At(u) = org[Old(u)].at PROVE FALSE
    <3>1. Rides(u, Old(u)) /\ org[u].into = org[Old(u)].into /\ Old(u) \in members
      BY <1>5, <1>7, <2>3, <2>12, <2>14
    <3>2. Rides(p, Old(u))
      BY <1>1, <1>3, <2>1, <2>2, <3>1 DEF Forest, u
    <3>3. [row |-> p, old |-> Old(u), new |-> Up(Old(u)), at |-> org[Old(u)].at]
            \in MovedOn(members, p)
      BY <1>6, <2>1, <2>11, <3>1, <3>2 DEF h
    <3>4. org[Old(u)].at <= at
      BY <2>2, <3>3
    <3>5. q.at <= At(u) /\ At(u) \in Nat
          /\ [row |-> u, old |-> Old(u), new |-> org[u].into, at |-> At(u)] \in repointed
      BY <1>5, <2>3, <2>12
    <3>6. At(u) = at
      BY <2>2, <2>5, <2>14, <3>4, <3>5
    <3> DEFINE k == [row |-> u, old |-> Old(u), new |-> org[u].into, at |-> At(u)]
    <3>7. k \in repointed /\ k.old = Old(u) /\ k.at = At(u)
      BY <3>5
    <3> HIDE DEF k
    <3>8. Old(u) = m
      BY <1>1, <2>5, <2>9, <3>6, <3>7 DEF Lines
    <3> QED BY <2>4, <2>14, <3>6, <3>8
  <2>15. u \in Bad
    BY <2>3, <2>12, <2>14
  <2> QED BY <2>3, <2>13, <2>15 DEF u
<1>9. ASSUME Bad # {} PROVE FALSE
  <2> DEFINE S == {Left(p) : p \in Bad}
  <2>0. \A p \in Bad : /\ Up(p) \in Bad
                       /\ org[p].at \in Nat /\ org[p].at <= Len(asOf)
                       /\ org[p].at < org[Up(p)].at
    BY <1>8
  <2> HIDE DEF Bad
  <2>1. S \subseteq Nat /\ S # {}
    BY <1>4, <1>9, <2>0
  <2>2. PICK d \in S : \A e \in S : <<e, d>> \notin OpToRel(<, Nat)
    <3> HIDE DEF S
    <3> QED BY <2>1, WFMin, NatLessThanWellFounded
  <2>3. PICK p \in Bad : d = Left(p)
    OBVIOUS
  <2>4. Left(Up(p)) \in S /\ Left(Up(p)) \in Nat /\ Left(p) \in Nat
    BY <2>0, <2>1
  <2>5. Left(Up(p)) < Left(p)
    BY <1>4, <2>0
  <2>6. <<Left(Up(p)), Left(p)>> \in OpToRel(<, Nat)
    <3> HIDE DEF Left
    <3> QED BY <2>4, <2>5 DEF OpToRel
  <2> QED BY <2>2, <2>3, <2>4, <2>6
<1>10. At(o) = org[Old(o)].at
  BY <1>9
<1>11. /\ Old(o) \in members /\ Old(o) \in Orgs /\ Merged(o)
       /\ Rides(o, Old(o)) /\ org[o].into = org[Old(o)].into
  BY <1>3, <1>5, <1>7, <1>10
<1> QED BY <1>10, <1>11 DEF At, Old

(* What an undo leaves of each row.                                           *)
LEMMA UndoFields ==
  ASSUME KInv, NEW b \in 1..batch, NEW members \in SUBSET BatchRows(b), Undo(b, members)
  PROVE  \A o \in Orgs :
           /\ o \in members =>
                /\ org'[o].into = NoOrg /\ org'[o].stamp = org[o].stamp
                /\ org'[o].number = IF GaveNumber(members, o) THEN org[org[o].into].number
                                    ELSE org[o].number
           /\ o \notin members =>
                /\ org'[o].into = Stays(members, o)
                /\ org'[o].batch = org[o].batch /\ org'[o].at = org[o].at
                /\ (\E m \in Of(members, o) : GaveNumber(members, m)) =>
                     org'[o].number = None /\ org'[o].stamp = "none"
                /\ ~(\E m \in Of(members, o) : GaveNumber(members, m)) =>
                     org'[o].number = org[o].number /\ org'[o].stamp = org[o].stamp
<1>1. org' = [o \in Orgs |->
               IF o \in members THEN MemberBack(members, o)
               ELSE IF Of(members, o) # {} THEN HeadBack(members, o)
               ELSE [org[o] EXCEPT !.into = Stays(members, o)]]
  BY DEF Undo
<1>2. /\ \A o \in Orgs : org[o] \in Row
      /\ NoOrg \notin Orgs
  BY Constants DEF KInv, IInv, Shapes
<1>3. \A m \in members :
        m \in Orgs /\ org[m].into \in Orgs /\ ~Merged(org[m].into) /\ org[m].into \notin members
  BY UndoMembers
<1>4. ASSUME NEW o \in Orgs, o \in members
      PROVE  /\ org'[o].into = NoOrg /\ org'[o].stamp = org[o].stamp
             /\ org'[o].number = IF GaveNumber(members, o) THEN org[org[o].into].number
                                 ELSE org[o].number
  <2> DEFINE number == IF GaveNumber(members, o) THEN org[org[o].into].number ELSE org[o].number
             pic == IF GavePic(members, o) THEN org[org[o].into].pic ELSE org[o].pic
  <2>1. org[o] \in Row
    BY <1>2
  <2>2. MemberBack(members, o) =
          [org[o] EXCEPT !.into = NoOrg, !.batch = 0, !.at = 0, !.number = number, !.pic = pic]
    BY <2>1 DEF MemberBack, Row
  <2>3. org'[o] = MemberBack(members, o)
    BY <1>1, <1>4
  <2> HIDE DEF number, pic
  <2>4. /\ org'[o].into = NoOrg /\ org'[o].stamp = org[o].stamp
        /\ org'[o].number = number
    BY <2>1, <2>2, <2>3 DEF Row
  <2> QED BY <2>4 DEF number
<1>5. ASSUME NEW o \in Orgs, o \notin members, Of(members, o) # {}
      PROVE  /\ org'[o].into = Stays(members, o)
             /\ org'[o].batch = org[o].batch /\ org'[o].at = org[o].at
             /\ (\E m \in Of(members, o) : GaveNumber(members, m)) =>
                  org'[o].number = None /\ org'[o].stamp = "none"
             /\ ~(\E m \in Of(members, o) : GaveNumber(members, m)) =>
                  org'[o].number = org[o].number /\ org'[o].stamp = org[o].stamp
  <2> DEFINE gave == \E m \in Of(members, o) : GaveNumber(members, m)
             gavePic == \E m \in Of(members, o) : GavePic(members, m)
             number == IF gave THEN [org[o] EXCEPT !.number = None, !.stamp = "none"] ELSE org[o]
             pic == IF gavePic THEN [number EXCEPT !.pic = None] ELSE number
  <2>1. org[o] \in Row
    BY <1>2
  <2>2. org'[o] = HeadBack(members, o)
    BY <1>1, <1>5
  <2>3. HeadBack(members, o) =
          IF Unflagged(members, o) THEN [pic EXCEPT !.flag = FALSE] ELSE pic
    BY DEF HeadBack
  <2>4. Stays(members, o) = org[o].into
    <3>1. org[o].into = NoOrg
      BY <1>3, <1>5 DEF Of, Merged
    <3>2. MovedOn(members, o) = {}
      BY <1>2, <3>1 DEF MovedOn, KInv, IInv, Logged, Moves
    <3> QED BY <1>5, <3>2 DEF Stays
  <2> HIDE DEF gave, gavePic
  <2>5. /\ number.into = org[o].into /\ number.batch = org[o].batch /\ number.at = org[o].at
        /\ gave => number.number = None /\ number.stamp = "none"
        /\ ~gave => number.number = org[o].number /\ number.stamp = org[o].stamp
        /\ number \in Row
    BY <2>1 DEF Row
  <2> HIDE DEF number
  <2>6. /\ pic.into = number.into /\ pic.batch = number.batch /\ pic.at = number.at
        /\ pic.number = number.number /\ pic.stamp = number.stamp
        /\ pic \in Row
    BY <2>5 DEF Row
  <2> HIDE DEF pic
  <2>7. /\ org'[o].into = pic.into /\ org'[o].batch = pic.batch /\ org'[o].at = pic.at
        /\ org'[o].number = pic.number /\ org'[o].stamp = pic.stamp
    BY <2>2, <2>3, <2>6 DEF Row
  <2>8. /\ org'[o].into = Stays(members, o)
        /\ org'[o].batch = org[o].batch /\ org'[o].at = org[o].at
        /\ gave => org'[o].number = None /\ org'[o].stamp = "none"
        /\ ~gave => org'[o].number = org[o].number /\ org'[o].stamp = org[o].stamp
    BY <2>4, <2>5, <2>6, <2>7
  <2> QED BY <2>8 DEF gave
<1>6. ASSUME NEW o \in Orgs, o \notin members, Of(members, o) = {}
      PROVE  /\ org'[o].into = Stays(members, o)
             /\ org'[o].batch = org[o].batch /\ org'[o].at = org[o].at
             /\ ~(\E m \in Of(members, o) : GaveNumber(members, m))
             /\ org'[o].number = org[o].number /\ org'[o].stamp = org[o].stamp
  <2>1. org'[o] = [org[o] EXCEPT !.into = Stays(members, o)]
    BY <1>1, <1>6
  <2> QED BY <1>2, <1>6, <2>1 DEF Row
<1> QED BY <1>4, <1>5, <1>6

LEMMA UndoLinks ==
  ASSUME KInv, NEW b \in 1..batch, NEW members \in SUBSET BatchRows(b), Undo(b, members)
  PROVE  /\ Listing'
         /\ \A o \in Orgs : Merged(o)' <=> Merged(o) /\ o \notin members
         /\ \A o \in Orgs : Merged(o)' => /\ Up(o)' = Up(o) /\ Up(o) \in Orgs
                                          /\ org'[o].at = org[o].at /\ org'[o].batch = org[o].batch
         /\ \A o, m \in Orgs : Rides(o, m)' <=> Rides(o, m) /\ m \notin members
<1>1. UNCHANGED <<carried, repointed, asOf>>
  BY DEF Undo
<1>2. NoOrg \notin Orgs /\ members \subseteq Orgs /\ org \in [Orgs -> Row]
  BY Constants DEF KInv, IInv, Shapes, BatchRows
<1>3. ASSUME NEW o \in Orgs PROVE Merged(o)' <=> Merged(o) /\ o \notin members
  <2>1. CASE o \in members
    BY <2>1, UndoFields DEF Merged
  <2>2. CASE o \notin members
    <3>1. org'[o].into = Stays(members, o)
      BY <2>2, UndoFields
    <3>2. \/ Stays(members, o) \in members /\ Merged(o)
          \/ Stays(members, o) = org[o].into
      BY <1>2, <2>2, StaysSomewhere DEF KInv
    <3> QED BY <1>2, <2>2, <3>1, <3>2 DEF Merged
  <2> QED BY <2>1, <2>2
<1>4. \A o \in Orgs : Merged(o)' => org'[o].at = org[o].at /\ org'[o].batch = org[o].batch
  BY <1>3, UndoFields
<1>5. Listing'
  <2>1. \A o \in Orgs : Merged(o)' => \E r \in carried' : r.row = o /\ r.at = org'[o].at
    BY <1>1, <1>3, <1>4 DEF KInv, Listing
  <2> QED BY <1>1, <2>1 DEF KInv, Listing
<1>6. \A o \in Orgs : Merged(o)' => Up(o)' = Up(o) /\ Up(o) \in Orgs
  BY <1>1, <1>3, <1>4, <1>5, UpStays, UpIs DEF KInv
<1>7. \A o, m \in Orgs : Rides(o, m)' <=> Rides(o, m) /\ m \notin members
  BY <1>1, <1>3, <1>4, <1>6 DEF Rides
<1> QED BY <1>3, <1>4, <1>5, <1>6, <1>7

LEMMA UndoForest ==
  ASSUME KInv, ~astray, ~astray',
         NEW b \in 1..batch, NEW members \in SUBSET BatchRows(b), Undo(b, members)
  PROVE  Forest' /\ Lines'
<1>1. Forest /\ Lines /\ Listing /\ IInv
  BY DEF KInv, Straight
<1>2. /\ \A o \in Orgs : Merged(o)' <=> Merged(o) /\ o \notin members
      /\ \A o \in Orgs : Merged(o)' => /\ Up(o)' = Up(o) /\ Up(o) \in Orgs
                                       /\ org'[o].at = org[o].at
      /\ \A o, m \in Orgs : Rides(o, m)' <=> Rides(o, m) /\ m \notin members
  BY UndoLinks
<1>3. \A m \in members :
        /\ m \in Orgs /\ Merged(m) /\ Up(m) = org[m].into
        /\ org[m].into \in Orgs /\ ~Merged(org[m].into)
  BY UndoMembers
<1> DEFINE Old(p) == Latest(MovedOn(members, p)).old
<1>4. ASSUME NEW o \in Orgs, MovedOn(members, o) # {}
      PROVE  /\ Old(o) \in members /\ Old(o) \in Orgs
             /\ Rides(o, Old(o))
             /\ org[o].into = org[Old(o)].into
             /\ Merged(o) /\ Merged(Old(o))
             /\ \A q \in MovedOn(members, o) : q.at <= org[Old(o)].at
  <2>1. /\ Old(o) \in members /\ Old(o) \in Orgs
        /\ Rides(o, Old(o))
        /\ org[o].into = org[Old(o)].into
        /\ Merged(o)
        /\ Latest(MovedOn(members, o)).at = org[Old(o)].at
    BY <1>4, LatestRides
  <2>2. \A q \in MovedOn(members, o) : q.at <= Latest(MovedOn(members, o)).at
    BY <1>1, <1>4, LatestIs
  <2> QED BY <1>3, <2>1, <2>2
<1>5. \A o \in Orgs, m \in members :
        Rides(o, m) /\ org[o].into = org[m].into =>
          [row |-> o, old |-> m, new |-> Up(m), at |-> org[m].at] \in MovedOn(members, o)
  BY <1>3 DEF Rides, MovedOn
<1>6. \A m \in members, x \in Orgs : ~Rides(m, x)
  <2>1. TAKE m \in members, x \in Orgs
  <2>2. ASSUME Rides(m, x) PROVE FALSE
    <3>1. x = Up(m) \/ Rides(Up(m), x)
      BY <1>1, <1>3, <2>2 DEF Forest
    <3>2. Merged(x)
      BY <2>2 DEF Rides
    <3>3. Merged(Up(m))
      BY <1>1, <1>3, <3>1, <3>2 DEF Forest
    <3> QED BY <1>3, <3>3
  <2> QED BY <2>2
<1>7. \A o \in Orgs \ members :
        org'[o].into = IF MovedOn(members, o) = {} THEN org[o].into ELSE Old(o)
  BY UndoFields DEF Stays
<1>8. \A o \in Orgs : org[o].at \in Nat
  BY <1>1 DEF IInv, Shapes, Row
<1> HIDE DEF Old
<1>9. ASSUME NEW o \in Orgs, Merged(o)' PROVE org'[o].into = Root(Up(o))'
  <2>1. PICK u \in Orgs : u = Up(o) /\ u = Up(o)'
    BY <1>2, <1>9
  <2>2. Merged(o) /\ o \notin members
    BY <1>2, <1>9
  <2>3. Root(Up(o))' = IF Merged(u)' THEN org'[u].into ELSE u
    BY <2>1 DEF Root, Merged
  <2>4. org[o].into = Root(u)
    BY <1>1, <2>1, <2>2 DEF Forest
  <2>5. \A m \in Orgs : Rides(o, m) => m = u \/ Rides(u, m)
    <3>1. \A m \in Orgs : Rides(o, m) => m = Up(o) \/ Rides(Up(o), m)
      BY <1>1 DEF Forest
    <3>2. Up(o) = u
      BY <2>1
    <3> QED BY <3>1, <3>2
  <2>6. \A m \in Orgs : Rides(u, m) => Rides(o, m)
    BY <1>1, <2>1, <2>2 DEF Forest
  <2>7. CASE ~Merged(u)
    <3>1. \A m \in Orgs : ~Rides(o, m)
      BY <1>1, <2>1, <2>5, <2>7 DEF Forest, Rides
    <3>2. MovedOn(members, o) = {}
      BY <1>4, <3>1
    <3> QED BY <1>2, <1>7, <2>2, <2>3, <2>4, <2>7, <3>2 DEF Root
  <2>8. CASE u \in members
    <3>1. Rides(o, u) /\ org[o].into = org[u].into
      <4>1. Merged(u) /\ u = Up(o)
        BY <1>3, <2>1, <2>8
      <4>2. Rides(o, Up(o))
        BY <1>1, <2>2, <4>1 DEF Forest
      <4> QED BY <2>4, <4>1, <4>2 DEF Root
    <3>2. MovedOn(members, o) # {}
      BY <1>5, <2>8, <3>1
    <3>3. Old(o) = u
      BY <1>4, <1>6, <2>5, <2>8, <3>2
    <3> QED BY <1>2, <1>7, <2>2, <2>3, <2>8, <3>2, <3>3
  <2>9. CASE Merged(u) /\ u \notin members
    <3>1. org[o].into = org[u].into
      BY <2>4, <2>9 DEF Root
    <3>2. \A m \in members : Rides(o, m) <=> Rides(u, m)
      BY <1>3, <2>5, <2>6, <2>9
    <3>3. Root(Up(o))' = org'[u].into
      BY <1>2, <2>3, <2>9
    <3>4. CASE MovedOn(members, o) = {} /\ MovedOn(members, u) = {}
      BY <1>7, <2>2, <2>9, <3>1, <3>3, <3>4
    <3>5. CASE MovedOn(members, o) # {} /\ MovedOn(members, u) # {}
      <4>1. Rides(u, Old(o)) /\ Rides(o, Old(u))
        BY <1>4, <3>2, <3>5
      <4>2. org[Old(o)].at <= org[Old(u)].at
        <5>1. [row |-> u, old |-> Old(o), new |-> Up(Old(o)), at |-> org[Old(o)].at]
                \in MovedOn(members, u)
          BY <1>4, <1>5, <3>1, <3>5, <4>1
        <5> QED BY <1>4, <3>5, <5>1
      <4>3. org[Old(u)].at <= org[Old(o)].at
        <5>1. [row |-> o, old |-> Old(u), new |-> Up(Old(u)), at |-> org[Old(u)].at]
                \in MovedOn(members, o)
          BY <1>4, <1>5, <3>1, <3>5, <4>1
        <5> QED BY <1>4, <3>5, <5>1
      <4>4. Old(o) = Old(u)
        <5>1. /\ Old(o) \in Orgs /\ Old(u) \in Orgs
              /\ Merged(Old(o)) /\ Merged(Old(u))
          BY <1>4, <3>5
        <5>2. org[Old(o)].at = org[Old(u)].at
          BY <1>8, <4>2, <4>3, <5>1
        <5> QED BY <1>1, <5>1, <5>2, OneMerge
      <4> QED BY <1>7, <2>2, <2>9, <3>3, <3>5, <4>4
    <3>6. MovedOn(members, o) # {} => MovedOn(members, u) # {}
      <4> SUFFICES ASSUME MovedOn(members, o) # {} PROVE MovedOn(members, u) # {}
        OBVIOUS
      <4>1. Rides(u, Old(o)) /\ org[u].into = org[Old(o)].into /\ Old(o) \in members
        BY <1>4, <3>1, <3>2
      <4> QED BY <1>5, <4>1
    <3>7. MovedOn(members, u) # {} => MovedOn(members, o) # {}
      <4> SUFFICES ASSUME MovedOn(members, u) # {} PROVE MovedOn(members, o) # {}
        OBVIOUS
      <4>1. Rides(o, Old(u)) /\ org[o].into = org[Old(u)].into /\ Old(u) \in members
        BY <1>4, <3>1, <3>2
      <4> QED BY <1>5, <4>1
    <3> QED BY <3>4, <3>5, <3>6, <3>7
  <2> QED BY <2>7, <2>8, <2>9
<1>10. ASSUME NEW o \in Orgs, Merged(o)', Merged(Up(o))'
       PROVE  Rides(o, Up(o))' /\ org'[o].at < org'[Up(o)'].at
  <2>1. PICK u \in Orgs : u = Up(o) /\ u = Up(o)'
    BY <1>2, <1>10
  <2>2. Merged(u)' /\ Merged(u) /\ Merged(o)
    BY <1>2, <1>10, <2>1 DEF Merged
  <2>3. Rides(o, u) /\ org[o].at < org[u].at
    BY <1>1, <2>1, <2>2 DEF Forest
  <2>4. Rides(o, u)' => Rides(o, Up(o))'
    BY <2>1 DEF Rides, Merged, Up
  <2> QED BY <1>2, <1>10, <2>1, <2>2, <2>3, <2>4
<1>11. ASSUME NEW o \in Orgs, NEW m \in Orgs, Rides(o, m)'
       PROVE  Merged(o)' /\ (m = Up(o)' \/ Rides(Up(o), m)')
  <2>1. Rides(o, m) /\ m \notin members /\ Merged(o) /\ o \notin members
    BY <1>1, <1>2, <1>6, <1>11 DEF Forest
  <2>2. Merged(o)'
    BY <1>2, <2>1
  <2>3. PICK u \in Orgs : u = Up(o) /\ u = Up(o)'
    BY <1>2, <2>2
  <2>4. Rides(u, m)' => Rides(Up(o), m)'
    BY <2>3 DEF Rides
  <2> QED BY <1>1, <1>2, <2>1, <2>2, <2>3, <2>4 DEF Forest
<1>12. ASSUME NEW o \in Orgs, NEW m \in Orgs, Merged(o)', Rides(Up(o), m)'
       PROVE  Rides(o, m)'
  <2>1. PICK u \in Orgs : u = Up(o) /\ u = Up(o)'
    BY <1>2, <1>12
  <2>2. Rides(u, m)'
    BY <1>12, <2>1 DEF Rides
  <2> QED BY <1>1, <1>2, <1>12, <2>1, <2>2 DEF Forest
<1>13. Forest'
  BY <1>9, <1>10, <1>11, <1>12 DEF Forest
<1>14. Lines'
  <2>1. repointed' = repointed
    BY DEF Undo
  <2>2. \A r \in repointed : r.row \in Orgs /\ r.old \in Orgs
    BY <1>1 DEF IInv, Logged, Moves
  <2> QED BY <1>1, <1>2, <2>1, <2>2 DEF Lines
<1> QED BY <1>13, <1>14

(* A number goes back to the one member that gave it.                         *)
LEMMA UndoGivers ==
  ASSUME KInv, ~astray, NEW b \in 1..batch, NEW members \in SUBSET BatchRows(b),
         Undo(b, members)
  PROVE  /\ \A m \in members : GaveNumber(members, m) <=> Giver(m)
         /\ \A m \in members : Giver(m) => org[Up(m)].number # None
         /\ \A o \in Orgs : o \notin members =>
              ((\E m \in Of(members, o) : GaveNumber(members, m)) <=>
                 \E m \in members : Giver(m) /\ Up(m) = o)
         /\ \A g \in Orgs : Giver(g)' <=> Giver(g) /\ g \notin members
         /\ Stamps'
<1>1. Stamps
  BY DEF KInv, Straight
<1>2. \A m \in members :
        /\ m \in Orgs /\ Merged(m) /\ Up(m) = org[m].into
        /\ org[m].into \in Orgs /\ ~Merged(org[m].into) /\ org[m].into \notin members
  BY UndoMembers
<1>3. \A m \in members : Giver(m) <=> org[m].number = None /\ org[m].stamp # "none"
  BY <1>2 DEF Giver
<1>4. \A m \in members : Giver(m) => org[Up(m)].number # None /\ org[Up(m)].stamp = "merge"
  BY <1>1, <1>2 DEF Stamps
<1>5. \A m \in members : Donors(members, org[m].into) =
                           {d \in members : Giver(d) /\ Up(d) = Up(m)}
  BY <1>2, <1>3 DEF Donors, Of
<1>6. \A m \in members : GaveNumber(members, m) <=> Giver(m)
  <2>1. TAKE m \in members
  <2>2. ASSUME Giver(m) PROVE GaveNumber(members, m)
    <3>1. Donors(members, org[m].into) = {m}
      BY <1>1, <1>2, <1>5, <2>2 DEF Stamps
    <3> QED BY <1>2, <1>4, <2>2, <3>1 DEF GaveNumber
  <2>3. ASSUME GaveNumber(members, m) PROVE Giver(m)
    <3>1. m \in Donors(members, org[m].into)
      BY <2>3 DEF GaveNumber
    <3> QED BY <1>5, <3>1
  <2> QED BY <2>2, <2>3
<1>7. \A o \in Orgs : (\E m \in Of(members, o) : GaveNumber(members, m)) <=>
                        \E m \in members : Giver(m) /\ Up(m) = o
  BY <1>2, <1>6 DEF Of
<1>8. \A o \in Orgs : Merged(o)' <=> Merged(o) /\ o \notin members
  BY UndoLinks
<1>9. \A o \in Orgs : Merged(o)' => Up(o)' = Up(o) /\ Up(o) \in Orgs
  BY UndoLinks
<1>10. ASSUME NEW o \in Orgs
       PROVE  /\ o \in members =>
                   /\ org'[o].stamp = org[o].stamp
                   /\ Giver(o) => org'[o].number = org[Up(o)].number
                   /\ ~Giver(o) => org'[o].number = org[o].number
              /\ o \notin members =>
                   /\ (\E m \in members : Giver(m) /\ Up(m) = o) =>
                        org'[o].number = None /\ org'[o].stamp = "none"
                   /\ ~(\E m \in members : Giver(m) /\ Up(m) = o) =>
                        org'[o].number = org[o].number /\ org'[o].stamp = org[o].stamp
  <2>1. o \in members => GaveNumber(members, o) = Giver(o) /\ Up(o) = org[o].into
    <3>1. GaveNumber(members, o) \in BOOLEAN /\ Giver(o) \in BOOLEAN
      BY DEF GaveNumber, Giver
    <3> QED BY <1>2, <1>6, <3>1
  <2> QED BY <1>7, <2>1, UndoFields
<1>11. ASSUME NEW g \in Orgs PROVE Giver(g)' <=> Giver(g) /\ g \notin members
  <2>1. CASE Merged(g) /\ g \notin members
    <3>1. ~\E m \in members : Giver(m) /\ Up(m) = g
      BY <1>2, <2>1
    <3>2. org'[g].number = org[g].number /\ org'[g].stamp = org[g].stamp /\ Merged(g)'
      BY <1>8, <1>10, <2>1, <3>1
    <3> QED BY <2>1, <3>2 DEF Giver
  <2>2. CASE ~(Merged(g) /\ g \notin members)
    BY <1>8, <2>2 DEF Giver
  <2> QED BY <2>1, <2>2
<1>12. Stamps'
  <2>1. \A o \in Orgs : (~Merged(o) /\ org[o].number = None => org[o].stamp = "none")'
    <3>1. TAKE o \in Orgs
    <3>2. CASE o \in members
      BY <1>3, <1>4, <1>10, <3>2
    <3>3. CASE o \notin members
      BY <1>1, <1>8, <1>10, <3>3 DEF Stamps
    <3> QED BY <3>2, <3>3
  <2>2. \A o \in Orgs : (org[o].number # None => org[o].stamp # "none")'
    <3>1. TAKE o \in Orgs
    <3>2. CASE o \in members
      BY <1>1, <1>3, <1>10, <3>2 DEF Stamps
    <3>3. CASE o \notin members
      BY <1>1, <1>10, <3>3 DEF Stamps
    <3> QED BY <3>2, <3>3
  <2>3. ASSUME NEW g \in Orgs, Giver(g)' PROVE org'[Up(g)'].stamp = "merge"
    <3>1. Giver(g) /\ g \notin members /\ Up(g)' = Up(g) /\ Up(g) \in Orgs
      BY <1>9, <1>11, <2>3 DEF Giver
    <3>2. org[Up(g)].stamp = "merge"
      BY <1>1, <3>1 DEF Stamps
    <3>3. ~\E m \in members : Giver(m) /\ Up(m) = Up(g)
      BY <1>1, <1>2, <3>1 DEF Stamps
    <3>4. org'[Up(g)].stamp = org[Up(g)].stamp
      BY <1>10, <3>1, <3>3
    <3> QED BY <3>1, <3>2, <3>4
  <2>4. ASSUME NEW g \in Orgs, NEW h \in Orgs, Giver(g)', Giver(h)', Up(g)' = Up(h)'
        PROVE  g = h
    BY <1>1, <1>9, <1>11, <2>4 DEF Stamps, Giver
  <2> QED BY <2>1, <2>2, <2>3, <2>4 DEF Stamps
<1> QED BY <1>4, <1>6, <1>7, <1>11, <1>12

LEMMA UndoChains ==
  ASSUME KInv, ~astray, NEW b \in 1..batch, NEW members \in SUBSET BatchRows(b),
         Undo(b, members)
  PROVE  Chains'
<1>1. Stamps /\ Chains /\ Filing
  BY DEF KInv, Straight
<1>2. \A m \in members : m \in Orgs /\ Up(m) \in Orgs /\ ~Merged(Up(m)) /\ Up(m) \notin members
  BY UndoMembers
<1>3. \A g \in Orgs : Giver(g)' <=> Giver(g) /\ g \notin members
  BY UndoGivers
<1>4. \A g \in Orgs : Giver(g)' => Up(g)' = Up(g)
  BY UndoLinks DEF Giver
<1>5. ASSUME NEW o \in Orgs
      PROVE  /\ o \in members => org'[o].stamp = org[o].stamp
             /\ o \in members /\ Giver(o) => org'[o].number = org[Up(o)].number
             /\ o \in members /\ ~Giver(o) => org'[o].number = org[o].number
             /\ o \notin members /\ ~(\E m \in members : Giver(m) /\ Up(m) = o) =>
                  org'[o].number = org[o].number /\ org'[o].stamp = org[o].stamp
  <2>1. o \in members => (GaveNumber(members, o) <=> Giver(o)) /\ Up(o) = org[o].into
    BY UndoGivers, UndoMembers
  <2>2. o \notin members =>
          ((\E m \in Of(members, o) : GaveNumber(members, m)) <=>
             \E m \in members : Giver(m) /\ Up(m) = o)
    BY UndoGivers
  <2> QED BY <2>1, <2>2, UndoFields
<1>6. first' = first
  BY DEF Undo
<1>7. SUFFICES ASSUME NEW n \in Numbers, first[n] # NoOrg
               PROVE  /\ org'[first[n]].stamp = "resolved"
                      /\ \E o \in Holders(n)', P \in SUBSET Orgs : Chain(P, first[n], o)'
  BY <1>6 DEF Chains
<1>8. PICK f \in Orgs : f = first[n]
  BY <1>1, <1>7 DEF Filing
<1>9. org[f].stamp = "resolved"
  BY <1>1, <1>7, <1>8 DEF Chains
<1>10. \A m \in members : Giver(m) => org[Up(m)].stamp = "merge"
  BY <1>1, <1>2 DEF Stamps
<1>11. org'[f].stamp = "resolved"
  BY <1>5, <1>9, <1>10
<1>12. PICK o \in Holders(n), P \in SUBSET Orgs : Chain(P, f, o)
  BY <1>1, <1>7, <1>8 DEF Chains
<1>13. o \in Orgs /\ n # None /\ org[o].number = n
  BY DEF Holders
<1>14. /\ f \in P /\ o \in P
       /\ \A x \in P \ {o} : Giver(x) /\ Up(x) \in P
       /\ \A x \in P \ {f} : \E y \in P : Giver(y) /\ Up(y) = x
  BY <1>12 DEF Chain
<1>15. \A x \in P \ {o} : Merged(x)
  BY <1>14 DEF Giver
<1>16. ~Giver(o)
  BY <1>13 DEF Giver
<1>17. CASE \E m \in members : Giver(m) /\ Up(m) = o
  <2>1. PICK m \in members : Giver(m) /\ Up(m) = o
    BY <1>17
  <2>2. o # f
    BY <1>9, <1>10, <2>1
  <2>3. PICK y \in P : Giver(y) /\ Up(y) = o
    BY <1>14, <2>2
  <2>4. m \in P /\ m # o /\ m \in Orgs
    BY <1>1, <1>2, <1>16, <2>1, <2>3 DEF Stamps
  <2>5. PICK Q \in SUBSET Orgs : Q = P \ {o}
    OBVIOUS
  <2>6. m \in Holders(n)'
    BY <1>5, <1>13, <2>1, <2>4 DEF Holders
  <2>7. \A x \in Q : x # m => x \notin members /\ Up(x) \in Q
    <3>1. TAKE x \in Q
    <3>2. HAVE x # m
    <3>3. Giver(x) /\ Up(x) \in P
      BY <1>14, <2>5
    <3>4. Up(x) # o
      BY <1>1, <2>1, <2>4, <3>2, <3>3 DEF Stamps
    <3>5. Merged(Up(x))
      BY <1>15, <3>3, <3>4
    <3> QED BY <1>2, <2>5, <3>3, <3>4, <3>5
  <2>8. \A x \in Q \ {m} : Giver(x)' /\ Up(x)' \in Q
    BY <1>3, <1>4, <1>14, <2>5, <2>7
  <2>9. \A x \in Q \ {f} : \E z \in Q : Giver(z)' /\ Up(z)' = x
    <3>1. TAKE x \in Q \ {f}
    <3>2. PICK z \in P : Giver(z) /\ Up(z) = x
      BY <1>14, <2>5
    <3>3. z \in Q /\ z # m
      BY <1>16, <2>1, <2>5, <3>2
    <3> QED BY <1>3, <1>4, <2>7, <3>2, <3>3
  <2>10. f \in Q /\ m \in Q
    BY <1>14, <2>2, <2>4, <2>5
  <2>11. Chain(Q, f, m)'
    BY <2>8, <2>9, <2>10 DEF Chain
  <2>12. Chain(Q, first[n], m)'
    BY <1>6, <1>8, <2>11 DEF Chain
  <2> QED BY <1>8, <1>11, <2>6, <2>12
<1>18. CASE ~\E m \in members : Giver(m) /\ Up(m) = o
  <2>1. o \in Holders(n)'
    BY <1>5, <1>13, <1>16, <1>18 DEF Holders
  <2>2. \A x \in P \ {o} : x \notin members
    <3>1. TAKE x \in P \ {o}
    <3>2. ASSUME x \in members PROVE FALSE
      <4>1. Giver(x) /\ Up(x) \in P /\ ~Merged(Up(x))
        BY <1>2, <1>14, <3>2
      <4> QED BY <1>15, <1>18, <3>2, <4>1
    <3> QED BY <3>2
  <2>3. \A x \in P \ {o} : Giver(x)' /\ Up(x)' \in P
    BY <1>3, <1>4, <1>14, <2>2
  <2>4. \A x \in P \ {f} : \E z \in P : Giver(z)' /\ Up(z)' = x
    <3>1. TAKE x \in P \ {f}
    <3>2. PICK z \in P : Giver(z) /\ Up(z) = x
      BY <1>14
    <3> QED BY <1>3, <1>4, <1>16, <2>2, <3>2
  <2>5. Chain(P, f, o)'
    BY <1>14, <2>3, <2>4 DEF Chain
  <2>6. Chain(P, first[n], o)'
    BY <1>6, <1>8, <2>5 DEF Chain
  <2> QED BY <1>8, <1>11, <2>1, <2>6
<1> QED BY <1>17, <1>18

(* Where a row stands after an undo: a member stands alone, a row the undo    *)
(* puts back stands for its member, and any other for the row it did.         *)
LEMMA UndoRoots ==
  ASSUME KInv, ~astray, ~astray',
         NEW b \in 1..batch, NEW members \in SUBSET BatchRows(b), Undo(b, members),
         NEW f \in Orgs
  PROVE  LET t == End([p \in Orgs |-> Stays(members, p)], f, 16)
         IN  /\ t = Root(f)'
             /\ \/ t \in members /\ org[t].into = org[f].into /\ Merged(f)
                \/ t \notin members /\ t = Root(f)
<1> DEFINE pointer == [p \in Orgs |-> Stays(members, p)]
<1>1. Forest /\ IInv
  BY DEF KInv, Straight
<1>2. \A m \in members :
        /\ m \in Orgs /\ Merged(m) /\ Up(m) = org[m].into
        /\ org[m].into \in Orgs /\ ~Merged(org[m].into) /\ org[m].into \notin members
  BY UndoMembers
<1>3. \A o \in Orgs : MovedOn(members, o) # {} =>
        \E m \in members : /\ Stays(members, o) = m /\ Merged(o)
                           /\ org[o].into = org[m].into /\ Rides(o, m)
  <2>1. TAKE o \in Orgs
  <2>2. HAVE MovedOn(members, o) # {}
  <2> QED BY <2>2, LatestRides DEF Stays
<1>4. \A m \in members : Stays(members, m) = NoOrg
  <2>1. TAKE m \in members
  <2>2. ASSUME NEW q \in members, Rides(m, q) PROVE FALSE
    <3>1. q = Up(m) \/ Rides(Up(m), q)
      BY <1>1, <1>2, <2>2 DEF Forest
    <3>2. Rides(Up(m), q) => Merged(Up(m))
      BY <1>1, <1>2 DEF Forest
    <3> QED BY <1>2, <3>1, <3>2
  <2>3. MovedOn(members, m) = {}
    BY <1>2, <1>3, <2>2
  <2> QED BY <2>3 DEF Stays
<1>5. \A o \in Orgs : ~Merged(o) => Stays(members, o) = NoOrg
  <2>1. TAKE o \in Orgs
  <2>2. HAVE ~Merged(o)
  <2>3. MovedOn(members, o) = {} /\ o \notin members
    BY <1>2, <1>3, <2>2
  <2> QED BY <2>2, <2>3 DEF Stays, Merged
<1>6. NoOrg \notin Orgs
  BY Constants
<1>7. Root(f)' = IF f \in members \/ Stays(members, f) = NoOrg THEN f ELSE Stays(members, f)
  <2>1. f \in members => org'[f].into = NoOrg
    BY UndoFields
  <2>2. f \notin members => org'[f].into = Stays(members, f)
    BY UndoFields
  <2> QED BY <2>1, <2>2 DEF Root, Merged
<1>8. PICK e \in Orgs : /\ e = IF pointer[f] = NoOrg THEN f ELSE pointer[f]
                        /\ pointer[e] = NoOrg
                        /\ \/ e \in members /\ org[e].into = org[f].into /\ Merged(f)
                           \/ e \notin members /\ e = Root(f)
  <2>1. pointer[f] = Stays(members, f)
    OBVIOUS
  <2>2. CASE f \in members
    BY <1>2, <1>4, <2>1, <2>2
  <2>3. CASE f \notin members /\ ~Merged(f)
    BY <1>5, <2>1, <2>3 DEF Root
  <2>4. CASE f \notin members /\ Merged(f) /\ MovedOn(members, f) = {}
    <3>1. Stays(members, f) = org[f].into /\ Root(f) = org[f].into
      BY <2>4 DEF Stays, Root
    <3>2. org[f].into \in Orgs /\ ~Merged(org[f].into)
      BY <1>1, <3>1, RootIs
    <3>3. Stays(members, org[f].into) = NoOrg /\ org[f].into \notin members
      BY <1>2, <1>5, <3>2
    <3>4. pointer[org[f].into] = NoOrg
      BY <3>2, <3>3
    <3> QED BY <1>6, <2>1, <3>1, <3>2, <3>3, <3>4
  <2>5. CASE MovedOn(members, f) # {}
    <3>1. PICK m \in members : /\ Stays(members, f) = m /\ Merged(f)
                               /\ org[f].into = org[m].into
      BY <1>3, <2>5
    <3>2. m \in Orgs /\ pointer[m] = NoOrg
      BY <1>2, <1>4
    <3> QED BY <1>6, <2>1, <3>1, <3>2
  <2> QED BY <2>2, <2>3, <2>4, <2>5
<1>9. End(pointer, f, 16) = e
  <2> HIDE DEF pointer
  <2> QED BY <1>8, EndValue
<1>10. e = Root(f)'
  <2>1. pointer[f] = Stays(members, f)
    OBVIOUS
  <2>2. f \in members => Stays(members, f) = NoOrg
    BY <1>4
  <2> HIDE DEF pointer
  <2> QED BY <1>7, <1>8, <2>1, <2>2
<1> QED BY <1>8, <1>9, <1>10

LEMMA UndoAliases ==
  ASSUME KInv, NEW b \in 1..batch, NEW members \in SUBSET BatchRows(b), Undo(b, members)
  PROVE  Filing' /\ (~astray' => Aliased')
<1>1. /\ alias' = [k \in DOMAIN alias |-> AliasBack(members, alias[k])]
      /\ UNCHANGED <<last, first, filed>>
      /\ ~astray' => ~astray
      /\ org' = [o \in Orgs |->
               IF o \in members THEN MemberBack(members, o)
               ELSE IF Of(members, o) # {} THEN HeadBack(members, o)
               ELSE [org[o] EXCEPT !.into = Stays(members, o)]]
  BY DEF Undo
<1>2. NoOrg \notin Orgs
  BY Constants
<1>3. Filing
  BY DEF KInv
<1>4. \A m \in members :
        /\ m \in Orgs /\ Merged(m) /\ Exists(m)
        /\ org[m].into \in Orgs /\ ~Merged(org[m].into) /\ Exists(org[m].into)
        /\ org[m].into \notin members
  BY UndoMembers
<1>5. ASSUME NEW k \in Names \X Sources
      PROVE  LET t == BackTo(members, alias[k].prev, alias[k].org)
             IN  /\ t \in members \/ t = NoOrg
                 /\ t = NoOrg => alias'[k] = alias[k]
                 /\ t # NoOrg => /\ alias'[k].org = t
                                 /\ alias'[k].prev = IF alias[k].prev = t THEN NoOrg
                                                     ELSE alias[k].prev
                 /\ alias'[k] \in [org : Orgs \cup {NoOrg}, prev : Orgs \cup {NoOrg}, rank : 0..2]
  <2> DEFINE t == BackTo(members, alias[k].prev, alias[k].org)
             prev == IF alias[k].prev = t THEN NoOrg ELSE alias[k].prev
  <2>1. alias[k] \in [org : Orgs \cup {NoOrg}, prev : Orgs \cup {NoOrg}, rank : 0..2]
    BY <1>3 DEF Filing
  <2>2. alias'[k] = AliasBack(members, alias[k])
    BY <1>1, <1>3 DEF Filing
  <2>3. t \in members \/ t = NoOrg
    BY DEF BackTo
  <2>4. AliasBack(members, alias[k]) =
          IF t = NoOrg THEN alias[k] ELSE [alias[k] EXCEPT !.org = t, !.prev = prev]
    BY <2>1 DEF AliasBack
  <2>5. prev \in Orgs \cup {NoOrg} /\ t \in Orgs \cup {NoOrg}
    BY <1>4, <2>1, <2>3
  <2> HIDE DEF t, prev
  <2>6. /\ t = NoOrg => alias'[k] = alias[k]
        /\ t # NoOrg => alias'[k].org = t /\ alias'[k].prev = prev
        /\ alias'[k] \in [org : Orgs \cup {NoOrg}, prev : Orgs \cup {NoOrg}, rank : 0..2]
    BY <2>1, <2>2, <2>4, <2>5
  <2> QED BY <2>3, <2>6 DEF t, prev
<1>6. Filing'
  <2>1. alias' \in [Names \X Sources ->
                      [org : Orgs \cup {NoOrg}, prev : Orgs \cup {NoOrg}, rank : 0..2]]
    <3>1. DOMAIN alias' = Names \X Sources /\ alias' = [k \in DOMAIN alias' |-> alias'[k]]
      BY <1>1, <1>3 DEF Filing
    <3>2. \A k \in Names \X Sources :
            alias'[k] \in [org : Orgs \cup {NoOrg}, prev : Orgs \cup {NoOrg}, rank : 0..2]
      BY <1>5
    <3> QED BY <3>1, <3>2
  <2>2. \A k \in Names \X Sources :
          alias'[k].org # NoOrg => Exists(alias[k].org)' /\ filed'[k] \in Orgs
    <3>1. TAKE k \in Names \X Sources
    <3>2. HAVE alias'[k].org # NoOrg
    <3> DEFINE t == BackTo(members, alias[k].prev, alias[k].org)
    <3>3. t = NoOrg => alias'[k] = alias[k]
      BY <1>5
    <3>4. t # NoOrg => alias'[k].org = t /\ t \in members
      BY <1>5
    <3>5. t # NoOrg => alias[k].org # NoOrg
      <4>1. t # NoOrg => t \in members /\ org[t].into = alias[k].org
        BY DEF BackTo
      <4> QED BY <1>2, <1>4, <4>1
    <3> HIDE DEF t
    <3>6. alias[k].org # NoOrg
      BY <3>2, <3>3, <3>5
    <3>7. Exists(alias[k].org) /\ filed[k] \in Orgs
      BY <1>3, <3>6 DEF Filing
    <3>8. \A o : Exists(o)' <=> Exists(o)
      BY <1>1 DEF Exists
    <3>9. Exists(alias'[k].org)
      BY <1>4, <3>3, <3>4, <3>7
    <3> QED BY <1>1, <3>7, <3>9 DEF Exists
  <2>3. \A o \in Orgs : ~Exists(o)' => org'[o] = Absent
    <3>1. TAKE o \in Orgs
    <3>2. HAVE ~Exists(o)'
    <3>3. ~Exists(o) /\ o \notin members
      BY <1>1, <1>4, <3>2 DEF Exists
    <3>4. org[o] = Absent
      BY <1>3, <3>3 DEF Filing
    <3>5. Of(members, o) = {}
      BY <1>4, <3>3 DEF Of
    <3>6. org[o].into = NoOrg
      BY <3>4 DEF Absent
    <3>7. Stays(members, o) = NoOrg
      BY <3>3, <3>6, <1>2, <1>4, StaysSomewhere DEF KInv, Merged
    <3>8. org'[o] = [Absent EXCEPT !.into = NoOrg]
      BY <1>1, <3>3, <3>4, <3>5, <3>7
    <3> QED BY <3>8 DEF Absent
  <2> QED BY <1>1, <1>3, <2>1, <2>2, <2>3 DEF Filing
<1>7. ASSUME ~astray' PROVE Aliased'
  <2> SUFFICES ASSUME NEW k \in Names \X Sources, alias'[k].org # NoOrg
               PROVE  \/ alias'[k].prev = NoOrg /\ alias'[k].org = filed'[k]
                      \/ alias'[k].prev = filed'[k] /\ alias'[k].org = Root(filed[k])'
    BY DEF Aliased
  <2> DEFINE t == BackTo(members, alias[k].prev, alias[k].org)
  <2>1. ~astray
    BY <1>1, <1>7
  <2>2. /\ t = NoOrg => alias'[k] = alias[k]
        /\ t # NoOrg => /\ alias'[k].org = t /\ t \in members
                        /\ alias'[k].prev = IF alias[k].prev = t THEN NoOrg ELSE alias[k].prev
    BY <1>5
  <2>3. t # NoOrg => alias[k].org # NoOrg /\ alias[k].prev # NoOrg
    <3>1. t # NoOrg => t \in members /\ org[t].into = alias[k].org
      BY DEF BackTo
    <3>2. t # NoOrg => alias[k].prev # NoOrg
      BY DEF BackTo
    <3> QED BY <1>2, <1>4, <3>1, <3>2
  <2> HIDE DEF t
  <2>4. alias[k].org # NoOrg
    BY <2>2, <2>3
  <2>5. PICK f \in Orgs : f = filed[k] /\ f = filed'[k]
    BY <1>1, <1>3, <2>4 DEF Filing
  <2>6. \/ alias[k].prev = NoOrg /\ alias[k].org = f
        \/ alias[k].prev = f /\ alias[k].org = Root(f)
    BY <2>1, <2>4, <2>5 DEF KInv, Straight, Aliased
  <2>7. Root(filed[k])' = Root(f)'
    BY <2>5 DEF Root, Merged
  <2>8. CASE alias[k].prev = NoOrg
    <3>1. t = NoOrg
      BY <2>3, <2>8
    <3> QED BY <1>2, <2>2, <2>5, <2>6, <2>8, <3>1
  <2>9. CASE alias[k].prev = f /\ alias[k].org = Root(f)
    <3> DEFINE e == End([p \in Orgs |-> Stays(members, p)], f, 16)
    <3>1. /\ e = Root(f)'
          /\ \/ e \in members /\ org[e].into = org[f].into /\ Merged(f)
             \/ e \notin members /\ e = Root(f)
      BY <1>7, <2>1, UndoRoots
    <3>2. t = IF e \in members /\ org[e].into = alias[k].org THEN e ELSE NoOrg
      BY <1>2, <2>9 DEF t, BackTo
    <3> HIDE DEF e
    <3>3. CASE e \in members
      <4>1. t = e
        BY <2>9, <3>1, <3>2, <3>3 DEF Root
      <4>2. alias'[k].org = Root(f)' /\ alias'[k].prev = IF f = e THEN NoOrg ELSE f
        BY <1>2, <1>4, <2>2, <2>9, <3>1, <3>3, <4>1
      <4> QED BY <2>5, <2>7, <3>1, <4>2
    <3>4. CASE e \notin members
      <4>1. alias'[k] = alias[k]
        BY <2>2, <3>2, <3>4
      <4> QED BY <2>5, <2>7, <2>9, <3>1, <3>4, <4>1
    <3> QED BY <3>3, <3>4
  <2> QED BY <2>6, <2>8, <2>9
<1> QED BY <1>6, <1>7

LEMMA UndoKInv ==
  ASSUME KInv, NEW b \in 1..batch, NEW members \in SUBSET BatchRows(b), Undo(b, members)
  PROVE  KInv'
<1>1. IInv'
  BY UndoIInv DEF KInv
<1>2. Listing' /\ Filing'
  BY UndoLinks, UndoAliases
<1>3. Intended'
  BY DEF Undo, KInv, Intended, DoesOK, Exists
<1>4. Paired'
  <2>1. candidate' = [p \in Pairs |->
                        IF \/ members = BatchRows(b) /\ candidate[p] = b
                           \/ \E m \in members : p = {m, org[m].into}
                        THEN 0 ELSE candidate[p]]
    BY DEF Undo
  <2>2. DOMAIN candidate' = Pairs
    BY <2>1
  <2>3. ASSUME NEW p \in Pairs, candidate'[p] # 0
        PROVE  \E m \in Orgs : Merged(m)' /\ org'[m].batch = candidate'[p] /\ p = {m, Up(m)'}
    <3>1. candidate'[p] = candidate[p] /\ ~\E m \in members : p = {m, org[m].into}
      BY <2>1, <2>3
    <3>2. PICK m \in Orgs : Merged(m) /\ org[m].batch = candidate[p] /\ p = {m, Up(m)}
      BY <2>3, <3>1 DEF KInv, Paired
    <3>3. m \notin members
      <4>1. m \in members => Up(m) = org[m].into
        BY UndoMembers
      <4> QED BY <3>1, <3>2, <4>1
    <3>4. Merged(m)' /\ Up(m)' = Up(m) /\ org'[m].batch = org[m].batch
      BY <3>2, <3>3, UndoLinks
    <3> QED BY <3>1, <3>2, <3>4
  <2> QED BY <2>2, <2>3 DEF Paired
<1>5. ASSUME ~astray' PROVE Straight'
  <2>1. ~astray
    BY <1>5 DEF Undo
  <2> QED BY <1>5, <2>1, UndoForest, UndoGivers, UndoChains, UndoAliases DEF Straight
<1> QED BY <1>1, <1>2, <1>3, <1>4, <1>5 DEF KInv

------------------------------------------------------------------------------
LEMMA InitKInv == Init => KInv
<1> SUFFICES ASSUME Init PROVE KInv
  OBVIOUS
<1>1. IInv
  BY InitIInv
<1>2. /\ last = Len(Listed) /\ Len(Listed) \in Nat
      /\ DOMAIN Listed = 1..Len(Listed)
      /\ Len(Listed) <= MaxOrg /\ MaxOrg \in Nat
      /\ \A o \in DOMAIN Listed : o \in Orgs /\ Listed[o] \in Entry
  <2>1. Listed \in Seq(Entry) /\ Len(Listed) <= MaxOrg /\ MaxOrg \in Nat
    BY OrganisationsAssumption DEF OrganisationsAssumption
  <2>2. /\ Len(Listed) \in Nat /\ DOMAIN Listed = 1..Len(Listed)
        /\ \A o \in 1..Len(Listed) : Listed[o] \in Entry
    BY <2>1
  <2>3. \A o \in 1..Len(Listed) : o \in Orgs
    BY <2>1, <2>2 DEF Orgs
  <2>4. last = Len(Listed)
    BY DEF Init
  <2> QED BY <2>1, <2>2, <2>3, <2>4
<1>3. NoOrg \notin Orgs /\ None \notin Numbers
  BY Constants
<1>4. \A o \in Orgs : ~Exists(o) => org[o] = Absent
  <2>1. TAKE o \in Orgs
  <2>2. HAVE ~Exists(o)
  <2>3. o > Len(Listed)
    BY <1>2, <2>2 DEF Exists, Orgs
  <2> QED BY <2>3 DEF Init
<1>5. \A o \in Orgs : Exists(o) =>
        /\ o \in DOMAIN Listed
        /\ org[o].into = NoOrg
        /\ org[o].number = Listed[o].number
        /\ org[o].stamp = IF Listed[o].number = None THEN "none" ELSE "resolved"
  <2>1. TAKE o \in Orgs
  <2>2. HAVE Exists(o)
  <2>3. o \in DOMAIN Listed /\ ~(o > Len(Listed))
    BY <1>2, <2>2 DEF Exists
  <2>4. org[o] = [NewRow(Listed[o].name, Listed[o].number) EXCEPT
                    !.pic = Listed[o].pic, !.flag = Listed[o].flag,
                    !.source = Listed[o].source]
    BY <2>3 DEF Init
  <2>5. /\ NewRow(Listed[o].name, Listed[o].number).into = NoOrg
        /\ NewRow(Listed[o].name, Listed[o].number).number = Listed[o].number
        /\ NewRow(Listed[o].name, Listed[o].number).stamp =
             IF Listed[o].number = None THEN "none" ELSE "resolved"
    BY DEF NewRow, Absent
  <2> QED BY <2>3, <2>4, <2>5 DEF NewRow, Absent
<1>6. \A o \in Orgs : ~Merged(o)
  BY <1>4, <1>5 DEF Merged, Absent
<1>7. \A o \in Orgs : /\ org[o].number = None => org[o].stamp = "none"
                      /\ org[o].number # None => org[o].stamp = "resolved"
  BY <1>4, <1>5 DEF Absent
<1>8. Intended
  BY DEF Init, Intended
<1>9. \A n \in Numbers : first[n] # NoOrg =>
        first[n] \in DOMAIN Listed /\ Listed[first[n]].number = n
  BY DEF Init
<1>10. Filing
  <2>1. alias \in [Names \X Sources ->
                     [org : Orgs \cup {NoOrg}, prev : Orgs \cup {NoOrg}, rank : 0..2]]
    <3>1. NoAlias \in [org : Orgs \cup {NoOrg}, prev : Orgs \cup {NoOrg}, rank : 0..2]
      BY DEF NoAlias
    <3>2. alias = [k \in Names \X Sources |-> NoAlias]
      BY DEF Init
    <3> QED BY <3>1, <3>2
  <2>2. filed \in [Names \X Sources -> Orgs \cup {NoOrg}]
    BY DEF Init
  <2>3. \A k \in Names \X Sources : alias[k].org = NoOrg
    BY DEF Init, NoAlias
  <2>4. first \in [Numbers -> Orgs \cup {NoOrg}]
    <3>1. first = [n \in Numbers |-> first[n]]
      BY DEF Init
    <3> QED BY <1>2, <1>9, <3>1
  <2> QED BY <1>4, <2>1, <2>2, <2>3, <2>4 DEF Filing
<1>11. Listing
  BY <1>6 DEF Init, Listing
<1>12. Paired
  BY DEF Init, Paired
<1>13. Forest /\ Lines
  <2>1. repointed = {}
    BY DEF Init
  <2> QED BY <1>6, <2>1 DEF Forest, Lines, Rides
<1>14. Stamps
  BY <1>6, <1>7 DEF Stamps, Giver
<1>15. Chains
  <2> SUFFICES ASSUME NEW n \in Numbers, first[n] # NoOrg
               PROVE  /\ org[first[n]].stamp = "resolved"
                      /\ \E o \in Holders(n), P \in SUBSET Orgs : Chain(P, first[n], o)
    BY DEF Chains
  <2>1. first[n] \in DOMAIN Listed /\ Listed[first[n]].number = n /\ first[n] \in Orgs
    BY <1>2, <1>9
  <2>2. Exists(first[n])
    BY <1>2, <2>1 DEF Exists
  <2>3. org[first[n]].number = n /\ n # None
    BY <1>3, <1>5, <2>1, <2>2
  <2>4. first[n] \in Holders(n) /\ org[first[n]].stamp = "resolved"
    BY <1>7, <2>1, <2>3 DEF Holders
  <2>5. {first[n]} \in SUBSET Orgs /\ Chain({first[n]}, first[n], first[n])
    BY <2>1 DEF Chain
  <2> QED BY <2>4, <2>5
<1>16. Aliased
  BY DEF Init, Aliased, NoAlias
<1> QED BY <1>1, <1>8, <1>10, <1>11, <1>12, <1>13, <1>14, <1>15, <1>16 DEF KInv, Straight

LEMMA NextKInv == KInv /\ [Next]_vars => KInv'
<1> SUFFICES ASSUME KInv, [Next]_vars PROVE KInv'
  OBVIOUS
<1>1. CASE \E s \in Sessions : Resolve(s) \/ Quarantine(s) \/ Serve(s)
  BY <1>1, ResolveKInv, QuarantineKInv, ServeKInv
<1>2. CASE BeginBatch \/ EndBatch
  BY <1>2, BatchKInv
<1>3. CASE \E keep, absorbed \in Orgs, allow \in Overrides : Merge(keep, absorbed, allow)
  BY <1>3, MergeKInv
<1>4. CASE \E b \in 1..batch : \E members \in SUBSET BatchRows(b) : Undo(b, members)
  BY <1>4, UndoKInv
<1>5. CASE UNCHANGED vars
  <2>1. UNCHANGED <<last, org, alias, candidate, repointed, carried, asOf, first, filed,
                    astray, task>>
    BY <1>5 DEF vars
  <2>2. IInv'
    BY <1>5, NextIInv DEF KInv
  <2>3. Intended'
    BY <2>1 DEF KInv, Intended, DoesOK, Exists
  <2> QED BY <2>1, <2>2, <2>3, SameTables
<1> QED BY <1>1, <1>2, <1>3, <1>4, <1>5 DEF Next

(* What a notice states of its buyer, a spelling or a number, leads to the    *)
(* body it was first filed or stored under (`resolve_organisation`), through  *)
(* any merges, chains of merges and undos of whole batches or of single rows, *)
(* with runs that decide before them and commit after, as long as no run and  *)
(* no undo has gone astray.                                                   *)
THEOREM IdentifiersStay == Spec => []IdentifiersKept
<1>1. Init => KInv
  BY InitKInv
<1>2. KInv /\ [Next]_vars => KInv'
  BY NextKInv
<1>3. KInv => IdentifiersKept
  BY KInvKeeps
<1> QED BY <1>1, <1>2, <1>3, PTL DEF Spec
==============================================================================
