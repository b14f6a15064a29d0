---------------------------- MODULE Organisations ----------------------------
(* Organisations of dgate/db.py and the undo of their merges in               *)
(* dgate/ops/undo_merges.py. A run resolves the buyer of a notice             *)
(* (`resolve_organisation`) by its number, then its name; a merge             *)
(* (`merge_organisations`) makes one row an alias of another and deletes      *)
(* nothing; the merges of a batch are undone from what they left behind.      *)
(*                                                                            *)
(* All rows are of one country. A run reads and decides (`Resolve`), and what *)
(* it writes counts from its commit (`Serve`): merges may come in between.    *)
(* A merge and an undo are one step each, their transaction; they are tools   *)
(* run by hand, one at a time. Candidate pairs are kept where an undo reads   *)
(* them: those a merge decided. `pic` stands for the EU PIC and the VAT       *)
(* number, which a merge of one country treats alike.                         *)
EXTENDS Naturals, Sequences, FiniteSets

CONSTANTS
  None,          \* no number, no PIC, no name
  Names,         \* normalised names
  Compatible,    \* pairs of names that may be one body (`names_compatible`)
  Seeded,        \* names of the seed file of defence buyers
  Sources,       \* sources of aliases
  Numbers,       \* registration numbers
  Pics,
  Listed,        \* the rows there are, as a sequence
  MaxOrg,        \* bound on rows
  Notices,
  Statements,    \* what notices say of their buyers
  Awards,        \* <<row, notice>>: the row won an award on the notice
  Overrides,     \* values callers give allow_identifier_conflict
  MaxBatch,      \* bound on batches of merges
  MaxMerge,      \* bound on merges
  Sessions       \* runs that resolve

Orgs == 1..MaxOrg
NoOrg == 0

Entry == [name : Names, number : Numbers \cup {None}, pic : Pics \cup {None},
          flag : BOOLEAN, source : BOOLEAN]

ASSUME OrganisationsAssumption ==
  /\ MaxOrg \in Nat
  /\ Listed \in Seq(Entry)
  /\ Len(Listed) <= MaxOrg
  /\ None \notin Names \cup Numbers \cup Pics
  /\ Statements \subseteq [notice : Notices, name : Names,
                           number : Numbers \cup {None}, source : Sources]
  /\ Awards \subseteq Orgs \X Notices
  /\ Overrides \subseteq BOOLEAN
  /\ MaxBatch \in Nat
  /\ MaxMerge \in Nat

VARIABLES
  last,          \* the newest row
  org,           \* organisation
  alias,         \* organisation_alias, by normalised name and source
  notice,        \* opportunity.buyer_org_id
  archived,      \* buyer_org_id in the payload of a notice's latest version
  counted,       \* awards without an excluded_reason
  candidate,     \* the batch that decided a pair `merged`, 0: none, or pending again
  repointed,     \* organisation_repair: pointers a merge moved on
  carried,       \* organisation_repair: what a merge moved to the head
  asOf,          \* `archived` at each merge, in their order
  batch,         \* batches so far
  open,          \* whether one is under way
  task,          \* what each session has decided and not committed
  first,         \* auxiliary: the row a number was first stored on
  filed,         \* auxiliary: the row an alias was filed under
  astray,        \* auxiliary: a run has stored a number on a row merged since it
                 \* was read, or an undo followed the log of an older merge
  before         \* auxiliary: the tables when a batch began

runs == <<batch, open>>
vars == <<last, org, alias, notice, archived, counted, candidate, repointed,
          carried, asOf, runs, task, first, filed, astray, before>>

Absent == [name |-> None, into |-> NoOrg, batch |-> 0, at |-> 0, number |-> None,
           stamp |-> "none", pic |-> None, flag |-> FALSE, source |-> FALSE]

NewRow(name, number) ==
  [Absent EXCEPT !.name = name, !.number = number,
                 !.stamp = IF number = None THEN "none" ELSE "resolved"]

NoAlias == [org |-> NoOrg, prev |-> NoOrg, rank |-> 0]
Idle == [notice |-> None]
Pairs == {p \in SUBSET Orgs : Cardinality(p) = 2}

Init ==
  /\ last = Len(Listed)
  /\ org = [o \in Orgs |->
              IF o > Len(Listed) THEN Absent
              ELSE [NewRow(Listed[o].name, Listed[o].number) EXCEPT
                      !.pic = Listed[o].pic, !.flag = Listed[o].flag,
                      !.source = Listed[o].source]]
  /\ alias = [k \in Names \X Sources |-> NoAlias]
  /\ notice = [n \in Notices |-> NoOrg]
  /\ archived = [n \in Notices |-> NoOrg]
  /\ counted = Awards
  /\ candidate = [p \in Pairs |-> 0]
  /\ repointed = {}
  /\ carried = {}
  /\ asOf = << >>
  /\ batch = 0
  /\ open = FALSE
  /\ task = [s \in Sessions |-> Idle]
  /\ first = [n \in Numbers |->
                IF \E o \in DOMAIN Listed : Listed[o].number = n
                THEN CHOOSE o \in DOMAIN Listed : Listed[o].number = n
                ELSE NoOrg]
  /\ filed = [k \in Names \X Sources |-> NoOrg]
  /\ astray = FALSE
  /\ before = [b \in 1..MaxBatch |-> [begun |-> FALSE]]

------------------------------------------------------------------------------
(* Resolution.                                                                *)

Exists(o) == o \in 1..last
Merged(o) == org[o].into # NoOrg

(* Follow pointers to their end, `hops` at most.                              *)
End(pointer, o, hops) ==
  LET hop[i \in 0..hops] ==
        IF i = 0 THEN o
        ELSE LET here == hop[i-1]
             IN  IF pointer[here] = NoOrg THEN here ELSE pointer[here]
  IN  hop[hops]

Pointers == [o \in Orgs |-> org[o].into]
Live(o) == End(Pointers, o, 8)

(* The row that carries a number: the index is unique.                        *)
Holders(number) == {o \in Orgs : number # None /\ org[o].number = number}

(* What a run decides: the buyer (NoOrg: a row to be created), the number to  *)
(* store on it, the row its alias names and the alias's rank (0: no alias).   *)
Decide(buyer, number, named, rank) ==
  [buyer |-> buyer, number |-> number, named |-> named, rank |-> rank]

(* `_attach_identifier`: a namesake with another number is another body.      *)
Attach(o, number, named, rank) ==
  IF number = None \/ org[o].number = number THEN Decide(o, None, named, rank)
  ELSE IF org[o].number = None THEN Decide(o, number, named, rank)
  ELSE Decide(NoOrg, number, named, rank)

AliasesOf(name) == {k \in {name} \X Sources : alias[k].org # NoOrg}

(* The aliases of the highest confidence: any of them may come first.         *)
Best(name) ==
  {k \in AliasesOf(name) : \A j \in AliasesOf(name) : alias[j].rank <= alias[k].rank}

Namesakes(name) == {o \in Orgs : Exists(o) /\ org[o].name = name /\ ~Merged(o)}

ByName(name, number) ==
  IF AliasesOf(name) # {}
  THEN {Attach(Live(alias[k].org), number, NoOrg, 0) : k \in Best(name)}
  ELSE IF Namesakes(name) # {}
  THEN LET o == CHOOSE o \in Namesakes(name) : \A p \in Namesakes(name) : o <= p
       IN  {Attach(o, number, o, 1)}
  ELSE {Decide(NoOrg, number, NoOrg, 1)}

ByNumber(o) == {Decide(Live(o), None, Live(o), 2)}

(* `_resolve_organisation`: the number first, unless the name shares nothing  *)
(* with that of its holder; then the name, without the number.                *)
Decisions(st) ==
  IF Holders(st.number) = {} THEN ByName(st.name, st.number)
  ELSE LET o == CHOOSE o \in Holders(st.number) : TRUE
       IN  IF <<st.name, org[o].name>> \in Compatible
           THEN ByNumber(o)
           ELSE ByName(st.name, None)

Resolve(s) ==
  /\ task[s] = Idle
  /\ \E st \in Statements : \E d \in Decisions(st) :
       task' = [task EXCEPT ![s] = [notice |-> st.notice, st |-> st, does |-> d]]
  /\ UNCHANGED <<last, org, alias, notice, archived, counted, candidate, repointed,
                 carried, asOf, runs, first, filed, astray, before>>

------------------------------------------------------------------------------
(* The commit of what a run decided.                                          *)

Buyer(does) == IF does.buyer = NoOrg THEN last + 1 ELSE does.buyer

(* Whether the run stores the number: a row that has one by now, the same or  *)
(* another, is left as it is.                                                 *)
Stores(o, does) == does.number # None /\ (does.buyer # NoOrg => org[o].number = None)

(* The row of the buyer as the run leaves it.                                 *)
Numbered(o, st, does) ==
  IF does.buyer = NoOrg THEN NewRow(st.name, does.number)
  ELSE IF Stores(o, does)
  THEN [org[o] EXCEPT !.number = does.number, !.stamp = "resolved"]
  ELSE org[o]

(* Another row has the number since: the unique index refuses it.             *)
Refused(o, does) == Stores(o, does) /\ Holders(does.number) # {}

(* `flagged_namesake`: a flagged live row of the row's own name, or of the    *)
(* spelling just resolved.                                                    *)
FlaggedNamesake(o, row, name) ==
  \E f \in 1..last :
    /\ f # o
    /\ org[f].flag
    /\ ~Merged(f)
    /\ \/ org[f].name \in {row.name, name}
       \/ \E k \in AliasesOf(name) : alias[k].org = f

(* `inherit_defence_flag`                                                     *)
Inherited(o, row, name) ==
  IF ~row.flag /\ FlaggedNamesake(o, row, name)
  THEN [row EXCEPT !.flag = TRUE, !.source = TRUE]
  ELSE row

(* `_record_alias`: a name a source has filed already stays where it is.      *)
Filed(st, does, o) ==
  IF does.rank = 0 \/ alias[<<st.name, st.source>>].org # NoOrg THEN alias
  ELSE [alias EXCEPT ![<<st.name, st.source>>] =
          [org |-> IF does.named = NoOrg THEN o ELSE does.named,
           prev |-> NoOrg, rank |-> does.rank]]

(* The record of a session is undone alone (`Quarantine.guard`).              *)
Quarantine(s) ==
  /\ task[s] # Idle
  /\ Refused(Buyer(task[s].does), task[s].does)
  /\ task' = [task EXCEPT ![s] = Idle]
  /\ UNCHANGED <<last, org, alias, notice, archived, counted, candidate, repointed,
                 carried, asOf, runs, first, filed, astray, before>>

(* The notice is archived under its buyer, in a version of its own.           *)
Serve(s) ==
  LET st == task[s].st
      does == task[s].does
      o == Buyer(does)
      row == Numbered(o, st, does)
  IN  /\ task[s] # Idle
      /\ o \in Orgs
      /\ ~Refused(o, does)
      /\ last' = IF does.buyer = NoOrg THEN o ELSE last
      /\ alias' = Filed(st, does, o)
      /\ org' = [org EXCEPT ![o] = Inherited(o, row, st.name)]
      /\ notice' = [notice EXCEPT ![st.notice] = o]
      /\ archived' = [archived EXCEPT ![st.notice] = o]
      /\ first' = IF Stores(o, does) THEN [first EXCEPT ![does.number] = o] ELSE first
      /\ filed' = [k \in DOMAIN alias |->
                     IF alias[k].org = NoOrg THEN Filed(st, does, o)[k].org ELSE filed[k]]
      /\ astray' = (astray \/ (Stores(o, does) /\ Merged(o)))
      /\ before' = [b \in DOMAIN before |->
                      IF before[b].begun
                      THEN [before[b] EXCEPT !.intact = @ \ {st.notice}]
                      ELSE before[b]]
      /\ task' = [task EXCEPT ![s] = Idle]
      /\ UNCHANGED <<counted, candidate, repointed, carried, asOf, runs>>

------------------------------------------------------------------------------
(* A merge.                                                                   *)

(* Mutated: rows merged into the absorbed one keep their pointer.             *)
FollowersNone(absorbed, keep) == {}

(* `repoint_merged`: the rows merged into the absorbed one earlier.           *)
Followers(absorbed, keep) == {o \in Orgs : org[o].into = absorbed /\ o # keep}

GivesNumber(keep, absorbed) == org[absorbed].number # None /\ org[keep].number = None
GivesPic(keep, absorbed) == org[absorbed].pic # None /\ org[keep].pic = None

Kept(keep, absorbed) ==
  LET k == org[keep]
      a == org[absorbed]
      number == IF GivesNumber(keep, absorbed)
                THEN [k EXCEPT !.number = a.number, !.stamp = "merge"] ELSE k
      pic == IF GivesPic(keep, absorbed) THEN [number EXCEPT !.pic = a.pic] ELSE number
  IN  [pic EXCEPT !.flag = k.flag \/ a.flag]

(* The absorbed row keeps how its number was found, also when that is given.  *)
Absorbed(keep, absorbed) ==
  [org[absorbed] EXCEPT
     !.into = keep, !.batch = batch, !.at = Len(asOf) + 1,
     !.number = IF GivesNumber(keep, absorbed) THEN None ELSE @,
     !.pic = IF GivesPic(keep, absorbed) THEN None ELSE @]

(* An alias remembers the row it was taken from first.                        *)
Origin(entry) == IF entry.prev = NoOrg THEN entry.org ELSE entry.prev

(* `same_winner_twice`: awards of the absorbed row on notices where the head, *)
(* or a row already merged into it, has won.                                  *)
Twice(keep, absorbed) ==
  {a \in counted : /\ a[1] = absorbed
                   /\ \E b \in counted : /\ b[2] = a[2]
                                         /\ b[1] # absorbed
                                         /\ (b[1] = keep \/ org[b[1]].into = keep)}

BatchRows(b) == {o \in Orgs : Merged(o) /\ org[o].batch = b}

(* The guards of `merge_organisations`.                                       *)
MayMerge(keep, absorbed, allow) ==
  /\ keep # absorbed
  /\ ~Merged(keep) /\ ~Merged(absorbed)
  /\ \/ allow
     \/ None \in {org[keep].number, org[absorbed].number}

Merge(keep, absorbed, allow) ==
  /\ open
  /\ Len(asOf) < MaxMerge
  /\ Exists(keep) /\ Exists(absorbed)
  /\ MayMerge(keep, absorbed, allow)
  /\ alias' = [k \in DOMAIN alias |->
                 IF alias[k].org = absorbed
                 THEN [alias[k] EXCEPT !.prev = Origin(alias[k]), !.org = keep]
                 ELSE alias[k]]
  /\ notice' = [n \in Notices |-> IF notice[n] = absorbed THEN keep ELSE notice[n]]
  /\ org' = [o \in Orgs |->
               IF o = keep THEN Kept(keep, absorbed)
               ELSE IF o = absorbed THEN Absorbed(keep, absorbed)
               ELSE IF o \in Followers(absorbed, keep) THEN [org[o] EXCEPT !.into = keep]
               ELSE org[o]]
  /\ counted' = counted \ Twice(keep, absorbed)
  /\ repointed' = repointed \cup
       {[row |-> o, old |-> absorbed, new |-> keep, at |-> Len(asOf) + 1] :
          o \in Followers(absorbed, keep)}
  /\ carried' = carried \cup
       {[row |-> absorbed, head |-> keep, at |-> Len(asOf) + 1,
         pic |-> IF GivesPic(keep, absorbed) THEN org[absorbed].pic ELSE None,
         twice |-> Twice(keep, absorbed)]}
  /\ candidate' = [candidate EXCEPT ![{keep, absorbed}] = batch]
  /\ asOf' = Append(asOf, archived)
  /\ before' = IF before[batch].begun THEN before
               ELSE [before EXCEPT ![batch] =
                       [begun |-> TRUE, last |-> last, org |-> org, alias |-> alias,
                        notice |-> notice, counted |-> counted, intact |-> Notices]]
  /\ UNCHANGED <<last, archived, runs, task, first, filed, astray>>

(* A tool begins a batch of merges, and ends it. One that merges nothing      *)
(* leaves no trace, and is left out.                                          *)
BeginBatch ==
  /\ ~open
  /\ batch < MaxBatch
  /\ Len(asOf) < MaxMerge
  /\ batch' = batch + 1
  /\ open' = TRUE
  /\ UNCHANGED <<last, org, alias, notice, archived, counted, candidate, repointed,
                 carried, asOf, task, first, filed, astray, before>>

EndBatch ==
  /\ open
  /\ before[batch].begun
  /\ open' = FALSE
  /\ UNCHANGED <<last, org, alias, notice, archived, counted, candidate, repointed,
                 carried, asOf, batch, task, first, filed, astray, before>>

------------------------------------------------------------------------------
(* The undo of a batch, or of some of its rows (`only`).                      *)

Latest(log) == CHOOSE r \in log : \A q \in log : q.at <= r.at

(* Pointers moved on when a member was merged, and not moved since.           *)
MovedOn(members, o) ==
  {r \in repointed : r.row = o /\ r.old \in members /\ org[o].into = r.new}

(* Mutated: pointers that were moved on are left where they are.              *)
StaysMoved(members, o) == IF o \in members THEN NoOrg ELSE org[o].into

(* Where a row points when the members are taken apart.                       *)
Stays(members, o) ==
  IF MovedOn(members, o) # {} THEN Latest(MovedOn(members, o)).old
  ELSE IF o \in members THEN NoOrg ELSE org[o].into

(* The member a row stands for after the undo, if it is one of this head's.   *)
BackTo(members, o, head) ==
  IF o = NoOrg THEN NoOrg
  ELSE LET t == End([p \in Orgs |-> Stays(members, p)], o, 16)
       IN  IF t \in members /\ org[t].into = head THEN t ELSE NoOrg

Of(members, head) == {m \in members : org[m].into = head}

(* The pointer put back is of a merge that was undone: the row has been merged *)
(* anew since, straight into the head.                                        *)
Misled(members, o) ==
  /\ MovedOn(members, o) # {}
  /\ Latest(MovedOn(members, o)).at < org[o].at

(* Mutated: a number goes back whoever gave it.                               *)
DonorsAny(members, head) == Of(members, head)

(* The members a head's number may have come from: they were numbered once.   *)
Donors(members, head) ==
  {m \in Of(members, head) : org[m].stamp # "none" /\ org[m].number = None}

GaveNumber(members, m) ==
  LET head == org[m].into
  IN  /\ org[head].number # None
      /\ org[head].stamp = "merge"
      /\ Donors(members, head) = {m}

PicLog == {r \in carried : r.pic # None}
AwardLog == {r \in carried : r.twice # {}}

(* The latest line of a log for a member, since the batch began: what its     *)
(* merge moved to the head it is still under.                                 *)
MovedBy(members, m, log) ==
  LET mine == {r \in log : r.row = m /\ \E q \in members : r.at >= org[q].at}
  IN  {r \in mine : r = Latest(mine) /\ r.head = org[m].into}

GavePic(members, m) ==
  \E r \in MovedBy(members, m, PicLog) : org[org[m].into].pic = r.pic

(* Awards that are counted again.                                             *)
CountedAgain(members) ==
  UNION {r.twice : r \in UNION {MovedBy(members, m, AwardLog) : m \in members}}

(* A head flagged without a source and not in the seed file, with a flagged   *)
(* member: it is taken to have the flag from the merge.                       *)
Unflagged(members, head) ==
  /\ org[head].flag /\ ~org[head].source
  /\ org[head].name \notin Seeded
  /\ \E m \in Of(members, head) : org[m].flag

MemberBack(members, m) ==
  [org[m] EXCEPT !.into = NoOrg, !.batch = 0, !.at = 0,
     !.number = IF GaveNumber(members, m) THEN org[org[m].into].number ELSE @,
     !.pic = IF GavePic(members, m) THEN org[org[m].into].pic ELSE @]

HeadBack(members, head) ==
  LET number == IF \E m \in Of(members, head) : GaveNumber(members, m)
                THEN [org[head] EXCEPT !.number = None, !.stamp = "none"]
                ELSE org[head]
      pic == IF \E m \in Of(members, head) : GavePic(members, m)
             THEN [number EXCEPT !.pic = None] ELSE number
  IN  IF Unflagged(members, head) THEN [pic EXCEPT !.flag = FALSE] ELSE pic

AliasBack(members, entry) ==
  LET t == BackTo(members, entry.prev, entry.org)
  IN  IF t = NoOrg THEN entry
      ELSE [entry EXCEPT !.org = t, !.prev = IF @ = t THEN NoOrg ELSE @]

(* The buyer a notice was archived under before the members were merged.      *)
Archived(members, n) ==
  LET m == CHOOSE m \in members : \A q \in members : org[m].at <= org[q].at
  IN  asOf[org[m].at][n]

NoticeBack(members, n) ==
  LET t == BackTo(members, Archived(members, n), notice[n])
  IN  IF t = NoOrg THEN notice[n] ELSE t

(* Each row has the pair that decided its merge, in the batch's time; a row   *)
(* that was moved on to another head since has not.                           *)
Proved(members, b) ==
  \A m \in members : candidate[{m, org[m].into}] = b /\ ~Merged(org[m].into)

Undo(b, members) ==
  /\ ~open
  /\ members # {}
  /\ Proved(members, b)
  /\ org' = [o \in Orgs |->
               IF o \in members THEN MemberBack(members, o)
               ELSE IF Of(members, o) # {} THEN HeadBack(members, o)
               ELSE [org[o] EXCEPT !.into = Stays(members, o)]]
  /\ alias' = [k \in DOMAIN alias |-> AliasBack(members, alias[k])]
  /\ notice' = [n \in Notices |-> NoticeBack(members, n)]
  /\ counted' = counted \cup CountedAgain(members)
  /\ candidate' = [p \in Pairs |->
                     IF \/ members = BatchRows(b) /\ candidate[p] = b
                        \/ \E m \in members : p = {m, org[m].into}
                     THEN 0 ELSE candidate[p]]
  /\ astray' = (astray \/ \E o \in Orgs : Misled(members, o))
  /\ UNCHANGED <<last, archived, repointed, carried, asOf, runs, task, first, filed, before>>

Next ==
  \/ \E s \in Sessions : Resolve(s) \/ Quarantine(s) \/ Serve(s)
  \/ BeginBatch
  \/ EndBatch
  \/ \E keep, absorbed \in Orgs, allow \in Overrides : Merge(keep, absorbed, allow)
  \/ \E b \in 1..batch : \E members \in SUBSET BatchRows(b) : Undo(b, members)

Spec == Init /\ [][Next]_vars

------------------------------------------------------------------------------
(* Properties.                                                                *)

Row == [name : Names \cup {None}, into : Orgs \cup {NoOrg}, batch : 0..MaxBatch,
        at : Nat, number : Numbers \cup {None}, stamp : {"none", "resolved", "merge"},
        pic : Pics \cup {None}, flag : BOOLEAN, source : BOOLEAN]

(* The tables keep their shape: an unused row is empty, a merged one belongs  *)
(* to a batch, and no number or PIC is on two rows (the unique indexes).      *)
TypeOK ==
  /\ last \in 0..MaxOrg
  /\ org \in [Orgs -> Row]
  /\ \A o \in Orgs : /\ o > last => org[o] = Absent
                     /\ Merged(o) <=> org[o].batch # 0
                     /\ \A p \in Orgs \ {o} :
                          /\ org[o].number = org[p].number => org[o].number = None
                          /\ org[o].pic = org[p].pic => org[o].pic = None
  /\ alias \in [Names \X Sources ->
                  [org : 0..last, prev : 0..last, rank : 0..2]]
  /\ notice \in [Notices -> 0..last]
  /\ counted \subseteq Awards
  /\ candidate \in [Pairs -> 0..batch]

(* A merged row points at a live one, whatever was merged and undone: a       *)
(* pointer is followed once (`repoint_merged`, "merged_into never forms a     *)
(* chain").                                                                   *)
NoChains == \A o \in Orgs : Merged(o) => Exists(org[o].into) /\ ~Merged(org[o].into)

(* An alias names the body of the row it was filed under: moves and undos in  *)
(* any order do not hand a spelling to another body.                          *)
AliasesKept ==
  ~astray => \A k \in DOMAIN alias :
    alias[k].org # NoOrg => Live(alias[k].org) = Live(filed[k])

(* A registration number, once stored, is on a row, and that row is of the    *)
(* same body as the row it was first stored on: a notice that states it       *)
(* reaches that body after any merges and undos. A run that read its buyer    *)
(* before a merge may store a number on the absorbed row (`astray`).          *)
NumbersKept ==
  ~astray => \A n \in Numbers :
    first[n] # NoOrg => \E o \in Holders(n) : Live(o) = Live(first[n])

(* Spellings and numbers both, since a notice is given its buyer by either.   *)
IdentifiersKept == AliasesKept /\ NumbersKept

(* What is left of batch `b` is undone, as the latest: no row of another      *)
(* batch was merged since it began and still is, and none was taken apart.    *)
Undone(b) ==
  /\ before[b].begun
  /\ BatchRows(b) # {} /\ BatchRows(b)' = {}
  /\ \A o \in Orgs : Merged(o) => org[o].batch <= b
  /\ \A o \in Orgs : before[b].org[o].into # NoOrg => Merged(o)

(* Rows, numbers, aliases, notices and awards as they were when the batch     *)
(* began; what runs have served since is theirs.                              *)
RestoredRows(b) ==
  \A o \in 1..before[b].last :
    /\ org'[o].into = before[b].org[o].into
    /\ org'[o].pic = before[b].org[o].pic
    /\ \/ org'[o].number = before[b].org[o].number
       \/ before[b].org[o].number = None /\ org'[o].stamp = "resolved"

RestoredAliases(b) ==
  \A k \in DOMAIN alias : before[b].alias[k].org # NoOrg => alias'[k] = before[b].alias[k]

(* A notice first served between the merges of a batch may be left on a head  *)
(* by its undo ("kept on the head"); what counts is a notice that was on the  *)
(* body it is archived under.                                                 *)
RestoredNotices(b) ==
  LET was == [o \in Orgs |-> before[b].org[o].into]
      known == {n \in before[b].intact : archived[n] # NoOrg}
  IN  \A n \in known :
        before[b].notice[n] = End(was, archived[n], 8) => notice'[n] = before[b].notice[n]

(* The undo of the latest batch "reverses exactly that batch" (undo_merges):  *)
(* merged rows, numbers, PICs, aliases, notices and awards.                   *)
UndoRestores ==
  [][\A b \in 1..batch :
       Undone(b) /\ ~astray' => /\ RestoredRows(b)
                                /\ RestoredAliases(b)
                                /\ RestoredNotices(b)
                                /\ counted' = before[b].counted]_vars
==============================================================================
