---------------------------- MODULE ReplayProofs -----------------------------
(* Theorems about Replay that hold for any months, entries, checkpoints,      *)
(* attempts and faults.                                                       *)
EXTENDS Replay, WellFoundedInduction, TLAPS

(* The entry is archived, or no run can take it.                              *)
Done(i) == Year[i] \in archived \cup Poisoned

(* The entry before the first of the unit's file, and how many the file holds *)
(* when it is complete.                                                       *)
Base(u)  == IF u = Annual THEN 0 ELSE Ends[u - 1]
Whole(u) == IF u = Annual THEN Len(Year) ELSE Size(u)

Busy == pc \in {"reading", "ended", "settled"}

(* What the publisher has: the current month's file, and the end of the year. *)
Published ==
  /\ avail \in Nat
  /\ month <= Months => avail <= Size(month)
  /\ asOf <= month
  /\ hidden => month > Months

(* What a run has still to do is of the units of the range it was asked for:  *)
(* months that have begun, or a year that has ended.                          *)
Asked ==
  /\ asOf <= Months => todo \subseteq 1..asOf
  /\ asOf > Months => todo \subseteq {Annual}
  /\ Busy => todo # {}

(* What a rerun skips and what is marked is committed.                        *)
Kept ==
  /\ \A m \in 1..Months : \A i \in 1..progress[m] : Done(Base(m) + i)
  /\ \A m \in marked : Replayed(m)

(* The archive in hand is the unit's, all of it if it is over.                *)
InHand ==
  pc \in {"reading", "ended"} =>
    /\ \A i \in 1..Len(feed) : feed[i] = Year[Base(Unit) + i]
    /\ IsOver(Unit) => Len(feed) = Whole(Unit)

(* The entries read are archived, about to be, or quarantined.                *)
Reading ==
  /\ pc = "reading" => \A i \in 1..at : Done(Base(Unit) + i) \/ Year[Base(Unit) + i] \in tx
  /\ pc \in {"ended", "settled"} /\ IsOver(Unit) =>
       \A i \in 1..Whole(Unit) : Done(Base(Unit) + i)

(* A run with no failed unit has replayed what it has no longer to do.        *)
Covered ==
  /\ \/ pc # "off" /\ ~failed
     \/ outcome = "complete"
     => \A m \in 1..Months : m < asOf =>
          \/ Replayed(m)
          \/ asOf > Months /\ hidden
          \/ pc # "off" /\ (IF asOf > Months THEN Annual ELSE m) \in todo
  /\ pc # "off" => outcome = "running"

(* Unless January was marked, or about to be, when the year ended, what marks *)
(* it is the whole year.                                                      *)
Hiding ==
  month > Months /\ ~hidden =>
    /\ 1 \notin todo
    /\ 1 \in marked => \A m \in 1..Months : Replayed(m)

RInv ==
  /\ TypeOK /\ Published /\ Asked /\ Kept /\ InHand /\ Reading /\ Covered /\ Hiding

------------------------------------------------------------------------------
(* The year, its months and its files.                                        *)

LEMMA YearIs ==
  /\ Year \in Seq(AllEntries)
  /\ Len(Year) \in Nat
  /\ \A m \in 0..Months : Ends[m] \in Nat /\ Ends[m] <= Len(Year)
  /\ \A m \in 1..Months : /\ Ends[m - 1] \in Nat /\ Ends[m - 1] <= Ends[m]
                          /\ Size(m) \in Nat /\ Ends[m - 1] + Size(m) = Ends[m]
  /\ Ends[0] = 0 /\ Ends[Months] = Len(Year)
<1>1. /\ Year \in Seq(AllEntries) /\ Months \in Nat \ {0}
      /\ Ends \in [0..Months -> 0..Len(Year)]
      /\ Ends[0] = 0 /\ Ends[Months] = Len(Year)
      /\ \A m, n \in 0..Months : m <= n => Ends[m] <= Ends[n]
  BY ReplayAssumption DEF ReplayAssumption, AllEntries
<1>2. Len(Year) \in Nat
  BY <1>1
<1>3. \A m \in 0..Months : Ends[m] \in Nat /\ Ends[m] <= Len(Year)
  BY <1>1, <1>2
<1>4. \A m \in 1..Months : m - 1 \in 0..Months /\ m \in 0..Months /\ m - 1 <= m
  BY <1>1
<1>5. \A m \in 1..Months : Ends[m - 1] \in Nat /\ Ends[m] \in Nat /\ Ends[m - 1] <= Ends[m]
  BY <1>1, <1>3, <1>4
<1>6. \A m \in 1..Months : Size(m) \in Nat /\ Ends[m - 1] + Size(m) = Ends[m]
  BY <1>5 DEF Size
<1> QED BY <1>1, <1>2, <1>3, <1>5, <1>6

LEMMA BaseIs ==
  ASSUME NEW u \in Units
  PROVE  /\ Base(u) \in Nat /\ Whole(u) \in Nat
         /\ Base(u) + Whole(u) <= Len(Year)
         /\ u # Annual => u \in 1..Months
         /\ MarkDay(u) \in 1..Months /\ Base(MarkDay(u)) = Base(u)
         /\ Size(MarkDay(u)) <= Whole(u)
<1>1. Months \in Nat \ {0}
  BY ReplayAssumption DEF ReplayAssumption
<1>2. CASE u = Annual
  <2>1. 1 \in 1..Months /\ 1 # Annual /\ 1 - 1 = 0
    BY <1>1 DEF Annual
  <2>2. Size(1) = Ends[1] /\ Ends[1] <= Len(Year)
    <3>1. Ends[1] \in Nat /\ Ends[1] <= Len(Year) /\ Ends[1 - 1] = 0
      BY <1>1, <2>1, YearIs
    <3> QED BY <3>1 DEF Size
  <2> QED BY <1>2, <2>1, <2>2, YearIs DEF Base, Whole, MarkDay
<1>3. CASE u # Annual
  <2>1. u \in 1..Months
    BY <1>3 DEF Units
  <2>2. /\ Ends[u - 1] \in Nat /\ Size(u) \in Nat
        /\ Ends[u - 1] + Size(u) = Ends[u] /\ Ends[u] <= Len(Year)
    BY <1>1, <2>1, YearIs
  <2> QED BY <1>3, <2>1, <2>2 DEF Base, Whole, MarkDay
<1> QED BY <1>2, <1>3

(* What a unit's archive yields: its part of the year, all of it once over.   *)
LEMMA FetchedIs ==
  ASSUME TypeOK, Published, NEW u \in Units, u # Annual => u <= month
  PROVE  /\ Fetched(u) \in Seq(AllEntries)
         /\ \A i \in 1..Len(Fetched(u)) : Fetched(u)[i] = Year[Base(u) + i]
         /\ IsOver(u) => Len(Fetched(u)) = Whole(u)
<1>1. CASE u = Annual
  <2>1. \A i \in 1..Len(Year) : 0 + i = i
    BY YearIs
  <2> QED BY <1>1, <2>1, YearIs DEF Fetched, Base, Whole
<1>2. CASE u # Annual
  <2> DEFINE b == Ends[u - 1]
             e == IF u < month THEN Ends[u] ELSE b + avail
  <2>1. u \in 1..Months /\ u \in Nat /\ month \in Nat /\ asOf \in Nat /\ asOf <= month /\ Months \in Nat
    BY <1>2, BaseIs, ReplayAssumption DEF TypeOK, Published, ReplayAssumption
  <2>2. b \in Nat /\ Ends[u] \in Nat /\ b <= Ends[u] /\ Ends[u] <= Len(Year) /\ Ends[u] = b + Size(u)
        /\ Size(u) \in Nat
    BY <2>1, YearIs
  <2>3. u >= month => u = month /\ avail \in Nat /\ avail <= Size(u)
    BY <1>2, <2>1 DEF Published
  <2>4. e \in Nat /\ b <= e /\ e <= Len(Year)
    BY <2>1, <2>2, <2>3
  <2>5. Fetched(u) = SubSeq(Year, b + 1, e) /\ Base(u) = b
    BY <1>2 DEF Fetched, FileOf, Base
  <2>6. IsOver(u) => e = Ends[u]
    BY <1>2, <2>1 DEF IsOver
  <2> HIDE DEF b, e
  <2>7. /\ SubSeq(Year, b + 1, e) \in Seq(AllEntries)
        /\ Len(SubSeq(Year, b + 1, e)) = e - b
        /\ \A i \in 1..(e - b) : SubSeq(Year, b + 1, e)[i] = Year[b + i]
    <3>1. Year \in Seq(AllEntries) /\ b + 1 \in Nat /\ b + 1 <= e + 1 /\ Len(Year) \in Nat
      BY <2>2, <2>4, YearIs
    <3>2. \A i \in (b + 1)..e : i \in 1..Len(Year) /\ Year[i] \in AllEntries
      BY <2>2, <2>4, <3>1
    <3> QED BY <2>2, <2>4, <3>1, <3>2, SMTT(30)
  <2>8. IsOver(u) => e - b = Whole(u)
    BY <1>2, <2>2, <2>6 DEF Whole
  <2> QED BY <2>5, <2>7, <2>8
<1> QED BY <1>1, <1>2

(* The unit in hand is the first of those to do.                              *)
LEMMA UnitIs ==
  ASSUME TypeOK, Published, Asked, todo # {}
  PROVE  /\ Unit \in todo /\ Unit \in Units
         /\ Unit # Annual => Unit <= month /\ asOf <= Months
         /\ Unit = Annual => asOf > Months
         /\ Key \in 1..Months /\ Base(Key) = Base(Unit) /\ Key = MarkDay(Unit)
<1>1. Months \in Nat \ {0}
  BY ReplayAssumption DEF ReplayAssumption
<1>2. todo \subseteq Nat /\ todo \subseteq Units /\ month \in Nat /\ asOf \in Nat /\ asOf <= month
  BY <1>1 DEF TypeOK, Units, Annual, Published
<1>3. \E u \in todo : \A v \in todo : u <= v
  <2>1. \E u \in todo : \A v \in todo : <<v, u>> \notin OpToRel(<, Nat)
    BY <1>2, WFMin, NatLessThanWellFounded
  <2>2. \A u, v \in todo : <<v, u>> \notin OpToRel(<, Nat) => u <= v
    BY <1>2 DEF OpToRel
  <2> QED BY <2>1, <2>2
<1>4. Unit \in todo
  BY <1>3 DEF Unit
<1>5. Key \in 1..Months /\ Base(Key) = Base(Unit) /\ Key = MarkDay(Unit)
  BY <1>2, <1>4, BaseIs DEF Key
<1>6. asOf <= Months => Unit \in 1..asOf
  BY <1>4 DEF Asked
<1>7. asOf > Months => Unit = Annual
  BY <1>4 DEF Asked
<1> QED BY <1>1, <1>2, <1>4, <1>5, <1>6, <1>7 DEF Annual

(* A unit of which every entry is done is a month replayed, or the year.      *)
LEMMA WholeIsReplayed ==
  ASSUME NEW u \in Units, \A i \in 1..Whole(u) : Done(Base(u) + i)
  PROVE  /\ Replayed(MarkDay(u))
         /\ u = Annual => \A m \in 1..Months : Replayed(m)
<1>1. Replayed(MarkDay(u))
  <2>1. /\ MarkDay(u) \in 1..Months /\ Base(MarkDay(u)) = Base(u)
        /\ Size(MarkDay(u)) <= Whole(u) /\ Whole(u) \in Nat /\ Size(MarkDay(u)) \in Nat
    BY BaseIs, YearIs
  <2>2. MarkDay(u) # Annual
    BY <2>1 DEF Annual
  <2>3. Ends[MarkDay(u) - 1] = Base(u)
    BY <2>1, <2>2 DEF Base
  <2>4. \A i \in 1..Size(MarkDay(u)) : i \in 1..Whole(u)
    BY <2>1
  <2> QED BY <2>3, <2>4 DEF Replayed, Done
<1>2. ASSUME u = Annual, NEW m \in 1..Months PROVE Replayed(m)
  <2>1. Ends[m - 1] \in Nat /\ Size(m) \in Nat /\ Ends[m - 1] + Size(m) <= Len(Year) /\ Len(Year) \in Nat
    <3>1. m \in 0..Months
      BY ReplayAssumption DEF ReplayAssumption
    <3>2. Ends[m] <= Len(Year)
      BY <3>1, YearIs
    <3> QED BY <3>2, YearIs
  <2>2. Base(u) = 0 /\ Whole(u) = Len(Year)
    BY <1>2 DEF Base, Whole
  <2>3. ASSUME NEW i \in 1..Size(m) PROVE Done(Ends[m - 1] + i)
    <3>1. Ends[m - 1] + i \in 1..Len(Year) /\ 0 + (Ends[m - 1] + i) = Ends[m - 1] + i
      BY <2>1
    <3> QED BY <2>2, <3>1
  <2> QED BY <2>3 DEF Replayed, Done
<1> QED BY <1>1, <1>2

------------------------------------------------------------------------------
(* What a step that takes nothing back keeps.                                 *)

LEMMA MoreIsArchived ==
  ASSUME archived \subseteq archived'
  PROVE  /\ \A i : Done(i) => Done(i)'
         /\ \A m : Replayed(m) => Replayed(m)'
  BY DEF Done, Replayed

LEMMA PublishedStays ==
  ASSUME Published, UNCHANGED <<world, asOf>>
  PROVE  Published'
  BY DEF Published, world, Size

LEMMA KeptStays ==
  ASSUME Kept, UNCHANGED <<progress, marked>>, archived \subseteq archived'
  PROVE  Kept'
  BY MoreIsArchived DEF Kept, Base, Size

LEMMA CoveredStays ==
  ASSUME Covered, UNCHANGED <<hidden, asOf, outcome, failed, todo>>, archived \subseteq archived',
         pc' # "off", pc # "off"
  PROVE  Covered'
  BY MoreIsArchived DEF Covered

LEMMA HidingStays ==
  ASSUME Hiding, UNCHANGED <<world, marked>>, archived \subseteq archived', todo' \subseteq todo
  PROVE  Hiding'
  BY MoreIsArchived DEF Hiding, world

(* A unit failing, whatever it committed before.                              *)
LEMMA UnitFailedKeeps ==
  ASSUME RInv, Busy, UnitFailed, Kept', archived \subseteq archived',
         archived' \subseteq AllEntries, progress' \in [1..Months -> Nat], faults' \in 0..MaxFaults
  PROVE  RInv'
<1> USE DEF RInv
<1>1. Unit \in todo /\ todo' = todo \ {Unit} /\ pc' = "between" /\ failed' = TRUE
      /\ UNCHANGED <<world, marked, asOf, scratch, outcome>> /\ Closed
  BY UnitIs DEF UnitFailed, Asked
<1>2. TypeOK'
  <2>1. /\ feed' \in Seq(AllEntries) /\ at' \in Nat /\ bad' \in 0..MaxQuarantined
        /\ tx' \subseteq AllEntries /\ attempt' \in 0..Attempts
    BY <1>1, ReplayAssumption DEF Closed, ReplayAssumption
  <2>2. TypeOK
    OBVIOUS
  <2> QED BY <1>1, <2>1, <2>2 DEF TypeOK, world
<1>3. Published'
  BY <1>1, PublishedStays
<1>4. Asked'
  BY <1>1 DEF Asked, Busy
<1>5. InHand' /\ Reading'
  BY <1>1 DEF InHand, Reading
<1>6. Covered'
  BY <1>1 DEF Covered, Busy
<1>7. Hiding'
  BY <1>1, HidingStays
<1> QED BY <1>2, <1>3, <1>4, <1>5, <1>6, <1>7

(* An archive opened after what is known to be finished, or at its start.     *)
LEMMA OpenKeeps ==
  ASSUME RInv, pc # "off", todo # {}, NEW from \in Nat, Open(from),
         UNCHANGED <<world, marked, archived, asOf, scratch, todo, failed, outcome>>,
         progress' \in [1..Months -> Nat], Kept', \A i \in 1..from : Done(Base(Unit) + i),
         attempt' \in 0..Attempts, faults' \in 0..MaxFaults
  PROVE  RInv'
<1> USE DEF RInv
<1>1. /\ Fetched(Unit) \in Seq(AllEntries)
      /\ \A i \in 1..Len(Fetched(Unit)) : Fetched(Unit)[i] = Year[Base(Unit) + i]
      /\ IsOver(Unit) => Len(Fetched(Unit)) = Whole(Unit)
  BY UnitIs, FetchedIs
<1>2. pc' = "reading" /\ feed' = Fetched(Unit) /\ at' = from /\ tx' = {} /\ bad' = 0
  BY DEF Open
<1>3. Unit' = Unit /\ (IsOver(Unit)' <=> IsOver(Unit))
  BY DEF Unit, IsOver
<1>4. TypeOK'
  <2>1. /\ pc' \in {"off", "between", "reading", "ended", "settled"} /\ feed' \in Seq(AllEntries)
        /\ at' \in Nat /\ bad' \in 0..MaxQuarantined /\ tx' \subseteq AllEntries
    BY <1>1, <1>2, ReplayAssumption DEF ReplayAssumption
  <2>2. TypeOK
    OBVIOUS
  <2> QED BY <2>1, <2>2 DEF TypeOK, world
<1>5. Published'
  BY PublishedStays
<1>6. Asked'
  BY DEF Asked
<1>7. InHand'
  BY <1>1, <1>2, <1>3 DEF InHand, Base, Whole, Size
<1>8. Reading'
  BY <1>2, <1>3 DEF Reading, Base, Done
<1>9. Covered'
  BY <1>2, CoveredStays DEF world
<1>10. Hiding'
  BY HidingStays
<1> QED BY <1>4, <1>5, <1>6, <1>7, <1>8, <1>9, <1>10

------------------------------------------------------------------------------
(* One lemma for each action.                                                 *)

LEMMA StartKeeps == RInv /\ Start => RInv'
<1> SUFFICES ASSUME RInv, Start PROVE RInv'
  OBVIOUS
<1> USE DEF RInv
<1>1. Months \in Nat \ {0} /\ month \in 1..Months + 1
  BY ReplayAssumption DEF ReplayAssumption, TypeOK
<1>2. /\ pc' = "between" /\ asOf' = month /\ failed' = FALSE /\ outcome' = "running"
      /\ todo' = {u \in UnitsAsked : scratch' \/ MarkDay(u) \notin marked}
      /\ UNCHANGED <<world, kept, reading>>
  BY DEF Start
<1>3. todo' \subseteq UnitsAsked
  BY <1>2
<1>4. TypeOK'
  <2>1. UnitsAsked \subseteq Units
    BY <1>1 DEF UnitsAsked, Units
  <2>2. scratch' \in BOOLEAN /\ faults' \in 0..MaxFaults
    BY ReplayAssumption DEF Start, Fault, TypeOK, ReplayAssumption
  <2> QED BY <1>1, <1>2, <1>3, <2>1, <2>2 DEF TypeOK, world, kept, reading
<1>5. Published'
  BY <1>1, <1>2 DEF Published, world, Size
<1>6. Asked'
  BY <1>1, <1>2, <1>3 DEF Asked, UnitsAsked, Busy
<1>7. Kept'
  BY <1>2, KeptStays DEF kept
<1>8. InHand' /\ Reading'
  BY <1>2 DEF InHand, Reading
<1>9. UNCHANGED <<archived, marked>> /\ (hidden' <=> hidden) /\ month' = month
  BY <1>2 DEF kept, world
<1>10. Covered'
  <2> SUFFICES ASSUME NEW m \in 1..Months, m < month
               PROVE  \/ Replayed(m)'
                      \/ month > Months /\ hidden
                      \/ (IF month > Months THEN Annual ELSE m) \in todo'
    BY <1>2, <1>9 DEF Covered
  <2>1. Replayed(m)' <=> Replayed(m)
    BY <1>9 DEF Replayed, Size
  <2>2. CASE month > Months
    <3>1. CASE 1 \in marked
      BY <2>1, <2>2, <3>1 DEF Hiding
    <3>2. CASE 1 \notin marked
      BY <1>2, <2>2, <3>2 DEF UnitsAsked, MarkDay
    <3> QED BY <3>1, <3>2
  <2>3. CASE ~(month > Months)
    <3>1. m \in UnitsAsked /\ MarkDay(m) = m
      BY <1>1, <2>3 DEF UnitsAsked, MarkDay, Annual
    <3>2. CASE m \in marked
      BY <2>1, <3>2 DEF Kept
    <3>3. CASE m \notin marked
      BY <1>2, <2>3, <3>1, <3>3
    <3> QED BY <3>2, <3>3
  <2> QED BY <2>2, <2>3
<1>11. Hiding'
  <2> SUFFICES ASSUME month > Months, ~hidden
               PROVE  1 \notin todo' /\ (1 \in marked => \A m \in 1..Months : Replayed(m)')
    BY <1>9 DEF Hiding
  <2>1. 1 \notin todo'
    BY <1>3 DEF UnitsAsked, Annual
  <2> QED BY <1>9, <2>1, MoreIsArchived DEF Hiding
<1> QED BY <1>4, <1>5, <1>6, <1>7, <1>8, <1>10, <1>11

LEMMA OpenUnitKeeps == RInv /\ OpenUnit => RInv'
<1> SUFFICES ASSUME RInv, OpenUnit PROVE RInv'
  OBVIOUS
<1> USE DEF RInv
<1>1. /\ pc = "between" /\ todo # {} /\ attempt' = 1
      /\ UNCHANGED <<world, marked, archived, asOf, scratch, todo, failed, outcome, faults>>
  BY DEF OpenUnit
<1>2. attempt' \in 0..Attempts /\ faults' \in 0..MaxFaults
  BY <1>1, ReplayAssumption DEF TypeOK, ReplayAssumption
<1>3. Key \in 1..Months /\ Base(Key) = Base(Unit)
  BY <1>1, UnitIs
<1>4. CASE scratch
  <2>1. progress' = [progress EXCEPT ![Key] = 0] /\ Open(0)
    BY <1>4 DEF OpenUnit
  <2>2. progress' \in [1..Months -> Nat]
    BY <2>1 DEF TypeOK
  <2>3. \A m \in 1..Months : progress'[m] = 0 \/ progress'[m] = progress[m]
    BY <2>1 DEF TypeOK
  <2>4. Kept'
    BY <1>1, <2>3 DEF Kept, Done, Replayed, Base, Size
  <2> QED BY <1>1, <1>2, <2>1, <2>2, <2>4, OpenKeeps
<1>5. CASE ~scratch
  <2>1. UNCHANGED progress /\ Open(progress[Key])
    BY <1>5 DEF OpenUnit, Skipped
  <2>2. progress[Key] \in Nat /\ \A i \in 1..progress[Key] : Done(Base(Unit) + i)
    BY <1>3 DEF TypeOK, Kept
  <2>3. Kept'
    BY <1>1, <2>1, KeptStays
  <2> QED BY <1>1, <1>2, <2>1, <2>2, <2>3, OpenKeeps DEF TypeOK
<1> QED BY <1>4, <1>5

LEMMA ReadEntryKeeps == RInv /\ ReadEntry => RInv'
<1> SUFFICES ASSUME RInv, ReadEntry PROVE RInv'
  OBVIOUS
<1> USE DEF RInv
<1> DEFINE n   == at + 1
           e   == feed[n]
           due == n % Every = 0
           refused == e \in Poisoned
           over == refused /\ bad = MaxQuarantined
<1>1. /\ pc = "reading" /\ at < Len(feed) /\ UNCHANGED faults
      /\ progress' = IF due THEN [progress EXCEPT ![Key] = at] ELSE progress
      /\ archived' = IF due THEN archived \cup tx ELSE archived
  <2>1. Finished(n) = at
    BY DEF Finished, TypeOK
  <2> QED BY <2>1 DEF ReadEntry
<1>2. /\ Unit \in todo /\ Unit \in Units /\ Key \in 1..Months /\ Base(Key) = Base(Unit)
      /\ Base(Unit) \in Nat /\ at \in Nat /\ Len(feed) \in Nat
  <2>1. todo # {}
    BY <1>1 DEF Asked, Busy
  <2>2. /\ Unit \in todo /\ Unit \in Units /\ Key \in 1..Months /\ Base(Key) = Base(Unit)
    BY <2>1, UnitIs
  <2>3. Base(Unit) \in Nat
    BY <2>2, BaseIs
  <2>4. at \in Nat /\ feed \in Seq(AllEntries)
    BY DEF TypeOK
  <2>5. Len(feed) \in Nat
    BY <2>4
  <2> QED BY <2>2, <2>3, <2>4, <2>5
<1> PICK b \in Nat : b = Base(Unit)
  BY <1>2
<1>3. n \in 1..Len(feed) /\ e \in AllEntries /\ e = Year[b + n]
  <2>1. n \in 1..Len(feed)
    BY <1>1, <1>2
  <2>2. feed \in Seq(AllEntries)
    BY DEF TypeOK
  <2>3. e \in AllEntries
    BY <2>1, <2>2
  <2> QED BY <1>1, <2>1, <2>3 DEF InHand
<1>4. \A i \in 1..at : Year[b + i] \in archived \cup Poisoned \cup tx
  BY <1>1 DEF Reading, Done
<1>5. due => \A i \in 1..at : Year[b + i] \in archived' \cup Poisoned
  BY <1>1, <1>4
<1>6. archived \subseteq archived' /\ archived' \subseteq AllEntries
      /\ progress' \in [1..Months -> Nat] /\ faults' \in 0..MaxFaults
  BY <1>1, <1>2 DEF TypeOK
<1>7. UNCHANGED marked
  BY DEF ReadEntry, UnitFailed
<1>8. Kept'
  <2>1. \A m \in 1..Months : progress'[m] = IF due /\ m = Key THEN at ELSE progress[m]
    BY <1>1 DEF TypeOK
  <2>2. ASSUME NEW m \in 1..Months, NEW i \in 1..progress'[m]
        PROVE  Year[Base(m) + i] \in archived' \cup Poisoned
    <3>1. CASE due /\ m = Key
      <4>1. Base(m) = b /\ i \in 1..at
        BY <1>2, <2>1, <2>2, <3>1
      <4> QED BY <1>5, <3>1, <4>1
    <3>2. CASE ~(due /\ m = Key)
      <4>1. Done(Base(m) + i)
        BY <2>1, <2>2, <3>2 DEF Kept
      <4> QED BY <1>6, <4>1 DEF Done
    <3> QED BY <3>1, <3>2
  <2>3. \A m \in marked' : Replayed(m)'
    BY <1>6, <1>7, MoreIsArchived DEF Kept
  <2>4. \A m \in 1..Months : \A i \in 1..progress'[m] : Year[Base(m) + i] \in archived' \cup Poisoned
    BY <2>2
  <2> QED BY <2>3, <2>4 DEF Kept, Done, Base
<1>9. CASE over
  <2>1. UnitFailed
    BY <1>9 DEF ReadEntry
  <2> QED BY <1>1, <1>6, <1>8, <2>1, UnitFailedKeeps DEF Busy
<1>10. CASE ~over
  <2>1. /\ at' = n
        /\ bad' = IF refused THEN bad + 1 ELSE bad
        /\ tx' = (IF due THEN {} ELSE tx) \cup (IF refused THEN {} ELSE {e})
        /\ UNCHANGED <<world, marked, pc, asOf, scratch, todo, feed, attempt, failed, outcome>>
    BY <1>10 DEF ReadEntry
  <2>2. Unit' = Unit /\ (IsOver(Unit)' <=> IsOver(Unit))
    BY <2>1 DEF Unit, IsOver
  <2>3. TypeOK'
    <3>1. bad' \in 0..MaxQuarantined
      BY <1>10, <2>1, ReplayAssumption DEF TypeOK, ReplayAssumption
    <3>2. tx' \subseteq AllEntries /\ at' \in Nat
      BY <1>2, <1>3, <2>1 DEF TypeOK
    <3>3. TypeOK
      OBVIOUS
    <3> QED BY <1>6, <2>1, <3>1, <3>2, <3>3 DEF TypeOK, world
  <2>4. Published' /\ Asked' /\ InHand' /\ Covered' /\ Hiding'
    <3>1. Published' /\ Covered' /\ Hiding'
      BY <1>1, <1>6, <2>1, PublishedStays, CoveredStays, HidingStays DEF world
    <3>2. Asked'
      BY <2>1 DEF Asked, Busy
    <3>3. InHand'
      BY <2>1, <2>2 DEF InHand, Base, Whole, Size
    <3> QED BY <3>1, <3>2, <3>3
  <2>5. Reading'
    <3>1. ASSUME NEW i \in 1..n PROVE Year[b + i] \in archived' \cup Poisoned \cup tx'
      <4>1. CASE i = n
        BY <1>3, <2>1, <4>1
      <4>2. CASE i # n
        <5>1. i \in 1..at
          BY <1>2, <4>2
        <5>2. CASE due
          BY <1>5, <5>1, <5>2
        <5>3. CASE ~due
          BY <1>4, <1>6, <2>1, <5>1, <5>3
        <5> QED BY <5>2, <5>3
      <4> QED BY <4>1, <4>2
    <3>2. Base(Unit)' = b /\ pc' = "reading"
      BY <1>1, <2>1, <2>2 DEF Base
    <3>3. \A i \in 1..at' : Done(Base(Unit) + i)' \/ Year[Base(Unit)' + i] \in tx'
      BY <2>1, <3>1, <3>2 DEF Done
    <3> QED BY <3>2, <3>3 DEF Reading
  <2> QED BY <1>8, <2>3, <2>4, <2>5
<1> QED BY <1>9, <1>10

(* What is archived may be committed at any time.                             *)
LEMMA CommittedKeeps ==
  ASSUME RInv, pc = "reading", pc' \in {"reading", "ended"}, archived' = archived \cup tx, tx' = {},
         UNCHANGED <<world, marked, progress, asOf, scratch, todo, feed, at, bad, attempt, failed,
                     outcome, faults>>,
         pc' = "ended" => at >= Len(feed)
  PROVE  RInv'
<1> USE DEF RInv
<1>1. Unit' = Unit /\ (IsOver(Unit)' <=> IsOver(Unit)) /\ archived \subseteq archived'
  BY DEF Unit, IsOver
<1>2. TypeOK'
  <2>1. archived' \subseteq AllEntries /\ tx' \subseteq AllEntries
    BY DEF TypeOK
  <2>2. pc' \in {"off", "between", "reading", "ended", "settled"}
        /\ (pc' \in {"reading", "ended", "settled"} => todo' # {})
    BY DEF Asked, Busy
  <2>3. TypeOK
    OBVIOUS
  <2> QED BY <2>1, <2>2, <2>3 DEF TypeOK, world
<1>3. Published' /\ Kept' /\ Covered' /\ Hiding'
  BY <1>1, PublishedStays, KeptStays, CoveredStays, HidingStays DEF world
<1>4. Asked'
  BY DEF Asked, Busy
<1>5. InHand'
  BY <1>1 DEF InHand, Base, Whole, Size
<1>6. \A i \in 1..at : Year[Base(Unit) + i] \in archived' \cup Poisoned
  BY DEF Reading, Done
<1>7. Reading'
  <2>1. Base(Unit)' = Base(Unit) /\ Whole(Unit)' = Whole(Unit)
    BY <1>1 DEF Base, Whole, Size
  <2>2. CASE pc' = "reading"
    BY <1>1, <1>6, <2>1, <2>2 DEF Reading, Done, Base
  <2>3. CASE pc' = "ended"
    <3> SUFFICES ASSUME IsOver(Unit), NEW i \in 1..Whole(Unit)
                 PROVE  Year[Base(Unit) + i] \in archived' \cup Poisoned
      BY <1>1, <2>1, <2>3 DEF Reading, Done, Base
    <3>1. Whole(Unit) = Len(feed) /\ Len(feed) \in Nat /\ at \in Nat /\ at >= Len(feed)
      BY <2>3 DEF InHand, TypeOK
    <3>2. i \in 1..at
      BY <3>1
    <3> QED BY <1>6, <3>2
  <2> QED BY <2>2, <2>3
<1> QED BY <1>2, <1>3, <1>4, <1>5, <1>7

LEMMA SettleKeeps == RInv /\ Settle => RInv'
<1> SUFFICES ASSUME RInv, Settle PROVE RInv'
  OBVIOUS
<1> USE DEF RInv
<1>1. /\ pc = "ended" /\ pc' = "settled" /\ Closed
      /\ progress' = [progress EXCEPT ![Key] = 0]
      /\ UNCHANGED <<world, marked, archived, asOf, scratch, todo, failed, outcome, faults>>
  BY DEF Settle
<1>2. Unit' = Unit /\ (IsOver(Unit)' <=> IsOver(Unit))
  BY <1>1 DEF Unit, IsOver
<1>3. TypeOK'
  <2>1. progress' \in [1..Months -> Nat]
    BY <1>1 DEF TypeOK
  <2>2. TypeOK
    OBVIOUS
  <2>3. /\ feed' \in Seq(AllEntries) /\ at' \in Nat /\ bad' \in 0..MaxQuarantined
        /\ tx' \subseteq AllEntries /\ attempt' \in 0..Attempts
    BY <1>1, ReplayAssumption DEF Closed, ReplayAssumption
  <2> QED BY <1>1, <2>1, <2>2, <2>3 DEF TypeOK, world
<1>4. Published' /\ Covered' /\ Hiding'
  BY <1>1, PublishedStays, CoveredStays, HidingStays DEF world
<1>5. Asked' /\ InHand'
  BY <1>1 DEF Asked, InHand, Busy
<1>6. Kept'
  <2>1. \A m \in 1..Months : progress'[m] = 0 \/ progress'[m] = progress[m]
    BY <1>1 DEF TypeOK
  <2> QED BY <1>1, <2>1 DEF Kept, Done, Replayed, Base, Size
<1>7. Reading'
  BY <1>1, <1>2 DEF Reading, Done, Base, Whole, Size
<1> QED BY <1>3, <1>4, <1>5, <1>6, <1>7

LEMMA MarkUnitKeeps == RInv /\ MarkUnit => RInv'
<1> SUFFICES ASSUME RInv, MarkUnit PROVE RInv'
  OBVIOUS
<1> USE DEF RInv
<1>1. /\ pc = "settled" /\ pc' = "between" /\ todo' = todo \ {Unit}
      /\ marked' = IF IsOver(Unit) THEN marked \cup {Key} ELSE marked
      /\ UNCHANGED <<world, progress, archived, asOf, scratch, reading, failed, outcome, faults>>
  BY DEF MarkUnit
<1>2. /\ Unit \in todo /\ Unit \in Units /\ Key \in 1..Months /\ Key = MarkDay(Unit)
      /\ Unit = Annual => asOf > Months
      /\ Unit # Annual => asOf <= Months
  BY <1>1, UnitIs DEF Asked, Busy
<1>3. IsOver(Unit) => /\ Replayed(Key)
                      /\ Unit = Annual => \A m \in 1..Months : Replayed(m)
  BY <1>1, <1>2, WholeIsReplayed DEF Reading
<1>4. \A m : Replayed(m)' <=> Replayed(m)
  BY <1>1 DEF Replayed, Size
<1>5. TypeOK'
  <2>1. marked' \subseteq 1..Months
    BY <1>1, <1>2 DEF TypeOK
  <2>2. TypeOK
    OBVIOUS
  <2> QED BY <1>1, <2>1, <2>2 DEF TypeOK, world, reading
<1>6. Published'
  BY <1>1, PublishedStays
<1>7. Asked' /\ InHand' /\ Reading'
  BY <1>1 DEF Asked, Busy, InHand, Reading
<1>8. Kept'
  <2>1. \A m \in marked' : Replayed(m)'
    BY <1>1, <1>3, <1>4 DEF Kept
  <2> QED BY <1>1, <2>1 DEF Kept, Done, Base
<1>9. Covered'
  <2> SUFFICES ASSUME ~failed, NEW m \in 1..Months, m < asOf
               PROVE  \/ Replayed(m)
                      \/ asOf > Months /\ hidden
                      \/ (IF asOf > Months THEN Annual ELSE m) \in todo'
    BY <1>1, <1>4 DEF Covered, world
  <2> DEFINE mine == IF asOf > Months THEN Annual ELSE m
  <2>1. Replayed(m) \/ (asOf > Months /\ hidden) \/ mine \in todo
    BY <1>1 DEF Covered
  <2>2. ASSUME mine = Unit PROVE Replayed(m)
    <3>1. CASE asOf > Months
      BY <1>2, <1>3, <2>2, <3>1 DEF IsOver
    <3>2. CASE ~(asOf > Months)
      <4>1. Unit = m /\ m # Annual
        BY <2>2, <3>2 DEF Annual
      <4>2. IsOver(Unit) /\ Key = m
        BY <1>2, <4>1 DEF IsOver, MarkDay
      <4> QED BY <1>3, <4>2
    <3> QED BY <3>1, <3>2
  <2> QED BY <1>1, <2>1, <2>2
<1>10. Hiding'
  <2> SUFFICES ASSUME month > Months, ~hidden
               PROVE  1 \notin todo' /\ (1 \in marked' => \A m \in 1..Months : Replayed(m))
    BY <1>1, <1>4 DEF Hiding, world
  <2>1. 1 \notin todo
    BY DEF Hiding
  <2>2. ASSUME 1 \in marked', 1 \notin marked PROVE \A m \in 1..Months : Replayed(m)
    <3>1. Key = 1 /\ IsOver(Unit)
      BY <1>1, <2>2
    <3>2. Unit = Annual
      BY <1>2, <2>1, <3>1 DEF MarkDay
    <3> QED BY <1>3, <3>1, <3>2
  <2> QED BY <1>1, <2>1, <2>2 DEF Hiding
<1> QED BY <1>5, <1>6, <1>7, <1>8, <1>9, <1>10

LEMMA FinishKeeps == RInv /\ Finish => RInv'
<1> SUFFICES ASSUME RInv, Finish PROVE RInv'
  OBVIOUS
<1> USE DEF RInv
<1>1. /\ pc = "between" /\ todo = {} /\ pc' = "off"
      /\ outcome' = IF failed THEN "failed" ELSE "complete"
      /\ UNCHANGED <<world, kept, asOf, scratch, todo, reading, failed, faults>>
  BY DEF Finish
<1>2. TypeOK'
  BY <1>1 DEF TypeOK, world, kept, reading
<1>3. Published' /\ Kept' /\ Hiding'
  BY <1>1, PublishedStays, KeptStays, HidingStays DEF kept
<1>4. Asked' /\ InHand' /\ Reading'
  BY <1>1 DEF Asked, Busy, InHand, Reading
<1>5. Covered'
  BY <1>1 DEF Covered, Replayed, kept, world, Size
<1> QED BY <1>2, <1>3, <1>4, <1>5

LEMMA ConnectionLostKeeps == RInv /\ ConnectionLost => RInv'
<1> SUFFICES ASSUME RInv, ConnectionLost PROVE RInv'
  OBVIOUS
<1> USE DEF RInv
<1>1. pc \in {"reading", "ended"} /\ faults' \in 0..MaxFaults
  BY ReplayAssumption DEF ConnectionLost, Fault, TypeOK, ReplayAssumption
<1>2. CASE MayRetry
  <2>1. /\ attempt' = attempt + 1 /\ Open(progress[Key])
        /\ UNCHANGED <<world, kept, asOf, scratch, todo, failed, outcome>>
    BY <1>2 DEF ConnectionLost, Skipped
  <2>2. attempt' \in 0..Attempts
    BY <1>2, <2>1, ReplayAssumption DEF MayRetry, TypeOK, ReplayAssumption
  <2>3. todo # {} /\ Key \in 1..Months /\ Base(Key) = Base(Unit)
    BY <1>1, UnitIs DEF Asked, Busy
  <2>4. progress[Key] \in Nat /\ \A i \in 1..progress[Key] : Done(Base(Unit) + i)
    BY <2>3 DEF TypeOK, Kept
  <2>5. Kept'
    BY <2>1, KeptStays DEF kept
  <2> QED BY <1>1, <2>1, <2>2, <2>3, <2>4, <2>5, OpenKeeps DEF kept, TypeOK
<1>3. CASE ~MayRetry
  <2>1. UnitFailed /\ UNCHANGED <<progress, archived>>
    BY <1>3 DEF ConnectionLost
  <2>2. Kept'
    BY <2>1, KeptStays DEF UnitFailed
  <2> QED BY <1>1, <2>1, <2>2, UnitFailedKeeps DEF Busy, TypeOK
<1> QED BY <1>2, <1>3

LEMMA UnitFailsKeeps == RInv /\ UnitFails => RInv'
<1> SUFFICES ASSUME RInv, UnitFails PROVE RInv'
  OBVIOUS
<1> USE DEF RInv
<1>1. /\ pc \in {"reading", "ended"} /\ faults' \in 0..MaxFaults
      /\ UnitFailed /\ UNCHANGED <<progress, archived>>
  BY ReplayAssumption DEF UnitFails, Fault, TypeOK, ReplayAssumption
<1>2. Kept'
  BY <1>1, KeptStays DEF UnitFailed
<1> QED BY <1>1, <1>2, UnitFailedKeeps DEF Busy, TypeOK

LEMMA InterruptedKeeps == RInv /\ Interrupted => RInv'
<1> SUFFICES ASSUME RInv, Interrupted PROVE RInv'
  OBVIOUS
<1> USE DEF RInv
<1>1. /\ pc' = "off" /\ outcome' = "stopped" /\ todo' = {} /\ Closed
      /\ UNCHANGED <<world, kept, asOf, scratch, failed>> /\ faults' \in 0..MaxFaults
  BY ReplayAssumption DEF Interrupted, Fault, TypeOK, ReplayAssumption
<1>2. TypeOK'
  <2>1. /\ feed' \in Seq(AllEntries) /\ at' \in Nat /\ bad' \in 0..MaxQuarantined
        /\ tx' \subseteq AllEntries /\ attempt' \in 0..Attempts
    BY <1>1, ReplayAssumption DEF Closed, ReplayAssumption
  <2>2. TypeOK
    OBVIOUS
  <2> QED BY <1>1, <2>1, <2>2 DEF TypeOK, world, kept
<1>3. Published' /\ Kept' /\ Hiding'
  BY <1>1, PublishedStays, KeptStays, HidingStays DEF kept
<1>4. Asked' /\ InHand' /\ Reading' /\ Covered'
  BY <1>1 DEF Asked, Busy, InHand, Reading, Covered
<1> QED BY <1>2, <1>3, <1>4

(* The publisher's steps touch nothing the replay has.                        *)
LEMMA PublisherKeeps ==
  ASSUME RInv, UNCHANGED <<kept, pc, asOf, scratch, todo, reading, failed, outcome, faults>>,
         month' \in 1..Months + 1, avail' \in Nat, hidden' \in BOOLEAN, Published', Hiding',
         hidden => hidden'
  PROVE  RInv'
<1> USE DEF RInv
<1>1. TypeOK'
  BY DEF TypeOK, kept, reading
<1>2. Unit' = Unit /\ (IsOver(Unit)' <=> IsOver(Unit))
  BY DEF Unit, IsOver
<1>3. Asked'
  BY DEF Asked, Busy
<1>4. Kept'
  BY KeptStays DEF kept
<1>5. InHand' /\ Reading'
  BY <1>2 DEF InHand, Reading, Done, Base, Whole, Size, kept, reading
<1>6. Covered'
  BY MoreIsArchived DEF Covered, kept
<1> QED BY <1>1, <1>3, <1>4, <1>5, <1>6

LEMMA FileGrowsKeeps == RInv /\ FileGrows => RInv'
<1> SUFFICES ASSUME RInv, FileGrows PROVE RInv'
  OBVIOUS
<1> USE DEF RInv
<1>1. /\ month <= Months /\ avail < Size(month) /\ avail' = avail + 1
      /\ UNCHANGED <<month, hidden, kept, pc, asOf, scratch, todo, reading, failed, outcome, faults>>
  BY DEF FileGrows
<1>2. month \in 1..Months
  BY <1>1, ReplayAssumption DEF TypeOK, ReplayAssumption
<1>3. Size(month) \in Nat
  BY <1>2, YearIs
<1>4. Published'
  BY <1>1, <1>3 DEF Published, Size
<1>5. Hiding'
  BY <1>1, MoreIsArchived DEF Hiding, kept
<1> QED BY <1>1, <1>4, <1>5, PublisherKeeps DEF TypeOK, Published

LEMMA MonthEndsKeeps == RInv /\ MonthEnds => RInv'
<1> SUFFICES ASSUME RInv, MonthEnds PROVE RInv'
  OBVIOUS
<1> USE DEF RInv
<1>1. /\ month <= Months /\ month' = month + 1 /\ avail' = 0 /\ month \in 1..Months + 1
      /\ (hidden' <=> (month = Months /\ 1 \in marked \cup todo))
      /\ hidden' \in BOOLEAN
      /\ UNCHANGED <<kept, pc, asOf, scratch, todo, reading, failed, outcome, faults>>
      /\ Months \in Nat \ {0} /\ asOf \in 1..Months + 1
  <2>1. Months \in Nat \ {0}
    BY ReplayAssumption DEF ReplayAssumption
  <2>2. month \in 1..Months + 1 /\ asOf \in 1..Months + 1
    BY DEF TypeOK
  <2>3. /\ month < Months \/ month = Months
        /\ month' = month + 1 /\ avail' = 0
        /\ hidden' = (month = Months /\ 1 \in marked \cup todo)
        /\ UNCHANGED <<kept, pc, asOf, scratch, todo, reading, failed, outcome, faults>>
    BY DEF MonthEnds
  <2>4. month <= Months
    BY <2>1, <2>2, <2>3
  <2>5. hidden' \in BOOLEAN /\ (hidden' <=> (month = Months /\ 1 \in marked \cup todo))
    BY <2>3, ZenonT(60)
  <2> QED BY <2>1, <2>2, <2>3, <2>4, <2>5
<1>2. ~hidden
  BY <1>1 DEF Published
<1>3. Published'
  <2>1. month' <= Months => Size(month') \in Nat
    <3>1. month' <= Months => month' \in 1..Months
      BY <1>1
    <3> QED BY <3>1, YearIs
  <2>2. month' <= Months => avail' <= Size(month)'
    BY <1>1, <2>1 DEF Size
  <2>3. hidden' => month' > Months
    BY <1>1
  <2>4. asOf <= month'
    BY <1>1 DEF Published
  <2> QED BY <1>1, <2>2, <2>3, <2>4 DEF Published
<1>4. Hiding'
  <2>1. month' > Months => month = Months
    BY <1>1
  <2> QED BY <1>1, <2>1 DEF Hiding, kept
<1> QED BY <1>1, <1>2, <1>3, <1>4, PublisherKeeps

------------------------------------------------------------------------------
LEMMA InitRInv == Init => RInv
<1> SUFFICES ASSUME Init PROVE RInv
  OBVIOUS
<1>1. Months \in Nat \ {0} /\ MaxQuarantined \in Nat /\ Attempts \in Nat /\ MaxFaults \in Nat
  BY ReplayAssumption DEF ReplayAssumption
<1>2. TypeOK
  <2>1. /\ 1 \in 1..Months + 1 /\ 0 \in Nat /\ 0 \in 0..MaxQuarantined
        /\ 0 \in 0..Attempts /\ 0 \in 0..MaxFaults
    BY <1>1
  <2>2. << >> \in Seq(AllEntries) /\ [d \in 1..Months |-> 0] \in [1..Months -> Nat]
    OBVIOUS
  <2> QED BY <2>1, <2>2 DEF Init, TypeOK
<1>3. Published
  <2>1. 1 \in 1..Months
    BY <1>1
  <2>2. Size(1) \in Nat
    BY <2>1, YearIs
  <2> QED BY <1>1, <2>2 DEF Init, Published
<1>4. Asked /\ Kept /\ InHand /\ Reading /\ Covered /\ Hiding
  <2>1. \A m \in 1..Months : progress[m] = 0
    BY DEF Init
  <2>2. Kept
    BY <2>1 DEF Init, Kept
  <2> QED BY <1>1, <2>2 DEF Init, Asked, Busy, InHand, Reading, Covered, Hiding
<1> QED BY <1>2, <1>3, <1>4 DEF RInv

LEMMA NextRInv == RInv /\ [Next]_vars => RInv'
<1> SUFFICES ASSUME RInv, [Next]_vars PROVE RInv'
  OBVIOUS
<1>1. CASE UNCHANGED vars
  <2>1. UNCHANGED <<kept, pc, asOf, scratch, todo, reading, failed, outcome, faults, world>>
    BY <1>1 DEF vars
  <2>2. Published' /\ Hiding'
    BY <2>1, PublishedStays, HidingStays DEF RInv, kept
  <2> QED BY <2>1, <2>2, PublisherKeeps DEF RInv, TypeOK, world
<1>2. CASE IdleCommit
  BY <1>2, CommittedKeeps DEF IdleCommit
<1>3. CASE EndUnit
  BY <1>3, CommittedKeeps DEF EndUnit
<1> QED
  BY <1>1, <1>2, <1>3, StartKeeps, OpenUnitKeeps, ReadEntryKeeps, SettleKeeps, MarkUnitKeeps,
     FinishKeeps, ConnectionLostKeeps, UnitFailsKeeps, InterruptedKeeps, FileGrowsKeeps,
     MonthEndsKeeps DEF Next, Step

LEMMA Invariance == Spec => []RInv
  BY InitRInv, NextRInv, PTL DEF Spec

(* Every variable of the replay keeps its type.                               *)
THEOREM ReplayTypes == Spec => []TypeOK
<1>1. RInv => TypeOK
  BY DEF RInv
<1> QED BY Invariance, <1>1, PTL

(* The entries a rerun would skip are committed or were quarantined, in every *)
(* state: the count is committed with the rows it counts, whatever stops,     *)
(* fails or is tried again, while the files grow and the years turn.          *)
THEOREM SkippedIsCommitted == Spec => []ProgressIsCommitted
<1>1. RInv => ProgressIsCommitted
  <2> SUFFICES ASSUME RInv, NEW m \in 1..Months, NEW i \in 1..progress[m]
               PROVE  Year[Ends[m - 1] + i] \in archived \cup Poisoned
    BY DEF ProgressIsCommitted
  <2>1. Base(m) = Ends[m - 1]
    BY DEF Base, Annual
  <2> QED BY <2>1 DEF RInv, Kept, Done
<1> QED BY Invariance, <1>1, PTL

(* A month is marked done, and a run without a failed unit reported complete, *)
(* only when what it stands for is archived or quarantined: for any number of *)
(* months, entries and attempts, with runs resumed or from scratch.           *)
THEOREM MarkedIsReplayed == Spec => []DoneIsReplayed
<1>1. RInv => DoneIsReplayed
  <2> SUFFICES ASSUME RInv PROVE DoneIsReplayed
    OBVIOUS
  <2>1. \A m \in marked : Replayed(m)
    BY DEF RInv, Kept
  <2>2. ASSUME outcome = "complete", ~(hidden /\ asOf > Months), NEW m \in 1..asOf - 1
        PROVE  Replayed(m)
    <3>1. m \in 1..Months /\ m < asOf
      BY ReplayAssumption DEF RInv, TypeOK, ReplayAssumption
    <3> QED BY <2>2, <3>1 DEF RInv, Covered
  <2> QED BY <2>1, <2>2 DEF DoneIsReplayed
<1> QED BY Invariance, <1>1, PTL
==============================================================================
