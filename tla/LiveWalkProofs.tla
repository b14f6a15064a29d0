---------------------------- MODULE LiveWalkProofs ---------------------------
(* What LiveWalk promises of the mark, of a success, of the overlap and of the *)
(* archives, proved for any sizes of files, caps, limits, entries and faults:  *)
(* a walk reads a run of the newest entries without a gap, the mark is left    *)
(* only when that run reaches back to the mark before, and what comes due      *)
(* under a feed that froze is of a month whose archive is read that night.     *)
EXTENDS LiveWalk, WellFoundedInduction, TLAPS

------------------------------------------------------------------------------
(* Least and greatest numbers, and the order of the files.                    *)

LEMMA Least ==
  ASSUME NEW S, S \subseteq Nat, S # {}
  PROVE  Min(S) \in S /\ \A y \in S : Min(S) <= y
<1>1. PICK x \in S : \A y \in S : ~ (<<y, x>> \in OpToRel(<, Nat))
  BY NatLessThanWellFounded, WFMin
<1>2. \A y \in S : y \in Nat /\ (y < x => <<y, x>> \in OpToRel(<, Nat))
  BY DEF OpToRel
<1>3. ASSUME NEW y \in S PROVE x <= y
  <2>1. ~(y < x)
    BY <1>1, <1>2
  <2>2. x \in Nat /\ y \in Nat
    OBVIOUS
  <2> QED BY <2>1, <2>2
<1> QED BY <1>1, <1>3 DEF Min

LEMMA Greatest ==
  ASSUME NEW n \in Nat, NEW S, S \subseteq 0 .. n, S # {}
  PROVE  Max(S) \in S /\ \A y \in S : Max(S) >= y
<1> DEFINE T == {n - x : x \in S}
<1>1. T \subseteq Nat /\ T # {}
  <2>1. \A x \in S : n - x \in Nat
    OBVIOUS
  <2>2. PICK x : x \in S
    OBVIOUS
  <2>3. n - x \in T
    BY <2>2
  <2> QED BY <2>1, <2>3
<1>2. Min(T) \in T /\ \A y \in T : Min(T) <= y
  BY <1>1, Least
<1>3. PICK m \in S : Min(T) = n - m
  BY <1>2
<1>4. \A y \in S : n - m <= n - y
  BY <1>2, <1>3
<1>5. \A y \in S : m >= y
  BY <1>4
<1> QED BY <1>5 DEF Max

LEMMA FilesInOrder ==
  ASSUME NEW i \in Nat \ {0}, NEW j \in Nat \ {0}, i <= j
  PROVE  File(i) \in Nat /\ File(i) <= File(j)
<1>1. Size \in Nat \ {0}
  BY LiveWalkAssumption DEF LiveWalkAssumption
<1> DEFINE p == (i - 1) \div Size
<1> DEFINE q == (j - 1) \div Size
<1>2. p \in Nat /\ Size * p <= i - 1
  BY <1>1
<1>3. q \in Nat /\ j - 1 < Size * (q + 1)
  BY <1>1
<1>4. Size * p < Size * (q + 1)
  BY <1>1, <1>2, <1>3
<1>5. p < q + 1
  BY <1>1, <1>2, <1>3, <1>4
<1> QED BY <1>2, <1>3, <1>5 DEF File

------------------------------------------------------------------------------
(* What a walk saw: the entries it read, parsed or not, are the last ones up  *)
(* to the head, without a gap, as far back as its mark unless it was cut off, *)
(* and at least its first pages.                                              *)
Seen(w) == w.read \cup w.unread

Walked(w, n, m) ==
  /\ w.upto \in 1 .. n /\ w.until = m
  /\ w.read \subseteq 1 .. w.upto /\ w.unread \subseteq Malformed
  /\ w.newest = NewestOf(w.read)
  /\ \A i \in w.read, j \in 1 .. w.upto : i <= j => j \in Seen(w)
  /\ ~w.capped /\ ~w.refused /\ m # 0 => \A j \in 1 .. w.upto : j > m => j \in Seen(w)
  /\ ~w.refused => \A j \in 1 .. w.upto : File(j) + MinPages > File(w.upto) => j \in Seen(w)

(* The feed is in the order of its stamps, and of the past.                   *)
Stamped ==
  /\ day \in Seq(Nat) /\ now \in Nat /\ shown \in 1 .. Len(day)
  /\ \A i \in Entries : day[i] <= now
  /\ \A i, j \in Entries : i <= j => day[i] <= day[j]

(* The run in hand: what it walked, what it loaded, and that a walk that is   *)
(* not stale saw an entry of the last days.                                   *)
RunStands ==
  /\ stage \in {"loading", "closed"} => Walked(walk, shown, mark)
  /\ stage = "loading" => status = "running"
  /\ stage = "loading" /\ ~walk.stale => walk.newest # 0 /\ day[walk.newest] + StaleDays >= now
  /\ stage = "closed" => Seen(walk) \subseteq held \cup told

IInv == Stamped /\ mark \in Nat /\ reach \in Nat /\ RunStands /\ MarkStands

LEMMA InitIInv == Init => IInv
<1> SUFFICES ASSUME Init PROVE IInv
  OBVIOUS
<1>1. Stamped
  BY DEF Init, Stamped, Entries
<1>2. RunStands /\ MarkStands
  BY DEF Init, RunStands, MarkStands
<1> QED BY <1>1, <1>2 DEF Init, IInv

(* The walk: `Observed` is `Walked`.                                          *)
LEMMA PagesAre ==
  ASSUME NEW m, NEW away
  PROVE  LET k == Pages(m, away)
         IN  k \in 1 .. HardCap /\ (Stops(k, m) \/ k = away)
<1> DEFINE K == {k \in 1 .. HardCap : Stops(k, m) \/ k = away}
<1>1. HardCap \in Nat \ {0}
  BY LiveWalkAssumption DEF LiveWalkAssumption
<1>2. HardCap \in K /\ K \subseteq Nat
  BY <1>1 DEF Stops
<1>3. Min(K) \in K
  BY <1>2, Least
<1> QED BY <1>3 DEF Pages

LEMMA WithinUp ==
  ASSUME shown \in Nat, NEW k \in Nat, NEW i \in Within(k), NEW j \in 1 .. shown, i <= j
  PROVE  j \in Within(k)
<1>1. i \in 1 .. shown /\ File(i) + k > File(shown)
  BY DEF Within
<1>2. /\ File(i) \in Nat /\ File(i) <= File(j)
      /\ File(j) \in Nat /\ File(j) <= File(shown)
  BY <1>1, FilesInOrder
<1>3. File(shown) \in Nat
  BY <1>1, FilesInOrder
<1> QED BY <1>1, <1>2, <1>3 DEF Within

LEMMA EndsAll ==
  ASSUME shown \in Nat \ {0}, NEW k \in Nat, Ends(k), NEW j \in 1 .. shown
  PROVE  j \in Within(k)
<1>1. File(j) \in Nat /\ File(shown) \in Nat
  BY FilesInOrder
<1> QED BY <1>1 DEF Ends, Within

LEMMA ReachedAll ==
  ASSUME shown \in Nat \ {0}, NEW k \in Nat, NEW m \in Nat \ {0}, Reached(k, m),
         NEW j \in 1 .. shown, j > m
  PROVE  j \in Within(k)
<1> DEFINE page == Parsed(Within(k) \ Within(k - 1))
<1>1. page # {} /\ Min(page) <= m
  BY DEF Reached
<1>2. page \subseteq Within(k) /\ page \subseteq Nat
  BY DEF Parsed, Within
<1>3. Min(page) \in page
  BY <1>1, <1>2, Least
<1>4. Min(page) \in Within(k) /\ Min(page) \in Nat /\ Min(page) <= j
  BY <1>1, <1>2, <1>3
<1> QED BY <1>4, WithinUp

LEMMA ObservedWalked ==
  ASSUME shown \in Nat \ {0}, mark \in Nat, NEW away, NEW old \in BOOLEAN
  PROVE  Walked(Observed(mark, away, old), shown, mark)
<1> DEFINE k == Pages(mark, away)
<1> DEFINE w == Observed(mark, away, old)
<1>1. k \in 1 .. HardCap /\ k \in Nat
  BY PagesAre, LiveWalkAssumption DEF LiveWalkAssumption
<1>2. /\ w.read = Parsed(Within(k)) /\ w.unread = Within(k) \cap Malformed
      /\ w.until = mark /\ w.upto = shown /\ w.newest = NewestOf(w.read)
      /\ w.capped = (mark # 0 /\ ~Ends(k) /\ ~Reached(k, mark) /\ k = HardCap)
      /\ w.refused = ~Stops(k, mark)
  BY DEF Observed
<1> HIDE DEF w, k
<1>3. Seen(w) = Within(k) /\ w.read \subseteq 1 .. shown /\ w.unread \subseteq Malformed
  BY <1>2 DEF Seen, Parsed, Within
<1>4. ASSUME NEW i \in w.read, NEW j \in 1 .. shown, i <= j
      PROVE  j \in Seen(w)
  <2>1. i \in Within(k)
    BY <1>3 DEF Seen
  <2> QED BY <1>1, <1>3, <1>4, <2>1, WithinUp
<1>5. ASSUME ~w.capped, ~w.refused, mark # 0, NEW j \in 1 .. shown, j > mark
      PROVE  j \in Seen(w)
  <2>1. Ends(k) \/ Reached(k, mark)
    BY <1>2, <1>5 DEF Stops
  <2>2. CASE Ends(k)
    BY <1>1, <1>3, <2>2, EndsAll
  <2>3. CASE Reached(k, mark)
    BY <1>1, <1>3, <1>5, <2>3, ReachedAll
  <2> QED BY <2>1, <2>2, <2>3
<1>6. ASSUME ~w.refused, NEW j \in 1 .. shown, File(j) + MinPages > File(shown)
      PROVE  j \in Seen(w)
  <2>1. Ends(k) \/ k >= MinPages
    BY <1>1, <1>2, <1>6, LiveWalkAssumption DEF LiveWalkAssumption, Stops, Reached
  <2>2. CASE Ends(k)
    BY <1>1, <1>3, <2>2, EndsAll
  <2>3. CASE k >= MinPages
    <3>1. File(j) \in Nat /\ File(shown) \in Nat /\ MinPages \in Nat
      BY FilesInOrder, LiveWalkAssumption DEF LiveWalkAssumption
    <3> QED BY <1>1, <1>3, <1>6, <2>3, <3>1 DEF Within
  <2> QED BY <2>1, <2>2, <2>3
<1>7. /\ w.upto \in 1 .. shown /\ w.read \subseteq 1 .. w.upto
      /\ \A i \in w.read, j \in 1 .. w.upto : i <= j => j \in Seen(w)
  BY <1>2, <1>3, <1>4
<1>8. ~w.capped /\ ~w.refused /\ mark # 0 => \A j \in 1 .. w.upto : j > mark => j \in Seen(w)
  BY <1>2, <1>5
<1>9. ~w.refused => \A j \in 1 .. w.upto : File(j) + MinPages > File(w.upto) => j \in Seen(w)
  BY <1>2, <1>6
<1>10. Walked(w, shown, mark)
  BY <1>2, <1>3, <1>7, <1>8, <1>9 DEF Walked
<1> QED BY <1>10 DEF w

LEMMA NewestIs ==
  ASSUME NEW w, NEW n \in Nat, NEW m, Walked(w, n, m), w.newest # 0
  PROVE  /\ w.newest \in w.read /\ w.newest \in 1 .. w.upto
         /\ \A i \in w.read : Min(w.read) <= i
         /\ Min(w.read) \in w.read
<1>1. w.read # {} /\ w.newest = Max(w.read)
  BY DEF Walked, NewestOf
<1>2. w.upto \in Nat /\ w.read \subseteq 1 .. w.upto
  BY DEF Walked
<1>3. Max(w.read) \in w.read
  BY <1>1, <1>2, Greatest
<1>4. Min(w.read) \in w.read /\ \A i \in w.read : Min(w.read) <= i
  BY <1>1, <1>2, Least
<1> QED BY <1>1, <1>2, <1>3, <1>4

------------------------------------------------------------------------------
(* The steps.                                                                 *)

(* What a run that is over, cut short or covering leaves is taken up or told. *)
LEMMA OutOfRunIInv ==
  ASSUME IInv, UNCHANGED <<day, shown, now, mark, reach>>,
         held \subseteq held', told \subseteq told', stage' \in {"idle", "covering"}
  PROVE  IInv'
<1>1. Stamped' /\ RunStands'
  BY DEF IInv, Stamped, RunStands, Entries
<1>2. MarkStands'
  BY DEF IInv, MarkStands
<1> QED BY <1>1, <1>2 DEF IInv

LEMMA WalkIInv == ASSUME IInv, Walk PROVE IInv'
<1>1. /\ UNCHANGED <<publisher, books>>
      /\ stage' = "loading" /\ status' = "running"
  BY DEF Walk
<1>2. PICK away \in 0 .. HardCap :
        \E old \in Staleness(NewestOf(Parsed(Within(Pages(mark, away))))) :
          walk' = Observed(mark, away, old)
  BY DEF Walk
<1> PICK old \in Staleness(NewestOf(Parsed(Within(Pages(mark, away))))) :
      walk' = Observed(mark, away, old)
  BY <1>2
<1>3. old \in BOOLEAN /\ walk'.stale = old
  BY <1>2 DEF Staleness, Observed
<1>4. shown \in Nat \ {0} /\ mark \in Nat
  BY DEF IInv, Stamped
<1>5. Walked(walk', shown', mark')
  BY <1>1, <1>2, <1>3, <1>4, ObservedWalked DEF publisher, books
<1>6. ~walk'.stale => walk'.newest # 0 /\ day[walk'.newest] + StaleDays >= now
  <2>1. walk'.newest = NewestOf(Parsed(Within(Pages(mark, away))))
    BY <1>2 DEF Observed
  <2> HIDE DEF Observed
  <2>2. ASSUME ~walk'.stale
        PROVE  walk'.newest # 0 /\ ~(day[walk'.newest] + StaleDays < now)
    BY <1>2, <1>3, <2>1, <2>2 DEF Staleness
  <2>3. ASSUME walk'.newest # 0 PROVE day[walk'.newest] \in Nat
    <3>1. walk'.newest \in 1 .. shown
      BY <1>1, <1>4, <1>5, <2>3, NewestIs DEF publisher, books, Walked
    <3> QED BY <3>1 DEF IInv, Stamped
  <2>4. now \in Nat /\ StaleDays \in Nat
    BY LiveWalkAssumption DEF LiveWalkAssumption, IInv, Stamped
  <2> QED BY <2>2, <2>3, <2>4
<1>7. RunStands'
  BY <1>1, <1>5, <1>6 DEF RunStands, publisher
<1>8. Stamped' /\ MarkStands'
  BY <1>1 DEF IInv, Stamped, Entries, MarkStands, publisher, books
<1> QED BY <1>1, <1>7, <1>8 DEF IInv, books

(* What the load took up, and what a `partial` run told of, is all it saw.    *)
LEMMA CloseTakes ==
  ASSUME IInv, Close
  PROVE  /\ Seen(walk) \subseteq held' \cup told'
         /\ held \subseteq held' /\ told \subseteq told'
         /\ walk.read \ Raising \subseteq held'
         /\ status' = "success" =>
              /\ Seen(walk) \subseteq held'
              /\ ~walk.stale /\ ~walk.capped /\ ~walk.refused
<1>1. /\ held' = held \cup (walk.read \ Raising)
      /\ status' = Verdict(walk)
      /\ told' = IF status' = "partial" THEN told \cup ToldOf(walk) ELSE told
  BY DEF Close
<1>2. CASE Verdict(walk) = "partial"
  BY <1>1, <1>2 DEF Seen, ToldOf
<1>3. CASE Verdict(walk) # "partial"
  <2>1. /\ walk.unread = {} /\ walk.read \cap Raising = {}
        /\ ~walk.stale /\ ~walk.capped /\ ~walk.refused
    BY <1>3 DEF Verdict
  <2> QED BY <1>1, <1>3, <2>1 DEF Seen
<1> QED BY <1>2, <1>3

LEMMA CloseIInv == ASSUME IInv, Close PROVE IInv'
<1>1. /\ UNCHANGED <<publisher, mark, walk, reach>>
      /\ stage = "loading" /\ stage' = "closed"
  BY DEF Close
<1>2. Seen(walk') \subseteq held' \cup told' /\ held \subseteq held' /\ told \subseteq told'
  BY <1>1, CloseTakes
<1>3. RunStands'
  BY <1>1, <1>2 DEF IInv, RunStands, publisher
<1>4. Stamped' /\ MarkStands'
  BY <1>1, <1>2 DEF IInv, Stamped, Entries, MarkStands, publisher
<1> QED BY <1>1, <1>3, <1>4 DEF IInv

LEMMA LeaveMarkIInv == ASSUME IInv, LeaveMark PROVE IInv'
<1>1. /\ stage = "closed" /\ UNCHANGED <<publisher, held, told>>
      /\ mark' = IF LeavesMark(walk) THEN walk.newest ELSE mark
      /\ reach' = IF mark = 0 /\ mark' # 0 THEN Min(walk.read) ELSE reach
      /\ stage' \in {"idle", "covering"}
  BY DEF LeaveMark
<1>2. Walked(walk, shown, mark) /\ Seen(walk) \subseteq held \cup told
  BY <1>1 DEF IInv, RunStands
<1>3. Stamped' /\ RunStands'
  BY <1>1 DEF IInv, Stamped, Entries, RunStands, publisher
<1>4. CASE ~LeavesMark(walk)
  <2>1. mark' = mark /\ reach' = reach
    BY <1>1, <1>4
  <2> QED BY <1>1, <1>3, <2>1 DEF IInv, MarkStands
<1>5. CASE LeavesMark(walk)
  <2>1. walk.newest # 0 /\ ~walk.capped /\ ~walk.refused /\ mark' = walk.newest
    BY <1>1, <1>5 DEF LeavesMark
  <2>2. shown \in Nat /\ mark \in Nat /\ reach \in Nat
    BY DEF IInv, Stamped
  <2>3. /\ walk.newest \in 1 .. walk.upto /\ walk.upto \in Nat
        /\ Min(walk.read) \in walk.read /\ Min(walk.read) \in Nat
    BY <1>2, <2>1, <2>2, NewestIs DEF Walked
  <2>4. mark' \in Nat /\ reach' \in Nat
    BY <1>1, <2>1, <2>2, <2>3
  <2>5. ASSUME NEW i \in reach' .. mark', i # 0 PROVE i \in held \cup told
    <3>1. i \in 1 .. walk.upto
      BY <2>1, <2>3, <2>4, <2>5
    <3>2. CASE mark = 0
      <4>1. reach' = Min(walk.read) /\ Min(walk.read) <= i
        BY <1>1, <2>1, <2>4, <2>5, <3>2
      <4>2. i \in Seen(walk)
        BY <1>2, <2>3, <3>1, <4>1 DEF Walked
      <4> QED BY <1>2, <4>2
    <3>3. CASE mark # 0 /\ i <= mark
      <4>1. i \in reach .. mark
        BY <1>1, <2>2, <2>5, <3>1, <3>3
      <4> QED BY <2>5, <4>1 DEF IInv, MarkStands
    <3>4. CASE mark # 0 /\ ~(i <= mark)
      <4>1. i > mark
        BY <2>2, <3>1, <3>4
      <4>2. i \in Seen(walk)
        BY <1>2, <2>1, <3>1, <3>4, <4>1 DEF Walked
      <4> QED BY <1>2, <4>2
    <3> QED BY <3>2, <3>3, <3>4
  <2>6. MarkStands'
    BY <1>1, <2>5 DEF MarkStands
  <2> QED BY <1>3, <2>4, <2>6 DEF IInv
<1> QED BY <1>4, <1>5

LEMMA OutsideIInv == ASSUME IInv, Outside PROVE IInv'
<1>1. UNCHANGED <<books, status, stage, walk>>
  BY DEF Outside
<1>2. /\ day \in Seq(Nat) /\ Len(day) \in Nat /\ now \in Nat
      /\ shown \in 1 .. Len(day) /\ shown \in Nat
  BY DEF IInv, Stamped
<1>3. Stamped' /\ shown <= shown' /\ now' = now /\ \A i \in Entries : day'[i] = day[i]
  <2>1. CASE Publish
    <3>1. day' = Append(day, now) /\ shown' = shown /\ now' = now
      BY <2>1 DEF Publish
    <3>2. /\ day' \in Seq(Nat) /\ Len(day') = Len(day) + 1 /\ day'[Len(day) + 1] = now
          /\ \A i \in 1 .. Len(day) : day'[i] = day[i]
      BY <1>2, <3>1
    <3>3. DOMAIN day = 1 .. Len(day) /\ DOMAIN day' = 1 .. Len(day) + 1
      BY <1>2, <3>2
    <3>4. \A i \in DOMAIN day' : i \in DOMAIN day \/ i = Len(day) + 1
      BY <1>2, <3>3
    <3>5. ASSUME NEW i \in DOMAIN day' PROVE day'[i] <= now /\ day'[i] \in Nat
      <4>1. CASE i = Len(day) + 1
        BY <1>2, <3>2, <4>1
      <4>2. CASE i \in DOMAIN day
        <5>1. day[i] <= now /\ day[i] \in Nat
          BY <1>2, <4>2 DEF IInv, Stamped, Entries
        <5> QED BY <3>2, <3>3, <4>2, <5>1
      <4> QED BY <3>4, <4>1, <4>2
    <3>6. ASSUME NEW i \in DOMAIN day', NEW j \in DOMAIN day', i <= j PROVE day'[i] <= day'[j]
      <4>1. CASE j = Len(day) + 1
        BY <3>2, <3>5, <4>1
      <4>2. CASE j # Len(day) + 1
        <5>1. i \in DOMAIN day /\ j \in DOMAIN day
          BY <1>2, <3>3, <3>6, <4>2
        <5>2. day[i] <= day[j]
          BY <3>6, <5>1 DEF IInv, Stamped, Entries
        <5> QED BY <3>2, <3>3, <5>1, <5>2
      <4> QED BY <4>1, <4>2
    <3>7. shown' \in 1 .. Len(day')
      BY <1>2, <3>1, <3>2
    <3>8. Stamped'
      BY <1>2, <3>1, <3>2, <3>5, <3>6, <3>7 DEF Stamped, Entries
    <3> QED BY <1>2, <3>1, <3>2, <3>3, <3>8 DEF Entries
  <2>2. ASSUME NEW i \in 1 .. MaxEntries, ShowUpTo(i)
        PROVE  /\ Stamped' /\ shown <= shown' /\ now' = now
               /\ \A e \in Entries : day'[e] = day[e]
    <3>1. shown' \in 1 .. Len(day) /\ shown <= shown' /\ UNCHANGED <<day, now>>
      BY <1>2, <2>2 DEF ShowUpTo
    <3> QED BY <3>1 DEF IInv, Stamped, Entries
  <2>3. CASE Mend
    BY <1>2, <2>3 DEF Mend, IInv, Stamped, Entries
  <2> QED BY <2>1, <2>2, <2>3 DEF Outside
<1>4. RunStands'
  <2>1. stage' \in {"loading", "closed"} => Walked(walk', shown', mark')
    <3> SUFFICES ASSUME stage \in {"loading", "closed"} PROVE Walked(walk, shown', mark)
      BY <1>1 DEF books
    <3>1. Walked(walk, shown, mark) /\ shown' \in Nat
      BY <1>3 DEF IInv, RunStands, Stamped
    <3>2. walk.upto \in 1 .. shown'
      BY <1>2, <1>3, <3>1 DEF Walked
    <3> QED BY <3>1, <3>2 DEF Walked
  <2>2. ASSUME stage = "loading", ~walk.stale
        PROVE  walk.newest # 0 /\ day'[walk.newest] + StaleDays >= now'
    <3>1. /\ Walked(walk, shown, mark)
          /\ walk.newest # 0 /\ day[walk.newest] + StaleDays >= now
      BY <2>2 DEF IInv, RunStands
    <3>2. walk.newest \in 1 .. shown
      <4>1. walk.newest \in 1 .. walk.upto
        BY <1>2, <3>1, NewestIs
      <4>2. walk.upto \in 1 .. shown
        BY <3>1 DEF Walked
      <4> QED BY <1>2, <4>1, <4>2
    <3>3. walk.newest \in Entries
      BY <1>2, <3>2 DEF Entries
    <3> QED BY <1>3, <3>1, <3>3
  <2> QED BY <1>1, <2>1, <2>2 DEF IInv, RunStands, Seen, books
<1>5. MarkStands'
  BY <1>1 DEF IInv, MarkStands, books
<1> QED BY <1>1, <1>3, <1>4, <1>5 DEF IInv, books

LEMMA NextDayIInv == ASSUME IInv, NextDay PROVE IInv'
<1>1. stage = "idle" /\ now' = now + 1 /\ UNCHANGED <<day, shown, books, stage>>
  BY DEF NextDay
<1>2. Stamped'
  BY <1>1 DEF IInv, Stamped, Entries
<1>3. RunStands' /\ MarkStands'
  BY <1>1 DEF IInv, RunStands, MarkStands, books
<1> QED BY <1>1, <1>2, <1>3 DEF IInv, books

LEMMA StepIInv == IInv /\ [Next]_vars => IInv'
<1> SUFFICES ASSUME IInv, [Next]_vars PROVE IInv'
  OBVIOUS
<1>1. CASE NoAnswer \/ LoadBreaks \/ DiesUnmarked
  BY <1>1, OutOfRunIInv DEF NoAnswer, LoadBreaks, DiesUnmarked, CutShort, publisher, books
<1>2. CASE CoverBreaks
  BY <1>2, OutOfRunIInv DEF CoverBreaks, CutShort, publisher
<1>3. CASE Cover \/ SkipArchive
  BY <1>3, OutOfRunIInv DEF Cover, SkipArchive, Covered, publisher
<1>4. CASE UNCHANGED vars
  <2>1. UNCHANGED <<day, shown, now, held, mark, status, stage, walk, reach, told>>
    BY <1>4 DEF vars
  <2>2. Stamped' /\ MarkStands' /\ RunStands'
    BY <2>1 DEF IInv, Stamped, Entries, MarkStands, RunStands
  <2> QED BY <2>1, <2>2 DEF IInv
<1> QED BY <1>1, <1>2, <1>3, <1>4, WalkIInv, CloseIInv, LeaveMarkIInv, OutsideIInv,
        NextDayIInv DEF Next

------------------------------------------------------------------------------
(* The invariant holds in every state.                                        *)
THEOREM Inductive == Spec => []IInv
BY InitIInv, StepIInv, PTL DEF Spec

(* Whatever froze, burst, broke off or was refused, no entry between where the *)
(* first walk began and the mark is missing that no run told of.               *)
THEOREM MarkCovers == Spec => []MarkStands
<1>1. IInv => MarkStands
  BY DEF IInv
<1> QED BY <1>1, Inductive, PTL

(* A step that closes a load: it is Close, and says what it saw.              *)
LEMMA OnlyCloseEnds ==
  ASSUME IInv, Next, stage = "loading", status' = "success" \/ stage' = "closed"
  PROVE  Close
<1>1. status = "running"
  BY DEF IInv, RunStands
<1> QED BY <1>1 DEF Next, Walk, NoAnswer, LoadBreaks, LeaveMark, DiesUnmarked, Cover,
        SkipArchive, CoverBreaks, CutShort, Outside, NextDay

(* A run that closes as `success` holds every entry after the mark it set out *)
(* from that is older than the limit for a stale feed, in the feed or not.    *)
THEOREM SuccessHolds == Spec => SuccessIsComplete
<1> DEFINE Holds == stage = "loading" /\ status' = "success" =>
             \A i \in Entries :
               /\ i > walk.until
               /\ walk.until # 0 \/ i >= Min(walk.read)
               /\ day[i] + StaleDays < now
               => i \in held'
<1>1. IInv /\ [Next]_vars => [Holds]_vars
  <2> SUFFICES ASSUME IInv, Next, stage = "loading", status' = "success",
                      NEW i \in Entries, i > walk.until,
                      walk.until # 0 \/ i >= Min(walk.read), day[i] + StaleDays < now
               PROVE  i \in held'
    OBVIOUS
  <2>1. Close
    BY OnlyCloseEnds
  <2>2. /\ Seen(walk) \subseteq held'
        /\ ~walk.stale /\ ~walk.capped /\ ~walk.refused
    BY <2>1, CloseTakes
  <2>3. /\ Walked(walk, shown, mark) /\ walk.newest # 0
        /\ day[walk.newest] + StaleDays >= now
    BY <2>2 DEF IInv, RunStands
  <2>4. /\ shown \in 1 .. Len(day) /\ Len(day) \in Nat /\ now \in Nat /\ StaleDays \in Nat
        /\ day \in Seq(Nat) /\ mark \in Nat /\ i \in 1 .. Len(day)
    <3>1. shown \in 1 .. Len(day) /\ now \in Nat /\ day \in Seq(Nat) /\ mark \in Nat
      BY DEF IInv, Stamped
    <3>2. Len(day) \in Nat /\ DOMAIN day = 1 .. Len(day)
      BY <3>1
    <3> QED BY <3>1, <3>2, LiveWalkAssumption DEF LiveWalkAssumption, Entries
  <2>5. /\ walk.newest \in 1 .. walk.upto /\ walk.upto \in 1 .. shown
        /\ Min(walk.read) \in walk.read /\ walk.until = mark
    <3>1. walk.upto \in 1 .. shown /\ walk.until = mark
      BY <2>3 DEF Walked
    <3>2. shown \in Nat
      BY <2>4
    <3>3. walk.newest \in 1 .. walk.upto /\ Min(walk.read) \in walk.read
      <4> HIDE DEF Holds
      <4> QED BY ONLY <2>3, <3>2, NewestIs
    <3> QED BY <3>1, <3>3
  <2>6. i <= walk.upto
    <3>1. SUFFICES ASSUME i > walk.newest PROVE FALSE
      BY <2>4, <2>5
    <3>2. walk.newest \in Entries /\ walk.newest <= i
      BY <2>4, <2>5, <3>1 DEF Entries
    <3>3. day[walk.newest] <= day[i] /\ day[walk.newest] \in Nat /\ day[i] \in Nat
      BY <2>4, <3>2 DEF IInv, Stamped, Entries
    <3> QED BY <2>3, <2>4, <3>3, SMTT(30)
  <2>7. i \in Seen(walk)
    <3>1. i \in 1 .. walk.upto
      BY <2>4, <2>5, <2>6
    <3>2. CASE mark # 0
      BY <2>2, <2>3, <2>5, <3>1, <3>2 DEF Walked
    <3>3. CASE mark = 0
      BY <2>3, <2>5, <3>1, <3>3 DEF Walked
    <3> QED BY <3>2, <3>3
  <2> QED BY <2>2, <2>7
<1> QED BY <1>1, Inductive, PTL DEF Spec, SuccessIsComplete

(* An entry in the first pages of a walk is tried again, behind the mark or   *)
(* not, and taken up once the code is mended.                                 *)
THEOREM OverlapRetries == Spec => OverlapIsRetried
<1> DEFINE Retried == stage = "loading" /\ stage' = "closed" /\ mended /\ ~walk.refused =>
             \A i \in told \cap Poisoned :
               i <= walk.upto /\ File(i) + MinPages > File(walk.upto)
               => i \in held' \cup Malformed
<1>1. IInv /\ [Next]_vars => [Retried]_vars
  <2> SUFFICES ASSUME IInv, Next, stage = "loading", stage' = "closed", mended, ~walk.refused,
                      NEW i \in told \cap Poisoned, i <= walk.upto,
                      File(i) + MinPages > File(walk.upto)
               PROVE  i \in held' \cup Malformed
    OBVIOUS
  <2>1. Close
    BY OnlyCloseEnds
  <2>2. walk.read \subseteq held'
    BY <2>1, CloseTakes DEF Raising
  <2>3. Walked(walk, shown, mark)
    BY DEF IInv, RunStands
  <2>4. i \in 1 .. walk.upto
    <3>1. i \in 1 .. MaxEntries /\ MaxEntries \in Nat
      BY LiveWalkAssumption DEF LiveWalkAssumption
    <3>2. walk.upto \in Nat
      BY <2>3 DEF Walked, IInv, Stamped
    <3> QED BY <3>1, <3>2
  <2>5. i \in Seen(walk) /\ walk.unread \subseteq Malformed
    BY <2>3, <2>4 DEF Walked
  <2> QED BY <2>2, <2>5 DEF Seen
<1> QED BY <1>1, Inductive, PTL DEF Spec, OverlapIsRetried

------------------------------------------------------------------------------
(* In time. `Due(d)`: what must be taken up or told of on day `d`, when its    *)
(* run is over.                                                                *)
Due(d) ==
  \A i \in Parsed(Entries) : i >= reach /\ day[i] + StaleDays < d => i \in held \cup told

(* While the archives are read: what is due is there, or in one yet to come.   *)
Owed ==
  \A i \in Parsed(Entries) :
    i >= reach /\ day[i] + StaleDays < now =>
      i \in held \cup told \/ \E k \in 1 .. Len(months) : months[k] = Month(day[i])

(* The days before are settled; the run in hand was not capped or refused; one *)
(* that is not stale saw an entry of the last days, one that is left its mark  *)
(* where it ended.                                                             *)
Prompt ==
  /\ now # 0 /\ \A i \in Entries : day[i] # 0
  /\ mark = 0 => reach = 0
  /\ stage # "idle" => ran
  /\ stage = "closed" /\ ~walk.stale => walk.newest # 0 /\ day[walk.newest] + StaleDays >= now
  /\ unbroken => Due(now - 1)
  /\ unbroken /\ stage # "idle" => ~walk.capped /\ ~walk.refused
  /\ unbroken /\ stage = "covering" =>
       /\ months \in Seq(Nat) /\ months # <<>> /\ walk.newest \in {0, mark}
       /\ Owed
  /\ PromptlyHeld

LEMMA InitPrompt == Init => Prompt
<1> SUFFICES ASSUME Init PROVE Prompt
  OBVIOUS
<1>1. /\ day = <<1>> /\ now = 1 /\ stage = "idle" /\ ~ran /\ mark = 0 /\ reach = 0
      /\ StaleDays \in Nat
  BY LiveWalkAssumption DEF LiveWalkAssumption, Init
<1>2. Due(now - 1)
  BY <1>1 DEF Due, Parsed, Entries
<1> QED BY <1>1, <1>2 DEF Prompt, PromptlyHeld, Entries

(* The months: an entry that has just come due is of this month, or of the one *)
(* before while that one is still read.                                        *)
LEMMA OfTheseMonths ==
  ASSUME NEW d \in Nat \ {0}, NEW n \in Nat \ {0}, d + StaleDays + 1 = n
  PROVE  /\ Month(d) \in Nat /\ Month(n) \in Nat
         /\ \/ Month(d) = Month(n)
            \/ Month(d) = Month(n) - 1 /\ DayOfMonth(n) <= Early /\ Month(n) > 0
<1>1. /\ MonthLength \in Nat \ {0} /\ StaleDays \in Nat /\ Early \in Nat
      /\ StaleDays + 1 <= Early /\ Early <= MonthLength
  BY LiveWalkAssumption DEF LiveWalkAssumption
<1> DEFINE p == (d - 1) \div MonthLength
<1> DEFINE q == (n - 1) \div MonthLength
<1> DEFINE r == (d - 1) % MonthLength
<1> DEFINE t == (n - 1) % MonthLength
<1>2. p \in Nat /\ r \in 0 .. MonthLength - 1 /\ d - 1 = MonthLength * p + r
  BY <1>1
<1>3. q \in Nat /\ t \in 0 .. MonthLength - 1 /\ n - 1 = MonthLength * q + t
  BY <1>1
<1> HIDE DEF p, q, r, t
<1>4. MonthLength * q + t = MonthLength * p + r + StaleDays + 1
  BY <1>1, <1>2, <1>3
<1>5. p <= q
  <2>1. SUFFICES ASSUME p >= q + 1 PROVE FALSE
    BY <1>2, <1>3
  <2>2. MonthLength * p >= MonthLength * q + MonthLength
    BY <1>1, <1>2, <1>3, <2>1
  <2>3. MonthLength * p \in Nat /\ MonthLength * q \in Nat
    BY <1>1, <1>2, <1>3
  <2> QED BY <1>1, <1>2, <1>3, <1>4, <2>2, <2>3
<1>6. q <= p + 1
  <2>1. SUFFICES ASSUME q >= p + 2 PROVE FALSE
    BY <1>2, <1>3
  <2>2. MonthLength * q >= MonthLength * p + MonthLength + MonthLength
    BY <1>1, <1>2, <1>3, <2>1
  <2>3. MonthLength * p \in Nat /\ MonthLength * q \in Nat
    BY <1>1, <1>2, <1>3
  <2> QED BY <1>1, <1>2, <1>3, <1>4, <2>2, <2>3
<1>7. ASSUME q = p + 1 PROVE t + 1 <= Early
  <2>1. MonthLength * q = MonthLength * p + MonthLength
    BY <1>1, <1>2, <1>7
  <2>2. MonthLength * p \in Nat
    BY <1>1, <1>2
  <2> QED BY <1>1, <1>2, <1>3, <1>4, <2>1, <2>2
<1> QED BY <1>2, <1>3, <1>5, <1>6, <1>7 DEF Month, DayOfMonth, p, q, t

(* A run that is cut short promises nothing.                                   *)
LEMMA CutShortPrompt ==
  ASSUME Prompt, CutShort, UNCHANGED <<day, now, mark, reach>>
  PROVE  Prompt'
BY DEF Prompt, CutShort, PromptlyHeld, Entries

LEMMA WalkPrompt == ASSUME IInv, Prompt, Walk PROVE Prompt'
<1>1. /\ UNCHANGED <<day, now, books>> /\ stage' = "loading" /\ ran'
      /\ unbroken' = (unbroken /\ ~walk'.refused /\ ~walk'.capped)
  BY DEF Walk, publisher
<1>2. Due(now - 1) => Due(now - 1)'
  BY <1>1 DEF Due, Entries, books
<1> QED BY <1>1, <1>2 DEF Prompt, PromptlyHeld, Entries, books

LEMMA ClosePrompt == ASSUME IInv, Prompt, Close PROVE Prompt'
<1>1. /\ UNCHANGED <<day, now, ran, mark, walk, reach, unbroken>>
      /\ stage = "loading" /\ stage' = "closed"
  BY DEF Close, publisher
<1>2. held \subseteq held' /\ told \subseteq told'
  BY CloseTakes
<1>3. Due(now - 1) => Due(now - 1)'
  BY <1>1, <1>2 DEF Due, Entries
<1> QED BY <1>1, <1>3 DEF Prompt, PromptlyHeld, Entries, IInv, RunStands

(* An entry that is due, when the walk leaves its mark: a walk that is not     *)
(* stale ended after it; if it is stale, the entry was settled the day before  *)
(* or is in the archives that are read.                                        *)
LEMMA LeaveMarkPrompt == ASSUME IInv, Prompt, LeaveMark PROVE Prompt'
<1>1. /\ UNCHANGED <<day, now, ran, held, told, unbroken>>
      /\ stage = "closed"
      /\ mark' = IF LeavesMark(walk) THEN walk.newest ELSE mark
      /\ reach' = IF mark = 0 /\ mark' # 0 THEN Min(walk.read) ELSE reach
  BY DEF LeaveMark, publisher
<1>2. IInv'
  BY LeaveMarkIInv
<1>3. /\ day \in Seq(Nat) /\ now \in Nat \ {0} /\ StaleDays \in Nat
      /\ reach \in Nat /\ reach' \in Nat /\ mark' \in Nat
      /\ \A i \in Entries : i \in Nat \ {0} /\ day[i] \in Nat \ {0}
  <2>1. \A i \in DOMAIN day : i \in Nat \ {0} /\ day[i] \in Nat
    BY DEF IInv, Stamped
  <2> QED BY <1>2, <2>1, LiveWalkAssumption DEF LiveWalkAssumption, IInv, Stamped, Prompt, Entries
<1>4. mark' = 0 => reach' = 0
  <2>1. ASSUME mark' = 0 PROVE mark = 0
    BY <1>1, <2>1 DEF LeavesMark
  <2> QED BY <1>1, <2>1 DEF Prompt
<1>5. ASSUME NEW i \in Nat, i >= reach' PROVE i >= reach
  BY <1>1, <1>3, <1>5 DEF Prompt
<1>6. unbroken => Due(now - 1)'
  BY <1>1, <1>3, <1>5 DEF Due, Entries, Parsed, Prompt
<1>7. unbroken => ~walk.capped /\ ~walk.refused
  BY <1>1 DEF Prompt
<1>8. CASE walk.stale
  <2>1. stage' = "covering" /\ months' = MonthsToRead /\ walk' = walk
    BY <1>8 DEF LeaveMark
  <2>2. Month(now) \in Nat /\ now - 1 \in Nat
    <3>1. MonthLength \in Nat \ {0} /\ now - 1 \in Nat
      BY <1>3, LiveWalkAssumption DEF LiveWalkAssumption
    <3>2. (now - 1) \div MonthLength \in Nat
      BY <3>1
    <3> QED BY <3>1, <3>2 DEF Month
  <2>3. months' \in Seq(Nat) /\ months' # <<>>
    BY <2>1, <2>2 DEF MonthsToRead
  <2>4. unbroken => walk'.newest \in {0, mark'}
    BY <1>1, <1>7, <2>1 DEF LeavesMark
  <2>5. ASSUME unbroken PROVE Owed'
    <3> SUFFICES ASSUME NEW i \in Parsed(Entries), i >= reach', day[i] + StaleDays < now,
                        i \notin held \cup told
                 PROVE  \E k \in 1 .. Len(months') : months'[k] = Month(day[i])
      BY <1>1 DEF Owed, Entries
    <3>1. day[i] \in Nat \ {0} /\ i \in Entries
      BY <1>3 DEF Parsed
    <3>2. ~(day[i] + StaleDays < now - 1)
      BY <1>3, <1>5, <2>5, <3>1 DEF Prompt, Due
    <3>3. day[i] + StaleDays + 1 = now
      BY <1>3, <3>1, <3>2
    <3>4. \/ Month(day[i]) = Month(now)
          \/ Month(day[i]) = Month(now) - 1 /\ DayOfMonth(now) <= Early /\ Month(now) > 0
      BY <1>3, <3>1, <3>3, OfTheseMonths
    <3>5. CASE DayOfMonth(now) <= Early /\ Month(now) > 0
      <4>1. months' = <<Month(now) - 1, Month(now)>>
        BY <2>1, <3>5 DEF MonthsToRead
      <4>2. Len(months') = 2 /\ months'[1] = Month(now) - 1 /\ months'[2] = Month(now)
        BY <4>1
      <4> QED BY <3>4, <4>2
    <3>6. CASE ~(DayOfMonth(now) <= Early /\ Month(now) > 0)
      <4>1. months' = <<Month(now)>>
        BY <2>1, <3>6 DEF MonthsToRead
      <4>2. Len(months') = 1 /\ months'[1] = Month(now)
        BY <4>1
      <4> QED BY <3>4, <3>6, <4>2
    <3> QED BY <3>5, <3>6
  <2> QED BY <1>1, <1>4, <1>6, <1>7, <2>1, <2>3, <2>4, <2>5 DEF Prompt, PromptlyHeld, Entries
<1>9. CASE ~walk.stale
  <2>1. stage' = "idle"
    BY <1>9 DEF LeaveMark
  <2>2. walk.newest # 0 /\ day[walk.newest] + StaleDays >= now
    BY <1>1, <1>9 DEF Prompt
  <2>3. ASSUME unbroken PROVE PromptlyHeld'
    <3> SUFFICES ASSUME NEW i \in Parsed(Entries), i >= reach', day[i] + StaleDays < now
                 PROVE  i \in held \cup told
      BY <1>1 DEF PromptlyHeld, Entries
    <3>1. mark' = walk.newest /\ MarkStands'
      BY <1>1, <1>2, <1>7, <2>2, <2>3 DEF LeavesMark, IInv
    <3>2. i \in Entries /\ i \in Nat \ {0} /\ day[i] \in Nat
      BY <1>3 DEF Parsed
    <3>3. walk.newest \in Entries
      <4>1. Walked(walk, shown, mark) /\ shown \in 1 .. Len(day) /\ Len(day) \in Nat
        BY <1>1, <1>3 DEF IInv, RunStands, Stamped
      <4>2. walk.newest \in 1 .. walk.upto /\ walk.upto \in 1 .. shown
        BY <2>2, <4>1, NewestIs DEF Walked
      <4>3. DOMAIN day = 1 .. Len(day)
        BY <1>3
      <4> QED BY <4>1, <4>2, <4>3 DEF Entries
    <3>4. i <= mark'
      <4>1. SUFFICES ASSUME walk.newest <= i PROVE FALSE
        BY <1>3, <3>1, <3>2
      <4>2. day[walk.newest] <= day[i] /\ day[walk.newest] \in Nat
        BY <1>3, <3>2, <3>3, <4>1 DEF IInv, Stamped
      <4> QED BY <1>3, <2>2, <3>2, <4>2, SMTT(30)
    <3>5. i \in reach' .. mark'
      BY <1>3, <3>2, <3>4
    <3> QED BY <1>1, <3>1, <3>2, <3>5 DEF MarkStands
  <2>4. unbroken' = unbroken
    BY <1>1
  <2> QED BY <1>1, <1>4, <1>6, <2>1, <2>3, <2>4 DEF Prompt, PromptlyHeld, Entries
<1> QED BY <1>8, <1>9

(* An archive that is read, or left alone, owes nothing of its month any more. *)
LEMMA CoveredPrompt ==
  ASSUME Prompt, IInv, stage = "covering", Covered, held \subseteq held', told \subseteq told',
         unbroken => \A i \in Parsed(Entries) :
           i >= reach /\ day[i] + StaleDays < now /\ Month(day[i]) = Head(months)
           => i \in held' \cup told'
  PROVE  Prompt'
<1>1. /\ UNCHANGED <<day, now, ran, mark, reach, unbroken>> /\ months' = Tail(months)
      /\ \/ Len(months) = 1 /\ stage' = "idle"
         \/ Len(months) # 1 /\ stage' = stage /\ walk' = walk
  BY DEF Covered, publisher
<1>2. Due(now - 1) => Due(now - 1)'
  BY <1>1 DEF Due, Entries
<1>3. CASE ~unbroken
  BY <1>1, <1>3 DEF Prompt, PromptlyHeld, Entries
<1>4. CASE unbroken
  <2>1. months \in Seq(Nat) /\ months # <<>> /\ Owed
    BY <1>4 DEF Prompt
  <2>2. ASSUME NEW i \in Parsed(Entries), i >= reach, day[i] + StaleDays < now
        PROVE  \/ i \in held' \cup told'
               \/ \E k \in 1 .. Len(months') : months'[k] = Month(day[i])
    <3>1. i \in held \cup told \/ \E k \in 1 .. Len(months) : months[k] = Month(day[i])
      BY <2>1, <2>2 DEF Owed
    <3>2. ASSUME NEW k \in 1 .. Len(months), months[k] = Month(day[i])
          PROVE  \/ i \in held' \cup told'
                 \/ \E l \in 1 .. Len(months') : months'[l] = Month(day[i])
      <4>1. CASE k = 1
        BY <1>4, <2>1, <2>2, <3>2, <4>1
      <4>2. CASE k # 1
        <5>1. k - 1 \in 1 .. Len(months') /\ months'[k - 1] = months[k]
          BY <1>1, <2>1, <4>2
        <5> QED BY <3>2, <5>1
      <4> QED BY <4>1, <4>2
    <3> QED BY <3>1, <3>2
  <2>3. Owed'
    BY <1>1, <2>2 DEF Owed, Entries
  <2>4. CASE Len(months) = 1
    <3>1. stage' = "idle" /\ Len(months') = 0
      BY <1>1, <2>1, <2>4
    <3>2. PromptlyHeld'
      <4>1. \A k \in 1 .. Len(months') : FALSE
        BY <3>1
      <4>2. \A i \in Parsed(Entries) :
              i >= reach /\ day[i] + StaleDays < now => i \in held' \cup told'
        BY <2>2, <4>1
      <4> QED BY <1>1, <4>2 DEF PromptlyHeld, Entries
    <3> QED BY <1>1, <1>2, <3>1, <3>2 DEF Prompt, Entries
  <2>5. CASE Len(months) # 1
    <3>1. months' \in Seq(Nat) /\ months' # <<>>
      <4>1. Len(months) \in Nat /\ Len(months) # 0
        BY <2>1
      <4>2. Tail(months) \in Seq(Nat) /\ Len(Tail(months)) = Len(months) - 1
        BY <2>1
      <4>3. Len(Tail(months)) # 0
        BY <2>5, <4>1, <4>2
      <4>4. Tail(months) # <<>>
        <5>1. Len(<<>>) = 0
          OBVIOUS
        <5> QED BY <4>3, <5>1
      <4> QED BY <1>1, <4>2, <4>4
    <3>2. stage' = "covering" /\ walk' = walk
      BY <1>1, <2>5
    <3> QED BY <1>1, <1>2, <2>3, <3>1, <3>2 DEF Prompt, PromptlyHeld, Entries
  <2> QED BY <2>4, <2>5
<1> QED BY <1>3, <1>4

(* An entry of the month that is due is in its archive, however late that is   *)
(* rebuilt.                                                                    *)
LEMMA DueIsInArchive ==
  ASSUME IInv, Prompt, NEW lag \in 1 .. 2, NEW i \in Parsed(Entries),
         day[i] + StaleDays < now, Month(day[i]) = Head(months)
  PROVE  i \in Parsed(InArchive(Head(months), lag))
<1>1. i \in Entries /\ day[i] \in Nat
  BY DEF IInv, Stamped, Parsed, Entries
<1>2. StaleDays \in Nat \ {0} /\ now \in Nat
  BY LiveWalkAssumption DEF LiveWalkAssumption, IInv, Stamped
<1>3. day[i] + lag <= now
  BY <1>1, <1>2
<1> QED BY <1>1, <1>3 DEF InArchive, Parsed

LEMMA CoverPrompt == ASSUME IInv, Prompt, Cover PROVE Prompt'
<1>1. stage = "covering" /\ Covered
  BY DEF Cover
<1>2. PICK lag \in 1 .. 2 :
        LET S == InArchive(Head(months), lag)
        IN  /\ held' = held \cup (Parsed(S) \ Raising)
            /\ told' = told \cup (S \cap (Malformed \cup Raising))
  BY DEF Cover
<1>3. ASSUME NEW i \in Parsed(Entries), day[i] + StaleDays < now, Month(day[i]) = Head(months)
      PROVE  i \in held' \cup told'
  <2>1. i \in Parsed(InArchive(Head(months), lag))
    BY <1>3, DueIsInArchive
  <2> QED BY <1>2, <2>1 DEF Parsed
<1> QED BY <1>1, <1>2, <1>3, CoveredPrompt

LEMMA SkipArchivePrompt == ASSUME IInv, Prompt, SkipArchive PROVE Prompt'
<1>1. stage = "covering" /\ Covered /\ UNCHANGED <<held, told>>
  BY DEF SkipArchive
<1>2. PICK lag \in 1 .. 2 : ~Covers(InArchive(Head(months), lag))
  BY DEF SkipArchive
<1>3. ASSUME unbroken, NEW i \in Parsed(Entries), i >= reach, day[i] + StaleDays < now,
             Month(day[i]) = Head(months)
      PROVE  i \in held' \cup told'
  <2> DEFINE S == Parsed(InArchive(Head(months), lag))
  <2>1. i \in S
    BY <1>3, DueIsInArchive
  <2>2. DOMAIN day = 1 .. Len(day) /\ Len(day) \in Nat
    BY DEF IInv, Stamped
  <2>3. S \subseteq 0 .. Len(day) /\ S # {}
    BY <2>1, <2>2 DEF Parsed, InArchive, Entries
  <2>4. Max(S) \in S /\ Max(S) >= i
    BY <2>1, <2>2, <2>3, Greatest
  <2>5. ~(Max(S) > walk.newest)
    BY <1>2, <2>3 DEF Covers, NewestOf
  <2>6. walk.newest \in {0, mark} /\ mark \in Nat /\ reach \in Nat
    BY <1>1, <1>3 DEF IInv, Prompt
  <2>7. i \in Nat \ {0} /\ Max(S) \in Nat
    BY <2>1, <2>2, <2>3, <2>4 DEF Parsed, InArchive, Entries
  <2>8. i \in reach .. mark
    BY <1>3, <2>4, <2>5, <2>6, <2>7
  <2> QED BY <1>1, <2>7, <2>8 DEF IInv, MarkStands
<1> QED BY <1>1, <1>3, CoveredPrompt

LEMMA OutsidePrompt == ASSUME IInv, Prompt, Outside PROVE Prompt'
<1>1. UNCHANGED <<books, ran, stage, walk, months, unbroken>> /\ now' = now
  BY DEF Outside, Publish, ShowUpTo, Mend
<1>2. day \in Seq(Nat) /\ Len(day) \in Nat /\ now \in Nat \ {0} /\ StaleDays \in Nat
  BY LiveWalkAssumption DEF LiveWalkAssumption, IInv, Stamped, Prompt
<1>3. /\ Entries \subseteq Entries' /\ \A i \in Entries : day'[i] = day[i]
      /\ \A i \in Entries' \ Entries : day'[i] = now
  <2>1. CASE Publish
    <3>1. day' = Append(day, now)
      BY <2>1 DEF Publish
    <3>2. /\ Entries = 1 .. Len(day) /\ Entries' = 1 .. Len(day) + 1
          /\ day'[Len(day) + 1] = now /\ \A i \in 1 .. Len(day) : day'[i] = day[i]
      BY <1>2, <3>1 DEF Entries
    <3>3. \A i \in Entries' \ Entries : i = Len(day) + 1
      BY <1>2, <3>2
    <3>4. \A i \in Entries : i \in Entries'
      BY <1>2, <3>2
    <3> QED BY <3>2, <3>3, <3>4
  <2>2. CASE UNCHANGED day
    BY <2>2 DEF Entries
  <2> QED BY <2>1, <2>2 DEF Outside, ShowUpTo, Mend
<1>4. \A i \in Parsed(Entries') :
        day'[i] + StaleDays < now => i \in Parsed(Entries) /\ day'[i] = day[i]
  BY <1>2, <1>3 DEF Parsed
<1>5. \A i \in Parsed(Entries') :
        day'[i] + StaleDays < now - 1 => i \in Parsed(Entries) /\ day'[i] = day[i]
  BY <1>2, <1>3 DEF Parsed
<1>6. /\ Due(now - 1) => Due(now - 1)'
      /\ Owed => Owed'
      /\ PromptlyHeld => PromptlyHeld'
  <2>1. Due(now - 1) => Due(now - 1)'
    BY <1>1, <1>5 DEF Due, books
  <2>2. Owed => Owed'
    BY <1>1, <1>4 DEF Owed, books
  <2>3. PromptlyHeld => PromptlyHeld'
    BY <1>1, <1>4 DEF PromptlyHeld, books
  <2> QED BY <2>1, <2>2, <2>3
<1>7. ASSUME stage = "closed", walk.newest # 0 PROVE day'[walk.newest] = day[walk.newest]
  <2>1. Walked(walk, shown, mark) /\ shown \in 1 .. Len(day)
    BY <1>7 DEF IInv, RunStands, Stamped
  <2>2. walk.newest \in 1 .. walk.upto /\ walk.upto \in 1 .. shown
    BY <1>2, <1>7, <2>1, NewestIs DEF Walked
  <2>3. walk.newest \in Entries
    BY <1>2, <2>1, <2>2 DEF Entries
  <2> QED BY <1>3, <2>3
<1>8. \A i \in Entries' : day'[i] # 0
  BY <1>2, <1>3 DEF Prompt
<1> QED BY <1>1, <1>6, <1>7, <1>8 DEF Prompt, books

LEMMA NextDayPrompt == ASSUME IInv, Prompt, NextDay PROVE Prompt'
<1>1. /\ stage = "idle" /\ ran /\ now' = now + 1 /\ ran' = FALSE
      /\ UNCHANGED <<day, books, stage, walk, unbroken>>
  BY DEF NextDay
<1>2. now \in Nat /\ now' - 1 = now /\ now' # 0
  BY <1>1 DEF IInv, Stamped
<1>3. unbroken => Due(now)
  BY <1>1 DEF Prompt, PromptlyHeld, Due
<1>4. Due(now) => Due(now - 1)'
  BY <1>1, <1>2 DEF Due, Entries, books
<1> QED BY <1>1, <1>2, <1>3, <1>4 DEF Prompt, PromptlyHeld, Entries, books

LEMMA StepPrompt == IInv /\ Prompt /\ [Next]_vars => Prompt'
<1> SUFFICES ASSUME IInv, Prompt, [Next]_vars PROVE Prompt'
  OBVIOUS
<1>1. CASE NoAnswer \/ LoadBreaks \/ DiesUnmarked
  BY <1>1, CutShortPrompt DEF NoAnswer, LoadBreaks, DiesUnmarked, publisher, books
<1>2. CASE CoverBreaks
  BY <1>2, CutShortPrompt DEF CoverBreaks, publisher
<1>3. CASE UNCHANGED vars
  <2>1. UNCHANGED <<day, now, ran, held, mark, stage, walk, months, reach, told, unbroken>>
    BY <1>3 DEF vars
  <2>2. /\ Due(now - 1) => Due(now - 1)'
        /\ Owed => Owed'
        /\ PromptlyHeld => PromptlyHeld'
    BY <2>1 DEF Due, Owed, PromptlyHeld, Entries
  <2> QED BY <2>1, <2>2 DEF Prompt, Entries
<1> QED BY <1>1, <1>2, <1>3, WalkPrompt, ClosePrompt, LeaveMarkPrompt, CoverPrompt,
        SkipArchivePrompt, OutsidePrompt, NextDayPrompt DEF Next

(* While no run is cut short and no walk refused or capped, what comes after   *)
(* the limit for a stale feed is taken up or told of when the night's run is   *)
(* over, though the feed froze before it and a month has ended since.          *)
THEOREM HeldInTime == Spec => []PromptlyHeld
<1>1. Prompt => PromptlyHeld
  BY DEF Prompt
<1> QED BY <1>1, Inductive, InitPrompt, StepPrompt, PTL DEF Spec

==============================================================================
