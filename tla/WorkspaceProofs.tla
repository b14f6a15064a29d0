-------------------------- MODULE WorkspaceProofs ---------------------------
(* What Workspace promises of its seats, rows and invitations, proved for any *)
(* accounts, requests, seats and bounds. The inductive invariant says what a  *)
(* locking handler knows between its count and its insert: one transaction a  *)
(* workspace, and the place it found is still there.                          *)
EXTENDS Workspace, FiniteSetTheorems, TLAPS

Request ==
  [op : {"none", "create", "dissolve", "leave", "write", "invite", "cancel", "remove", "join"},
   who : Accounts \cup {None}, plan : 0 .. 1, in : 0 .. MaxWorkspaces,
   whom : Accounts \cup {None}, token : 0 .. MaxInvites,
   over : SUBSET Tokens, locked : BOOLEAN]

(* A request holds what its handler needs.                                    *)
Fits(q, n) ==
  /\ q.op # "none" => q.who \in Accounts
  /\ q.op \in {"dissolve", "leave", "invite", "cancel", "remove", "join"} => q.in \in Ids
  /\ q.op \in {"leave", "invite", "cancel", "remove"} => q.whom \in Accounts
  /\ q.op = "join" => q.token \in 1 .. MaxInvites
  /\ q.op = "write" => q.in <= n

Shapes ==
  /\ TypeOK
  /\ request \in [Requests -> Request]
  /\ \A r \in Requests : Fits(request[r], made) /\ request[r].over \subseteq expired

MembersOf(m, w) == {a \in Accounts : m[a] = w}
PendingOf(i, x, w) == {a \in Accounts : i[w][a].open /\ <<w, a, i[w][a].token>> \notin x}

(* What a handler found under the lock, of owner `o`, members `m`, invitations*)
(* `i` and those `p` that are still good.                                     *)
Found(q, o, m, i, p) ==
  /\ q.op \in {"invite", "join"} /\ o # None
  /\ q.op = "invite" => /\ i[q.whom].token < MaxInvites
                        /\ Cardinality(m) + Cardinality(p \ {q.whom}) < Seats
  /\ q.op = "join" => /\ i[q.who] = [open |-> TRUE, token |-> q.token]
                      /\ Cardinality(m) < Seats

Locks ==
  /\ \A r \in Requests : request[r].locked =>
       LET w == request[r].in
       IN  Found(request[r], owner[w], MembersOf(member, w), invite[w], PendingOf(invite, expired, w))
  /\ \A r, s \in Requests :
       request[r].locked /\ request[s].locked /\ request[r].in = request[s].in => r = s

(* Of owner `o`, members `m`, those `t` that came in time, invitations `p`.   *)
Seated(o, m, t, p) ==
  o # None => Cardinality(m) <= Seats /\ Cardinality(t) + Cardinality(p) <= Seats

OnlyMade == \A w \in Ids : owner[w] # None => w <= made

(* A token that let somebody in is not the one of an open invitation.         *)
SpentIsShut ==
  \A w \in Ids, a \in Accounts, n \in 1 .. MaxInvites :
    <<w, a, n>> \in spent =>
      n <= invite[w][a].token /\ ~(invite[w][a].open /\ invite[w][a].token = n)

Numbered ==
  \A w \in Ids, a \in Accounts : invite[w][a].open => invite[w][a].token \in 1 .. MaxInvites

Kept ==
  /\ OnlyMade /\ OwnersAreIn /\ SpentIsShut /\ RowsFollow /\ Numbered
  /\ \A w \in Ids : Seated(owner[w], MembersOf(member, w), MembersOf(member, w) \ late, PendingOf(invite, expired, w))

IInv == Shapes /\ Locks /\ Kept

(* What requests found under the lock is still there after a step.            *)
StillFound(R) ==
  \A s \in R : request[s].locked =>
    LET w == request[s].in
    IN  Found(request[s], owner'[w], MembersOf(member', w), invite'[w], PendingOf(invite', expired', w))

------------------------------------------------------------------------------
(* Sets of accounts and their sizes.                                          *)

LEMMA Sizes ==
  ASSUME NEW S, S \subseteq Accounts, NEW T, T \subseteq S
  PROVE  /\ IsFiniteSet(S) /\ Cardinality(S) \in Nat
         /\ Cardinality(T) \in Nat /\ Cardinality(T) <= Cardinality(S)
<1>1. IsFiniteSet(S)
  BY WorkspaceAssumption, FS_Subset DEF WorkspaceAssumption
<1>2. IsFiniteSet(T) /\ Cardinality(T) <= Cardinality(S)
  BY <1>1, FS_Subset
<1> QED BY <1>1, <1>2, FS_CardinalityType

LEMMA OneMore ==
  ASSUME NEW S, S \subseteq Accounts, NEW a
  PROVE  /\ Cardinality(S \cup {a}) \in Nat
         /\ Cardinality(S \cup {a}) <= Cardinality(S) + 1
         /\ a \in S => Cardinality(S \ {a}) = Cardinality(S) - 1
<1>1. IsFiniteSet(S) /\ Cardinality(S) \in Nat
  BY Sizes
<1>2. Cardinality(S \cup {a}) = IF a \in S THEN Cardinality(S) ELSE Cardinality(S) + 1
  BY <1>1, FS_AddElement
<1>3. a \in S => Cardinality(S \ {a}) = Cardinality(S) - 1
  BY <1>1, FS_RemoveElement
<1> QED BY <1>1, <1>2, <1>3

(* Fewer members and invitations need no more seats.                          *)
LEMMA FewerFit ==
  ASSUME NEW o, NEW m, NEW t, NEW p, NEW m2, NEW t2, NEW p2,
         m \subseteq Accounts, t \subseteq Accounts, p \subseteq Accounts,
         m2 \subseteq m, t2 \subseteq t, p2 \subseteq p
  PROVE  Seated(o, m, t, p) => Seated(o, m2, t2, p2)
<1>1. Cardinality(m2) \in Nat /\ Cardinality(m) \in Nat /\ Cardinality(m2) <= Cardinality(m)
  BY Sizes
<1>2. Cardinality(t2) \in Nat /\ Cardinality(t) \in Nat /\ Cardinality(t2) <= Cardinality(t)
  BY Sizes
<1>3. Cardinality(p2) \in Nat /\ Cardinality(p) \in Nat /\ Cardinality(p2) <= Cardinality(p)
  BY Sizes
<1>4. Seats \in Nat
  BY WorkspaceAssumption DEF WorkspaceAssumption
<1> QED BY <1>1, <1>2, <1>3, <1>4 DEF Seated

LEMMA FewerFound ==
  ASSUME NEW q, NEW o, NEW m, NEW i, NEW p, NEW m2, NEW i2, NEW p2,
         m \subseteq Accounts, p \subseteq Accounts, m2 \subseteq m, p2 \subseteq p,
         q.op = "invite" => i2[q.whom].token = i[q.whom].token,
         q.op = "join" => i2[q.who] = i[q.who]
  PROVE  Found(q, o, m, i, p) => Found(q, o, m2, i2, p2)
<1>1. Cardinality(m2) \in Nat /\ Cardinality(m) \in Nat /\ Cardinality(m2) <= Cardinality(m)
  BY Sizes
<1>2. p \ {q.whom} \subseteq Accounts /\ p2 \ {q.whom} \subseteq p \ {q.whom}
  OBVIOUS
<1>3. /\ Cardinality(p2 \ {q.whom}) \in Nat /\ Cardinality(p \ {q.whom}) \in Nat
      /\ Cardinality(p2 \ {q.whom}) <= Cardinality(p \ {q.whom})
  BY <1>2, Sizes
<1>4. Seats \in Nat
  BY WorkspaceAssumption DEF WorkspaceAssumption
<1>5. ASSUME Found(q, o, m, i, p), q.op = "invite" PROVE Found(q, o, m2, i2, p2)
  <2>1. i[q.whom].token < MaxInvites /\ Cardinality(m) + Cardinality(p \ {q.whom}) < Seats
    BY <1>5 DEF Found
  <2>2. Cardinality(m2) + Cardinality(p2 \ {q.whom}) < Seats
    BY <1>1, <1>3, <1>4, <2>1
  <2> QED BY <1>5, <2>1, <2>2 DEF Found
<1>6. ASSUME Found(q, o, m, i, p), q.op = "join" PROVE Found(q, o, m2, i2, p2)
  <2>1. Cardinality(m2) < Seats
    BY <1>1, <1>4, <1>6 DEF Found
  <2> QED BY <1>6, <2>1 DEF Found
<1> QED BY <1>5, <1>6 DEF Found

LEMMA MembersAre ==
  \A w \in Ids :
    /\ Members(w) = MembersOf(member, w) /\ Members(w)' = MembersOf(member', w)
    /\ Pending(w, expired) = PendingOf(invite, expired, w)
BY DEF Members, MembersOf, Open, Pending, PendingOf

LEMMA InitIInv == Init => IInv
<1> SUFFICES ASSUME Init PROVE IInv
  OBVIOUS
<1> USE WorkspaceAssumption DEF WorkspaceAssumption
<1>1. Shapes
  BY DEF Init, Shapes, TypeOK, Fits, Request, NoRequest, NoInvites, Ids, Tokens
<1>2. OnlyMade
  BY DEF Init, OnlyMade
<1>3. OwnersAreIn
  <2>1. \A w \in Ids : w # 0 /\ None # w
    BY DEF Ids
  <2> QED BY <2>1 DEF Init, OwnersAreIn, Members, Open, NoInvites
<1>4. Locks
  BY DEF Init, Locks, NoRequest
<1>5. \A w \in Ids : Seated(owner[w], MembersOf(member, w), MembersOf(member, w) \ late, PendingOf(invite, expired, w))
  BY DEF Init, Seated
<1>6. SpentIsShut
  BY DEF Init, SpentIsShut
<1>7. RowsFollow /\ Numbered
  BY DEF Init, RowsFollow, Numbered, NoInvites
<1> QED BY <1>1, <1>2, <1>3, <1>4, <1>5, <1>6, <1>7 DEF IInv, Kept

------------------------------------------------------------------------------
(* What the end of a request, and a step that writes no table, leave.         *)

LEMMA EndsShapes ==
  ASSUME Shapes, NEW r \in Requests, Ends(r), TypeOK', made <= made', UNCHANGED expired
  PROVE  Shapes'
<1>1. NoRequest \in Request /\ NoRequest.over = {} /\ \A n : Fits(NoRequest, n)
  BY WorkspaceAssumption DEF WorkspaceAssumption, NoRequest, Request, Fits
<1>2. request' = [request EXCEPT ![r] = NoRequest]
  BY DEF Ends
<1>3. request' \in [Requests -> Request]
  BY <1>1, <1>2 DEF Shapes
<1>4. ASSUME NEW s \in Requests PROVE Fits(request'[s], made') /\ request'[s].over \subseteq expired'
  <2>1. CASE s = r
    BY <1>1, <1>2, <2>1 DEF Shapes
  <2>2. CASE s # r
    <3>1. request'[s] = request[s] /\ Fits(request[s], made) /\ request[s].over \subseteq expired
      BY <1>2, <2>2 DEF Shapes
    <3>2. request[s].in \in Nat /\ made \in Nat /\ made' \in Nat
      BY WorkspaceAssumption DEF WorkspaceAssumption, Shapes, TypeOK, Request
    <3> QED BY <3>1, <3>2 DEF Fits
  <2> QED BY <2>1, <2>2
<1> QED BY <1>3, <1>4 DEF Shapes

LEMMA EndsLocks ==
  ASSUME IInv, NEW r \in Requests, Ends(r), StillFound(Requests \ {r})
  PROVE  Locks'
<1>1. request' = [request EXCEPT ![r] = NoRequest] /\ ~NoRequest.locked
  BY DEF Ends, NoRequest
<1>2. request \in [Requests -> Request]
  BY DEF IInv, Shapes
<1>3. \A s \in Requests : request'[s].locked => s # r /\ request'[s] = request[s]
  BY <1>1, <1>2
<1>4. ASSUME NEW s \in Requests, request'[s].locked
      PROVE  LET w == request'[s].in
             IN  Found(request'[s], owner'[w], MembersOf(member', w), invite'[w], PendingOf(invite', expired', w))
  BY <1>3, <1>4 DEF StillFound
<1>5. \A s, t \in Requests :
        request'[s].locked /\ request'[t].locked /\ request'[s].in = request'[t].in => s = t
  BY <1>3 DEF IInv, Locks
<1> QED BY <1>4, <1>5 DEF Locks

LEMMA SameKept ==
  ASSUME Kept, UNCHANGED <<expired, tables>>
  PROVE  Kept'
<1> USE DEF tables
<1>1. OnlyMade' /\ SpentIsShut' /\ RowsFollow' /\ Numbered'
  BY DEF Kept, OnlyMade, SpentIsShut, RowsFollow, Numbered
<1>2. OwnersAreIn'
  BY DEF Kept, OwnersAreIn, Members, Open
<1>3. \A w \in Ids : Seated(owner[w], MembersOf(member, w), MembersOf(member, w) \ late, PendingOf(invite, expired, w))'
  BY DEF Kept
<1> QED BY <1>1, <1>2, <1>3 DEF Kept

LEMMA EndsIInv ==
  ASSUME IInv, NEW r \in Requests, Ends(r), TypeOK', made <= made', UNCHANGED expired,
         Kept', StillFound(Requests \ {r})
  PROVE  IInv'
BY EndsShapes, EndsLocks DEF IInv

LEMMA EndsOnly ==
  ASSUME IInv, NEW r \in Requests, Ends(r), UNCHANGED <<plan, changes, expired, tables>>
  PROVE  IInv'
<1>1. TypeOK' /\ made <= made'
  BY DEF IInv, Shapes, TypeOK, tables
<1>2. Kept'
  BY SameKept DEF IInv
<1>3. StillFound(Requests \ {r})
  BY DEF IInv, Locks, StillFound, tables
<1> QED BY <1>1, <1>2, <1>3, EndsIInv

------------------------------------------------------------------------------
(* Requests begin, lock what they count, and plans change.                    *)

LEMMA PlanOfType == TypeOK => \A a \in Accounts : PlanOf(a) \in 0 .. 1 /\ member[a] \in Ids \cup {0}
<1> SUFFICES ASSUME TypeOK, NEW a \in Accounts
             PROVE  PlanOf(a) \in 0 .. 1 /\ member[a] \in Ids \cup {0}
  OBVIOUS
<1>1. member[a] \in Ids \cup {0}
  BY WorkspaceAssumption DEF WorkspaceAssumption, TypeOK, Ids
<1>2. owner[member[a]] \in Accounts \cup {None} \/ member[a] = 0
  BY <1>1 DEF TypeOK
<1>3. PlanOf(a) \in 0 .. 1
  BY <1>1, <1>2 DEF PlanOf, TypeOK
<1> QED BY <1>1, <1>3

(* A request begins with what its handler needs.                             *)
Begun(r) ==
  \E q \in Request : /\ Fits(q, made) /\ ~q.locked /\ q.over \subseteq expired
                     /\ request' = [request EXCEPT ![r] = q]

LEMMA BeginFits ==
  ASSUME NEW r, NEW a \in Accounts, PlanOf(a) \in 0 .. 1, NEW op,
         NEW in \in 0 .. MaxWorkspaces, NEW whom \in Accounts \cup {None},
         NEW token \in 0 .. MaxInvites, expired \subseteq Tokens, Begin(r, op, a, in, whom, token),
         \/ op = "create"
         \/ op = "dissolve" /\ in \in Ids
         \/ op \in {"leave", "invite", "cancel", "remove"} /\ in \in Ids /\ whom \in Accounts
         \/ op = "write" /\ in <= made
         \/ op = "join" /\ in \in Ids /\ token \in 1 .. MaxInvites
  PROVE  Begun(r)
<1> DEFINE over == IF op \in {"invite", "join"} THEN {t \in expired : t[1] = in} ELSE {}
<1> DEFINE q == [op |-> op, who |-> a, plan |-> PlanOf(a), in |-> in, whom |-> whom,
                 token |-> token, locked |-> FALSE, over |-> over]
<1>1. op \in {"create", "dissolve", "leave", "write", "invite", "cancel", "remove", "join"}
  OBVIOUS
<1>6. over \subseteq expired /\ over \in SUBSET Tokens
  OBVIOUS
<1> HIDE DEF over
<1>2. q \in Request
  BY <1>1, <1>6 DEF Request
<1>3. /\ q.op = op /\ q.who = a /\ q.in = in /\ q.whom = whom /\ q.token = token
      /\ q.locked = FALSE /\ q.over = over
  OBVIOUS
<1>4. Fits(q, made)
  BY <1>3 DEF Fits
<1>5. request' = [request EXCEPT ![r] = q]
  BY DEF Begin, over
<1> QED BY <1>2, <1>3, <1>4, <1>5, <1>6 DEF Begun

LEMMA AskIInv == ASSUME IInv, NEW r \in Requests, Ask(r) PROVE IInv'
<1>1. PICK a \in Accounts :
        \/ AskOwn(r, a)
        \/ \E whom \in Accounts : AskOfOther(r, a, whom)
        \/ \E w \in Ids, n \in 1 .. MaxInvites : AskToJoin(r, a, w, n)
  BY DEF Ask
<1>2. /\ PlanOf(a) \in 0 .. 1 /\ member[a] \in Ids \cup {0} /\ member[a] <= made /\ made \in Nat
      /\ expired \subseteq Tokens
  BY PlanOfType, WorkspaceAssumption DEF WorkspaceAssumption, IInv, Shapes, TypeOK
<1>3. Role(a) # "none" => member[a] \in Ids
  BY <1>2 DEF Role
<1>4. Begun(r)
  <2> USE BeginFits, WorkspaceAssumption DEF WorkspaceAssumption, Ids
  <2>1. CASE AskOwn(r, a)
    <3>1. CASE Begin(r, "create", a, 0, None, 0)
      BY <1>2, <3>1
    <3>2. CASE Role(a) = "owner" /\ Begin(r, "dissolve", a, member[a], None, 0)
      BY <1>2, <1>3, <3>2
    <3>3. CASE Role(a) = "member" /\ Begin(r, "leave", a, member[a], a, 0)
      BY <1>2, <1>3, <3>3
    <3>4. CASE Begin(r, "write", a, member[a], None, 0)
      BY <1>2, <3>4
    <3> QED BY <2>1, <3>1, <3>2, <3>3, <3>4 DEF AskOwn
  <2>2. ASSUME NEW whom \in Accounts, AskOfOther(r, a, whom) PROVE Begun(r)
    <3>1. member[a] \in Ids
      BY <1>3, <2>2 DEF AskOfOther
    <3>2. CASE Begin(r, "invite", a, member[a], whom, 0)
      BY <1>2, <3>1, <3>2
    <3>3. CASE Begin(r, "cancel", a, member[a], whom, 0)
      BY <1>2, <3>1, <3>3
    <3>4. CASE Begin(r, "remove", a, member[a], whom, 0)
      BY <1>2, <3>1, <3>4
    <3> QED BY <2>2, <3>2, <3>3, <3>4 DEF AskOfOther
  <2>3. ASSUME NEW w \in Ids, NEW n \in 1 .. MaxInvites, AskToJoin(r, a, w, n) PROVE Begun(r)
    BY <1>2, <2>3 DEF AskToJoin
  <2> QED BY <1>1, <2>1, <2>2, <2>3
<1>5. PICK q \in Request : /\ Fits(q, made) /\ ~q.locked /\ q.over \subseteq expired
                            /\ request' = [request EXCEPT ![r] = q]
  BY <1>4 DEF Begun
<1>6. UNCHANGED <<plan, changes, expired, tables>>
  BY DEF Ask
<1>7. Shapes'
  <2>1. TypeOK'
    BY <1>6 DEF IInv, Shapes, TypeOK, tables
  <2>2. /\ request' \in [Requests -> Request]
        /\ \A s \in Requests : Fits(request'[s], made') /\ request'[s].over \subseteq expired'
    BY <1>6, <1>5 DEF IInv, Shapes, tables
  <2> QED BY <2>1, <2>2 DEF Shapes
<1>8. \A s \in Requests : request'[s].locked => request'[s] = request[s]
  BY <1>5 DEF IInv, Shapes
<1>9. Locks'
  BY <1>6, <1>8 DEF IInv, Locks, tables
<1> QED BY <1>6, <1>7, <1>9, SameKept DEF IInv

LEMMA RoomFound ==
  ASSUME IInv, NEW r \in Requests, request[r].op \in {"invite", "join"}, Room(request[r])
  PROVE  LET w == request[r].in
         IN  Found(request[r], owner[w], MembersOf(member, w), invite[w], PendingOf(invite, expired, w))
<1> DEFINE q == request[r]
<1> DEFINE w == q.in
<1>1. q \in Request /\ Fits(q, made) /\ w \in Ids
  BY DEF IInv, Shapes, Fits
<1>2. owner[w] # None
  BY DEF Room
<1>3. Members(w) = MembersOf(member, w) /\ Cardinality(MembersOf(member, w)) \in Nat
  BY <1>1, MembersAre, Sizes DEF MembersOf
<1>4. \A p : SeatLimit(p) <= Seats /\ SeatLimit(p) \in Nat /\ Seats \in Nat
  BY WorkspaceAssumption DEF WorkspaceAssumption, SeatLimit
<1>5. CASE q.op = "join"
  <2>1. /\ invite[w][q.who] = [open |-> TRUE, token |-> q.token]
        /\ Cardinality(Members(w)) < SeatLimit(plan[owner[w]])
    BY <1>5 DEF Room
  <2>2. Cardinality(MembersOf(member, w)) < Seats
    BY <1>3, <1>4, <2>1
  <2> QED BY <1>2, <1>5, <2>1, <2>2 DEF Found
<1>6. CASE q.op = "invite"
  <2>1. /\ invite[w][q.whom].token < MaxInvites
        /\ Cardinality(Members(w)) + Cardinality(Pending(w, q.over) \ {q.whom})
             < SeatLimit(q.plan)
    BY <1>6 DEF Room
  <2>2. PendingOf(invite, expired, w) \subseteq Pending(w, q.over)
    <3>1. q.over \subseteq expired
      BY DEF IInv, Shapes
    <3> QED BY <3>1 DEF PendingOf, Pending, Open
  <2> DEFINE S == Pending(w, q.over) \ {q.whom}
  <2> DEFINE T == PendingOf(invite, expired, w) \ {q.whom}
  <2>3. S \subseteq Accounts /\ T \subseteq S
    BY <2>2 DEF Pending, Open
  <2>4. Cardinality(S) \in Nat /\ Cardinality(T) \in Nat /\ Cardinality(T) <= Cardinality(S)
    BY <2>3, Sizes
  <2>5. Cardinality(MembersOf(member, w)) + Cardinality(T) < Seats
    <3>1. Cardinality(Members(w)) + Cardinality(S) < SeatLimit(q.plan)
      BY <2>1
    <3> HIDE DEF S, T
    <3> QED BY <1>3, <1>4, <2>4, <3>1
  <2> QED BY <1>2, <1>6, <2>1, <2>5 DEF Found
<1> QED BY <1>5, <1>6

LEMMA LockIInv == ASSUME IInv, NEW r \in Requests, Lock(r) PROVE IInv'
<1>1. UNCHANGED <<plan, changes, expired, tables>>
  BY DEF Lock
<1>2. CASE ~Room(request[r])
  BY <1>1, <1>2, EndsOnly DEF Lock
<1>3. CASE Room(request[r])
  <2>1. request' = [request EXCEPT ![r].locked = TRUE] /\ request \in [Requests -> Request]
    BY <1>3 DEF Lock, IInv, Shapes
  <2>2. /\ request'[r] = [request[r] EXCEPT !.locked = TRUE]
        /\ \A s \in Requests \ {r} : request'[s] = request[s]
    BY <2>1
  <2>3. Shapes'
    <3>1. TypeOK'
      BY <1>1 DEF IInv, Shapes, TypeOK, tables
    <3>2. request' \in [Requests -> Request]
      BY <2>1, ZenonT(60) DEF Request
    <3>3. Fits(request'[r], made') /\ \A s \in Requests \ {r} : Fits(request'[s], made')
      BY <1>1, <2>1, <2>2 DEF IInv, Shapes, Fits, tables, Request
    <3>4. \A s \in Requests : request'[s].over \subseteq expired'
      <4>1. request'[r].over = request[r].over
        BY <2>1, <2>2 DEF Request
      <4> QED BY <1>1, <2>2, <4>1 DEF IInv, Shapes
    <3> QED BY <3>1, <3>2, <3>3, <3>4 DEF Shapes
  <2>4. Locks'
    <3>1. request[r].op \in {"invite", "join"}
      BY DEF Lock
    <3>2. LET w == request'[r].in
          IN  Found(request'[r], owner'[w], MembersOf(member', w), invite'[w], PendingOf(invite', expired', w))
      <4>1. LET w == request[r].in
            IN  Found(request[r], owner[w], MembersOf(member, w), invite[w], PendingOf(invite, expired, w))
        BY <1>3, <3>1, RoomFound
      <4>2. /\ request'[r].op = request[r].op /\ request'[r].in = request[r].in
            /\ request'[r].who = request[r].who /\ request'[r].whom = request[r].whom
            /\ request'[r].token = request[r].token
        BY <2>1, <2>2 DEF Request
      <4>3. UNCHANGED <<owner, member, invite, expired>>
        BY <1>1 DEF tables
      <4>4. LET w == request'[r].in
            IN  Found(request[r], owner'[w], MembersOf(member', w), invite'[w],
                      PendingOf(invite', expired', w))
        BY <4>1, <4>2, <4>3
      <4> QED BY <4>2, <4>4 DEF Found
    <3>3. \A s \in Requests : request[s].locked => request[s].in # request[r].in
      <4>1. ~RowLocked(request[r].in)
        BY <3>1 DEF Lock, Locking
      <4>2. \A s \in Requests : request[s].locked => request[s].op \in Locking
        BY DEF IInv, Locks, Found, Locking
      <4> QED BY <4>1, <4>2 DEF RowLocked
    <3>4. request'[r].in = request[r].in
      BY <2>1, <2>2 DEF Request
    <3>5. \A s, t \in Requests :
            request'[s].locked /\ request'[t].locked /\ request'[s].in = request'[t].in => s = t
      <4>1. \A s, t \in Requests \ {r} :
              request'[s].locked /\ request'[t].locked /\ request'[s].in = request'[t].in => s = t
        BY <2>2 DEF IInv, Locks
      <4>2. \A s \in Requests \ {r} : request'[s].locked => request'[s].in # request'[r].in
        BY <2>2, <3>3, <3>4
      <4> QED BY <4>1, <4>2
    <3>6. ASSUME NEW s \in Requests, request'[s].locked
          PROVE  LET w == request'[s].in
                 IN  Found(request'[s], owner'[w], MembersOf(member', w), invite'[w], PendingOf(invite', expired', w))
      BY <1>1, <2>2, <3>2, <3>6 DEF IInv, Locks, tables
    <3> QED BY <3>5, <3>6 DEF Locks
  <2> QED BY <1>1, <2>3, <2>4, SameKept DEF IInv
<1> QED BY <1>2, <1>3

LEMMA PlanIInv ==
  ASSUME IInv, NEW a \in Accounts, NEW p \in {0, Plan0[a]}, PlanChanges(a, p)
  PROVE  IInv'
<1>1. TypeOK'
  <2>1. Plan0[a] \in 0 .. 1 /\ MaxChanges \in Nat
    BY WorkspaceAssumption DEF WorkspaceAssumption
  <2>2. p \in 0 .. 1
    BY <2>1
  <2>3. changes \in 0 .. MaxChanges /\ changes < MaxChanges /\ changes' = changes + 1
    BY DEF PlanChanges, IInv, Shapes, TypeOK
  <2>4. changes' \in 0 .. MaxChanges
    BY <2>1, <2>3
  <2> QED BY <2>2, <2>4 DEF PlanChanges, IInv, Shapes, TypeOK, tables
<1>2. Shapes' /\ Locks'
  BY <1>1 DEF PlanChanges, IInv, Shapes, Locks, tables
<1> QED BY <1>2, SameKept DEF PlanChanges, IInv

------------------------------------------------------------------------------
(* Rows are written and deleted, invitations shut, members detached.          *)

LEMMA RowsKept ==
  ASSUME Kept, UNCHANGED <<owner, made, member, invite, expired, spent, late>>,
         \A a \in Accounts : row'[a] # row[a] =>
           row'[a] \in {None, 0} \/ (row'[a] \in Ids /\ owner[row'[a]] # None),
         RowsFollow'
  PROVE  Kept'
<1>1. OnlyMade' /\ SpentIsShut' /\ Numbered'
  BY DEF Kept, OnlyMade, SpentIsShut, Numbered
<1>2. OwnersAreIn'
  <2>1. \A w \in Ids : Members(w)' = Members(w) /\ Open(w)' = Open(w) /\ w # 0 /\ w # None
    BY WorkspaceAssumption DEF WorkspaceAssumption, Ids, Members, Open
  <2> QED BY <2>1 DEF Kept, OwnersAreIn
<1>3. \A w \in Ids : Seated(owner[w], MembersOf(member, w), MembersOf(member, w) \ late, PendingOf(invite, expired, w))'
  BY DEF Kept
<1> QED BY <1>1, <1>2, <1>3 DEF Kept

LEMMA WriteRowIInv == ASSUME IInv, NEW r \in Requests, WriteRow(r) PROVE IInv'
<1> DEFINE q == request[r]
<1>1. q \in Request /\ q.who \in Accounts /\ q.in <= made /\ made \in 0 .. MaxWorkspaces
  BY DEF WriteRow, Handle, IInv, Shapes, Fits, TypeOK
<1>2. CASE UNCHANGED tables
  BY <1>2, EndsOnly DEF WriteRow, Handle
<1>3. CASE ~UNCHANGED tables
  <2>1. /\ q.in # 0 => owner[q.in] # None
        /\ row' = [row EXCEPT ![q.who] = q.in]
        /\ stale' = IF q.in = member[q.who] THEN stale ELSE stale \cup {q.who}
        /\ UNCHANGED <<owner, made, member, invite, expired, spent, late, plan, changes>>
    BY <1>3 DEF WriteRow, Handle
  <2>2. q.in \in 0 .. made /\ (q.in # 0 => q.in \in Ids)
    BY <1>1, WorkspaceAssumption DEF WorkspaceAssumption, Request, Ids
  <2>3. TypeOK'
    BY <1>1, <2>1, <2>2 DEF IInv, Shapes, TypeOK
  <2>4. RowsFollow'
    <3>1. row \in [Accounts -> (0 .. made) \cup {None}]
      BY DEF IInv, Shapes, TypeOK
    <3> QED BY <1>1, <2>1, <3>1 DEF IInv, Kept, RowsFollow
  <2>5. Kept'
    <3>1. row \in [Accounts -> (0 .. made) \cup {None}]
      BY DEF IInv, Shapes, TypeOK
    <3> QED BY <2>1, <2>2, <2>4, <3>1, RowsKept DEF IInv
  <2>6. StillFound(Requests \ {r})
    BY <2>1 DEF IInv, Locks, StillFound
  <2>7. made <= made'
    BY <1>1, <2>1, WorkspaceAssumption DEF WorkspaceAssumption
  <2> QED BY <2>3, <2>5, <2>6, <2>7, EndsIInv DEF WriteRow, Handle
<1> QED BY <1>2, <1>3

LEMMA DeleteRowIInv == ASSUME IInv, NEW a \in Accounts, DeleteRow(a) PROVE IInv'
<1>1. TypeOK'
  BY DEF DeleteRow, IInv, Shapes, TypeOK
<1>2. RowsFollow' /\ \A b \in Accounts : row'[b] # row[b] => row'[b] = None
  BY DEF DeleteRow, IInv, Shapes, TypeOK, Kept, RowsFollow
<1>3. Kept'
  BY <1>2, RowsKept DEF DeleteRow, IInv
<1>4. Shapes' /\ Locks'
  BY <1>1 DEF DeleteRow, IInv, Shapes, Locks
<1> QED BY <1>3, <1>4 DEF IInv

LEMMA ShutKeeps ==
  ASSUME IInv, NEW w \in Ids, NEW a \in Accounts, ~InviteLocked(w, a),
         invite' = [invite EXCEPT ![w][a].open = FALSE],
         UNCHANGED <<plan, changes, expired, owner, made, member, row, stale, spent, late>>
  PROVE  TypeOK' /\ made <= made' /\ Kept' /\ StillFound(Requests)
<1>1. invite \in [Ids -> [Accounts -> [open : BOOLEAN, token : 0 .. MaxInvites]]]
  BY DEF IInv, Shapes, TypeOK
<1>2. invite' \in [Ids -> [Accounts -> [open : BOOLEAN, token : 0 .. MaxInvites]]]
  <2> DEFINE new == [invite[w][a] EXCEPT !.open = FALSE]
  <2>1. invite[w] \in [Accounts -> [open : BOOLEAN, token : 0 .. MaxInvites]]
    BY <1>1
  <2>2. new \in [open : BOOLEAN, token : 0 .. MaxInvites]
    BY <2>1
  <2>3. [invite[w] EXCEPT ![a] = new] \in [Accounts -> [open : BOOLEAN, token : 0 .. MaxInvites]]
    BY <2>1, <2>2
  <2>4. invite' = [invite EXCEPT ![w] = [invite[w] EXCEPT ![a] = new]]
    BY <1>1, <2>1
  <2> HIDE DEF new
  <2> QED BY <1>1, <2>3, <2>4
<1>3. \A v \in Ids, b \in Accounts :
        /\ invite'[v][b].token = invite[v][b].token
        /\ invite'[v][b].open => invite[v][b].open
        /\ v # w \/ b # a => invite'[v][b] = invite[v][b]
  BY <1>1
<1>4. TypeOK' /\ made <= made'
  BY <1>2 DEF IInv, Shapes, TypeOK
<1>5. \A v \in Ids : /\ Open(v)' \subseteq Open(v)
                     /\ PendingOf(invite', expired', v) \subseteq PendingOf(invite, expired, v)
                     /\ PendingOf(invite, expired, v) \subseteq Accounts
                     /\ MembersOf(member, v) \subseteq Accounts
                     /\ MembersOf(member, v) \ late \subseteq Accounts
  BY <1>3 DEF PendingOf, Open, MembersOf
<1>6. Kept'
  <2>1. OnlyMade' /\ RowsFollow'
    BY DEF IInv, Kept, OnlyMade, RowsFollow
  <2>2. SpentIsShut' /\ Numbered'
    BY <1>3 DEF IInv, Kept, SpentIsShut, Numbered
  <2>3. OwnersAreIn'
    BY <1>5 DEF IInv, Kept, OwnersAreIn, Members
  <2>4. ASSUME NEW v \in Ids
        PROVE  Seated(owner'[v], MembersOf(member', v), MembersOf(member', v) \ late', PendingOf(invite', expired', v))
    <3>1. Seated(owner[v], MembersOf(member, v), MembersOf(member, v) \ late,
                 PendingOf(invite, expired, v))
      BY DEF IInv, Kept
    <3>2. UNCHANGED <<owner[v], MembersOf(member, v), MembersOf(member, v) \ late>>
      BY DEF MembersOf
    <3> DEFINE m == MembersOf(member, v)
               t == MembersOf(member, v) \ late
               p == PendingOf(invite, expired, v)
               p2 == PendingOf(invite', expired', v)
    <3>3. m \subseteq Accounts /\ t \subseteq Accounts /\ p \subseteq Accounts /\ p2 \subseteq p
      BY <1>5
    <3>4. Seated(owner[v], m, t, p)
      BY <3>1
    <3> HIDE DEF m, t, p, p2
    <3>5. Seated(owner[v], m, t, p2)
      BY <3>3, <3>4, FewerFit
    <3> QED BY <3>2, <3>5 DEF m, t, p2
  <2> QED BY <2>1, <2>2, <2>3, <2>4 DEF Kept
<1>7. StillFound(Requests)
  <2> SUFFICES ASSUME NEW s \in Requests, request[s].locked, NEW q, q = request[s]
               PROVE  Found(q, owner'[q.in], MembersOf(member', q.in), invite'[q.in], PendingOf(invite', expired', q.in))
    BY DEF StillFound
  <2>1. /\ q.in \in Ids
        /\ q.op = "invite" => q.whom \in Accounts
        /\ q.op = "join" => q.who \in Accounts
    BY DEF IInv, Shapes, Fits, Locks, Found
  <2>2. Found(q, owner[q.in], MembersOf(member, q.in), invite[q.in], PendingOf(invite, expired, q.in))
    BY DEF IInv, Locks
  <2>3. q.op = "join" => invite'[q.in][q.who] = invite[q.in][q.who]
    BY <1>3, <2>1 DEF InviteLocked
  <2>4. q.op = "invite" => invite'[q.in][q.whom].token = invite[q.in][q.whom].token
    BY <1>3, <2>1
  <2> DEFINE m == MembersOf(member, q.in)
  <2> DEFINE p == PendingOf(invite, expired, q.in)
  <2> DEFINE p2 == PendingOf(invite', expired', q.in)
  <2> DEFINE i == invite[q.in]
  <2> DEFINE i2 == invite'[q.in]
  <2>5. /\ m \subseteq Accounts /\ m \subseteq m /\ p \subseteq Accounts /\ p2 \subseteq p
        /\ q.op = "invite" => i2[q.whom].token = i[q.whom].token
        /\ q.op = "join" => i2[q.who] = i[q.who]
    BY <1>5, <2>1, <2>3, <2>4
  <2> HIDE DEF m, p, p2, i, i2
  <2>6. Found(q, owner[q.in], m, i, p) => Found(q, owner[q.in], m, i2, p2)
    BY <2>5, FewerFound
  <2>7. Found(q, owner[q.in], m, i2, p2)
    BY <2>2, <2>6 DEF m, p, i
  <2> QED BY <2>7 DEF m, p2, i2
<1> QED BY <1>4, <1>6, <1>7

LEMMA CancelIInv == ASSUME IInv, NEW r \in Requests, Cancel(r) PROVE IInv'
<1>1. request[r].in \in Ids /\ request[r].whom \in Accounts
  BY DEF Cancel, Handle, IInv, Shapes, Fits
<1>2. TypeOK' /\ made <= made' /\ Kept' /\ StillFound(Requests)
  BY <1>1, ShutKeeps DEF Cancel, Handle
<1> QED BY <1>2, EndsIInv DEF Cancel, Handle, StillFound

LEMMA ExpiresIInv ==
  ASSUME IInv, NEW w \in Ids, NEW a \in Accounts, InviteExpires(w, a)
  PROVE  IInv'
<1>1. /\ UNCHANGED <<plan, tables, request>> /\ a \in Open(w)
      /\ changes < MaxChanges /\ changes' = changes + 1
      /\ expired' = expired \cup {<<w, a, invite[w][a].token>>}
  BY DEF InviteExpires, Pending
<1>2. TypeOK'
  <2>1. changes' \in 0 .. MaxChanges
    BY <1>1, WorkspaceAssumption DEF WorkspaceAssumption, IInv, Shapes, TypeOK
  <2>2. invite[w][a].token \in 1 .. MaxInvites
    BY <1>1 DEF IInv, Kept, Numbered, Open
  <2>3. expired' \subseteq Tokens
    BY <1>1, <2>2 DEF IInv, Shapes, TypeOK, Tokens
  <2> QED BY <1>1, <2>1, <2>3 DEF IInv, Shapes, TypeOK, tables
<1>3. Shapes'
  BY <1>1, <1>2 DEF IInv, Shapes, tables
<1>4. \A v \in Ids : /\ PendingOf(invite', expired', v) \subseteq PendingOf(invite, expired, v)
                     /\ PendingOf(invite, expired, v) \subseteq Accounts
                     /\ MembersOf(member, v) \subseteq Accounts
                     /\ MembersOf(member, v) \ late \subseteq Accounts
  BY <1>1 DEF PendingOf, MembersOf, tables
<1>5. Kept'
  <2>1. OnlyMade' /\ SpentIsShut' /\ RowsFollow' /\ Numbered'
    BY <1>1 DEF IInv, Kept, OnlyMade, SpentIsShut, RowsFollow, Numbered, tables
  <2>2. OwnersAreIn'
    BY <1>1 DEF IInv, Kept, OwnersAreIn, Members, Open, tables
  <2>3. ASSUME NEW v \in Ids
        PROVE  Seated(owner'[v], MembersOf(member', v), MembersOf(member', v) \ late',
                      PendingOf(invite', expired', v))
    <3>1. Seated(owner[v], MembersOf(member, v), MembersOf(member, v) \ late,
                 PendingOf(invite, expired, v))
      BY DEF IInv, Kept
    <3>2. UNCHANGED <<owner, member, late>>
      BY <1>1 DEF tables
    <3> QED BY <1>4, <3>1, <3>2, FewerFit
  <2> QED BY <2>1, <2>2, <2>3 DEF Kept
<1>6. Locks'
  <2>1. ASSUME NEW s \in Requests, request[s].locked, NEW q, q = request[s]
        PROVE  Found(q, owner[q.in], MembersOf(member, q.in), invite[q.in],
                     PendingOf(invite', expired', q.in))
    <3>1. q.in \in Ids
      BY <2>1 DEF IInv, Shapes, Fits, Locks, Found
    <3>2. Found(q, owner[q.in], MembersOf(member, q.in), invite[q.in],
                PendingOf(invite, expired, q.in))
      BY <2>1 DEF IInv, Locks
    <3> QED BY <1>4, <3>1, <3>2, FewerFound
  <2>2. UNCHANGED <<owner, member, invite, request>>
    BY <1>1 DEF tables
  <2> QED BY <2>1, <2>2 DEF IInv, Locks
<1> QED BY <1>3, <1>5, <1>6 DEF IInv

LEMMA DetachIInv ==
  ASSUME IInv, NEW r \in Requests, Ends(r), NEW w \in Ids, NEW a \in Accounts,
         Detach(w, a), UNCHANGED <<plan, changes, expired>>
  PROVE  IInv'
<1>1. CASE UNCHANGED tables
  BY <1>1, EndsOnly
<1>2. CASE ~UNCHANGED tables
  <2>1. /\ member[a] = w /\ owner[w] # a
        /\ member' = [member EXCEPT ![a] = 0]
        /\ row' = [row EXCEPT ![a] = IF @ = w THEN 0 ELSE @]
        /\ late' = late \ {a}
        /\ UNCHANGED <<owner, made, invite, expired, stale, spent>>
    BY <1>2 DEF Detach
  <2>2. /\ member \in [Accounts -> 0 .. made] /\ row \in [Accounts -> (0 .. made) \cup {None}]
        /\ made \in 0 .. MaxWorkspaces /\ made \in Nat
    BY WorkspaceAssumption DEF WorkspaceAssumption, IInv, Shapes, TypeOK
  <2>3. /\ \A b \in Accounts : member'[b] = (IF b = a THEN 0 ELSE member[b])
        /\ \A b \in Accounts : row'[b] = (IF b = a /\ row[b] = w THEN 0 ELSE row[b])
    BY <2>1, <2>2
  <2>4. TypeOK' /\ made <= made'
    <3>1. 0 \in 0 .. made
      BY <2>2
    <3>2. member' \in [Accounts -> 0 .. made] /\ row' \in [Accounts -> (0 .. made) \cup {None}]
      BY <2>1, <2>2, <3>1
    <3> QED BY <2>1, <2>2, <3>2 DEF IInv, Shapes, TypeOK
  <2>5. \A v \in Ids : /\ Members(v)' \subseteq Members(v) /\ Open(v)' = Open(v)
                       /\ MembersOf(member', v) \subseteq MembersOf(member, v)
                       /\ MembersOf(member', v) \ late' \subseteq MembersOf(member, v) \ late
                       /\ MembersOf(member, v) \subseteq Accounts
                       /\ MembersOf(member, v) \ late \subseteq Accounts
                       /\ PendingOf(invite', expired', v) = PendingOf(invite, expired, v)
                       /\ PendingOf(invite, expired, v) \subseteq Accounts
    BY <2>1, <2>3 DEF Members, MembersOf, Open, PendingOf, Ids
  <2>6. Kept'
    <3>1. OnlyMade' /\ SpentIsShut' /\ Numbered'
      BY <2>1 DEF IInv, Kept, OnlyMade, SpentIsShut, Numbered
    <3>2. RowsFollow'
      BY <2>1, <2>3 DEF IInv, Kept, RowsFollow
    <3>3. OwnersAreIn'
      <4>1. ASSUME NEW v \in Ids, owner[v] # None PROVE member'[owner'[v]] = v
        <5>1. member[owner[v]] = v
          BY <4>1 DEF IInv, Kept, OwnersAreIn
        <5>2. owner[v] # a /\ owner[v] \in Accounts
          BY <2>1, <4>1, <5>1 DEF IInv, Shapes, TypeOK
        <5> QED BY <2>1, <2>3, <5>1, <5>2
      <4>2. ASSUME NEW v \in Ids, owner[v] = None
            PROVE  Members(v)' = {} /\ Open(v)' = {} /\ \A b \in Accounts : row'[b] # v
        <5>1. Members(v) = {} /\ Open(v) = {} /\ (\A b \in Accounts : row[b] # v) /\ v # 0
          BY <4>2 DEF IInv, Kept, OwnersAreIn, Ids
        <5> QED BY <2>3, <2>5, <5>1
      <4> QED BY <2>1, <4>1, <4>2 DEF OwnersAreIn
    <3>4. \A v \in Ids : Seated(owner'[v], MembersOf(member', v), MembersOf(member', v) \ late', PendingOf(invite', expired', v))
      <4> SUFFICES ASSUME NEW v \in Ids
                   PROVE  Seated(owner[v], MembersOf(member', v), MembersOf(member', v) \ late',
                                 PendingOf(invite, expired, v))
        BY <2>1, <2>5
      <4>1. Seated(owner[v], MembersOf(member, v), MembersOf(member, v) \ late,
                   PendingOf(invite, expired, v))
        BY DEF IInv, Kept
      <4> QED BY <2>5, <4>1, FewerFit
    <3> QED BY <3>1, <3>2, <3>3, <3>4 DEF Kept
  <2>7. StillFound(Requests \ {r})
    <3> SUFFICES ASSUME NEW s \in Requests, request[s].locked, NEW q, q = request[s]
                 PROVE  Found(q, owner'[q.in], MembersOf(member', q.in), invite'[q.in], PendingOf(invite', expired', q.in))
      BY DEF StillFound
    <3>1. q.in \in Ids
      BY DEF IInv, Shapes, Fits, Locks, Found
    <3>2. Found(q, owner[q.in], MembersOf(member, q.in), invite[q.in], PendingOf(invite, expired, q.in))
      BY DEF IInv, Locks
    <3> DEFINE m == MembersOf(member, q.in)
    <3> DEFINE m2 == MembersOf(member', q.in)
    <3> DEFINE p == PendingOf(invite, expired, q.in)
    <3>3. m \subseteq Accounts /\ m2 \subseteq m /\ p \subseteq Accounts
      BY <2>5, <3>1
    <3>4. PendingOf(invite', expired', q.in) = p
      BY <2>5, <3>1
    <3> HIDE DEF m, m2, p
    <3>5. Found(q, owner[q.in], m, invite[q.in], p) => Found(q, owner[q.in], m2, invite[q.in], p)
      BY <3>3, FewerFound
    <3>6. Found(q, owner[q.in], m2, invite[q.in], p)
      BY <3>2, <3>5 DEF m, p
    <3> QED BY <2>1, <3>4, <3>6 DEF m2
  <2> QED BY <2>1, <2>4, <2>6, <2>7, EndsIInv
<1> QED BY <1>1, <1>2

LEMMA LeaveIInv == ASSUME IInv, NEW r \in Requests, Leave(r) \/ Remove(r) PROVE IInv'
<1>1. request[r].in \in Ids /\ request[r].who \in Accounts
  BY DEF Leave, Remove, Handle, IInv, Shapes, Fits
<1>2. CASE Leave(r)
  BY <1>1, <1>2, DetachIInv DEF Leave, Handle
<1>3. CASE Remove(r)
  <2>1. request[r].whom \in Accounts
    BY <1>3 DEF Remove, Handle, IInv, Shapes, Fits
  <2> QED BY <1>1, <1>3, <2>1, DetachIInv DEF Remove, Handle
<1> QED BY <1>2, <1>3

------------------------------------------------------------------------------
(* The two handlers that insert what they counted.                            *)

(* The other requests' workspaces are not the one this request has locked.    *)
LEMMA OthersElsewhere ==
  ASSUME IInv, NEW r \in Requests, request[r].locked
  PROVE  \A s \in Requests \ {r} : request[s].locked =>
           request[s].in # request[r].in /\ request[s].in \in Ids
BY DEF IInv, Locks, Found, Shapes, Fits

LEMMA ElsewhereFound ==
  ASSUME IInv, NEW R, R \subseteq Requests,
         \A s \in R : request[s].locked =>
           LET v == request[s].in
           IN  /\ owner'[v] = owner[v] /\ invite'[v] = invite[v]
               /\ MembersOf(member', v) = MembersOf(member, v),
         UNCHANGED expired
  PROVE  StillFound(R)
BY DEF IInv, Locks, StillFound, PendingOf

LEMMA InviteIInv == ASSUME IInv, NEW r \in Requests, Invite(r) PROVE IInv'
<1> DEFINE q == request[r]
<1> DEFINE w == q.in
<1> DEFINE old == invite[w][q.whom]
<1> DEFINE new == [open |-> TRUE, token |-> old.token + 1]
<1> DEFINE I == [open : BOOLEAN, token : 0 .. MaxInvites]
<1>1. /\ q.op = "invite" /\ q.locked /\ Ends(r) /\ w \in Ids /\ q.whom \in Accounts
      /\ UNCHANGED <<plan, changes, expired, owner, made, member, row, stale, spent, late>>
  BY DEF Invite, Handle, IInv, Shapes, Fits
<1>2. Found(q, owner[w], MembersOf(member, w), invite[w], PendingOf(invite, expired, w))
  BY <1>1 DEF IInv, Locks
<1>3. /\ invite \in [Ids -> [Accounts -> I]] /\ invite[w] \in [Accounts -> I] /\ old \in I
      /\ MaxInvites \in Nat
  BY <1>1, WorkspaceAssumption DEF WorkspaceAssumption, IInv, Shapes, TypeOK
<1>4. new \in I /\ old.token \in Nat
  BY <1>1, <1>2, <1>3 DEF Found
<1>5. invite' = [invite EXCEPT ![w] = [invite[w] EXCEPT ![q.whom] = new]]
  BY <1>1, <1>3 DEF Invite
<1>6. invite' \in [Ids -> [Accounts -> I]]
  BY <1>1, <1>3, <1>4, <1>5
<1>7. /\ \A v \in Ids : v # w => invite'[v] = invite[v]
      /\ \A b \in Accounts : invite'[w][b] = (IF b = q.whom THEN new ELSE invite[w][b])
  BY <1>1, <1>3, <1>5
<1>8. TypeOK' /\ made <= made'
  BY <1>1, <1>6, WorkspaceAssumption DEF WorkspaceAssumption, IInv, Shapes, TypeOK
<1>9. Kept'
  <2>1. OnlyMade' /\ RowsFollow'
    BY <1>1 DEF IInv, Kept, OnlyMade, RowsFollow
  <2>5. Numbered'
    <3>1. new.token \in 1 .. MaxInvites
      BY <1>1, <1>2, <1>3, <1>4 DEF Found
    <3> QED BY <1>7, <3>1 DEF IInv, Kept, Numbered
  <2>2. SpentIsShut'
    <3> SUFFICES ASSUME NEW v \in Ids, NEW b \in Accounts, NEW n \in 1 .. MaxInvites,
                        <<v, b, n>> \in spent
                 PROVE  /\ n <= invite'[v][b].token
                        /\ ~(invite'[v][b].open /\ invite'[v][b].token = n)
      BY <1>1 DEF SpentIsShut
    <3>1. n <= invite[v][b].token /\ ~(invite[v][b].open /\ invite[v][b].token = n)
      BY DEF IInv, Kept, SpentIsShut
    <3>2. CASE v = w /\ b = q.whom
      <4>1. invite'[v][b].token = old.token + 1 /\ n <= old.token
        BY <1>1, <1>7, <3>1, <3>2
      <4>2. old.token \in Nat /\ n \in Nat
        BY <1>3, <1>4
      <4> HIDE DEF old
      <4> QED BY <4>1, <4>2
    <3>3. CASE ~(v = w /\ b = q.whom)
      BY <1>7, <3>1, <3>3
    <3> QED BY <3>2, <3>3
  <2>3. OwnersAreIn'
    <3>1. owner[w] # None
      BY <1>2 DEF Found
    <3>2. \A v \in Ids : v # w => Open(v)' = Open(v)
      BY <1>7 DEF Open
    <3> QED BY <1>1, <3>1, <3>2 DEF IInv, Kept, OwnersAreIn, Members
  <2>4. ASSUME NEW v \in Ids
        PROVE  Seated(owner'[v], MembersOf(member', v), MembersOf(member', v) \ late', PendingOf(invite', expired', v))
    <3>1. CASE v = w
      <4> DEFINE P == PendingOf(invite, expired, w) \ {q.whom}
      <4> DEFINE P2 == PendingOf(invite', expired', w)
      <4> DEFINE M == MembersOf(member, w)
      <4>1. P2 \subseteq P \cup {q.whom} /\ P \subseteq Accounts
        BY <1>1, <1>7 DEF PendingOf
      <4>2. M \subseteq Accounts /\ M \ late \subseteq M
        BY DEF MembersOf
      <4>3. P \cup {q.whom} \subseteq Accounts
        BY <1>1, <4>1
      <4>4. /\ Cardinality(P) \in Nat /\ Cardinality(P2) \in Nat
            /\ Cardinality(P2) <= Cardinality(P) + 1
        <5> HIDE DEF P, P2
        <5>1. Cardinality(P) \in Nat
          BY <4>1, Sizes
        <5>2. Cardinality(P \cup {q.whom}) \in Nat /\ Cardinality(P \cup {q.whom}) <= Cardinality(P) + 1
          BY <4>1, OneMore
        <5>3. Cardinality(P2) \in Nat /\ Cardinality(P2) <= Cardinality(P \cup {q.whom})
          BY <4>1, <4>3, Sizes
        <5> QED BY <5>1, <5>2, <5>3
      <4>5. Cardinality(M) \in Nat /\ Cardinality(M \ late) \in Nat /\ Cardinality(M \ late) <= Cardinality(M)
        BY <4>2, Sizes
      <4>6. Cardinality(M) + Cardinality(P) < Seats
        BY <1>1, <1>2 DEF Found
      <4>7. Seats \in Nat
        BY WorkspaceAssumption DEF WorkspaceAssumption
      <4>8. Seated(owner[w], M, M \ late, P2)
        <5> HIDE DEF P, P2, M
        <5> QED BY <4>4, <4>5, <4>6, <4>7 DEF Seated
      <4> QED BY <1>1, <3>1, <4>8
    <3>2. CASE v # w
      <4>1. PendingOf(invite', expired', v) = PendingOf(invite, expired, v)
        BY <1>1, <1>7, <3>2 DEF PendingOf
      <4> QED BY <1>1, <4>1 DEF IInv, Kept
    <3> QED BY <3>1, <3>2
  <2> QED BY <2>1, <2>2, <2>3, <2>4, <2>5 DEF Kept
<1>10. StillFound(Requests \ {r})
  <2>1. \A s \in Requests \ {r} : request[s].locked => request[s].in \in Ids \ {w}
    BY <1>1, OthersElsewhere
  <2> QED BY <1>1, <1>7, <2>1, ElsewhereFound
<1> QED BY <1>1, <1>8, <1>9, <1>10, EndsIInv

(* A join that finds its account outside: what it writes.                     *)
LEMMA JoinWrites ==
  ASSUME IInv, NEW r \in Requests, Join(r), member[request[r].who] = 0
  PROVE  LET q == request[r]
             w == q.in
         IN  /\ q.op = "join" /\ q.locked /\ Ends(r) /\ w \in Ids /\ q.who \in Accounts
             /\ q.token \in 1 .. MaxInvites
             /\ invite[w][q.who] = [open |-> TRUE, token |-> q.token]
             /\ owner[w] # None /\ w <= made /\ Cardinality(MembersOf(member, w)) < Seats
             /\ late' = IF <<w, q.who, q.token>> \in expired THEN late \cup {q.who}
                                                           ELSE late \ {q.who}
             /\ spent' = spent \cup {<<w, q.who, q.token>>}
             /\ stale' = stale \ {q.who}
             /\ UNCHANGED <<plan, changes, expired, owner, made>>
             /\ member' = [member EXCEPT ![q.who] = w]
             /\ row' = [row EXCEPT ![q.who] = IF @ = None THEN None ELSE w]
             /\ invite' = [invite EXCEPT ![w][q.who].open = FALSE]
<1> DEFINE q == request[r]
<1>1. /\ q.op = "join" /\ q.locked /\ Ends(r) /\ q.in \in Ids /\ q.who \in Accounts
      /\ q.token \in 1 .. MaxInvites
  BY DEF Join, Handle, IInv, Shapes, Fits
<1>2. Found(q, owner[q.in], MembersOf(member, q.in), invite[q.in], PendingOf(invite, expired, q.in))
  BY <1>1 DEF IInv, Locks
<1>3. /\ invite[q.in][q.who] = [open |-> TRUE, token |-> q.token] /\ owner[q.in] # None
      /\ Cardinality(MembersOf(member, q.in)) < Seats
  BY <1>1, <1>2 DEF Found
<1>4. q.in <= made
  BY <1>1, <1>3 DEF IInv, Kept, OnlyMade
<1>5. q.in \in Ids /\ owner[q.in] # None
  BY <1>1, <1>3
<1> QED BY <1>1, <1>3, <1>4 DEF Join, Enter, Handle, Share

LEMMA JoinIInv == ASSUME IInv, NEW r \in Requests, Join(r) PROVE IInv'
<1> DEFINE q == request[r]
<1> DEFINE w == q.in
<1> DEFINE I == [open : BOOLEAN, token : 0 .. MaxInvites]
<1>1. CASE member[q.who] # 0
  BY <1>1, EndsOnly DEF Join, Handle
<1>2. CASE member[q.who] = 0
  <2> DEFINE new == [invite[w][q.who] EXCEPT !.open = FALSE]
  <2>1. /\ q.op = "join" /\ q.locked /\ Ends(r) /\ w \in Ids /\ q.who \in Accounts
        /\ q.token \in 1 .. MaxInvites
        /\ invite[w][q.who] = [open |-> TRUE, token |-> q.token]
        /\ owner[w] # None /\ w <= made /\ Cardinality(MembersOf(member, w)) < Seats
        /\ late' = IF <<w, q.who, q.token>> \in expired THEN late \cup {q.who}
                                                      ELSE late \ {q.who}
        /\ spent' = spent \cup {<<w, q.who, q.token>>}
        /\ stale' = stale \ {q.who}
        /\ UNCHANGED <<plan, changes, expired, owner, made>>
        /\ member' = [member EXCEPT ![q.who] = w]
        /\ row' = [row EXCEPT ![q.who] = IF @ = None THEN None ELSE w]
        /\ invite' = [invite EXCEPT ![w][q.who].open = FALSE]
    BY <1>2, JoinWrites
  <2>2. /\ invite \in [Ids -> [Accounts -> I]] /\ invite[w] \in [Accounts -> I]
        /\ member \in [Accounts -> 0 .. made] /\ row \in [Accounts -> (0 .. made) \cup {None}]
        /\ made \in 0 .. MaxWorkspaces /\ MaxInvites \in Nat /\ made \in Nat
        /\ spent \subseteq Tokens /\ late \subseteq Accounts
    BY <2>1, WorkspaceAssumption DEF WorkspaceAssumption, IInv, Shapes, TypeOK
  <2>3. /\ new \in I /\ new.open = FALSE /\ new.token = q.token
        /\ w \in 0 .. made /\ w # 0 /\ w \in Ids /\ q.who \in Accounts
    <3>1. invite[w][q.who] \in I /\ invite[w][q.who].token = q.token
      BY <2>1, <2>2
    <3>2. new \in I /\ new.open = FALSE /\ new.token = q.token
      BY <3>1
    <3>3. w \in Nat /\ w # 0 /\ w <= made
      BY <2>1, <2>2, WorkspaceAssumption DEF WorkspaceAssumption, Ids
    <3> QED BY <2>1, <2>2, <3>2, <3>3
  <2>4. invite' = [invite EXCEPT ![w] = [invite[w] EXCEPT ![q.who] = new]]
    BY <2>1, <2>2
  <2> HIDE DEF new
  <2>5. /\ invite' \in [Ids -> [Accounts -> I]]
        /\ member' \in [Accounts -> 0 .. made]
        /\ row' \in [Accounts -> (0 .. made) \cup {None}]
        /\ spent' \subseteq Tokens /\ late' \subseteq Accounts
    <3>1. [invite[w] EXCEPT ![q.who] = new] \in [Accounts -> I]
      BY <2>1, <2>2, <2>3
    <3>2. invite' \in [Ids -> [Accounts -> I]]
      BY <2>1, <2>2, <2>4, <3>1
    <3>3. member' \in [Accounts -> 0 .. made] /\ row' \in [Accounts -> (0 .. made) \cup {None}]
      BY <2>1, <2>2, <2>3
    <3>4. <<w, q.who, q.token>> \in Tokens
      BY <2>1 DEF Tokens
    <3> QED BY <2>1, <2>2, <3>2, <3>3, <3>4
  <2>6. /\ \A v \in Ids : v # w => invite'[v] = invite[v]
        /\ \A b \in Accounts : invite'[w][b] = (IF b = q.who THEN new ELSE invite[w][b])
        /\ \A b \in Accounts : member'[b] = (IF b = q.who THEN w ELSE member[b])
        /\ \A b \in Accounts :
             row'[b] = (IF b = q.who /\ row[b] # None THEN w ELSE row[b])
    <3>1. /\ \A v \in Ids : v # w => invite'[v] = invite[v]
          /\ \A b \in Accounts : invite'[w][b] = (IF b = q.who THEN new ELSE invite[w][b])
      BY <2>2, <2>3, <2>4
    <3>2. \A b \in Accounts : member'[b] = (IF b = q.who THEN w ELSE member[b])
      BY <2>1, <2>2
    <3>3. \A b \in Accounts : row'[b] = (IF b = q.who /\ row[b] # None THEN w ELSE row[b])
      BY <2>1, <2>2
    <3> QED BY <3>1, <3>2, <3>3
  <2>7. TypeOK' /\ made <= made'
    BY <2>1, <2>2, <2>5 DEF IInv, Shapes, TypeOK
  <2>8. \A v \in Ids \ {w} :
          /\ Members(v)' = Members(v) /\ Open(v)' = Open(v)
          /\ MembersOf(member', v) = MembersOf(member, v)
          /\ MembersOf(member', v) \ late' = MembersOf(member, v) \ late
          /\ PendingOf(invite', expired', v) = PendingOf(invite, expired, v)
    <3>1. \A v \in Ids \ {w} : q.who \notin MembersOf(member, v)
      BY <1>2, <2>1 DEF MembersOf, Ids
    <3>2. \A v \in Ids \ {w} :
            /\ Members(v)' = Members(v) /\ Open(v)' = Open(v)
            /\ MembersOf(member', v) = MembersOf(member, v)
            /\ PendingOf(invite', expired', v) = PendingOf(invite, expired, v)
      <4> TAKE v \in Ids \ {w}
      <4>1. Members(v)' = Members(v) /\ MembersOf(member', v) = MembersOf(member, v)
        BY <1>2, <2>1, <2>6 DEF Members, MembersOf, Ids
      <4>2. invite'[v] = invite[v] /\ expired' = expired
        BY <2>1, <2>6
      <4>3. Open(v)' = Open(v)
        BY <4>2 DEF Open
      <4>4. PendingOf(invite', expired', v) = PendingOf(invite, expired, v)
        BY <4>2 DEF PendingOf
      <4> QED BY <4>1, <4>3, <4>4
    <3> QED BY <2>1, <3>1, <3>2
  <2>9. Kept'
    <3>1. OnlyMade'
      BY <2>1 DEF IInv, Kept, OnlyMade
    <3>2. RowsFollow'
      BY <2>1, <2>6 DEF IInv, Kept, RowsFollow
    <3>6. Numbered'
      BY <2>3, <2>6 DEF IInv, Kept, Numbered
    <3>3. SpentIsShut'
      <4> SUFFICES ASSUME NEW v \in Ids, NEW b \in Accounts, NEW n \in 1 .. MaxInvites,
                          <<v, b, n>> \in spent'
                   PROVE  /\ n <= invite'[v][b].token
                          /\ ~(invite'[v][b].open /\ invite'[v][b].token = n)
        BY DEF SpentIsShut
      <4>1. CASE v = w /\ b = q.who
        <5>1. invite'[v][b] = new /\ invite[v][b].token = q.token
          BY <2>1, <2>6, <4>1
        <5>2. <<v, b, n>> \in spent => n <= q.token
          BY <5>1 DEF IInv, Kept, SpentIsShut
        <5>3. n = q.token \/ <<v, b, n>> \in spent
          BY <2>1, <4>1
        <5> QED BY <2>2, <2>3, <5>1, <5>2, <5>3
      <4>2. CASE ~(v = w /\ b = q.who)
        <5>1. <<v, b, n>> \in spent /\ invite'[v][b] = invite[v][b]
          BY <2>1, <2>6, <4>2
        <5> QED BY <5>1 DEF IInv, Kept, SpentIsShut
      <4> QED BY <4>1, <4>2
    <3>4. OwnersAreIn'
      <4>1. ASSUME NEW v \in Ids, owner[v] # None PROVE member'[owner[v]] = v
        <5>1. member[owner[v]] = v /\ owner[v] \in Accounts /\ v # 0
          BY <4>1 DEF IInv, Kept, OwnersAreIn, Shapes, TypeOK, Ids
        <5> QED BY <1>2, <2>6, <5>1
      <4>2. ASSUME NEW v \in Ids, owner[v] = None
            PROVE  Members(v)' = {} /\ Open(v)' = {} /\ \A b \in Accounts : row'[b] # v
        <5>1. v # w
          BY <2>1, <4>2
        <5>2. Members(v) = {} /\ Open(v) = {} /\ \A b \in Accounts : row[b] # v
          BY <4>2 DEF IInv, Kept, OwnersAreIn
        <5> QED BY <2>6, <2>8, <5>1, <5>2
      <4> QED BY <2>1, <4>1, <4>2 DEF OwnersAreIn
    <3>5. ASSUME NEW v \in Ids
          PROVE  Seated(owner'[v], MembersOf(member', v), MembersOf(member', v) \ late', PendingOf(invite', expired', v))
      <4>1. CASE v = w
        <5> DEFINE M == MembersOf(member, w)
        <5> DEFINE M2 == MembersOf(member', w)
        <5> DEFINE P == PendingOf(invite, expired, w)
        <5> DEFINE P2 == PendingOf(invite', expired', w)
        <5>1. /\ M2 = M \cup {q.who} /\ q.who \notin M /\ M \subseteq Accounts
              /\ P2 = P \ {q.who} /\ P \subseteq Accounts
          <6>1. /\ member[q.who] = 0 /\ w # 0 /\ q.who \in Accounts
                /\ \A b \in Accounts : member'[b] = (IF b = q.who THEN w ELSE member[b])
            BY <1>2, <2>1, <2>6 DEF Ids
          <6>2. M2 = M \cup {q.who} /\ q.who \notin M /\ M \subseteq Accounts
            BY <6>1 DEF MembersOf
          <6>3. /\ expired' = expired /\ new.open = FALSE
                /\ \A b \in Accounts : invite'[w][b] = (IF b = q.who THEN new ELSE invite[w][b])
            BY <2>1, <2>3, <2>6
          <6>4. P2 = P \ {q.who} /\ P \subseteq Accounts
            BY <6>3 DEF PendingOf
          <6> QED BY <6>2, <6>4
        <5>2. /\ Cardinality(M) \in Nat /\ Cardinality(M2) \in Nat
              /\ Cardinality(M2) <= Cardinality(M) + 1 /\ Cardinality(M) < Seats /\ Seats \in Nat
          BY <2>1, <5>1, Sizes, OneMore, WorkspaceAssumption DEF WorkspaceAssumption
        <5>3. Cardinality(M \ late) + Cardinality(P) <= Seats
          BY <2>1 DEF IInv, Kept, Seated
        <5>4. P \subseteq Accounts /\ P2 \subseteq P /\ M \ late \subseteq Accounts
          BY <5>1
        <5>5. /\ Cardinality(P) \in Nat /\ Cardinality(P2) \in Nat /\ Cardinality(P2) <= Cardinality(P)
              /\ Cardinality(M \ late) \in Nat
          BY <5>4, Sizes
        <5>6. CASE <<w, q.who, q.token>> \in expired
          <6>1. M2 \ late' = M \ late
            BY <2>1, <5>1, <5>6
          <6>2. Seated(owner[w], M2, M2 \ late', P2)
            <7> HIDE DEF M, M2, P, P2
            <7> QED BY <5>2, <5>3, <5>5, <6>1 DEF Seated
          <6> QED BY <2>1, <4>1, <6>2
        <5>7. CASE <<w, q.who, q.token>> \notin expired
          <6>1. M2 \ late' \subseteq (M \ late) \cup {q.who} /\ q.who \in P
            <7>1. late' = late \ {q.who}
              BY <2>1, <5>7
            <7>2. q.who \in P
              BY <2>1, <5>7 DEF PendingOf
            <7> QED BY <5>1, <7>1, <7>2
          <6>2. (M \ late) \cup {q.who} \subseteq Accounts
            BY <2>1, <5>1
          <6>3. /\ Cardinality(P2) = Cardinality(P) - 1
                /\ Cardinality(M2 \ late') \in Nat
                /\ Cardinality(M2 \ late') <= Cardinality(M \ late) + 1
            <7> HIDE DEF M, M2, P, P2
            <7>1. Cardinality(P2) = Cardinality(P) - 1
              BY <5>1, <5>4, <6>1, OneMore
            <7>2. /\ Cardinality((M \ late) \cup {q.who}) \in Nat
                  /\ Cardinality((M \ late) \cup {q.who}) <= Cardinality(M \ late) + 1
              BY <5>4, OneMore
            <7>3. /\ Cardinality(M2 \ late') \in Nat
                  /\ Cardinality(M2 \ late') <= Cardinality((M \ late) \cup {q.who})
              BY <6>1, <6>2, Sizes
            <7> QED BY <5>5, <7>1, <7>2, <7>3
          <6>4. Seated(owner[w], M2, M2 \ late', P2)
            <7> HIDE DEF M, M2, P, P2
            <7> QED BY <5>2, <5>3, <5>5, <6>3 DEF Seated
          <6> QED BY <2>1, <4>1, <6>4
        <5> QED BY <5>6, <5>7
      <4>2. CASE v # w
        BY <2>1, <2>6, <2>8, <4>2 DEF IInv, Kept
      <4> QED BY <4>1, <4>2
    <3> QED BY <3>1, <3>2, <3>3, <3>4, <3>5, <3>6 DEF Kept
  <2>10. StillFound(Requests \ {r})
    <3>1. \A s \in Requests \ {r} : request[s].locked => request[s].in \in Ids \ {w}
      BY <2>1, OthersElsewhere
    <3> QED BY <2>1, <2>6, <2>8, <3>1, ElsewhereFound
  <2> QED BY <2>1, <2>7, <2>9, <2>10, EndsIInv
<1> QED BY <1>1, <1>2

------------------------------------------------------------------------------
(* A workspace is made, and ended.                                            *)

LEMMA CreateIInv == ASSUME IInv, NEW r \in Requests, Create(r) PROVE IInv'
<1> DEFINE a == request[r].who
<1> DEFINE n == made + 1
<1>1. CASE ~CanMake(a)
  BY <1>1, EndsOnly DEF Create, Handle
<1>2. CASE CanMake(a)
  <2>1. /\ a \in Accounts /\ Ends(r) /\ member[a] = 0 /\ (\A w \in Ids : owner[w] # a)
        /\ made' = n /\ stale' = stale \ {a} /\ late' = late \ {a}
        /\ owner' = [owner EXCEPT ![n] = a]
        /\ member' = [member EXCEPT ![a] = n]
        /\ row' = [row EXCEPT ![a] = IF @ = None THEN None ELSE n]
        /\ UNCHANGED <<plan, changes, expired, invite, spent>>
    BY <1>2 DEF Create, Handle, CanMake, Make, Share, IInv, Shapes, Fits
  <2>2. /\ made \in 0 .. MaxWorkspaces /\ made \in Nat /\ MaxWorkspaces \in Nat
        /\ made < MaxWorkspaces
        /\ member \in [Accounts -> 0 .. made] /\ row \in [Accounts -> (0 .. made) \cup {None}]
        /\ owner \in [Ids -> Accounts \cup {None}] /\ None \notin Accounts
    BY <1>2, WorkspaceAssumption DEF WorkspaceAssumption, CanMake, IInv, Shapes, TypeOK
  <2>3. /\ n \in Ids /\ n \in 0 .. n /\ n # 0 /\ n <= MaxWorkspaces
        /\ 0 .. made \subseteq 0 .. n /\ made <= n
    BY <2>2 DEF Ids
  <2>4. owner[n] = None
    BY <2>2, <2>3 DEF IInv, Kept, OnlyMade
  <2>5. /\ \A w \in Ids : owner'[w] = (IF w = n THEN a ELSE owner[w])
        /\ \A b \in Accounts : member'[b] = (IF b = a THEN n ELSE member[b])
        /\ \A b \in Accounts : row'[b] = (IF b = a /\ row[b] # None THEN n ELSE row[b])
    BY <2>1, <2>2, <2>3
  <2>6. TypeOK' /\ made <= made'
    <3>1. /\ owner' \in [Ids -> Accounts \cup {None}]
          /\ member' \in [Accounts -> 0 .. n] /\ row' \in [Accounts -> (0 .. n) \cup {None}]
          /\ n \in 0 .. MaxWorkspaces
      BY <2>1, <2>2, <2>3
    <3> QED BY <2>1, <2>3, <3>1 DEF IInv, Shapes, TypeOK
  <2>7. \A w \in Ids \ {n} :
          /\ Members(w)' = Members(w) /\ MembersOf(member', w) = MembersOf(member, w)
          /\ MembersOf(member', w) \ late' = MembersOf(member, w) \ late
    <3>1. \A w \in Ids : a \notin MembersOf(member, w)
      BY <2>1 DEF MembersOf, Ids
    <3>2. \A w \in Ids \ {n} :
            Members(w)' = Members(w) /\ MembersOf(member', w) = MembersOf(member, w)
      BY <2>1, <2>5 DEF Members, MembersOf, Ids
    <3> QED BY <2>1, <3>1, <3>2
  <2>8. \A w \in Ids :
          Open(w)' = Open(w) /\ PendingOf(invite', expired', w) = PendingOf(invite, expired, w)
    BY <2>1 DEF Open, PendingOf
  <2>9. Kept'
    <3>1. OnlyMade'
      BY <2>1, <2>2, <2>3, <2>5 DEF IInv, Kept, OnlyMade, Ids
    <3>2. SpentIsShut' /\ Numbered'
      BY <2>1 DEF IInv, Kept, SpentIsShut, Numbered
    <3>3. RowsFollow'
      BY <2>1, <2>5 DEF IInv, Kept, RowsFollow
    <3>4. OwnersAreIn'
      <4>1. ASSUME NEW w \in Ids, owner'[w] # None PROVE member'[owner'[w]] = w
        <5>1. CASE w = n
          BY <2>1, <2>5, <5>1
        <5>2. CASE w # n
          <6>1. owner'[w] = owner[w] /\ owner[w] \in Accounts /\ member[owner[w]] = w
            BY <2>2, <2>5, <4>1, <5>2 DEF IInv, Kept, OwnersAreIn
          <6>2. w # 0
            BY DEF Ids
          <6> QED BY <2>1, <2>5, <6>1, <6>2
        <5> QED BY <5>1, <5>2
      <4>2. ASSUME NEW w \in Ids, owner'[w] = None
            PROVE  Members(w)' = {} /\ Open(w)' = {} /\ \A b \in Accounts : row'[b] # w
        <5>1. w # n /\ owner[w] = None
          BY <2>1, <2>2, <2>5, <4>2
        <5>2. Members(w) = {} /\ Open(w) = {} /\ \A b \in Accounts : row[b] # w
          BY <5>1 DEF IInv, Kept, OwnersAreIn
        <5> QED BY <2>5, <2>7, <2>8, <5>1, <5>2
      <4> QED BY <4>1, <4>2 DEF OwnersAreIn
    <3>5. ASSUME NEW w \in Ids
          PROVE  Seated(owner'[w], MembersOf(member', w), MembersOf(member', w) \ late', PendingOf(invite', expired', w))
      <4>1. CASE w = n
        <5>1. Members(n) = {} /\ Open(n) = {}
          BY <2>3, <2>4 DEF IInv, Kept, OwnersAreIn
        <5>2. /\ MembersOf(member', n) = {a} /\ PendingOf(invite', expired', n) = {}
              /\ MembersOf(member', n) \ late' = {a}
          BY <2>1, <2>5, <5>1 DEF Members, MembersOf, Open, PendingOf
        <5>3. Cardinality({a}) = 1 /\ Cardinality({}) = 0
          BY FS_Singleton, FS_EmptySet
        <5>4. 1 + 0 <= Seats /\ 1 <= Seats
          BY WorkspaceAssumption DEF WorkspaceAssumption
        <5> QED BY <4>1, <5>2, <5>3, <5>4 DEF Seated
      <4>2. CASE w # n
        BY <2>1, <2>5, <2>7, <2>8, <4>2 DEF IInv, Kept
      <4> QED BY <4>1, <4>2
    <3> QED BY <3>1, <3>2, <3>3, <3>4, <3>5 DEF Kept
  <2>10. StillFound(Requests \ {r})
    <3>1. \A s \in Requests : request[s].locked =>
            request[s].in \in Ids /\ owner[request[s].in] # None
      BY DEF IInv, Locks, Found, Shapes, Fits
    <3>2. \A s \in Requests : request[s].locked => request[s].in \in Ids \ {n}
      BY <2>4, <3>1
    <3> QED BY <2>1, <2>5, <2>7, <3>2, ElsewhereFound
  <2> QED BY <2>1, <2>6, <2>9, <2>10, EndsIInv
<1> QED BY <1>1, <1>2

LEMMA DissolveIInv == ASSUME IInv, NEW r \in Requests, Dissolve(r) PROVE IInv'
<1>1. PICK w \in Ids : w = request[r].in /\ Ends(r) /\ ~RowLocked(w)
  BY DEF Dissolve, Handle, IInv, Shapes, Fits
<1>2. CASE owner[w] # request[r].who
  BY <1>1, <1>2, EndsOnly DEF Dissolve, Handle
<1>3. CASE owner[w] = request[r].who
  <2>1. /\ owner' = [owner EXCEPT ![w] = None]
        /\ member' = [b \in Accounts |-> IF member[b] = w THEN 0 ELSE member[b]]
        /\ invite' = [invite EXCEPT ![w] = NoInvites]
        /\ spent' = {t \in spent : t[1] # w}
        /\ row' = [b \in Accounts |-> IF row[b] = w THEN 0 ELSE row[b]]
        /\ stale' = stale \ {b \in Members(w) : row[b] = w}
        /\ late' = late \ Members(w)
        /\ UNCHANGED <<plan, changes, expired, made>>
    BY <1>1, <1>3 DEF Dissolve, Handle
  <2> DEFINE I == [open : BOOLEAN, token : 0 .. MaxInvites]
  <2>2. /\ made \in 0 .. MaxWorkspaces /\ made \in Nat /\ MaxInvites \in Nat /\ w # 0
        /\ member \in [Accounts -> 0 .. made] /\ row \in [Accounts -> (0 .. made) \cup {None}]
        /\ owner \in [Ids -> Accounts \cup {None}] /\ invite \in [Ids -> [Accounts -> I]]
    BY <1>1, WorkspaceAssumption DEF WorkspaceAssumption, IInv, Shapes, TypeOK, Ids
  <2>3. NoInvites \in [Accounts -> I] /\ \A b \in Accounts : ~NoInvites[b].open
    BY <2>2 DEF NoInvites
  <2>4. /\ owner'[w] = None /\ invite'[w] = NoInvites
        /\ \A v \in Ids \ {w} : owner'[v] = owner[v] /\ invite'[v] = invite[v]
    BY <1>1, <2>1, <2>2
  <2>5. TypeOK' /\ made <= made'
    <3>1. /\ member' \in [Accounts -> 0 .. made] /\ row' \in [Accounts -> (0 .. made) \cup {None}]
          /\ owner' \in [Ids -> Accounts \cup {None}] /\ invite' \in [Ids -> [Accounts -> I]]
      <4>1. 0 \in 0 .. made
        BY <2>2
      <4>2. member' \in [Accounts -> 0 .. made]
        BY <2>1, <2>2, <4>1
      <4>3. row' \in [Accounts -> (0 .. made) \cup {None}]
        BY <2>1, <2>2, <4>1
      <4>4. owner' \in [Ids -> Accounts \cup {None}]
        BY <2>1, <2>2
      <4>5. invite' \in [Ids -> [Accounts -> I]]
        BY <2>1, <2>2, <2>3
      <4> QED BY <4>2, <4>3, <4>4, <4>5
    <3> QED BY <2>1, <2>2, <3>1 DEF IInv, Shapes, TypeOK
  <2>6. /\ Members(w)' = {} /\ Open(w)' = {}
        /\ \A v \in Ids \ {w} : Members(v)' = Members(v) /\ Open(v)' = Open(v)
        /\ \A v \in Ids \ {w} : /\ MembersOf(member', v) = MembersOf(member, v)
                               /\ MembersOf(member', v) \ late' = MembersOf(member, v) \ late
                               /\ PendingOf(invite', expired', v) = PendingOf(invite, expired, v)
    <3>1. \A b \in Accounts : member'[b] = (IF member[b] = w THEN 0 ELSE member[b])
      BY <2>1
    <3>2. \A v \in Ids : v # 0
      BY DEF Ids
    <3>3. Members(w)' = {} /\ Open(w)' = {}
      <4>1. \A b \in Accounts : member'[b] # w /\ ~invite'[w][b].open
        BY <2>2, <2>3, <2>4, <3>1
      <4> QED BY <4>1 DEF Members, Open
    <3>4. \A v \in Ids \ {w} : Open(v)' = Open(v)
      BY <2>4 DEF Open
    <3>5. \A v \in Ids \ {w} : Members(v)' = Members(v)
      BY <3>1, <3>2 DEF Members
    <3>6. \A v \in Ids \ {w} : MembersOf(member', v) = MembersOf(member, v)
      BY <3>1, <3>2 DEF MembersOf
    <3>7. \A v \in Ids \ {w} : MembersOf(member', v) \ late' = MembersOf(member, v) \ late
      <4>1. \A v \in Ids \ {w} : \A b \in Members(w) : b \notin MembersOf(member, v)
        BY DEF Members, MembersOf
      <4> QED BY <2>1, <3>6, <4>1
    <3>8. \A v \in Ids \ {w} : PendingOf(invite', expired', v) = PendingOf(invite, expired, v)
      BY <2>1, <2>4 DEF PendingOf
    <3> QED BY <3>3, <3>4, <3>5, <3>6, <3>7, <3>8
  <2>7. Kept'
    <3>1. OnlyMade'
      BY <2>1, <2>4 DEF IInv, Kept, OnlyMade
    <3>2. SpentIsShut'
      <4> SUFFICES ASSUME NEW v \in Ids, NEW b \in Accounts, NEW n \in 1 .. MaxInvites,
                          <<v, b, n>> \in spent'
                   PROVE  /\ n <= invite'[v][b].token
                          /\ ~(invite'[v][b].open /\ invite'[v][b].token = n)
        BY DEF SpentIsShut
      <4>1. <<v, b, n>> \in spent /\ v # w
        BY <2>1
      <4> QED BY <2>4, <4>1 DEF IInv, Kept, SpentIsShut
    <3>6. Numbered'
      BY <2>3, <2>4 DEF IInv, Kept, Numbered
    <3>3. RowsFollow'
      <4> SUFFICES ASSUME NEW b \in Accounts, b \notin stale' PROVE row'[b] \in {None, member'[b]}
        BY DEF RowsFollow
      <4>1. b \in stale => member[b] = w /\ row[b] = w
        BY <2>1 DEF Members
      <4>2. b \notin stale => row[b] \in {None, member[b]}
        BY DEF IInv, Kept, RowsFollow
      <4>3. None # w
        BY <1>1, WorkspaceAssumption DEF WorkspaceAssumption, Ids
      <4> QED BY <2>1, <4>1, <4>2, <4>3
    <3>4. OwnersAreIn'
      <4>1. ASSUME NEW v \in Ids \ {w}, owner[v] # None PROVE member'[owner[v]] = v
        BY <2>1, <2>2, <4>1 DEF IInv, Kept, OwnersAreIn
      <4>2. ASSUME NEW v \in Ids \ {w}, owner[v] = None
            PROVE  Members(v)' = {} /\ Open(v)' = {} /\ \A b \in Accounts : row'[b] # v
        <5>1. Members(v) = {} /\ Open(v) = {} /\ (\A b \in Accounts : row[b] # v) /\ v # 0
          BY <4>2 DEF IInv, Kept, OwnersAreIn, Ids
        <5> QED BY <2>1, <2>6, <5>1
      <4>3. \A b \in Accounts : row'[b] # w
        BY <2>1, <2>2
      <4> SUFFICES ASSUME NEW v \in Ids
                   PROVE  IF owner'[v] # None THEN member'[owner'[v]] = v
                          ELSE /\ Members(v)' = {} /\ Open(v)' = {}
                               /\ \A b \in Accounts : row'[b] # v
        BY DEF OwnersAreIn
      <4>4. CASE v = w
        BY <2>4, <2>6, <4>3, <4>4
      <4>5. CASE v # w
        <5>1. owner'[v] = owner[v] /\ v \in Ids \ {w}
          BY <2>4, <4>5
        <5>2. CASE owner[v] # None
          <6>1. member'[owner[v]] = v
            BY <4>1, <5>1, <5>2
          <6> QED BY <5>1, <5>2, <6>1
        <5>3. CASE owner[v] = None
          <6>1. Members(v)' = {} /\ Open(v)' = {} /\ \A b \in Accounts : row'[b] # v
            BY <4>2, <5>1, <5>3
          <6> QED BY <5>1, <5>3, <6>1
        <5> QED BY <5>2, <5>3
      <4> QED BY <4>4, <4>5
    <3>5. \A v \in Ids : Seated(owner'[v], MembersOf(member', v), MembersOf(member', v) \ late', PendingOf(invite', expired', v))
      BY <2>4, <2>6 DEF IInv, Kept, Seated
    <3> QED BY <3>1, <3>2, <3>3, <3>4, <3>5, <3>6 DEF Kept
  <2>8. StillFound(Requests \ {r})
    <3>1. \A s \in Requests : request[s].locked =>
            request[s].in \in Ids /\ request[s].op \in Locking
      BY DEF IInv, Locks, Found, Locking, Shapes, Fits
    <3>2. \A s \in Requests : request[s].locked => request[s].in \in Ids \ {w}
      BY <1>1, <3>1 DEF RowLocked
    <3> QED BY <2>1, <2>4, <2>6, <3>2, ElsewhereFound
  <2> QED BY <1>1, <2>1, <2>5, <2>7, <2>8, EndsIInv
<1> QED BY <1>2, <1>3

------------------------------------------------------------------------------

LEMMA StepIInv == IInv /\ [Next]_vars => IInv'
<1> SUFFICES ASSUME IInv, [Next]_vars PROVE IInv'
  OBVIOUS
<1>1. ASSUME NEW r \in Requests, Serve(r) PROVE IInv'
  BY <1>1, AskIInv, CreateIInv, DissolveIInv, LeaveIInv, CancelIInv, LockIInv, InviteIInv,
     JoinIInv, WriteRowIInv DEF Serve
<1>2. CASE UNCHANGED vars
  <2>1. UNCHANGED <<plan, changes, expired, tables, request>>
    BY <1>2 DEF vars, tables
  <2>2. Shapes' /\ Locks'
    BY <2>1 DEF IInv, Shapes, TypeOK, Locks, tables
  <2> QED BY <2>1, <2>2, SameKept DEF IInv
<1> QED BY <1>1, <1>2, DeleteRowIInv, PlanIInv, ExpiresIInv DEF Next

(* The invariant holds in every state.                                        *)
THEOREM Inductive == Spec => []IInv
BY InitIInv, StepIInv, PTL DEF Spec

(* The tables keep their types, for any accounts, seats and bounds.           *)
THEOREM TypeCorrect == Spec => []TypeOK
<1>1. IInv => TypeOK
  BY DEF IInv, Shapes
<1> QED BY <1>1, Inductive, PTL

(* No interleaving of requests leaves a workspace without its owner, or a     *)
(* member, an open invitation or a row with one that is gone.                 *)
THEOREM OwnersStayIn == Spec => []OwnersAreIn
<1>1. IInv => OwnersAreIn
  BY DEF IInv, Kept
<1> QED BY <1>1, Inductive, PTL

(* Members fit the seats, and so do the members that joined in time together  *)
(* with the invitations that are still good, for any number of seats and of   *)
(* requests at once, though an invitation and a join count before they write  *)
(* and judge what has expired by the time they began.                         *)
THEOREM SeatsSuffice == Spec => []SeatsAreKept
<1>1. IInv => SeatsAreKept
  <2> SUFFICES ASSUME IInv, NEW w \in Ids, owner[w] # None
               PROVE  /\ Cardinality(Members(w)) <= Seats
                      /\ Cardinality(Members(w) \ late) + Cardinality(Pending(w, expired)) <= Seats
    BY DEF SeatsAreKept
  <2>1. Members(w) = MembersOf(member, w) /\ Pending(w, expired) = PendingOf(invite, expired, w)
    BY MembersAre
  <2>2. Seated(owner[w], MembersOf(member, w), MembersOf(member, w) \ late,
               PendingOf(invite, expired, w))
    BY DEF IInv, Kept
  <2> QED BY <2>1, <2>2 DEF Seated
<1> QED BY <1>1, Inductive, PTL

(* Only a row written on an old reading carries another workspace than its    *)
(* account's.                                                                 *)
THEOREM RowsAreShared == Spec => []RowsFollow
<1>1. IInv => RowsFollow
  BY DEF IInv, Kept
<1> QED BY <1>1, Inductive, PTL

(* Nobody joins twice with one token, however often the link is sent, and     *)
(* whoever left or was removed in between.                                    *)
THEOREM TokensWork == Spec => TokensWorkOnce
<1> DEFINE JoinsAnew == \A a \in Accounts :
             member[a] = 0 /\ member'[a] # 0 /\ owner'[member'[a]] # a => spent' # spent
<1>1. IInv /\ [Next]_vars => [JoinsAnew]_vars
  <2> SUFFICES ASSUME IInv, Next, NEW a \in Accounts,
                      member[a] = 0, member'[a] # 0, owner'[member'[a]] # a
               PROVE  spent' # spent
    OBVIOUS
  <2>1. member \in [Accounts -> 0 .. made] /\ owner \in [Ids -> Accounts \cup {None}]
    BY DEF IInv, Shapes, TypeOK
  <2>2. member' # member
    OBVIOUS
  <2>3. PICK r \in Requests : Create(r) \/ Dissolve(r) \/ Leave(r) \/ Remove(r) \/ Join(r)
    BY <2>2 DEF Next, Serve, Ask, Lock, Cancel, Invite, WriteRow, DeleteRow, PlanChanges,
       InviteExpires, Handle, tables
  <2>4. CASE Create(r)
    <3>1. CanMake(request[r].who) /\ made < MaxWorkspaces /\ request[r].who \in Accounts
      BY <2>2, <2>4 DEF Create, CanMake, Handle, IInv, Shapes, Fits, tables
    <3>2. /\ member' = [member EXCEPT ![request[r].who] = made + 1]
          /\ owner' = [owner EXCEPT ![made + 1] = request[r].who]
      BY <2>4, <3>1 DEF Create, Make
    <3>3. made + 1 \in Ids
      BY <3>1, WorkspaceAssumption DEF WorkspaceAssumption, IInv, Shapes, TypeOK, Ids
    <3> QED BY <2>1, <3>1, <3>2, <3>3
  <2>5. CASE Dissolve(r)
    BY <2>2, <2>5 DEF Dissolve, tables
  <2>6. CASE Leave(r) \/ Remove(r)
    BY <2>1, <2>2, <2>6 DEF Leave, Remove, Detach, tables
  <2>7. CASE Join(r)
    <3> DEFINE q == request[r]
    <3>1. member[q.who] = 0
      BY <2>2, <2>7 DEF Join, Enter, tables
    <3>2. /\ q.in \in Ids /\ q.who \in Accounts /\ q.token \in 1 .. MaxInvites
          /\ invite[q.in][q.who] = [open |-> TRUE, token |-> q.token]
          /\ spent' = spent \cup {<<q.in, q.who, q.token>>}
      BY <2>7, <3>1, JoinWrites
    <3>3. <<q.in, q.who, q.token>> \notin spent
      BY <3>2 DEF IInv, Kept, SpentIsShut
    <3> QED BY <3>2, <3>3
  <2> QED BY <2>3, <2>4, <2>5, <2>6, <2>7
<1> QED BY <1>1, Inductive, PTL DEF Spec, TokensWorkOnce

=============================================================================
