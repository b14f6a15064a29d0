----------------------------- MODULE Workspace ------------------------------
(* The team workspaces of dgate/workspace.py. A request reads its account in  *)
(* one statement (`accounts.current`: the plan in force, the workspace and    *)
(* the role) and acts on that reading in later ones; requests of several      *)
(* accounts, or of two tabs of one, run at once. Three handlers lock the row  *)
(* of the workspace between what they count and what they insert; who writes  *)
(* a row that refers to the workspace waits for that lock as well, since the  *)
(* foreign key asks for the row. An invitation expires by `now()`, which is   *)
(* the time the transaction began, that of `current`: a request under way may *)
(* take one as open that later requests take as expired.                      *)
(*                                                                            *)
(* An account has at most one row of its own (a saved search, an entry of the *)
(* shortlist or a follow), which carries a workspace or none. Plans are sold; *)
(* a plan is 0 without a workspace, 1 with one. The limits on mails, client   *)
(* profiles and the deletion of an account are left out.                      *)
EXTENDS Naturals, FiniteSets

CONSTANTS
  Accounts,
  Writers,         \* those that keep a row
  Requests,        \* requests under way at once
  None,
  Plan0,           \* the plans the accounts begin with
  Seats,           \* users of a workspace, the owner included
  MaxWorkspaces,   \* bound on workspaces ever made
  MaxInvites,      \* bound on invitations sent to one address
  MaxChanges       \* bound on changes of plan and expiries, together

ASSUME WorkspaceAssumption ==
  /\ Writers \subseteq Accounts
  /\ Plan0 \in [Accounts -> 0 .. 1]
  /\ Seats \in Nat \ {0}
  /\ {MaxWorkspaces, MaxInvites, MaxChanges} \subseteq Nat
  /\ IsFiniteSet(Accounts) /\ None \notin Accounts \cup Nat

Ids == 1 .. MaxWorkspaces

VARIABLES
  plan,            \* the account's own plan in force
  changes,         \* changes of plan and expiries so far
  owner,           \* the owner of a workspace, None: not made, or gone
  made,            \* workspaces made so far
  member,          \* the workspace an account is in, 0: none
  invite,          \* the invitation of a workspace to an address: open, or
                   \* shut (used or cancelled), with its last token
  expired,         \* the tokens whose time is over: workspace, address, token
  row,             \* the workspace an account's row carries, 0: none, None: no row
  request,         \* what each request is at
  stale,           \* auxiliary: accounts a row was written for on an old reading
  spent,           \* auxiliary: the tokens that let somebody join
  late             \* auxiliary: members that joined after their token expired

vars == <<plan, changes, owner, made, member, invite, expired, row, request,
          stale, spent, late>>
tables == <<owner, made, member, invite, row, stale, spent, late>>

Members(w) == {a \in Accounts : member[a] = w}
Open(w) == {a \in Accounts : invite[w][a].open}

Tokens == Ids \X Accounts \X (1 .. MaxInvites)

(* Whom workspace `w` invites with a token that is not among `over`.          *)
Pending(w, over) == {a \in Open(w) : <<w, a, invite[w][a].token>> \notin over}

(* `plan_of`: the account's plan or its workspace's, whichever is larger.     *)
PlanOf(a) ==
  LET o == IF member[a] = 0 THEN None ELSE owner[member[a]]
  IN  IF o # None /\ plan[o] > plan[a] THEN plan[o] ELSE plan[a]

SeatLimit(p) == IF p = 0 THEN 0 ELSE Seats

NoInvites == [a \in Accounts |-> [open |-> FALSE, token |-> 0]]

NoRequest == [op |-> "none", who |-> None, plan |-> 0, in |-> 0, whom |-> None,
              token |-> 0, over |-> {}, locked |-> FALSE]

(* Mutated: an invitation counts without locking the row.                     *)
LockingJoin == {"join"}

(* A transaction that locks the row of workspace `w`, or the invitation of    *)
(* `w` to account `a`, is under way.                                          *)
Locking == {"invite", "join"}

RowLocked(w) ==
  \E r \in Requests :
    request[r].locked /\ request[r].in = w /\ request[r].op \in Locking

InviteLocked(w, a) ==
  \E r \in Requests :
    /\ request[r].locked /\ request[r].in = w
    /\ request[r].op = "join" /\ request[r].who = a

Share(w, a) == row' = [row EXCEPT ![a] = IF @ = None THEN None ELSE w]

------------------------------------------------------------------------------
(* Requests: `current`, and what a handler refuses on that reading alone.     *)

Role(a) ==
  IF member[a] = 0 THEN "none"
  ELSE IF owner[member[a]] = a THEN "owner" ELSE "member"

(* `in` is the workspace a request is about, `whom` another account, `over`   *)
(* the workspace's tokens that have expired by the `now()` of the transaction.*)
Begin(r, op, a, in, whom, token) ==
  request' = [request EXCEPT ![r] =
    [op |-> op, who |-> a, plan |-> PlanOf(a), in |-> in, whom |-> whom,
     token |-> token, locked |-> FALSE,
     over |-> IF op \in {"invite", "join"} THEN {t \in expired : t[1] = in} ELSE {}]]

AskOwn(r, a) ==
  \/ Role(a) = "none" /\ PlanOf(a) > 0 /\ Begin(r, "create", a, 0, None, 0)
  \/ Role(a) = "owner" /\ Begin(r, "dissolve", a, member[a], None, 0)
  \/ Role(a) = "member" /\ Begin(r, "leave", a, member[a], a, 0)
  \/ a \in Writers /\ row[a] = None /\ Begin(r, "write", a, member[a], None, 0)

AskOfOther(r, a, whom) ==
  /\ Role(a) = "owner" /\ whom # a
  /\ \/ PlanOf(a) > 0 /\ Begin(r, "invite", a, member[a], whom, 0)
     \/ whom \in Open(member[a]) /\ Begin(r, "cancel", a, member[a], whom, 0)
     \/ member[whom] = member[a] /\ Begin(r, "remove", a, member[a], whom, 0)

(* With a link that was mailed to the account, old or new, once or again.     *)
AskToJoin(r, a, w, n) ==
  /\ Role(a) = "none"
  /\ n <= invite[w][a].token
  /\ Begin(r, "join", a, w, None, n)

Ask(r) ==
  /\ request[r] = NoRequest
  /\ \E a \in Accounts :
       \/ AskOwn(r, a)
       \/ \E whom \in Accounts : AskOfOther(r, a, whom)
       \/ \E w \in Ids, n \in 1 .. MaxInvites : AskToJoin(r, a, w, n)
  /\ UNCHANGED <<plan, changes, expired, tables>>

Ends(r) == request' = [request EXCEPT ![r] = NoRequest]

(* A handler's statements after `current`, in one transaction that ends with  *)
(* the request.                                                               *)
Handle(r, op) ==
  /\ request[r].op = op
  /\ Ends(r)
  /\ UNCHANGED <<plan, changes, expired>>

------------------------------------------------------------------------------
(* Making a workspace, and ending it.                                         *)

(* An account owns one workspace and is in one, by two unique indexes.        *)
CanMake(a) == member[a] = 0 /\ made < MaxWorkspaces /\ \A w \in Ids : owner[w] # a

Make(a) ==
  /\ made' = made + 1
  /\ owner' = [owner EXCEPT ![made'] = a]
  /\ member' = [member EXCEPT ![a] = made']
  /\ Share(made', a)
  /\ stale' = stale \ {a}
  /\ late' = late \ {a}

Create(r) ==
  /\ Handle(r, "create")
  /\ IF CanMake(request[r].who)
       THEN Make(request[r].who) /\ UNCHANGED <<invite, spent>>
       ELSE UNCHANGED tables

(* The foreign keys take members, invitations and clients along, and set the  *)
(* workspace of a row to NULL.                                                *)
Dissolve(r) ==
  LET w == request[r].in
  IN  /\ Handle(r, "dissolve")
      /\ ~RowLocked(w)
      /\ IF owner[w] # request[r].who THEN UNCHANGED tables
         ELSE /\ owner' = [owner EXCEPT ![w] = None]
              /\ member' = [a \in Accounts |-> IF member[a] = w THEN 0 ELSE member[a]]
              /\ invite' = [invite EXCEPT ![w] = NoInvites]
              /\ spent' = {t \in spent : t[1] # w}
              /\ row' = [a \in Accounts |-> IF row[a] = w THEN 0 ELSE row[a]]
              /\ stale' = stale \ {a \in Members(w) : row[a] = w}
              /\ late' = late \ Members(w)
              /\ UNCHANGED made

(* Mutated: the member goes without its row.                                  *)
DetachMember(w, a) ==
  /\ member' = IF member[a] = w /\ owner[w] # a THEN [member EXCEPT ![a] = 0] ELSE member
  /\ UNCHANGED <<owner, made, invite, row, stale, spent, late>>

(* `_detach`, for a member that leaves or is removed.                         *)
Detach(w, a) ==
  IF member[a] # w \/ owner[w] = a THEN UNCHANGED tables
  ELSE /\ member' = [member EXCEPT ![a] = 0]
       /\ row' = [row EXCEPT ![a] = IF @ = w THEN 0 ELSE @]
       /\ late' = late \ {a}
       /\ UNCHANGED <<owner, made, invite, stale, spent>>

Leave(r) == Handle(r, "leave") /\ Detach(request[r].in, request[r].who)
Remove(r) == Handle(r, "remove") /\ Detach(request[r].in, request[r].whom)

------------------------------------------------------------------------------
(* Invitations, and the handlers that count under the lock of the row.        *)

Cancel(r) ==
  LET q == request[r]
  IN  /\ Handle(r, "cancel")
      /\ ~InviteLocked(q.in, q.whom)
      /\ invite' = [invite EXCEPT ![q.in][q.whom].open = FALSE]
      /\ UNCHANGED <<owner, made, member, row, stale, spent, late>>

(* What a locking handler finds: for an invitation a place among members and  *)
(* other open invitations, for a join the open invitation of its token and a  *)
(* place by the plan the owner has now. Rows are read under the lock, their   *)
(* time is judged by when the request began.                                  *)
Room(q) ==
  /\ owner[q.in] # None
  /\ CASE q.op = "invite" ->
            /\ member[q.whom] # q.in /\ invite[q.in][q.whom].token < MaxInvites
            /\ Cardinality(Members(q.in)) + Cardinality(Pending(q.in, q.over) \ {q.whom})
                 < SeatLimit(q.plan)
       [] q.op = "join" ->
            /\ invite[q.in][q.who] = [open |-> TRUE, token |-> q.token]
            /\ <<q.in, q.who, q.token>> \notin q.over
            /\ Cardinality(Members(q.in)) < SeatLimit(plan[owner[q.in]])

Lock(r) ==
  LET q == request[r]
  IN  /\ q.op \in {"invite", "join"} /\ ~q.locked
      /\ q.op \in Locking => ~RowLocked(q.in)
      /\ q.op = "join" => ~InviteLocked(q.in, q.who)
      /\ IF Room(q) THEN request' = [request EXCEPT ![r].locked = TRUE] ELSE Ends(r)
      /\ UNCHANGED <<plan, changes, expired, tables>>

Invite(r) ==
  LET q == request[r]
  IN  /\ Handle(r, "invite") /\ q.locked
      /\ invite' = [invite EXCEPT ![q.in][q.whom] = [open |-> TRUE, token |-> @.token + 1]]
      /\ UNCHANGED <<owner, made, member, row, stale, spent, late>>

(* An account joins with its token, in time or late.                          *)
Enter(q) ==
  /\ member' = [member EXCEPT ![q.who] = q.in]
  /\ Share(q.in, q.who)
  /\ stale' = stale \ {q.who}
  /\ spent' = spent \cup {<<q.in, q.who, q.token>>}
  /\ late' = IF <<q.in, q.who, q.token>> \in expired THEN late \cup {q.who} ELSE late \ {q.who}
  /\ UNCHANGED <<owner, made>>

(* Mutated: the invitation is not marked as used.                             *)
JoinAgain(r) ==
  LET q == request[r]
  IN  /\ Handle(r, "join") /\ q.locked
      /\ IF member[q.who] # 0 THEN UNCHANGED tables
         ELSE Enter(q) /\ UNCHANGED invite

(* The unique index refuses an account that is in a workspace by now.         *)
Join(r) ==
  LET q == request[r]
  IN  /\ Handle(r, "join") /\ q.locked
      /\ IF member[q.who] # 0 THEN UNCHANGED tables
         ELSE Enter(q) /\ invite' = [invite EXCEPT ![q.in][q.who].open = FALSE]

------------------------------------------------------------------------------
(* Rows, plans and time.                                                      *)

(* `create_search`, `put_shortlist`, `put_follow`: with the workspace that    *)
(* `current` read. One that is gone is refused by the foreign key.            *)
WriteRow(r) ==
  LET q == request[r]
  IN  /\ Handle(r, "write")
      /\ q.in # 0 => ~RowLocked(q.in)
      /\ IF row[q.who] # None \/ (q.in # 0 /\ owner[q.in] = None) THEN UNCHANGED tables
         ELSE /\ row' = [row EXCEPT ![q.who] = q.in]
              /\ stale' = IF q.in = member[q.who] THEN stale ELSE stale \cup {q.who}
              /\ UNCHANGED <<owner, made, member, invite, spent, late>>

DeleteRow(a) ==
  /\ row[a] # None
  /\ row' = [row EXCEPT ![a] = None]
  /\ stale' = stale \ {a}
  /\ UNCHANGED <<plan, changes, owner, made, member, invite, expired, request,
                 spent, late>>

(* The time of an open invitation is over for requests that begin from now on.*)
InviteExpires(w, a) ==
  /\ changes < MaxChanges /\ a \in Pending(w, expired)
  /\ changes' = changes + 1
  /\ expired' = expired \cup {<<w, a, invite[w][a].token>>}
  /\ UNCHANGED <<plan, tables, request>>

(* A subscription ends, or is bought again.                                   *)
PlanChanges(a, p) ==
  /\ changes < MaxChanges /\ p # plan[a] /\ Role(a) = "owner"
  /\ changes' = changes + 1
  /\ plan' = [plan EXCEPT ![a] = p]
  /\ UNCHANGED <<expired, tables, request>>

Init ==
  /\ plan = Plan0 /\ changes = 0
  /\ owner = [w \in Ids |-> None] /\ made = 0
  /\ member = [a \in Accounts |-> 0]
  /\ invite = [w \in Ids |-> NoInvites]
  /\ row = [a \in Accounts |-> None]
  /\ request = [r \in Requests |-> NoRequest]
  /\ expired = {} /\ stale = {} /\ spent = {} /\ late = {}

Serve(r) ==
  \/ Ask(r) \/ Create(r) \/ Dissolve(r) \/ Leave(r) \/ Remove(r) \/ Cancel(r)
  \/ Lock(r) \/ Invite(r) \/ Join(r) \/ WriteRow(r)

Next ==
  \/ \E r \in Requests : Serve(r)
  \/ \E a \in Accounts : DeleteRow(a) \/ \E p \in {0, Plan0[a]} : PlanChanges(a, p)
  \/ \E w \in Ids, a \in Accounts : InviteExpires(w, a)

Spec == Init /\ [][Next]_vars

------------------------------------------------------------------------------
(* The types of the tables and of the requests.                               *)
TypeOK ==
  /\ plan \in [Accounts -> 0 .. 1] /\ changes \in 0 .. MaxChanges
  /\ owner \in [Ids -> Accounts \cup {None}] /\ made \in 0 .. MaxWorkspaces
  /\ member \in [Accounts -> 0 .. made]
  /\ invite \in [Ids -> [Accounts -> [open : BOOLEAN, token : 0 .. MaxInvites]]]
  /\ row \in [Accounts -> (0 .. made) \cup {None}]
  /\ stale \subseteq Accounts /\ late \subseteq Accounts
  /\ spent \subseteq Tokens /\ expired \subseteq Tokens

(* A workspace that is there has its owner among its members, and nobody is   *)
(* in one that is gone, nor has one an open invitation or a row.              *)
(* (The unique indexes and foreign keys of 0149 under `_create`, `join` and   *)
(* `dissolve_workspace`.)                                                     *)
OwnersAreIn ==
  \A w \in Ids :
    IF owner[w] # None THEN member[owner[w]] = w
    ELSE Members(w) = {} /\ Open(w) = {} /\ \A a \in Accounts : row[a] # w

(* Members never outnumber the seats, and an invitation that is still good has*)
(* its seat next to the members that joined in time, whatever is invited,     *)
(* joined, cancelled or left at once and whatever becomes of the owner's plan.*)
(* Who joins late, by a request that began before its token expired, may take *)
(* the seat of an invitation that was sent meanwhile. (The locks of `invite`  *)
(* and `join`; `expires_at > now()`.)                                         *)
SeatsAreKept ==
  \A w \in Ids : owner[w] # None =>
    /\ Cardinality(Members(w)) <= Seats
    /\ Cardinality(Members(w) \ late) + Cardinality(Pending(w, expired)) <= Seats

(* An invitation works once: who joins does it with a token that brought      *)
(* nobody in before, also when it left, was removed, or sent the link twice.  *)
(* (`used_at` in `join`.)                                                     *)
TokensWorkOnce ==
  [][ \A a \in Accounts :
        member[a] = 0 /\ member'[a] # 0 /\ owner'[member'[a]] # a =>
          spent' # spent ]_vars

(* A member's row carries its workspace while it is a member and none         *)
(* afterwards, but for one that was written on a reading from before it       *)
(* joined or left. (`_share`, `_detach`, the foreign keys of `dissolve`.)     *)
RowsFollow ==
  \A a \in Accounts \ stale : row[a] \in {None, member[a]}
==============================================================================
