------------------------------- MODULE Billing -------------------------------
(* Payments of dgate/billing.py: the checkouts an account opens, Creem's      *)
(* subscriptions, and the webhook that applies Creem's events, delivered late,*)
(* twice, out of order and several at once, to one row per account.           *)
(*                                                                            *)
(* A checkout and the subscription it is paid into have one name. The states  *)
(* the code treats alike have one: "active" stands for trialing and past_due  *)
(* as well, "unpaid" for paused, "canceled" for expired. A subscription's     *)
(* stamps count its own changes, since the code compares no others. A         *)
(* transaction that holds the account's row is one step; one that found none  *)
(* to lock shows its reads and its write apart. Signatures, shapes and the    *)
(* age of an event, the customer's id and what is shown are left out.         *)
EXTENDS Integers, FiniteSets

CONSTANTS
  Accounts,
  Refs,          \* checkouts
  Buyer,         \* the account that opens a checkout
  Plan,          \* and the plan it buys
  None,
  Cap,           \* FOUNDING_CAP
  MaxAt,         \* bound on the stamps of a subscription
  MaxAgain,      \* bound on the events waiting to be delivered again
  MaxTx          \* bound on the webhook calls in progress

(* What the tables hold.                                                      *)
Plans == {"founding", "pro"}
Status == {"active", "scheduled_cancel", "unpaid", "disputed", "canceled"}
Rows == [sub : Refs, plan : Plans, status : Status, at : Nat, kept : BOOLEAN,
         end : Refs \cup {None}, late : BOOLEAN]

ASSUME BillingAssumption ==
  /\ IsFiniteSet(Accounts) /\ IsFiniteSet(Refs)
  /\ Buyer \in [Refs -> Accounts]
  /\ Plan \in [Refs -> Plans]
  /\ None \notin Refs \cup Rows
  /\ MaxAt \in [Refs -> Nat]
  /\ {Cap, MaxAgain, MaxTx} \subseteq Nat

VARIABLES
  checkout,      \* billing_checkout: none, held, lapsed (opened an hour ago), completed
  row,           \* billing_subscription of each account, or None
  creem,         \* Creem's subscriptions: status and stamp of the last change
  runOut,        \* subscriptions whose paid period has ended
  sent,          \* events Creem has still to deliver
  seen,          \* of those, the ones in billing_event
  tx,            \* the webhook's transactions that wait or will write
  told,          \* second subscriptions the operator was told of
  overlapped     \* auxiliary: accounts that had two events applied at once

vars == <<checkout, row, creem, runOut, sent, seen, tx, told, overlapped>>

Event(kind, r, status, at) == [kind |-> kind, ref |-> r, status |-> status, at |-> at]
OfAccount(events, a) == {e \in events : Buyer[e.ref] = a}

Init ==
  /\ checkout = [r \in Refs |-> "none"]
  /\ row = [a \in Accounts |-> None]
  /\ creem = [r \in Refs |-> [status |-> "none", at |-> 0]]
  /\ runOut = {}
  /\ sent = {} /\ seen = {} /\ tx = {} /\ told = {}
  /\ overlapped = {}

-----------------------------------------------------------------------------
(* What a row allows.                                                         *)

Past(end) == end # None /\ end \in runOut

(* Creem can charge it no more.                                               *)
Over(b) ==
  \/ b = None
  \/ b # None /\ b.status = "canceled"
  \/ b # None /\ b.status = "scheduled_cancel" /\ Past(b.end)

PlanInForce(b) ==
  IF b # None /\ (b.status = "active" \/ (b.status = "scheduled_cancel" /\ ~Past(b.end)))
  THEN b.plan ELSE "free"

Founding(b) == b # None /\ b.plan = "founding" /\ b.status # "canceled"

(* Mutated: an open checkout holds no place.                                  *)
FoundingLeftUnheld(a) == Cap - Cardinality({o \in Accounts : Founding(row[o])})

FoundingLeft(a) ==
  Cap - Cardinality({o \in Accounts : Founding(row[o])})
      - Cardinality({r \in Refs : Plan[r] = "founding" /\ checkout[r] = "held" /\ Buyer[r] # a})

-----------------------------------------------------------------------------
(* The account's side, and Creem's.                                           *)

Checkout(r) ==
  /\ checkout[r] = "none"
  /\ PlanInForce(row[Buyer[r]]) = "free"
  /\ Plan[r] = "founding" => FoundingLeft(Buyer[r]) > 0
  /\ checkout' = [checkout EXCEPT ![r] = "held"]
  /\ UNCHANGED <<row, creem, runOut, sent, seen, tx, told, overlapped>>

HoldLapses(r) ==
  /\ checkout[r] = "held" /\ Plan[r] = "founding"
  /\ checkout' = [checkout EXCEPT ![r] = "lapsed"]
  /\ UNCHANGED <<row, creem, runOut, sent, seen, tx, told, overlapped>>

Pay(r) ==
  /\ checkout[r] \in {"held", "lapsed"} /\ creem[r].status = "none"
  /\ creem' = [creem EXCEPT ![r] = [status |-> "active", at |-> 1]]
  /\ sent' = sent \cup {Event("completed", r, "active", 1), Event("subscription", r, "active", 1)}
  /\ UNCHANGED <<checkout, row, runOut, seen, tx, told, overlapped>>

(* A subscription changes at Creem; `kinds` are the events that says.         *)
Becomes(r, status, kinds) ==
  /\ creem[r].at < MaxAt[r]
  /\ creem' = [creem EXCEPT ![r] = [status |-> status, at |-> @.at + 1]]
  /\ sent' = sent \cup {Event(k, r, status, creem[r].at + 1) : k \in kinds}
  /\ UNCHANGED <<checkout, row, seen, tx, told, overlapped>>

Change(r, status) ==
  /\ creem[r].status \notin {"none", "canceled", status}
  /\ status # "disputed"
  /\ Becomes(r, status, {"subscription"}) /\ UNCHANGED runOut

(* A refund, a dispute: later than the payment's own events are delivered.    *)
Settled(r) == creem[r].status # "none" /\ \A e \in sent : e.ref = r => e.at > 1

Refund(r) ==
  /\ Settled(r)
  /\ \/ creem[r].status # "canceled" /\ Becomes(r, creem[r].status, {"refund"})
     \/ creem[r].status # "canceled" /\ Becomes(r, "canceled", {"subscription", "refund"})
  /\ UNCHANGED runOut

Dispute(r) ==
  /\ Settled(r) /\ creem[r].status \notin {"canceled", "disputed"}
  /\ Becomes(r, "disputed", {"dispute"}) /\ UNCHANGED runOut

PeriodEnds(r) ==
  /\ creem[r].status = "scheduled_cancel"
  /\ runOut' = runOut \cup {r}
  /\ Becomes(r, "canceled", {"subscription"})

-----------------------------------------------------------------------------
(* The webhook.                                                               *)

(* The answer reaches Creem, or is lost and the event is delivered again.     *)
Acknowledge(e) ==
  \/ sent' = sent \ {e} /\ seen' = seen
  \/ Cardinality(seen) < MaxAgain /\ sent' = sent /\ seen' = seen \cup {e}

Duplicate(e) ==
  /\ e \in seen
  /\ sent' = sent \ {e} /\ seen' = seen \ {e}
  /\ UNCHANGED <<checkout, row, creem, runOut, tx, told, overlapped>>

(* A refund keeps the row's status unless Creem says it ended the plan.       *)
KeepsStatus(e) == e.kind = "refund" /\ e.status # "canceled"

(* `_write`: the account's one row. It notes whether the last event kept the  *)
(* status, and whether the checkout of a founding plan still held its place   *)
(* when its subscription came into the row.                                   *)
Written(a, r, plan, status, end, e) ==
  LET old == row[a] IN
  [sub |-> r, plan |-> plan, status |-> status, at |-> e.at,
   kept |-> KeepsStatus(e),
   end |-> IF end = None /\ old # None THEN old.end ELSE end,
   late |-> IF old # None /\ old.sub = r THEN old.late
            ELSE plan = "founding" /\ checkout[r] # "held"]

Write(a, r, plan, status, end, e) ==
  row' = [row EXCEPT ![a] = Written(a, r, plan, status, end, e)]

(* What a subscription's event says of the period's end; the others may name  *)
(* the subscription by its id alone.                                          *)
EndOf(e) == IF e.kind = "subscription" THEN e.ref ELSE None

(* Mutated: newness is not looked at.                                         *)
OlderNever(b, e) == FALSE

Older(b, e) == b.at > e.at

(* Mutated: the operator is not told.                                         *)
TellNobody(r) == told

Tell(r) == told \cup {r}

CheckoutLocked(r) == \E t \in tx : t.step = "write" /\ t.e.ref = r

CheckoutCompleted(e) ==
  LET r == e.ref  a == Buyer[r]  live == row[a] IN
  /\ e.kind = "completed" /\ ~CheckoutLocked(r)
  /\ IF live = None
     THEN /\ tx' = tx \cup {[e |-> e, step |-> "write"]}
          /\ UNCHANGED <<checkout, row, sent, seen, told>>
     ELSE /\ checkout' = [checkout EXCEPT ![r] = "completed"]
          /\ Acknowledge(e)
          /\ IF live.sub # r /\ ~Over(live)
             THEN told' = Tell(r) /\ row' = row
             ELSE /\ told' = told
                  /\ IF live.sub = r /\ Older(live, e)
                     THEN row' = row
                     ELSE Write(a, r, Plan[r], e.status, EndOf(e), e)
          /\ UNCHANGED tx

StatusAfter(b, e) == IF KeepsStatus(e) THEN b.status ELSE e.status

(* The row that carries the subscription is found, and locked.                *)
Found(e) ==
  LET a == Buyer[e.ref]  b == row[a] IN
  /\ e.kind # "completed"
  /\ b # None /\ b.sub = e.ref
  /\ Acknowledge(e)
  /\ IF Older(b, e) THEN row' = row ELSE Write(a, e.ref, b.plan, StatusAfter(b, e), EndOf(e), e)
  /\ UNCHANGED <<checkout, tx, told>>

NotFound(e) ==
  /\ e.kind # "completed"
  /\ row[Buyer[e.ref]] # None => row[Buyer[e.ref]].sub # e.ref
  /\ IF e.kind = "subscription"
     THEN tx' = tx \cup {[e |-> e, step |-> "checkout"]} /\ UNCHANGED <<sent, seen>>
     ELSE Acknowledge(e) /\ tx' = tx
  /\ UNCHANGED <<checkout, row, told>>

Deliver(e) ==
  LET a == Buyer[e.ref]
      others == {t \in tx : Buyer[t.e.ref] = a}
  IN
  /\ e \in sent \ seen
  /\ \A t \in tx : t.e # e
  /\ Cardinality(tx) < MaxTx
  /\ overlapped' = IF others # {} THEN overlapped \cup {a} ELSE overlapped
  /\ CheckoutCompleted(e) \/ Found(e) \/ NotFound(e)
  /\ UNCHANGED <<creem, runOut>>

(* Mutated: a subscription in the row does not keep another out.              *)
OccupiedNever(b) == FALSE

Occupied(b) == ~Over(b)

(* The checkout its metadata names, locked, then the row, read unlocked.      *)
BeforeCheckout(t) ==
  /\ t.step = "checkout" /\ ~CheckoutLocked(t.e.ref)
  /\ IF Occupied(row[Buyer[t.e.ref]])
     THEN tx' = tx \ {t} /\ Acknowledge(t.e)
     ELSE tx' = (tx \ {t}) \cup {[t EXCEPT !.step = "write"]} /\ UNCHANGED <<sent, seen>>
  /\ UNCHANGED <<checkout, row, creem, runOut, told, overlapped>>

Commit(t) ==
  LET r == t.e.ref IN
  /\ t.step = "write"
  /\ Write(Buyer[r], r, Plan[r], t.e.status, EndOf(t.e), t.e)
  /\ checkout' = IF t.e.kind = "completed" THEN [checkout EXCEPT ![r] = "completed"] ELSE checkout
  /\ tx' = tx \ {t}
  /\ Acknowledge(t.e)
  /\ UNCHANGED <<creem, runOut, told, overlapped>>

Next ==
  \/ \E r \in Refs : Checkout(r) \/ HoldLapses(r) \/ Pay(r)
  \/ \E r \in Refs : Refund(r) \/ Dispute(r) \/ PeriodEnds(r)
  \/ \E r \in Refs, s \in Status : Change(r, s)
  \/ \E e \in sent : Duplicate(e) \/ Deliver(e)
  \/ \E t \in tx : BeforeCheckout(t) \/ Commit(t)

Spec == Init /\ [][Next]_vars

-----------------------------------------------------------------------------
TypeOK ==
  /\ checkout \in [Refs -> {"none", "held", "lapsed", "completed"}]
  /\ \A a \in Accounts : row[a] # None => row[a] \in Rows
  /\ \A r \in Refs : creem[r].status = "none" <=> creem[r].at = 0
  /\ seen \subseteq sent
  /\ \A t \in tx : t.e \in sent \ seen
  /\ told \subseteq Refs

(* Nothing of the account is on its way and nothing was applied at once.      *)
Quiet(a) == OfAccount(sent, a) = {} /\ a \notin overlapped
Bought(a) == {r \in Refs : Buyer[r] = a /\ creem[r].status # "none"}

(* Once every event of an account's one subscription has been handled, in     *)
(* whatever order and however often it came, the row says what Creem says: a  *)
(* plan that is paid for is given, one that is over is taken. A refund that   *)
(* leaves the subscription running is the exception: it sets the row's stamp  *)
(* and keeps its status (`_refund_or_dispute`).                               *)
RowFollowsCreem ==
  \A a \in Accounts : \A r \in Refs :
    Quiet(a) /\ Bought(a) = {r} =>
      /\ row[a] # None /\ row[a].sub = r
      /\ ~row[a].kept => row[a].status = creem[r].status

(* An account that pays a second subscription has it, or the operator was     *)
(* told to refund it: a subscription Creem still charges is never without     *)
(* either (`_checkout_completed`).                                            *)
PaidIsHeldOrTold ==
  \A r \in Refs :
    Quiet(Buyer[r]) /\ creem[r].status \notin {"none", "canceled"} =>
      row[Buyer[r]].sub = r \/ r \in told

(* "The first stays": a subscription that Creem may still charge is not       *)
(* replaced in the row by another.                                            *)
FirstStays ==
  [][\A a \in Accounts :
       a \notin overlapped' /\ ~Over(row[a]) => row'[a].sub = row[a].sub]_vars

(* B2: an event older than the last one applied to the subscription changes   *)
(* nothing, whatever kind of event it is.                                     *)
NeverBackwards ==
  [][\A a \in Accounts :
       a \notin overlapped' /\ row[a] # None /\ row'[a].sub = row[a].sub
         => row'[a].at >= row[a].at]_vars

(* No more Founding customers than places, but for the checkouts whose hold   *)
(* of an hour had lapsed when their subscription came into the row.           *)
FoundingCap ==
  Cardinality({a \in Accounts \ overlapped : Founding(row[a]) /\ ~row[a].late}) <= Cap
=============================================================================
