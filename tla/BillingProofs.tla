---------------------------- MODULE BillingProofs ----------------------------
(* The promises of the webhook, proved of Billing for any accounts, checkouts *)
(* and bounds. Two are of single steps: a subscription that is not over stays,*)
(* an older event changes nothing. Three are of the state: what Creem has     *)
(* been answered is in the row, nobody pays for nothing unseen, and founding  *)
(* places are kept. Two events of one account applied at once are excepted.   *)
EXTENDS Billing, FiniteSetTheorems, TLAPS

Events ==
  [kind : {"completed", "subscription", "refund", "dispute"}, ref : Refs, status : Status, at : Nat]

(* The tables and what is on its way.                                         *)
Shapes ==
  /\ checkout \in [Refs -> {"none", "held", "lapsed", "completed"}]
  /\ row = [a \in Accounts |-> row[a]]
  /\ \A a \in Accounts : row[a] # None =>
       row[a].sub \in Refs /\ row[a].status \in Status /\ row[a].at \in Nat
  /\ creem \in [Refs -> [status : Status \cup {"none"}, at : Nat]]
  /\ \A r \in Refs : creem[r].status = "none" <=> creem[r].at = 0
  /\ sent \subseteq Events
  /\ seen \subseteq sent
  /\ told \subseteq Refs

(* A transaction works on an event that is not answered yet, one on each.     *)
Working ==
  /\ \A t \in tx : t.e \in sent \ seen /\ t.step \in {"checkout", "write"}
  /\ \A t \in tx : t = [e |-> t.e, step |-> t.step]
  /\ \A t, u \in tx : t.e = u.e => t = u

(* Alone on its account, a transaction finds the row as it read it: without   *)
(* its subscription, and over when it is about to write.                      *)
Reads(t, a) ==
  /\ row[a] = None \/ row[a].sub # t.e.ref
  /\ t.step = "write" => Over(row[a])

Alone ==
  \A a \in Accounts \ overlapped :
    /\ \A t \in tx : Buyer[t.e.ref] = a => Reads(t, a)
    /\ \A t, u \in tx : Buyer[t.e.ref] = a /\ Buyer[u.e.ref] = a => t = u

IInv == Shapes /\ Working /\ Alone

LEMMA InitIInv == Init => IInv
BY BillingAssumption DEF BillingAssumption, Init, IInv, Shapes, Working, Alone, Status

------------------------------------------------------------------------------
(* Steps of the account and of Creem: they move no row and no transaction.    *)

LEMMA OverStays ==
  ASSUME NEW b, runOut \subseteq runOut', Over(b)
  PROVE  Over(b)'
BY DEF Over, Past

LEMMA SameTables ==
  ASSUME IInv, Shapes', UNCHANGED <<row, tx, seen, overlapped>>,
         sent \subseteq sent', runOut \subseteq runOut'
  PROVE  IInv'
<1>1. Working'
  BY DEF IInv, Working
<1>2. Alone'
  <2>1. SUFFICES ASSUME NEW a \in Accounts \ overlapped,
                        NEW t \in tx, Buyer[t.e.ref] = a
                 PROVE  Reads(t, a)'
    BY DEF IInv, Alone
  <2>2. Reads(t, a)
    BY <2>1 DEF IInv, Alone
  <2>3. (row[a])' = row[a]
    OBVIOUS
  <2>4. Over(row[a]) => Over(row[a])'
    BY DEF Over, Past
  <2> QED BY <2>2, <2>3, <2>4 DEF Reads
<1> QED BY <1>1, <1>2 DEF IInv

LEMMA BecomesShapes ==
  ASSUME Shapes, NEW r \in Refs, NEW s \in Status, NEW kinds,
         kinds \subseteq {"completed", "subscription", "refund", "dispute"}, Becomes(r, s, kinds)
  PROVE  Shapes' /\ sent \subseteq sent' /\ UNCHANGED <<row, tx, seen, overlapped>>
<1>1. creem[r].at \in Nat
  BY DEF Shapes
<1>2. creem' = [creem EXCEPT ![r] = [status |-> s, at |-> creem[r].at + 1]]
  BY DEF Becomes
<1>3. s # "none" /\ s \in Status \cup {"none"}
  BY DEF Status
<1>4. /\ creem' \in [Refs -> [status : Status \cup {"none"}, at : Nat]]
      /\ \A q \in Refs : creem'[q].status = "none" <=> creem'[q].at = 0
  BY <1>1, <1>2, <1>3 DEF Shapes
<1>5. sent' \subseteq Events /\ sent \subseteq sent'
  BY <1>1 DEF Becomes, Event, Events, Shapes
<1> QED BY <1>4, <1>5 DEF Becomes, Shapes

LEMMA OutsideIInv ==
  ASSUME IInv, NEW r \in Refs,
         \/ Checkout(r) \/ HoldLapses(r) \/ Pay(r) \/ Refund(r) \/ Dispute(r) \/ PeriodEnds(r)
         \/ \E s \in Status : Change(r, s)
  PROVE  IInv' /\ row' = row
<1>1. CASE Checkout(r)
  <2>1. Shapes'
    BY <1>1 DEF Checkout, IInv, Shapes
  <2> QED BY <1>1, <2>1, SameTables DEF Checkout
<1>2. CASE HoldLapses(r)
  <2>1. Shapes'
    BY <1>2 DEF HoldLapses, IInv, Shapes
  <2> QED BY <1>2, <2>1, SameTables DEF HoldLapses
<1>3. CASE Pay(r)
  <2>1. creem' = [creem EXCEPT ![r] = [status |-> "active", at |-> 1]]
    BY <1>3 DEF Pay
  <2>2. "active" \in Status
    BY DEF Status
  <2>3. /\ creem' \in [Refs -> [status : Status \cup {"none"}, at : Nat]]
        /\ \A q \in Refs : creem'[q].status = "none" <=> creem'[q].at = 0
    BY <2>1, <2>2 DEF IInv, Shapes
  <2>4. sent' \subseteq Events /\ sent \subseteq sent'
    BY <1>3, <2>2 DEF Pay, Event, Events, IInv, Shapes
  <2>5. Shapes'
    BY <1>3, <2>3, <2>4 DEF Pay, IInv, Shapes
  <2> QED BY <1>3, <2>4, <2>5, SameTables DEF Pay
<1>4. CASE Refund(r)
  <2>1. creem[r].status \in Status /\ "canceled" \in Status
    BY <1>4 DEF Refund, Settled, IInv, Shapes, Status
  <2>2. Shapes' /\ sent \subseteq sent' /\ UNCHANGED <<row, tx, seen, overlapped>>
    BY <1>4, <2>1, BecomesShapes DEF Refund, IInv
  <2> QED BY <1>4, <2>2, SameTables DEF Refund
<1>5. CASE Dispute(r)
  <2>1. "disputed" \in Status
    BY DEF Status
  <2>2. Shapes' /\ sent \subseteq sent' /\ UNCHANGED <<row, tx, seen, overlapped>>
    BY <1>5, <2>1, BecomesShapes DEF Dispute, IInv
  <2> QED BY <1>5, <2>2, SameTables DEF Dispute
<1>6. CASE PeriodEnds(r)
  <2>1. "canceled" \in Status
    BY DEF Status
  <2>2. Shapes' /\ sent \subseteq sent' /\ UNCHANGED <<row, tx, seen, overlapped>>
    BY <1>6, <2>1, BecomesShapes DEF PeriodEnds, IInv
  <2> QED BY <1>6, <2>2, SameTables DEF PeriodEnds
<1>7. CASE \E s \in Status : Change(r, s)
  <2>1. PICK s \in Status : Change(r, s)
    BY <1>7
  <2>2. Shapes' /\ sent \subseteq sent' /\ UNCHANGED <<row, tx, seen, overlapped>>
    BY <2>1, BecomesShapes DEF Change, IInv
  <2> QED BY <2>1, <2>2, SameTables DEF Change
<1> QED BY <1>1, <1>2, <1>3, <1>4, <1>5, <1>6, <1>7
------------------------------------------------------------------------------
(* Steps of the webhook.                                                      *)

LEMMA Answered ==
  ASSUME Shapes, NEW e \in sent \ seen, Acknowledge(e)
  PROVE  /\ sent' \subseteq Events /\ seen' \subseteq sent'
         /\ \A f \in sent \ seen : f # e => f \in sent' \ seen'
BY DEF Acknowledge, Shapes

LEMMA WrittenRow ==
  ASSUME Shapes, NEW a \in Accounts, NEW r \in Refs, NEW plan, NEW status \in Status, NEW end,
         NEW e \in Events, Write(a, r, plan, status, end, e)
  PROVE  /\ row' = [b \in Accounts |-> row'[b]]
         /\ \A b \in Accounts : row'[b] # None =>
              row'[b].sub \in Refs /\ row'[b].status \in Status /\ row'[b].at \in Nat
         /\ \A b \in Accounts : b # a => row'[b] = row[b]
         /\ row'[a].sub = r /\ row'[a].at = e.at
<1> DEFINE new == Written(a, r, plan, status, end, e)
<1>1. new.sub = r /\ new.status = status /\ new.at = e.at
  BY DEF Written
<1>2. e.at \in Nat
  BY DEF Events
<1>3. row' = [row EXCEPT ![a] = new]
  BY DEF Write
<1> HIDE DEF new
<1>4. \A b \in Accounts : row'[b] = IF b = a THEN new ELSE row[b]
  BY <1>3 DEF Shapes
<1>5. row' = [b \in Accounts |-> row'[b]]
  BY <1>3 DEF Shapes
<1> QED BY <1>1, <1>2, <1>4, <1>5 DEF Shapes

(* What a delivery does: it begins a transaction that has read the row, or it *)
(* is answered, with the row written or not.                                  *)
Begins(e) ==
  LET a == Buyer[e.ref] IN
  /\ UNCHANGED <<checkout, row, sent, seen, told>>
  /\ \E step \in {"checkout", "write"} :
       /\ tx' = tx \cup {[e |-> e, step |-> step]}
       /\ step = "write" => Over(row[a])
  /\ row[a] = None \/ row[a].sub # e.ref

Writes(e) ==
  LET a == Buyer[e.ref] IN
  /\ row[a] # None
  /\ row[a].sub = e.ref \/ Over(row[a])
  /\ row[a].sub = e.ref => ~Older(row[a], e)
  /\ \E plan, end : \E status \in Status : Write(a, e.ref, plan, status, end, e)

Answers(e) ==
  /\ tx' = tx /\ Acknowledge(e)
  /\ checkout' \in [Refs -> {"none", "held", "lapsed", "completed"}]
  /\ told' \subseteq Refs
  /\ row' = row \/ Writes(e)

LEMMA DeliverEffect ==
  ASSUME IInv, NEW e \in sent, Deliver(e)
  PROVE  Begins(e) \/ Answers(e)
<1> DEFINE r == e.ref
           a == Buyer[r]
<1>1. /\ e \in Events /\ r \in Refs /\ e.status \in Status
      /\ a \in Accounts
  BY BillingAssumption DEF IInv, Shapes, Events, BillingAssumption
<1>2. CASE CheckoutCompleted(e)
  <2>1. CASE row[a] = None
    <3>1. /\ tx' = tx \cup {[e |-> e, step |-> "write"]}
          /\ UNCHANGED <<checkout, row, sent, seen, told>>
      BY <1>2, <2>1 DEF CheckoutCompleted
    <3>2. Over(row[a])
      BY <2>1 DEF Over
    <3> QED BY <3>1, <3>2, <2>1 DEF Begins
  <2>2. CASE row[a] # None
    <3>1. /\ checkout' = [checkout EXCEPT ![r] = "completed"]
          /\ Acknowledge(e) /\ tx' = tx
          /\ told' = Tell(r) \/ told' = told
      BY <1>2, <2>2 DEF CheckoutCompleted
    <3>2. row' = row \/ Writes(e)
      <4>1. CASE row[a].sub # r /\ ~Over(row[a])
        BY <1>2, <2>2, <4>1 DEF CheckoutCompleted
      <4>2. CASE ~(row[a].sub # r /\ ~Over(row[a])) /\ row[a].sub = r /\ Older(row[a], e)
        BY <1>2, <2>2, <4>2 DEF CheckoutCompleted
      <4>3. CASE ~(row[a].sub # r /\ ~Over(row[a])) /\ ~(row[a].sub = r /\ Older(row[a], e))
        <5>1. Write(a, r, Plan[r], e.status, EndOf(e), e)
          BY <1>2, <2>2, <4>3 DEF CheckoutCompleted
        <5> QED BY <5>1, <4>3, <1>1, <2>2 DEF Writes
      <4> QED BY <4>1, <4>2, <4>3
    <3>3. checkout' \in [Refs -> {"none", "held", "lapsed", "completed"}]
      BY <3>1, <1>1 DEF IInv, Shapes
    <3>4. told' \subseteq Refs
      BY <3>1, <1>1 DEF Tell, IInv, Shapes
    <3> QED BY <3>1, <3>2, <3>3, <3>4 DEF Answers
  <2> QED BY <2>1, <2>2
<1>3. CASE Found(e)
  <2>1. /\ Acknowledge(e)
        /\ UNCHANGED <<checkout, tx, told>>
        /\ row[a] # None /\ row[a].sub = r
    BY <1>3 DEF Found
  <2>2. row' = row \/ Writes(e)
    <3>1. CASE Older(row[a], e)
      BY <1>3, <3>1 DEF Found
    <3>2. CASE ~Older(row[a], e)
      <4>1. Write(a, r, row[a].plan, StatusAfter(row[a], e), EndOf(e), e)
        BY <1>3, <3>2 DEF Found
      <4>2. StatusAfter(row[a], e) \in Status
        BY <1>1, <2>1 DEF StatusAfter, IInv, Shapes
      <4> QED BY <4>1, <4>2, <2>1, <3>2 DEF Writes
    <3> QED BY <3>1, <3>2
  <2> QED BY <2>1, <2>2 DEF Answers, IInv, Shapes
<1>4. CASE NotFound(e)
  <2>1. /\ UNCHANGED <<checkout, row, told>>
        /\ row[a] = None \/ row[a].sub # r
    BY <1>4 DEF NotFound
  <2>2. CASE e.kind = "subscription"
    BY <1>4, <2>1, <2>2 DEF NotFound, Begins
  <2>3. CASE e.kind # "subscription"
    BY <1>4, <2>1, <2>3 DEF NotFound, Answers, IInv, Shapes
  <2> QED BY <2>2, <2>3
<1> QED BY <1>2, <1>3, <1>4 DEF Deliver
LEMMA BeginsIInv ==
  ASSUME IInv, NEW e \in sent \ seen, \A t \in tx : t.e # e, Begins(e), UNCHANGED <<creem, runOut>>,
         overlapped' = IF {t \in tx : Buyer[t.e.ref] = Buyer[e.ref]} # {}
                       THEN overlapped \cup {Buyer[e.ref]} ELSE overlapped
  PROVE  IInv'
<1> DEFINE a == Buyer[e.ref]
<1>1. PICK step \in {"checkout", "write"} :
        /\ tx' = tx \cup {[e |-> e, step |-> step]}
        /\ step = "write" => Over(row[a])
  BY DEF Begins
<1>2. Shapes'
  BY DEF Begins, IInv, Shapes
<1>3. Working'
  BY <1>1 DEF Begins, IInv, Working
<1>4. Alone'
  <2>1. SUFFICES ASSUME NEW b \in Accounts \ overlapped'
                 PROVE  /\ \A t \in tx' : Buyer[t.e.ref] = b => Reads(t, b)'
                        /\ \A t, u \in tx' : Buyer[t.e.ref] = b /\ Buyer[u.e.ref] = b => t = u
    BY DEF Alone, Begins
  <2>2. b \in Accounts \ overlapped
    BY <2>1
  <2>3. \A t : Reads(t, b)' <=> Reads(t, b)
    BY DEF Reads, Over, Past, Begins
  <2>4. CASE b # a
    BY <2>2, <2>3, <2>4, <1>1 DEF IInv, Alone
  <2>5. CASE b = a
    <3>1. {t \in tx : Buyer[t.e.ref] = a} = {}
      BY <2>1, <2>5
    <3>2. \A t \in tx' : Buyer[t.e.ref] = b => t = [e |-> e, step |-> step]
      BY <3>1, <2>5, <1>1
    <3>3. Reads([e |-> e, step |-> step], b)
      BY <1>1, <2>5 DEF Reads, Begins
    <3> QED BY <3>2, <3>3, <2>3
  <2> QED BY <2>4, <2>5
<1> QED BY <1>2, <1>3, <1>4 DEF IInv

LEMMA AnswersIInv ==
  ASSUME IInv, NEW e \in sent \ seen, \A t \in tx : t.e # e, Answers(e), UNCHANGED <<creem, runOut>>,
         overlapped' = IF {t \in tx : Buyer[t.e.ref] = Buyer[e.ref]} # {}
                       THEN overlapped \cup {Buyer[e.ref]} ELSE overlapped
  PROVE  IInv'
<1> DEFINE a == Buyer[e.ref]
<1>1. e \in Events /\ e.ref \in Refs /\ a \in Accounts
  BY BillingAssumption DEF IInv, Shapes, Events, BillingAssumption
<1>2. /\ sent' \subseteq Events /\ seen' \subseteq sent'
      /\ \A f \in sent \ seen : f # e => f \in sent' \ seen'
  BY Answered DEF Answers, IInv
<1>3. /\ row' = [b \in Accounts |-> row'[b]]
      /\ \A b \in Accounts : row'[b] # None =>
           row'[b].sub \in Refs /\ row'[b].status \in Status /\ row'[b].at \in Nat
      /\ \A b \in Accounts : b # a => row'[b] = row[b]
  <2>1. CASE row' = row
    BY <2>1 DEF IInv, Shapes
  <2>2. CASE Writes(e)
    BY <2>2, <1>1, WrittenRow DEF Writes, IInv
  <2> QED BY <2>1, <2>2 DEF Answers
<1>4. Shapes'
  BY <1>2, <1>3 DEF Answers, IInv, Shapes
<1>5. Working'
  BY <1>2 DEF Answers, IInv, Working
<1>6. Alone'
  <2>1. SUFFICES ASSUME NEW b \in Accounts \ overlapped'
                 PROVE  /\ \A t \in tx : Buyer[t.e.ref] = b => Reads(t, b)'
                        /\ \A t, u \in tx : Buyer[t.e.ref] = b /\ Buyer[u.e.ref] = b => t = u
    BY DEF Alone, Answers
  <2>2. b \in Accounts \ overlapped
    BY <2>1
  <2>3. CASE b # a
    <3>1. \A t : Reads(t, b)' <=> Reads(t, b)
      BY <1>3, <2>1, <2>3 DEF Reads, Over, Past
    <3> QED BY <2>2, <3>1 DEF IInv, Alone
  <2>4. CASE b = a
    <3>1. {t \in tx : Buyer[t.e.ref] = a} = {}
      BY <2>1, <2>4
    <3> QED BY <3>1, <2>4
  <2> QED BY <2>3, <2>4
<1> QED BY <1>4, <1>5, <1>6 DEF IInv

LEMMA DuplicateIInv ==
  ASSUME IInv, NEW e \in sent, Duplicate(e)
  PROVE  IInv' /\ row' = row
<1>1. Shapes'
  BY DEF Duplicate, IInv, Shapes
<1>2. Working'
  BY DEF Duplicate, IInv, Working
<1>3. \A t, a : Reads(t, a)' <=> Reads(t, a)
  BY DEF Duplicate, Reads, Over, Past
<1>4. Alone'
  BY <1>3 DEF Duplicate, IInv, Alone
<1> QED BY <1>1, <1>2, <1>4 DEF IInv, Duplicate

LEMMA BeforeCheckoutIInv ==
  ASSUME IInv, NEW t \in tx, BeforeCheckout(t)
  PROVE  IInv' /\ row' = row
<1> DEFINE a == Buyer[t.e.ref]
           v == [t EXCEPT !.step = "write"]
<1>1. t.e \in sent \ seen /\ t = [e |-> t.e, step |-> t.step]
  BY DEF IInv, Working
<1>2. \A u, b : Reads(u, b)' <=> Reads(u, b)
  BY DEF BeforeCheckout, Reads, Over, Past
<1>3. CASE Occupied(row[a])
  <2>1. tx' = tx \ {t} /\ Acknowledge(t.e)
    BY <1>3 DEF BeforeCheckout
  <2>2. /\ sent' \subseteq Events /\ seen' \subseteq sent'
        /\ \A f \in sent \ seen : f # t.e => f \in sent' \ seen'
    BY <1>1, <2>1, Answered DEF IInv
  <2>3. Shapes'
    BY <2>2 DEF BeforeCheckout, IInv, Shapes
  <2>4. Working'
    BY <2>1, <2>2 DEF IInv, Working
  <2>5. Alone'
    BY <2>1, <1>2 DEF BeforeCheckout, IInv, Alone
  <2> QED BY <2>3, <2>4, <2>5 DEF IInv, BeforeCheckout
<1>4. CASE ~Occupied(row[a])
  <2>1. tx' = (tx \ {t}) \cup {v} /\ UNCHANGED <<sent, seen>>
    BY <1>4 DEF BeforeCheckout
  <2>2. v = [e |-> t.e, step |-> "write"]
    BY <1>1
  <2>3. v.e = t.e /\ v.step = "write" /\ v = [e |-> v.e, step |-> v.step]
    BY <2>2
  <2> HIDE DEF v
  <2>4. Shapes'
    BY <2>1 DEF BeforeCheckout, IInv, Shapes
  <2>5. Working'
    BY <2>1, <2>3, <1>1 DEF IInv, Working
  <2>6. Alone'
    <3>1. SUFFICES ASSUME NEW b \in Accounts \ overlapped
                   PROVE  /\ \A u \in tx' : Buyer[u.e.ref] = b => Reads(u, b)
                          /\ \A u, w \in tx' : Buyer[u.e.ref] = b /\ Buyer[w.e.ref] = b => u = w
      BY <1>2 DEF Alone, BeforeCheckout
    <3>2. a = b => Reads(v, b)
      BY <1>4, <2>3, <3>1 DEF Reads, Occupied, IInv, Alone
    <3> QED BY <3>1, <3>2, <2>1, <2>3 DEF IInv, Alone
  <2> QED BY <2>4, <2>5, <2>6 DEF IInv, BeforeCheckout
<1> QED BY <1>3, <1>4
LEMMA CommitIInv ==
  ASSUME IInv, NEW t \in tx, Commit(t)
  PROVE  IInv'
<1> DEFINE r == t.e.ref
           a == Buyer[r]
<1>1. t.e \in sent \ seen
  BY DEF IInv, Working
<1>2. t.e \in Events /\ r \in Refs /\ t.e.status \in Status /\ a \in Accounts
  BY <1>1, BillingAssumption DEF IInv, Shapes, Events, BillingAssumption
<1>3. tx' = tx \ {t} /\ Acknowledge(t.e) /\ UNCHANGED <<creem, runOut, told, overlapped>>
  BY DEF Commit
<1>4. /\ sent' \subseteq Events /\ seen' \subseteq sent'
      /\ \A f \in sent \ seen : f # t.e => f \in sent' \ seen'
  BY <1>1, <1>3, Answered DEF IInv
<1>5. /\ row' = [b \in Accounts |-> row'[b]]
      /\ \A b \in Accounts : row'[b] # None =>
           row'[b].sub \in Refs /\ row'[b].status \in Status /\ row'[b].at \in Nat
      /\ \A b \in Accounts : b # a => row'[b] = row[b]
  <2>1. Write(a, r, Plan[r], t.e.status, EndOf(t.e), t.e)
    BY DEF Commit
  <2> QED BY <2>1, <1>2, WrittenRow DEF IInv
<1>6. Shapes'
  <2>1. checkout' \in [Refs -> {"none", "held", "lapsed", "completed"}]
    BY <1>2 DEF Commit, IInv, Shapes
  <2> QED BY <2>1, <1>3, <1>4, <1>5 DEF IInv, Shapes
<1>7. Working'
  BY <1>3, <1>4 DEF IInv, Working
<1>8. Alone'
  <2>1. SUFFICES ASSUME NEW b \in Accounts \ overlapped
                 PROVE  /\ \A u \in tx \ {t} : Buyer[u.e.ref] = b => Reads(u, b)'
                        /\ \A u, w \in tx \ {t} : Buyer[u.e.ref] = b /\ Buyer[w.e.ref] = b => u = w
    BY <1>3 DEF Alone
  <2>2. CASE b # a
    <3>1. \A u : Reads(u, b)' <=> Reads(u, b)
      BY <1>3, <1>5, <2>1, <2>2 DEF Reads, Over, Past
    <3> QED BY <3>1, <2>1 DEF IInv, Alone
  <2>3. CASE b = a
    <3>1. \A u \in tx \ {t} : Buyer[u.e.ref] # b
      BY <2>1, <2>3 DEF IInv, Alone
    <3> QED BY <3>1
  <2> QED BY <2>2, <2>3
<1> QED BY <1>6, <1>7, <1>8 DEF IInv

LEMMA NextIInv == IInv /\ [Next]_vars => IInv'
<1> SUFFICES ASSUME IInv, [Next]_vars PROVE IInv'
  OBVIOUS
<1>1. CASE UNCHANGED vars
  <2>1. Shapes' /\ Working'
    BY <1>1 DEF vars, IInv, Shapes, Working
  <2>2. Alone'
    BY <1>1 DEF vars, IInv, Alone, Reads, Over, Past
  <2> QED BY <2>1, <2>2 DEF IInv
<1>2. ASSUME NEW r \in Refs,
             \/ Checkout(r) \/ HoldLapses(r) \/ Pay(r) \/ Refund(r) \/ Dispute(r) \/ PeriodEnds(r)
             \/ \E s \in Status : Change(r, s)
      PROVE  IInv'
  BY <1>2, OutsideIInv
<1>3. ASSUME NEW e \in sent, Duplicate(e) PROVE IInv'
  BY <1>3, DuplicateIInv
<1>4. ASSUME NEW e \in sent, Deliver(e) PROVE IInv'
  <2>1. /\ e \in sent \ seen /\ \A t \in tx : t.e # e
        /\ UNCHANGED <<creem, runOut>>
        /\ overlapped' = IF {t \in tx : Buyer[t.e.ref] = Buyer[e.ref]} # {}
                         THEN overlapped \cup {Buyer[e.ref]} ELSE overlapped
    BY <1>4 DEF Deliver
  <2>2. Begins(e) \/ Answers(e)
    BY <1>4, DeliverEffect
  <2>3. CASE Begins(e)
    BY <2>1, <2>3, BeginsIInv
  <2>4. CASE Answers(e)
    BY <2>1, <2>4, AnswersIInv
  <2> QED BY <2>2, <2>3, <2>4
<1>5. ASSUME NEW t \in tx, BeforeCheckout(t) PROVE IInv'
  BY <1>5, BeforeCheckoutIInv
<1>6. ASSUME NEW t \in tx, Commit(t) PROVE IInv'
  BY <1>6, CommitIInv
<1> QED BY <1>1, <1>2, <1>3, <1>4, <1>5, <1>6 DEF Next

------------------------------------------------------------------------------
(* How a step moves a row: not at all, or an event that is not older writes   *)
(* it, over the same subscription or over one that is over; or two events of  *)
(* the account were applied at once.                                          *)

RowStep(a) ==
  \/ row'[a] = row[a]
  \/ a \in overlapped'
  \/ row[a] = None
  \/ Over(row[a]) /\ row'[a].sub # row[a].sub
  \/ /\ row'[a].sub = row[a].sub /\ row'[a].at >= row[a].at

LEMMA RowSteps ==
  ASSUME IInv, [Next]_vars, NEW a \in Accounts
  PROVE  RowStep(a)
<1>1. CASE UNCHANGED vars
  BY <1>1 DEF vars, RowStep
<1>2. ASSUME NEW r \in Refs,
             \/ Checkout(r) \/ HoldLapses(r) \/ Pay(r) \/ Refund(r) \/ Dispute(r) \/ PeriodEnds(r)
             \/ \E s \in Status : Change(r, s)
      PROVE  RowStep(a)
  BY <1>2, OutsideIInv DEF RowStep
<1>3. ASSUME NEW e \in sent, Duplicate(e) PROVE RowStep(a)
  BY <1>3, DuplicateIInv DEF RowStep
<1>4. ASSUME NEW e \in sent, Deliver(e) PROVE RowStep(a)
  <2> DEFINE b == Buyer[e.ref]
  <2>1. Begins(e) \/ Answers(e)
    BY <1>4, DeliverEffect
  <2>2. CASE row' = row
    BY <2>2 DEF RowStep
  <2>3. CASE Writes(e)
    <3>1. e \in Events /\ e.ref \in Refs /\ b \in Accounts /\ e.at \in Nat
      BY BillingAssumption DEF IInv, Shapes, Events, BillingAssumption
    <3>2. /\ \A c \in Accounts : c # b => row'[c] = row[c]
          /\ row'[b].sub = e.ref /\ row'[b].at = e.at
      BY <2>3, <3>1, WrittenRow DEF Writes, IInv
    <3>3. row[b].sub = e.ref => e.at >= row[b].at
      BY <2>3, <3>1 DEF Writes, Older, IInv, Shapes
    <3>4. row[b].sub = e.ref \/ Over(row[b])
      BY <2>3 DEF Writes
    <3> QED BY <3>2, <3>3, <3>4 DEF RowStep
  <2> QED BY <2>1, <2>2, <2>3 DEF Begins, Answers
<1>5. ASSUME NEW t \in tx, BeforeCheckout(t) PROVE RowStep(a)
  BY <1>5, BeforeCheckoutIInv DEF RowStep
<1>6. ASSUME NEW t \in tx, Commit(t) PROVE RowStep(a)
  <2> DEFINE b == Buyer[t.e.ref]
  <2>1. t.e \in Events /\ t.e.ref \in Refs /\ t.e.status \in Status /\ b \in Accounts
    BY BillingAssumption DEF IInv, Working, Shapes, Events, BillingAssumption
  <2>2. /\ \A c \in Accounts : c # b => row'[c] = row[c]
        /\ row'[b].sub = t.e.ref
    BY <1>6, <2>1, WrittenRow DEF Commit, IInv
  <2>3. a = b /\ a \notin overlapped => Reads(t, a)
    BY DEF IInv, Alone
  <2>4. t.step = "write" /\ overlapped' = overlapped
    BY <1>6 DEF Commit
  <2>5. CASE a = b /\ a \notin overlapped
    <3>1. (row[a] = None \/ row[a].sub # t.e.ref) /\ Over(row[a])
      BY <2>3, <2>4, <2>5 DEF Reads
    <3>2. row'[a].sub = t.e.ref
      BY <2>2, <2>5
    <3> QED BY <3>1, <3>2 DEF RowStep
  <2>6. CASE a # b \/ a \in overlapped
    BY <2>2, <2>4, <2>6 DEF RowStep
  <2> QED BY <2>5, <2>6
<1> QED BY <1>1, <1>2, <1>3, <1>4, <1>5, <1>6 DEF Next

LEMMA SpecIInv == Spec => []IInv
BY InitIInv, NextIInv, PTL DEF Spec

(* "The first stays", for any number of tabs, checkouts and events.           *)
THEOREM SubscriptionStays == Spec => FirstStays
<1>1. IInv /\ [Next]_vars =>
        [\A a \in Accounts :
           a \notin overlapped' /\ ~Over(row[a]) => row'[a].sub = row[a].sub]_vars
  BY RowSteps DEF RowStep, Over
<1> QED BY <1>1, SpecIInv, PTL DEF Spec, FirstStays

(* B2, for any order of delivery: an older event changes nothing.             *)
THEOREM OlderChangesNothing == Spec => NeverBackwards
<1>1. IInv /\ [Next]_vars =>
        [\A a \in Accounts :
           a \notin overlapped' /\ row[a] # None /\ row'[a].sub = row[a].sub
             => row'[a].at >= row[a].at]_vars
  <2>1. ASSUME IInv, [Next]_vars, NEW a \in Accounts, row[a] # None
        PROVE  row[a].at \in Nat
    BY <2>1 DEF IInv, Shapes
  <2> QED BY <2>1, RowSteps DEF RowStep
<1> QED BY <1>1, SpecIInv, PTL DEF Spec, NeverBackwards
------------------------------------------------------------------------------
(* What the events on their way, the transactions and the rows say is true of *)
(* Creem's subscriptions, now or at the stamp they carry; one that is         *)
(* canceled stays so.                                                         *)

Kinds == {"completed", "subscription", "refund", "dispute"}

EventsSound ==
  \A e \in sent :
    /\ 1 <= e.at /\ e.at <= creem[e.ref].at
    /\ e.at = creem[e.ref].at => e.status = creem[e.ref].status
    /\ e.status = "canceled" => e.at = creem[e.ref].at
    /\ e.kind = "completed" => e.status = "active"
    /\ e.kind = "dispute" => e.status = "disputed"

TxSound ==
  \A t \in tx :
    /\ t.e.kind \in {"completed", "subscription"}
    /\ t.step = "checkout" => t.e.kind = "subscription"

Has(a, r) == row[a] # None /\ row[a].sub = r

RowSound(a) ==
  row[a] # None =>
    /\ row[a] \in Rows
    /\ Buyer[row[a].sub] = a /\ row[a].plan = Plan[row[a].sub]
    /\ 1 <= row[a].at /\ row[a].at <= creem[row[a].sub].at
    /\ row[a].status = "canceled" =>
         creem[row[a].sub].status = "canceled" /\ creem[row[a].sub].at = row[a].at
    /\ row[a].status = "scheduled_cancel" => row[a].end = row[a].sub

Sound ==
  /\ EventsSound /\ TxSound
  /\ \A a \in Accounts : RowSound(a)
  /\ \A r \in runOut : creem[r].status = "canceled"

LEMMA OverIsCanceled ==
  ASSUME IInv, Sound, NEW a \in Accounts, row[a] # None, Over(row[a])
  PROVE  creem[row[a].sub].status = "canceled"
BY DEF Sound, RowSound, Over, Past

(* What a step does. A call that reads moves only itself; Creem says what a   *)
(* subscription has become; an answered event was applied, or skipped for a   *)
(* reason.                                                                    *)
Quietly ==
  /\ UNCHANGED <<row, creem, runOut, sent, seen, told>>
  /\ overlapped \subseteq overlapped'

Says(r) ==
  \E s \in Status : \E kinds \in SUBSET Kinds :
    /\ kinds # {}
    /\ creem[r].status # "canceled"
    /\ creem' = [creem EXCEPT ![r] = [status |-> s, at |-> creem[r].at + 1]]
    /\ sent' = sent \cup {Event(k, r, s, creem[r].at + 1) : k \in kinds}
    /\ creem[r].at = 0 => "completed" \in kinds
    /\ "completed" \in kinds => s = "active"
    /\ "dispute" \in kinds => s = "disputed"
    /\ kinds \cap {"refund", "dispute"} # {} => Settled(r)
    /\ UNCHANGED <<row, seen, tx, told, overlapped>>
    /\ \A q \in runOut' : q \in runOut \/ (q = r /\ s = "canceled")

Applies(e) ==
  LET a == Buyer[e.ref]  r == e.ref IN
  /\ KeepsStatus(e) => Has(a, r) /\ ~Older(row[a], e)
  /\ Write(a, r, Plan[r], IF KeepsStatus(e) THEN row[a].status ELSE e.status, EndOf(e), e)

Fits(e) ==
  LET a == Buyer[e.ref] IN
  /\ Applies(e)
  /\ IF Has(a, e.ref) THEN ~Older(row[a], e) ELSE Over(row[a])

Skips(e) ==
  LET a == Buyer[e.ref] IN
  \/ Has(a, e.ref) /\ Older(row[a], e)
  \/ e.kind = "completed" /\ row[a] # None /\ ~Has(a, e.ref) /\ e.ref \in told'
  \/ e.kind \in {"refund", "dispute"} /\ ~Has(a, e.ref)
  \/ e.kind = "subscription" /\ row[a] # None /\ ~Has(a, e.ref)

Handles(e) ==
  /\ Acknowledge(e)
  /\ UNCHANGED <<creem, runOut>>
  /\ overlapped \subseteq overlapped' /\ told \subseteq told' /\ tx' \subseteq tx
  /\ row' = row \/ Applies(e)
  /\ Buyer[e.ref] \notin overlapped' => (row' = row /\ Skips(e)) \/ Fits(e)

LEMMA RefOf ==
  ASSUME IInv, NEW e \in sent
  PROVE  /\ e \in Events /\ e.ref \in Refs /\ Buyer[e.ref] \in Accounts
         /\ e.kind \in Kinds /\ e.status \in Status /\ e.at \in Nat
BY BillingAssumption DEF IInv, Shapes, Events, Kinds, BillingAssumption

(* Creem's side.                                                              *)
LEMMA CreemSays ==
  ASSUME IInv, NEW r \in Refs,
         \/ Pay(r) \/ Refund(r) \/ Dispute(r) \/ PeriodEnds(r)
         \/ \E s \in Status : Change(r, s)
  PROVE  Says(r)
<1>1. creem[r].at \in Nat /\ (creem[r].status = "none" <=> creem[r].at = 0)
  BY DEF IInv, Shapes
<1>2. {"active", "disputed", "canceled"} \subseteq Status
  BY DEF Status
<1>3. CASE Pay(r)
  <2>1. creem[r].at = 0 /\ creem[r].status = "none"
    BY <1>1, <1>3 DEF Pay
  <2>2. creem' = [creem EXCEPT ![r] = [status |-> "active", at |-> creem[r].at + 1]]
    BY <1>3, <2>1 DEF Pay
  <2> DEFINE kinds == {"completed", "subscription"}
  <2>3. sent' = sent \cup {Event(k, r, "active", creem[r].at + 1) : k \in kinds}
    BY <1>3, <2>1 DEF Pay
  <2>4. kinds \in SUBSET Kinds /\ kinds # {} /\ "completed" \in kinds
        /\ "dispute" \notin kinds /\ kinds \cap {"refund", "dispute"} = {}
    BY DEF Kinds
  <2>5. UNCHANGED <<row, seen, tx, told, overlapped, runOut>>
    BY <1>3 DEF Pay
  <2> HIDE DEF kinds
  <2> QED BY <1>2, <2>1, <2>2, <2>3, <2>4, <2>5 DEF Says
<1>4. ASSUME NEW s \in Status, NEW kinds \in SUBSET Kinds, Becomes(r, s, kinds),
             kinds # {}, creem[r].status \notin {"none", "canceled"}, "completed" \notin kinds,
             "dispute" \in kinds => s = "disputed",
             kinds \cap {"refund", "dispute"} # {} => Settled(r),
             \A q \in runOut' : q \in runOut \/ (q = r /\ s = "canceled")
      PROVE  Says(r)
  <2>1. creem' = [creem EXCEPT ![r] = [status |-> s, at |-> creem[r].at + 1]]
    BY <1>4 DEF Becomes
  <2>2. sent' = sent \cup {Event(k, r, s, creem[r].at + 1) : k \in kinds}
    BY <1>4 DEF Becomes
  <2>3. creem[r].at # 0
    BY <1>1, <1>4
  <2>4. UNCHANGED <<row, seen, tx, told, overlapped>>
    BY <1>4 DEF Becomes
  <2> QED BY <1>4, <2>1, <2>2, <2>3, <2>4 DEF Says
<1>5. CASE Refund(r)
  <2>1. creem[r].status \in Status /\ creem[r].status \notin {"none", "canceled"} /\ Settled(r)
        /\ UNCHANGED runOut
    BY <1>5 DEF Refund, Settled, IInv, Shapes, Status
  <2>2. {"refund"} \in SUBSET Kinds /\ {"subscription", "refund"} \in SUBSET Kinds
    BY DEF Kinds
  <2>3. CASE Becomes(r, creem[r].status, {"refund"})
    BY <1>4, <2>1, <2>2, <2>3
  <2>4. CASE Becomes(r, "canceled", {"subscription", "refund"})
    BY <1>2, <1>4, <2>1, <2>2, <2>4
  <2> QED BY <1>5, <2>3, <2>4 DEF Refund
<1>6. CASE Dispute(r)
  <2>1. /\ creem[r].status \notin {"none", "canceled"} /\ Settled(r) /\ UNCHANGED runOut
        /\ Becomes(r, "disputed", {"dispute"})
    BY <1>6 DEF Dispute, Settled
  <2>2. {"dispute"} \in SUBSET Kinds
    BY DEF Kinds
  <2> QED BY <1>2, <1>4, <2>1, <2>2
<1>7. CASE PeriodEnds(r)
  <2>1. /\ creem[r].status = "scheduled_cancel" /\ runOut' = runOut \cup {r}
        /\ Becomes(r, "canceled", {"subscription"})
    BY <1>7 DEF PeriodEnds
  <2>2. {"subscription"} \in SUBSET Kinds
    BY DEF Kinds
  <2> QED BY <1>2, <1>4, <2>1, <2>2
<1>8. ASSUME NEW s \in Status, Change(r, s) PROVE Says(r)
  <2>1. /\ creem[r].status \notin {"none", "canceled"} /\ UNCHANGED runOut
        /\ Becomes(r, s, {"subscription"})
    BY <1>8 DEF Change
  <2>2. {"subscription"} \in SUBSET Kinds
    BY DEF Kinds
  <2> QED BY <1>4, <2>1, <2>2
<1> QED BY <1>3, <1>5, <1>6, <1>7, <1>8

(* The webhook's side.                                                        *)
LEMMA DeliverHandles ==
  ASSUME IInv, Sound, NEW e \in sent, Deliver(e)
  PROVE  Quietly \/ Handles(e)
<1> DEFINE r == e.ref
           a == Buyer[r]
<1>1. /\ r \in Refs /\ a \in Accounts /\ e.status \in Status /\ e.kind \in Kinds
      /\ UNCHANGED <<creem, runOut>> /\ overlapped \subseteq overlapped'
  BY RefOf DEF Deliver
<1>2. CASE CheckoutCompleted(e) /\ row[a] = None
  BY <1>1, <1>2 DEF CheckoutCompleted, Quietly
<1>3. CASE CheckoutCompleted(e) /\ row[a] # None
  <2>1. /\ Acknowledge(e) /\ tx' = tx /\ e.kind = "completed" /\ ~KeepsStatus(e)
    BY <1>3 DEF CheckoutCompleted, KeepsStatus
  <2>2. CASE row[a].sub # r /\ ~Over(row[a])
    <3>1. told' = told \cup {r} /\ row' = row
      BY <1>3, <2>2 DEF CheckoutCompleted, Tell
    <3>2. Skips(e)
      BY <1>3, <2>1, <2>2, <3>1 DEF Skips, Has
    <3> QED BY <1>1, <2>1, <3>1, <3>2 DEF Handles
  <2>3. CASE ~(row[a].sub # r /\ ~Over(row[a])) /\ row[a].sub = r /\ Older(row[a], e)
    <3>1. told' = told /\ row' = row
      BY <1>3, <2>3 DEF CheckoutCompleted
    <3>2. Skips(e)
      BY <1>3, <2>3 DEF Skips, Has
    <3> QED BY <1>1, <2>1, <3>1, <3>2 DEF Handles
  <2>4. CASE ~(row[a].sub # r /\ ~Over(row[a])) /\ ~(row[a].sub = r /\ Older(row[a], e))
    <3>1. told' = told /\ Write(a, r, Plan[r], e.status, EndOf(e), e)
      BY <1>3, <2>4 DEF CheckoutCompleted
    <3>2. Applies(e)
      BY <2>1, <3>1 DEF Applies
    <3>3. Fits(e)
      BY <1>3, <2>4, <3>2 DEF Fits, Has
    <3> QED BY <1>1, <2>1, <3>1, <3>2, <3>3 DEF Handles
  <2> QED BY <2>2, <2>3, <2>4
<1>4. CASE Found(e)
  <2>1. /\ Acknowledge(e) /\ UNCHANGED <<tx, told>> /\ Has(a, r)
    BY <1>4 DEF Found, Has
  <2>2. CASE Older(row[a], e)
    <3>1. row' = row /\ Skips(e)
      BY <1>4, <2>1, <2>2 DEF Found, Skips
    <3> QED BY <1>1, <2>1, <3>1 DEF Handles
  <2>3. CASE ~Older(row[a], e)
    <3>1. Write(a, r, row[a].plan, StatusAfter(row[a], e), EndOf(e), e)
      BY <1>4, <2>3 DEF Found
    <3>2. row[a].plan = Plan[r]
      BY <1>1, <2>1 DEF Sound, RowSound, Has
    <3>3. Applies(e)
      BY <2>1, <2>3, <3>1, <3>2 DEF Applies, StatusAfter
    <3>4. Fits(e)
      BY <2>1, <2>3, <3>3 DEF Fits
    <3> QED BY <1>1, <2>1, <3>3, <3>4 DEF Handles
  <2> QED BY <2>2, <2>3
<1>5. CASE NotFound(e)
  <2>1. ~Has(a, r) /\ UNCHANGED <<row, told>> /\ e.kind # "completed"
    BY <1>5 DEF NotFound, Has
  <2>2. CASE e.kind = "subscription"
    BY <1>1, <1>5, <2>1, <2>2 DEF NotFound, Quietly
  <2>3. CASE e.kind # "subscription"
    <3>1. Acknowledge(e) /\ tx' = tx
      BY <1>5, <2>3 DEF NotFound
    <3>2. Skips(e)
      BY <1>1, <2>1, <2>3 DEF Skips, Kinds
    <3> QED BY <1>1, <2>1, <3>1, <3>2 DEF Handles
  <2> QED BY <2>2, <2>3
<1> QED BY <1>2, <1>3, <1>4, <1>5 DEF Deliver

LEMMA BeforeCheckoutHandles ==
  ASSUME IInv, Sound, NEW t \in tx, BeforeCheckout(t)
  PROVE  Quietly \/ Handles(t.e)
<1> DEFINE a == Buyer[t.e.ref]
<1>1. t.e \in sent /\ a \in Accounts /\ t.e.kind = "subscription"
  BY RefOf DEF IInv, Working, Sound, TxSound, BeforeCheckout
<1>2. UNCHANGED <<row, creem, runOut, told, overlapped>>
  BY DEF BeforeCheckout
<1>3. CASE Occupied(row[a])
  <2>1. Acknowledge(t.e) /\ tx' \subseteq tx /\ row[a] # None
    BY <1>3 DEF BeforeCheckout, Occupied, Over
  <2>2. a \notin overlapped => Skips(t.e)
    BY <1>1, <2>1 DEF Skips, Has, IInv, Alone, Reads
  <2> QED BY <1>2, <2>1, <2>2 DEF Handles
<1>4. CASE ~Occupied(row[a])
  BY <1>2, <1>4 DEF BeforeCheckout, Quietly
<1> QED BY <1>3, <1>4

LEMMA CommitHandles ==
  ASSUME IInv, Sound, NEW t \in tx, Commit(t)
  PROVE  Handles(t.e)
<1> DEFINE a == Buyer[t.e.ref]
<1>1. t.e \in sent /\ a \in Accounts /\ ~KeepsStatus(t.e)
  BY RefOf DEF IInv, Working, Sound, TxSound, KeepsStatus
<1>2. /\ Write(a, t.e.ref, Plan[t.e.ref], t.e.status, EndOf(t.e), t.e)
      /\ Acknowledge(t.e) /\ tx' \subseteq tx /\ t.step = "write"
      /\ UNCHANGED <<creem, runOut, told, overlapped>>
  BY DEF Commit
<1>3. Applies(t.e)
  BY <1>1, <1>2 DEF Applies
<1>4. a \notin overlapped => Fits(t.e)
  BY <1>1, <1>2, <1>3 DEF Fits, Has, IInv, Alone, Reads
<1> QED BY <1>2, <1>3, <1>4 DEF Handles

LEMMA StepIs ==
  ASSUME IInv, Sound, [Next]_vars
  PROVE  \/ Quietly
         \/ \E r \in Refs : Says(r)
         \/ \E e \in sent : Duplicate(e)
         \/ \E e \in sent \ seen : Handles(e)
<1>1. CASE UNCHANGED vars
  BY <1>1 DEF vars, Quietly
<1>2. ASSUME NEW r \in Refs, Checkout(r) \/ HoldLapses(r) PROVE Quietly
  BY <1>2 DEF Checkout, HoldLapses, Quietly
<1>3. ASSUME NEW e \in sent, Deliver(e) PROVE e \in sent \ seen
  BY <1>3 DEF Deliver
<1>4. \A t \in tx : t.e \in sent \ seen
  BY DEF IInv, Working
<1> QED BY <1>1, <1>2, <1>3, <1>4, CreemSays, DeliverHandles, BeforeCheckoutHandles, CommitHandles
        DEF Next

------------------------------------------------------------------------------
(* `Sound` is kept.                                                           *)

LEMMA InitSound == Init => Sound
BY DEF Init, Sound, EventsSound, TxSound, RowSound

LEMMA TxSoundKept == IInv /\ Sound /\ [Next]_vars => TxSound'
<1> SUFFICES ASSUME IInv, Sound, [Next]_vars, NEW t \in tx'
             PROVE  /\ t.e.kind \in {"completed", "subscription"}
                    /\ t.step = "checkout" => t.e.kind = "subscription"
  BY DEF TxSound
<1>1. CASE t \in tx
  BY <1>1 DEF Sound, TxSound
<1>2. CASE t \notin tx
  <2>1. ASSUME NEW e \in sent, Deliver(e)
        PROVE  \/ e.kind = "completed" /\ t = [e |-> e, step |-> "write"]
               \/ e.kind = "subscription" /\ t = [e |-> e, step |-> "checkout"]
    BY <1>2, <2>1 DEF Deliver, CheckoutCompleted, Found, NotFound
  <2>2. ASSUME NEW u \in tx, BeforeCheckout(u)
        PROVE  t = [u EXCEPT !.step = "write"] /\ u.step = "checkout"
    BY <1>2, <2>2 DEF BeforeCheckout
  <2>3. ASSUME NEW u \in tx, BeforeCheckout(u)
        PROVE  t.e.kind = "subscription"
    <3>1. u = [e |-> u.e, step |-> u.step] /\ u.e.kind = "subscription"
      BY <2>2, <2>3 DEF IInv, Working, Sound, TxSound
    <3>2. t.e = u.e
      BY <2>2, <2>3, <3>1
    <3> QED BY <3>1, <3>2
  <2>4. ASSUME NEW u \in tx, Commit(u) PROVE FALSE
    BY <1>2, <2>4 DEF Commit
  <2>5. ASSUME NEW e \in sent, Duplicate(e) PROVE FALSE
    BY <1>2, <2>5 DEF Duplicate
  <2>6. ASSUME NEW r \in Refs,
               \/ Checkout(r) \/ HoldLapses(r) \/ Pay(r) \/ Refund(r) \/ Dispute(r) \/ PeriodEnds(r)
               \/ \E s \in Status : Change(r, s)
        PROVE  FALSE
    BY <1>2, <2>6 DEF Checkout, HoldLapses, Pay, Refund, Dispute, PeriodEnds, Change, Becomes
  <2>7. CASE UNCHANGED vars
    BY <1>2, <2>7 DEF vars
  <2> QED BY <2>1, <2>3, <2>4, <2>5, <2>6, <2>7 DEF Next
<1> QED BY <1>1, <1>2

LEMMA SameSound ==
  ASSUME IInv, Sound, TxSound', UNCHANGED <<row, creem, runOut>>, sent' \subseteq sent
  PROVE  Sound'
BY DEF Sound, EventsSound, RowSound

LEMMA SaysSound ==
  ASSUME IInv, Sound, TxSound', NEW r \in Refs, Says(r)
  PROVE  Sound'
<1>1. PICK s \in Status, kinds \in SUBSET Kinds :
        /\ creem[r].status # "canceled"
        /\ creem' = [creem EXCEPT ![r] = [status |-> s, at |-> creem[r].at + 1]]
        /\ sent' = sent \cup {Event(k, r, s, creem[r].at + 1) : k \in kinds}
        /\ "completed" \in kinds => s = "active"
        /\ "dispute" \in kinds => s = "disputed"
        /\ UNCHANGED <<row, seen, tx, told, overlapped>>
        /\ \A q \in runOut' : q \in runOut \/ (q = r /\ s = "canceled")
  BY DEF Says
<1>2. creem[r].at \in Nat
  BY DEF IInv, Shapes
<1>3. /\ creem'[r].status = s /\ creem'[r].at = creem[r].at + 1
      /\ \A q \in Refs : q # r => creem'[q] = creem[q]
  BY <1>1 DEF IInv, Shapes
<1>4. ASSUME NEW e \in sent'
      PROVE  /\ 1 <= e.at /\ e.at <= creem'[e.ref].at
             /\ e.at = creem'[e.ref].at => e.status = creem'[e.ref].status
             /\ e.status = "canceled" => e.at = creem'[e.ref].at
             /\ e.kind = "completed" => e.status = "active"
             /\ e.kind = "dispute" => e.status = "disputed"
  <2>1. CASE e \in sent
    <3>1. /\ e.ref \in Refs /\ e.at \in Nat
          /\ 1 <= e.at /\ e.at <= creem[e.ref].at
          /\ e.at = creem[e.ref].at => e.status = creem[e.ref].status
          /\ e.status = "canceled" => e.at = creem[e.ref].at
          /\ e.kind = "completed" => e.status = "active"
          /\ e.kind = "dispute" => e.status = "disputed"
      BY <2>1, RefOf DEF Sound, EventsSound
    <3>2. CASE e.ref = r
      <4>1. e.at < creem'[e.ref].at /\ e.status # "canceled" /\ creem'[e.ref].at \in Nat
        BY <1>1, <1>2, <1>3, <3>1, <3>2
      <4>2. e.at <= creem'[e.ref].at /\ e.at # creem'[e.ref].at
        BY <3>1, <4>1
      <4> QED BY <3>1, <4>1, <4>2
    <3>3. CASE e.ref # r
      BY <1>3, <3>1, <3>3
    <3> QED BY <3>2, <3>3
  <2>2. CASE e \notin sent
    <3>1. PICK k \in kinds : e = Event(k, r, s, creem[r].at + 1)
      BY <1>1, <2>2
    <3>2. e.kind = k /\ e.ref = r /\ e.status = s /\ e.at = creem[r].at + 1
      BY <3>1 DEF Event
    <3> QED BY <1>1, <1>2, <1>3, <3>2
  <2> QED BY <2>1, <2>2
<1>5. ASSUME NEW a \in Accounts PROVE RowSound(a)'
  <2> SUFFICES ASSUME row[a] # None PROVE RowSound(a)'
    BY <1>1 DEF RowSound
  <2>1. RowSound(a) /\ row[a].sub \in Refs /\ row[a].at \in Nat /\ row'[a] = row[a]
    BY <1>1 DEF Sound, IInv, Shapes
  <2>2. CASE row[a].sub = r
    BY <1>1, <1>2, <1>3, <2>1, <2>2 DEF RowSound
  <2>3. CASE row[a].sub # r
    BY <1>3, <2>1, <2>3 DEF RowSound
  <2> QED BY <2>2, <2>3
<1>6. ASSUME NEW q \in runOut' PROVE creem'[q].status = "canceled"
  <2>1. CASE q = r /\ s = "canceled"
    BY <1>3, <2>1
  <2>2. CASE q \in runOut
    <3>1. creem[q].status = "canceled" /\ q # r
      BY <1>1, <2>2 DEF Sound
    <3>2. creem'[q] = creem[q]
      BY <1>1, <3>1 DEF IInv, Shapes
    <3> QED BY <3>1, <3>2
  <2> QED BY <1>1, <2>1, <2>2
<1> QED BY <1>4, <1>5, <1>6 DEF Sound, EventsSound

(* What an event that is applied writes.                                      *)
LEMMA AppliesWrites ==
  ASSUME IInv, Sound, NEW e \in sent, Applies(e)
  PROVE  LET a == Buyer[e.ref] IN
         /\ row'[a] \in Rows
         /\ row'[a].sub = e.ref /\ row'[a].plan = Plan[e.ref] /\ row'[a].at = e.at
         /\ row'[a].status = IF KeepsStatus(e) THEN row[a].status ELSE e.status
         /\ row'[a].kept = KeepsStatus(e)
         /\ row'[a].end = IF EndOf(e) = None /\ row[a] # None THEN row[a].end ELSE EndOf(e)
         /\ row'[a].late = IF Has(a, e.ref) THEN row[a].late
                           ELSE Plan[e.ref] = "founding" /\ checkout[e.ref] # "held"
         /\ \A b \in Accounts : b # a => row'[b] = row[b]
<1> DEFINE a == Buyer[e.ref]
           st == IF KeepsStatus(e) THEN row[a].status ELSE e.status
           new == Written(a, e.ref, Plan[e.ref], st, EndOf(e), e)
<1>1. a \in Accounts /\ e.ref \in Refs /\ e.status \in Status /\ e.at \in Nat
      /\ Plan[e.ref] \in Plans
  BY RefOf, BillingAssumption DEF BillingAssumption
<1>2. row' = [row EXCEPT ![a] = new]
  BY DEF Applies, Write
<1>3. row'[a] = new /\ \A b \in Accounts : b # a => row'[b] = row[b]
  BY <1>1, <1>2 DEF IInv, Shapes
<1>4. row[a] # None => row[a] \in Rows
  BY <1>1 DEF Sound, RowSound
<1>5. st \in Status
  BY <1>1, <1>4 DEF Applies, Has, Rows
<1> HIDE DEF st
<1>6. EndOf(e) \in Refs \cup {None} /\ KeepsStatus(e) \in BOOLEAN
  BY <1>1 DEF EndOf, KeepsStatus
<1>7. /\ new.sub = e.ref /\ new.plan = Plan[e.ref] /\ new.at = e.at /\ new.status = st
      /\ new.kept = KeepsStatus(e)
      /\ new.end = IF EndOf(e) = None /\ row[a] # None THEN row[a].end ELSE EndOf(e)
      /\ new.late = IF Has(a, e.ref) THEN row[a].late
                    ELSE Plan[e.ref] = "founding" /\ checkout[e.ref] # "held"
  BY DEF Written, Has
<1>8. new \in Rows
  <2> DEFINE end == IF EndOf(e) = None /\ row[a] # None THEN row[a].end ELSE EndOf(e)
             late == IF Has(a, e.ref) THEN row[a].late
                     ELSE Plan[e.ref] = "founding" /\ checkout[e.ref] # "held"
  <2>1. new = [sub |-> e.ref, plan |-> Plan[e.ref], status |-> st, at |-> e.at,
               kept |-> KeepsStatus(e), end |-> end, late |-> late]
    BY DEF Written, Has
  <2>2. end \in Refs \cup {None} /\ late \in BOOLEAN
    BY <1>4, <1>6 DEF Has, Rows
  <2> HIDE DEF end, late, new
  <2> QED BY <1>1, <1>5, <1>6, <2>1, <2>2 DEF Rows
<1> HIDE DEF new
<1> QED BY <1>3, <1>7, <1>8 DEF st

LEMMA HandlesSound ==
  ASSUME IInv, Sound, TxSound', NEW e \in sent \ seen, Handles(e)
  PROVE  Sound'
<1> DEFINE a == Buyer[e.ref]
           r == e.ref
<1>1. sent' \subseteq sent /\ UNCHANGED <<creem, runOut>>
  BY DEF Handles, Acknowledge
<1>2. CASE row' = row
  BY <1>1, <1>2, SameSound
<1>3. CASE Applies(e)
  <2>1. /\ row'[a] \in Rows
        /\ row'[a].sub = r /\ row'[a].plan = Plan[r] /\ row'[a].at = e.at
        /\ row'[a].status = IF KeepsStatus(e) THEN row[a].status ELSE e.status
        /\ row'[a].end = IF EndOf(e) = None /\ row[a] # None THEN row[a].end ELSE EndOf(e)
        /\ \A b \in Accounts : b # a => row'[b] = row[b]
    BY <1>3, AppliesWrites
  <2>2. /\ r \in Refs /\ a \in Accounts /\ e.at \in Nat /\ e.kind \in Kinds
        /\ 1 <= e.at /\ e.at <= creem[r].at
        /\ e.at = creem[r].at => e.status = creem[r].status
        /\ e.status = "canceled" => e.at = creem[r].at
        /\ e.kind = "completed" => e.status = "active"
        /\ e.kind = "dispute" => e.status = "disputed"
        /\ creem[r].at \in Nat
    BY RefOf DEF Sound, EventsSound, IInv, Shapes
  <2>3. ASSUME KeepsStatus(e)
        PROVE  /\ Has(a, r) /\ e.at >= row[a].at /\ row[a].at \in Nat
               /\ e.kind = "refund" /\ e.status # "canceled"
    BY <1>3, <2>2, <2>3 DEF Applies, Older, KeepsStatus, Has, IInv, Shapes
  <2>4. ASSUME row'[a].status = "canceled"
        PROVE  creem[r].status = "canceled" /\ creem[r].at = e.at
    <3>1. CASE KeepsStatus(e)
      <4>1. row[a].status = "canceled" /\ Has(a, r)
        BY <2>1, <2>3, <2>4, <3>1
      <4>2. creem[r].status = "canceled" /\ creem[r].at = row[a].at
        BY <2>2, <4>1 DEF Sound, RowSound, Has
      <4> QED BY <2>2, <2>3, <3>1, <4>2
    <3>2. CASE ~KeepsStatus(e)
      BY <2>1, <2>2, <2>4, <3>2
    <3> QED BY <3>1, <3>2
  <2>5. ASSUME row'[a].status = "scheduled_cancel"
        PROVE  row'[a].end = r
    <3>1. CASE KeepsStatus(e)
      <4>1. row[a].status = "scheduled_cancel" /\ Has(a, r) /\ e.kind = "refund"
        BY <2>1, <2>3, <2>5, <3>1
      <4>2. row[a].end = r /\ EndOf(e) = None
        BY <2>2, <4>1 DEF Sound, RowSound, Has, EndOf
      <4> QED BY <2>1, <4>1, <4>2 DEF Has
    <3>2. CASE ~KeepsStatus(e)
      <4>1. e.status = "scheduled_cancel"
        BY <2>1, <2>5, <3>2
      <4>2. e.kind = "subscription"
        BY <2>2, <3>2, <4>1 DEF KeepsStatus, Kinds
      <4>3. EndOf(e) = r /\ r # None
        BY <2>2, <4>2, BillingAssumption DEF EndOf, BillingAssumption
      <4> QED BY <2>1, <4>3
    <3> QED BY <3>1, <3>2
  <2>6. ASSUME NEW b \in Accounts PROVE RowSound(b)'
    <3>1. CASE b # a
      BY <1>1, <2>1, <3>1 DEF Sound, RowSound
    <3>2. CASE b = a
      BY <1>1, <2>1, <2>2, <2>4, <2>5, <3>2 DEF RowSound
    <3> QED BY <3>1, <3>2
  <2> QED BY <1>1, <2>6 DEF Sound, EventsSound
<1> QED BY <1>2, <1>3 DEF Handles

LEMMA SoundKept == IInv /\ Sound /\ [Next]_vars => Sound'
<1> SUFFICES ASSUME IInv, Sound, [Next]_vars PROVE Sound'
  OBVIOUS
<1>1. TxSound'
  BY TxSoundKept
<1>2. CASE Quietly
  BY <1>1, <1>2, SameSound DEF Quietly
<1>3. CASE \E e \in sent : Duplicate(e)
  BY <1>1, <1>3, SameSound DEF Duplicate
<1> QED BY <1>1, <1>2, <1>3, StepIs, SaysSound, HandlesSound

------------------------------------------------------------------------------
(* Of an account with one subscription: the payment is still to be answered,  *)
(* or the row is its own, and is when a refund or a dispute comes; and what   *)
(* Creem said last is still to be answered, or is in the row.                 *)

Unanswered(r, at) == \E e \in sent \ seen : e.ref = r /\ e.at = at

Only(a, r) == a \notin overlapped /\ Bought(a) = {r}

RowIsLatest(a, r) ==
  /\ Has(a, r) /\ row[a].at = creem[r].at
  /\ row[a].kept \/ row[a].status = creem[r].status

Follows(a, r) ==
  /\ Unanswered(r, 1) \/ Has(a, r)
  /\ \A e \in sent \ seen : e.ref = r /\ e.kind \in {"refund", "dispute"} => Has(a, r)
  /\ Unanswered(r, creem[r].at) \/ RowIsLatest(a, r)

Followed == \A a \in Accounts, r \in Refs : Only(a, r) => Follows(a, r)

(* A subscription that Creem charges has the row, or the operator knows, or   *)
(* its checkout is still to be answered.                                      *)
Paid ==
  \A r \in Refs :
    Buyer[r] \notin overlapped /\ creem[r].status \notin {"none", "canceled"} =>
      \/ Has(Buyer[r], r) \/ r \in told
      \/ \E e \in sent \ seen : e.ref = r /\ e.kind = "completed"

LEMMA AcknowledgeTakes ==
  ASSUME NEW e \in sent \ seen, Acknowledge(e)
  PROVE  sent' \ seen' = (sent \ seen) \ {e}
BY DEF Acknowledge

(* The row of an account with one subscription is of that one.                *)
LEMMA OnlyOne ==
  ASSUME IInv, Sound, NEW a \in Accounts, NEW r, Bought(a) = {r}
  PROVE  /\ row[a] # None => Has(a, r)
         /\ \A e \in sent : Buyer[e.ref] = a => e.ref = r
         /\ r \in Refs /\ Buyer[r] = a /\ creem[r].at # 0 /\ creem[r].status # "none"
<1>1. \A q \in Refs : creem[q].at \in Nat /\ (creem[q].status = "none" <=> creem[q].at = 0)
  BY DEF IInv, Shapes
<1>2. ASSUME row[a] # None PROVE Has(a, r)
  <2>1. row[a].sub \in Refs /\ Buyer[row[a].sub] = a
    BY <1>2 DEF IInv, Shapes, Sound, RowSound
  <2>2. row[a].at \in Nat /\ 1 <= row[a].at /\ row[a].at <= creem[row[a].sub].at
    BY <1>2 DEF IInv, Shapes, Sound, RowSound
  <2>3. creem[row[a].sub].at # 0
    BY <1>1, <2>1, <2>2
  <2>4. row[a].sub \in Bought(a)
    BY <1>1, <2>1, <2>3 DEF Bought
  <2> QED BY <1>2, <2>4 DEF Has
<1>3. ASSUME NEW e \in sent, Buyer[e.ref] = a PROVE e.ref = r
  <2>1. e.ref \in Refs /\ e.at \in Nat /\ 1 <= e.at /\ e.at <= creem[e.ref].at
    BY RefOf DEF Sound, EventsSound
  <2>2. creem[e.ref].at # 0
    BY <1>1, <2>1
  <2> QED BY <1>1, <1>3, <2>1, <2>2 DEF Bought
<1>4. r \in Refs /\ Buyer[r] = a /\ creem[r].status # "none"
  BY DEF Bought
<1> QED BY <1>1, <1>2, <1>3, <1>4

LEMMA InitFollowed == Init => Followed /\ Paid
BY DEF Init, Followed, Only, Bought, Paid

LEMMA SameFollowed ==
  ASSUME Followed, Paid, UNCHANGED <<row, creem>>, sent' \ seen' = sent \ seen,
         overlapped \subseteq overlapped', told \subseteq told'
  PROVE  Followed' /\ Paid'
BY DEF Followed, Paid, Only, Bought, Follows, Unanswered, RowIsLatest, Has

LEMMA SaysFollowed ==
  ASSUME IInv, Sound, Followed, Paid, NEW r \in Refs, Says(r)
  PROVE  Followed' /\ Paid'
<1>1. PICK s \in Status, kinds \in SUBSET Kinds :
        /\ kinds # {}
        /\ creem[r].status # "canceled"
        /\ creem' = [creem EXCEPT ![r] = [status |-> s, at |-> creem[r].at + 1]]
        /\ sent' = sent \cup {Event(k, r, s, creem[r].at + 1) : k \in kinds}
        /\ creem[r].at = 0 => "completed" \in kinds
        /\ kinds \cap {"refund", "dispute"} # {} => Settled(r)
        /\ UNCHANGED <<row, seen, tx, told, overlapped>>
  BY DEF Says
<1>2. creem[r].at \in Nat /\ (creem[r].status = "none" <=> creem[r].at = 0) /\ s # "none"
  BY DEF IInv, Shapes, Status
<1>3. /\ creem'[r].status = s /\ creem'[r].at = creem[r].at + 1
      /\ \A q \in Refs : q # r => creem'[q] = creem[q]
  BY <1>1 DEF IInv, Shapes
<1>4. ASSUME NEW k \in kinds
      PROVE  \E e \in sent' \ seen' : e.ref = r /\ e.at = creem[r].at + 1 /\ e.kind = k
  <2> DEFINE e == Event(k, r, s, creem[r].at + 1)
  <2>1. e \in sent' /\ e.ref = r /\ e.at = creem[r].at + 1 /\ e.kind = k
    BY <1>1 DEF Event
  <2>2. e \notin sent
    BY <1>2, <2>1 DEF Sound, EventsSound
  <2>3. e \notin seen'
    BY <1>1, <2>2 DEF IInv, Shapes
  <2> QED BY <2>1, <2>3
<1>5. sent \ seen \subseteq sent' \ seen'
  BY <1>1
<1>6. ASSUME NEW e \in (sent' \ seen') \ (sent \ seen)
      PROVE  e.ref = r /\ e.kind \in kinds
  BY <1>1, <1>6 DEF Event
<1>7. ASSUME NEW a \in Accounts, NEW q \in Refs, Only(a, q)' PROVE Follows(a, q)'
  <2>1. a \notin overlapped /\ row'[a] = row[a]
    BY <1>1, <1>7 DEF Only
  <2>2. CASE q # r
    <3>1. Buyer[r] # a
      BY <1>2, <1>3, <1>7, <2>2 DEF Only, Bought
    <3>2. Bought(a) = {q}
      BY <1>3, <1>7, <3>1 DEF Only, Bought
    <3>3. Follows(a, q)
      BY <2>1, <3>2 DEF Followed, Only
    <3>4. creem'[q] = creem[q] /\ \A at : Unanswered(q, at) => Unanswered(q, at)'
      BY <1>3, <1>5, <2>2 DEF Unanswered
    <3> QED BY <1>6, <2>1, <2>2, <3>3, <3>4 DEF Follows, RowIsLatest, Has
  <2>3. CASE q = r /\ creem[r].at = 0
    <3>1. Unanswered(r, 1)' /\ creem'[r].at = 1
      BY <1>1, <1>3, <1>4, <2>3 DEF Unanswered
    <3>2. ASSUME NEW e \in sent' \ seen', e.ref = r, e.kind \in {"refund", "dispute"}
          PROVE  FALSE
      <4>1. CASE e \in sent \ seen
        <5>1. 1 <= e.at /\ e.at <= creem[r].at /\ e.at \in Nat
          BY <3>2, <4>1, RefOf DEF Sound, EventsSound
        <5> QED BY <2>3, <5>1
      <4>2. CASE e \notin sent \ seen
        BY <1>1, <1>2, <1>6, <2>3, <3>2, <4>2 DEF Settled
      <4> QED BY <4>1, <4>2
    <3> QED BY <2>3, <3>1, <3>2 DEF Follows
  <2>4. CASE q = r /\ creem[r].at # 0
    <3>1. Bought(a) = {r}
      <4>1. Buyer[r] = a /\ creem[r].status # "none"
        BY <1>2, <1>7, <2>4 DEF Only, Bought
      <4>2. \A p \in Refs : p \in Bought(a) => p \in Bought(a)'
        BY <1>2, <1>3 DEF Bought
      <4> QED BY <1>7, <2>4, <4>1, <4>2 DEF Only, Bought
    <3>2. Follows(a, r)
      BY <2>1, <3>1 DEF Followed, Only
    <3>3. Unanswered(r, 1) => Unanswered(r, 1)'
      BY <1>5 DEF Unanswered
    <3>4. Unanswered(r, creem[r].at)'
      BY <1>1, <1>3, <1>4 DEF Unanswered
    <3>5. ASSUME NEW e \in sent' \ seen', e.ref = r, e.kind \in {"refund", "dispute"}
          PROVE  Has(a, r)
      <4>1. CASE e \in sent \ seen
        BY <3>2, <3>5, <4>1 DEF Follows
      <4>2. CASE e \notin sent \ seen
        <5>1. Settled(r)
          BY <1>1, <1>6, <3>5, <4>2
        <5>2. ~Unanswered(r, 1)
          BY <5>1 DEF Settled, Unanswered
        <5> QED BY <3>2, <5>2 DEF Follows
      <4> QED BY <4>1, <4>2
    <3> QED BY <2>1, <2>4, <3>2, <3>3, <3>4, <3>5 DEF Follows, Has
  <2> QED BY <2>2, <2>3, <2>4
<1>8. Paid'
  <2> SUFFICES ASSUME NEW q \in Refs, Buyer[q] \notin overlapped',
                      creem'[q].status \notin {"none", "canceled"}
               PROVE  \/ Has(Buyer[q], q)' \/ q \in told'
                      \/ \E e \in sent' \ seen' : e.ref = q /\ e.kind = "completed"
    BY DEF Paid
  <2>1. CASE creem[q].status \notin {"none", "canceled"}
    BY <1>1, <1>5, <2>1 DEF Paid, Has
  <2>2. CASE creem[q].status \in {"none", "canceled"}
    <3>1. q = r /\ creem[r].at = 0
      BY <1>1, <1>2, <1>3, <2>2
    <3> QED BY <1>1, <1>4, <3>1
  <2> QED BY <2>1, <2>2
<1> QED BY <1>7, <1>8 DEF Followed

LEMMA HandlesFollowed ==
  ASSUME IInv, Sound, Followed, Paid, NEW e \in sent \ seen, Handles(e)
  PROVE  Followed' /\ Paid'
<1> DEFINE b == Buyer[e.ref]
<1>1. /\ sent' \ seen' = (sent \ seen) \ {e} /\ creem' = creem
      /\ overlapped \subseteq overlapped' /\ told \subseteq told'
  BY AcknowledgeTakes DEF Handles
<1>2. /\ e.ref \in Refs /\ b \in Accounts /\ e.at \in Nat /\ creem[e.ref].at \in Nat
      /\ e.at <= creem[e.ref].at
      /\ e.at = creem[e.ref].at => e.status = creem[e.ref].status
  BY RefOf DEF Sound, EventsSound, IInv, Shapes
<1>3. \A a \in Accounts : a # b => row'[a] = row[a]
  BY AppliesWrites DEF Handles
<1>4. ASSUME Applies(e)
      PROVE  /\ Has(b, e.ref)' /\ row'[b].at = e.at /\ row'[b].kept = KeepsStatus(e)
             /\ KeepsStatus(e) \/ row'[b].status = e.status
  <2>1. /\ row'[b] \in Rows /\ row'[b].sub = e.ref /\ row'[b].at = e.at
        /\ row'[b].status = IF KeepsStatus(e) THEN row[b].status ELSE e.status
        /\ row'[b].kept = KeepsStatus(e)
    BY <1>4, AppliesWrites
  <2>2. row'[b] # None
    BY <2>1, BillingAssumption DEF BillingAssumption
  <2> QED BY <2>1, <2>2 DEF Has
<1>5. b \notin overlapped' => (row' = row /\ Skips(e)) \/ Fits(e)
  BY DEF Handles
<1>6. ASSUME NEW a \in Accounts, NEW r \in Refs, Only(a, r)' PROVE Follows(a, r)'
  <2>1. Only(a, r) /\ Follows(a, r)
    BY <1>1, <1>6 DEF Only, Bought, Followed
  <2>2. /\ row[a] # None => Has(a, r)
        /\ \A f \in sent : Buyer[f.ref] = a => f.ref = r
        /\ Buyer[r] = a
    BY <2>1, OnlyOne DEF Only
  <2>3. \A f \in sent' \ seen' : f \in sent \ seen
    BY <1>1
  <2>4. CASE b # a
    <3>1. \A at : Unanswered(r, at) => Unanswered(r, at)'
      BY <1>1, <2>2, <2>4 DEF Unanswered
    <3> QED BY <1>1, <1>3, <2>1, <2>3, <2>4, <3>1 DEF Follows, RowIsLatest, Has
  <2>5. CASE b = a
    <3>1. e.ref = r /\ ((row' = row /\ Skips(e)) \/ Fits(e))
      BY <1>5, <1>6, <2>2, <2>5 DEF Only
    <3>2. \A at : Unanswered(r, at) /\ at # e.at => Unanswered(r, at)'
      BY <1>1 DEF Unanswered
    <3>3. CASE row' = row /\ Skips(e)
      <4>1. Has(a, r) /\ row[a].at > e.at /\ row[a].at \in Nat
        <5>1. e.kind \in {"refund", "dispute"} => Has(a, r)
          BY <2>1, <3>1 DEF Follows
        <5>2. Has(a, r) /\ Older(row[a], e)
          BY <2>2, <2>5, <3>1, <3>3, <5>1 DEF Skips
        <5> QED BY <5>2 DEF Older, Has, IInv, Shapes
      <4>2. row[a].at <= creem[r].at
        BY <4>1 DEF Sound, RowSound, Has
      <4>3. e.at # creem[r].at
        BY <1>2, <3>1, <4>1, <4>2
      <4>4. Has(a, r)' /\ (RowIsLatest(a, r) => RowIsLatest(a, r)')
        BY <1>1, <3>3, <4>1 DEF Has, RowIsLatest
      <4> QED BY <1>1, <2>1, <3>2, <4>3, <4>4 DEF Follows
    <3>4. CASE Fits(e)
      <4>1. Applies(e) /\ (IF Has(a, r) THEN ~Older(row[a], e) ELSE Over(row[a]))
        BY <2>5, <3>1, <3>4 DEF Fits
      <4>2. /\ Has(a, r)' /\ row'[a].at = e.at /\ row'[a].kept = KeepsStatus(e)
            /\ KeepsStatus(e) \/ row'[a].status = e.status
        BY <1>4, <2>5, <3>1, <4>1
      <4>3. CASE e.at = creem[r].at
        <5>1. RowIsLatest(a, r)'
          BY <1>1, <1>2, <3>1, <4>2, <4>3 DEF RowIsLatest
        <5> QED BY <4>2, <5>1 DEF Follows
      <4>4. CASE e.at # creem[r].at
        <5>1. ~RowIsLatest(a, r)
          <6>1. SUFFICES ASSUME Has(a, r), row[a].at = creem[r].at PROVE FALSE
            BY DEF RowIsLatest
          <6>2. row[a].at > e.at
            BY <1>2, <3>1, <4>4, <6>1
          <6> QED BY <4>1, <6>1, <6>2 DEF Older
        <5>2. Unanswered(r, creem[r].at)
          BY <2>1, <5>1 DEF Follows
        <5>3. creem'[r].at = creem[r].at
          BY <1>1
        <5>4. \E f \in sent' \ seen' : f.ref = r /\ f.at = creem'[r].at
          BY <1>1, <4>4, <5>2, <5>3 DEF Unanswered
        <5>5. Unanswered(r, creem[r].at)'
          BY <5>4 DEF Unanswered
        <5> QED BY <1>1, <4>2, <5>5 DEF Follows
      <4> QED BY <4>3, <4>4
    <3> QED BY <3>1, <3>3, <3>4
  <2> QED BY <2>4, <2>5
<1>7. Paid'
  <2> SUFFICES ASSUME NEW r \in Refs, Buyer[r] \notin overlapped',
                      creem[r].status \notin {"none", "canceled"}
               PROVE  \/ Has(Buyer[r], r)' \/ r \in told'
                      \/ \E f \in sent' \ seen' : f.ref = r /\ f.kind = "completed"
    BY <1>1 DEF Paid
  <2>1. Buyer[r] \in Accounts
    BY BillingAssumption DEF BillingAssumption
  <2>2. \/ Has(Buyer[r], r) \/ r \in told
        \/ \E f \in sent \ seen : f.ref = r /\ f.kind = "completed"
    BY <1>1 DEF Paid
  <2>3. CASE r \in told
    BY <1>1, <2>3
  <2>4. CASE Has(Buyer[r], r)
    <3>1. CASE b # Buyer[r] \/ row' = row
      BY <1>3, <2>1, <2>4, <3>1 DEF Has
    <3>2. CASE b = Buyer[r] /\ Fits(e)
      <4>1. CASE e.ref = r
        BY <1>4, <3>2, <4>1 DEF Fits
      <4>2. CASE e.ref # r
        <5>1. Over(row[b]) /\ row[b] # None /\ row[b].sub = r
          BY <2>4, <3>2, <4>2 DEF Fits, Has
        <5> QED BY <1>2, <5>1, OverIsCanceled
      <4> QED BY <4>1, <4>2
    <3> QED BY <1>5, <3>1, <3>2
  <2>5. ASSUME NEW f \in sent \ seen, f.ref = r, f.kind = "completed", ~Has(b, r)
        PROVE  \/ Has(Buyer[r], r)' \/ r \in told'
               \/ \E g \in sent' \ seen' : g.ref = r /\ g.kind = "completed"
    <3>1. CASE f # e
      BY <1>1, <2>5, <3>1
    <3>2. CASE f = e /\ row' = row /\ Skips(e)
      BY <2>5, <3>2 DEF Skips
    <3>3. CASE f = e /\ Fits(e)
      BY <1>4, <2>5, <3>3 DEF Fits
    <3> QED BY <1>5, <2>5, <3>1, <3>2, <3>3
  <2>6. Has(b, r) => Has(Buyer[r], r)
    BY <1>2 DEF Has, Sound, RowSound
  <2> QED BY <2>2, <2>3, <2>4, <2>5, <2>6
<1> QED BY <1>6, <1>7 DEF Followed

LEMMA FollowedKept == IInv /\ Sound /\ Followed /\ Paid /\ [Next]_vars => Followed' /\ Paid'
<1> SUFFICES ASSUME IInv, Sound, Followed, Paid, [Next]_vars PROVE Followed' /\ Paid'
  OBVIOUS
<1>1. CASE Quietly
  BY <1>1, SameFollowed DEF Quietly
<1>2. CASE \E e \in sent : Duplicate(e)
  <2>1. PICK e \in sent : Duplicate(e)
    BY <1>2
  <2>2. sent' \ seen' = sent \ seen
    BY <2>1 DEF Duplicate
  <2> QED BY <2>1, <2>2, SameFollowed DEF Duplicate
<1> QED BY <1>1, <1>2, StepIs, SaysFollowed, HandlesFollowed

------------------------------------------------------------------------------
(* The accounts that have a place, or an open checkout for one: the row of    *)
(* one that had two events at once, or came late, is not counted.             *)

Holders ==
  {a \in Accounts :
     \/ a \notin overlapped /\ Founding(row[a]) /\ ~row[a].late
     \/ \E r \in Refs : Buyer[r] = a /\ Plan[r] = "founding" /\ checkout[r] = "held"}

Capped == Cardinality(Holders) <= Cap

LEMMA InitCapped == Init => Capped
<1> SUFFICES ASSUME Init PROVE Capped
  OBVIOUS
<1>1. Holders = {}
  BY DEF Init, Holders, Founding
<1>2. Cardinality({}) = 0 /\ Cap \in Nat
  BY FS_EmptySet, BillingAssumption DEF BillingAssumption
<1> QED BY <1>1, <1>2 DEF Capped

LEMMA FewerHolders ==
  ASSUME Capped, Holders' \subseteq Holders
  PROVE  Capped'
<1>1. IsFiniteSet(Holders)
  BY FS_Subset, BillingAssumption DEF BillingAssumption, Holders
<1>2. Cardinality(Holders') <= Cardinality(Holders)
  BY <1>1, FS_Subset
<1>3. Cardinality(Holders) \in Nat /\ Cardinality(Holders') \in Nat /\ Cap \in Nat
  BY <1>1, FS_Subset, FS_CardinalityType, BillingAssumption DEF BillingAssumption
<1> QED BY <1>2, <1>3 DEF Capped

LEMMA CheckoutCapped ==
  ASSUME IInv, Capped, NEW r \in Refs, Checkout(r)
  PROVE  Capped'
<1> DEFINE a == Buyer[r]
           F == {o \in Accounts : Founding(row[o])}
           H == {q \in Refs : Plan[q] = "founding" /\ checkout[q] = "held" /\ Buyer[q] # a}
           B == {Buyer[q] : q \in H}
<1>1. /\ \A q \in Refs : q # r => checkout'[q] = checkout[q]
      /\ UNCHANGED <<row, overlapped>>
      /\ Plan[r] = "founding" => FoundingLeft(a) > 0
  BY DEF Checkout, IInv, Shapes
<1>2. CASE Plan[r] # "founding"
  <2>1. Holders' \subseteq Holders
    BY <1>1, <1>2 DEF Holders, Founding
  <2> QED BY <2>1, FewerHolders
<1>3. CASE Plan[r] = "founding"
  <2>1. Holders' \subseteq (F \cup B) \cup {a}
    <3>1. SUFFICES ASSUME NEW o \in Holders', o \notin F, o # a PROVE o \in B
      OBVIOUS
    <3>2. ~(Founding(row[o]))' /\ o \in Accounts
      BY <1>1, <3>1 DEF Holders, Founding
    <3>3. PICK q \in Refs : Buyer[q] = o /\ Plan[q] = "founding" /\ checkout'[q] = "held"
      BY <3>1, <3>2 DEF Holders
    <3>4. q # r /\ q \in H
      BY <1>1, <3>1, <3>3
    <3> QED BY <3>3, <3>4
  <2>2. IsFiniteSet(F) /\ IsFiniteSet(H)
    BY FS_Subset, BillingAssumption DEF BillingAssumption
  <2>3. IsFiniteSet(B) /\ Cardinality(B) <= Cardinality(H)
    <3> DEFINE f == [q \in H |-> Buyer[q]]
    <3>1. f \in Surjection(H, B)
      BY DEF Surjection
    <3> HIDE DEF f, H, B
    <3> QED BY <2>2, <3>1, FS_Surjection
  <2>4. /\ Cardinality(F) \in Nat /\ Cardinality(H) \in Nat /\ Cardinality(B) \in Nat
        /\ Cap \in Nat
    BY <2>2, <2>3, FS_CardinalityType, BillingAssumption DEF BillingAssumption
  <2>5. Cardinality(F) + Cardinality(H) < Cap
    <3>1. Cap - Cardinality(F) - Cardinality(H) > 0
      BY <1>1, <1>3 DEF FoundingLeft
    <3> HIDE DEF F, H
    <3> QED BY <2>4, <3>1
  <2> HIDE DEF F, H, B
  <2>6. /\ IsFiniteSet(F \cup B) /\ Cardinality(F \cup B) \in Nat
        /\ Cardinality(F \cup B) <= Cardinality(F) + Cardinality(B)
    <3>1. /\ IsFiniteSet(F \cup B) /\ IsFiniteSet(F \cap B)
          /\ Cardinality(F \cup B) = Cardinality(F) + Cardinality(B) - Cardinality(F \cap B)
      BY <2>2, <2>3, FS_Union, FS_Subset
    <3>2. Cardinality(F \cap B) \in Nat /\ Cardinality(F \cup B) \in Nat
      BY <3>1, FS_CardinalityType
    <3> QED BY <2>4, <3>1, <3>2
  <2>7. /\ IsFiniteSet((F \cup B) \cup {a})
        /\ Cardinality((F \cup B) \cup {a}) <= Cardinality(F \cup B) + 1
    <3>1. /\ IsFiniteSet((F \cup B) \cup {a})
          /\ Cardinality((F \cup B) \cup {a}) =
               IF a \in F \cup B THEN Cardinality(F \cup B) ELSE Cardinality(F \cup B) + 1
      BY <2>6, FS_AddElement
    <3> QED BY <2>6, <3>1
  <2>8. Cardinality(Holders') <= Cardinality((F \cup B) \cup {a}) /\ Cardinality(Holders') \in Nat
    BY <2>1, <2>7, FS_Subset, FS_CardinalityType
  <2>9. Cardinality((F \cup B) \cup {a}) \in Nat
    BY <2>7, FS_CardinalityType
  <2> QED BY <2>3, <2>4, <2>5, <2>6, <2>7, <2>8, <2>9 DEF Capped
<1> QED BY <1>2, <1>3

(* Only `create_checkout` opens one.                                          *)
LEMMA HeldBefore ==
  ASSUME IInv, [Next]_vars, \A r \in Refs : ~Checkout(r), NEW q \in Refs, checkout'[q] = "held"
  PROVE  checkout[q] = "held"
<1>1. CASE UNCHANGED vars
  BY <1>1 DEF vars
<1>2. ASSUME NEW r \in Refs, HoldLapses(r) PROVE checkout[q] = "held"
  BY <1>2 DEF HoldLapses, IInv, Shapes
<1>3. ASSUME NEW r \in Refs,
             \/ Pay(r) \/ Refund(r) \/ Dispute(r) \/ PeriodEnds(r)
             \/ \E s \in Status : Change(r, s)
      PROVE  checkout[q] = "held"
  BY <1>3 DEF Pay, Refund, Dispute, PeriodEnds, Change, Becomes
<1>4. ASSUME NEW e \in sent, Duplicate(e) PROVE checkout[q] = "held"
  BY <1>4 DEF Duplicate
<1>5. ASSUME NEW e \in sent, Deliver(e) PROVE checkout[q] = "held"
  <2>1. CASE CheckoutCompleted(e)
    <3>1. e.ref \in Refs
      BY RefOf
    <3>2. checkout' = checkout \/ checkout' = [checkout EXCEPT ![e.ref] = "completed"]
      BY <2>1 DEF CheckoutCompleted
    <3> QED BY <3>1, <3>2 DEF IInv, Shapes
  <2>2. CASE Found(e) \/ NotFound(e)
    BY <2>2 DEF Found, NotFound
  <2> QED BY <1>5, <2>1, <2>2 DEF Deliver
<1>6. ASSUME NEW t \in tx, BeforeCheckout(t) PROVE checkout[q] = "held"
  BY <1>6 DEF BeforeCheckout
<1>7. ASSUME NEW t \in tx, Commit(t) PROVE checkout[q] = "held"
  <2>1. checkout' = checkout \/ checkout' = [checkout EXCEPT ![t.e.ref] = "completed"]
    BY <1>7 DEF Commit
  <2>2. t.e.ref \in Refs
    BY RefOf DEF IInv, Working
  <2> QED BY <2>1, <2>2 DEF IInv, Shapes
<1> QED BY <1>1, <1>2, <1>3, <1>4, <1>5, <1>6, <1>7 DEF Next

(* An event that is applied gives no place that was not held: its own, or an  *)
(* open checkout's.                                                           *)
LEMMA PlaceWasHeld ==
  ASSUME IInv, Sound, NEW e \in sent, Handles(e), NEW a \in Accounts \ overlapped',
         Founding(row[a])', ~row'[a].late
  PROVE  a \in Holders
<1> DEFINE b == Buyer[e.ref]
<1>1. a \notin overlapped
  BY DEF Handles
<1>2. CASE row'[a] = row[a]
  BY <1>1, <1>2 DEF Holders, Founding
<1>3. CASE row'[a] # row[a]
  <2>1. a = b /\ Fits(e) /\ Applies(e)
    BY <1>3, AppliesWrites DEF Handles, Fits
  <2>2. /\ row'[a].sub = e.ref /\ row'[a].plan = Plan[e.ref]
        /\ row'[a].status = IF KeepsStatus(e) THEN row[a].status ELSE e.status
        /\ row'[a].late = IF Has(a, e.ref) THEN row[a].late
                          ELSE Plan[e.ref] = "founding" /\ checkout[e.ref] # "held"
    BY <2>1, AppliesWrites
  <2>3. Plan[e.ref] = "founding" /\ row'[a].status # "canceled" /\ e.ref \in Refs
    BY <2>2, RefOf DEF Founding
  <2>4. CASE ~Has(a, e.ref)
    <3>1. checkout[e.ref] = "held"
      BY <2>2, <2>3, <2>4
    <3> QED BY <2>1, <2>3, <3>1 DEF Holders
  <2>5. CASE Has(a, e.ref)
    <3>1. ~row[a].late /\ ~Older(row[a], e) /\ row[a] # None /\ row[a].plan = "founding"
      BY <2>1, <2>2, <2>3, <2>5 DEF Fits, Has, Sound, RowSound
    <3>2. row[a].status # "canceled"
      <4>1. SUFFICES ASSUME row[a].status = "canceled" PROVE FALSE
        OBVIOUS
      <4>2. creem[e.ref].status = "canceled" /\ creem[e.ref].at = row[a].at /\ row[a].at \in Nat
        BY <2>5, <4>1 DEF Sound, RowSound, Has, IInv, Shapes
      <4>3. e.at \in Nat /\ e.at <= creem[e.ref].at
            /\ (e.at = creem[e.ref].at => e.status = creem[e.ref].status)
        BY RefOf DEF Sound, EventsSound
      <4>4. e.at = creem[e.ref].at
        BY <3>1, <4>2, <4>3 DEF Older
      <4>5. e.status = "canceled"
        BY <4>2, <4>3, <4>4
      <4> QED BY <2>2, <2>3, <4>1, <4>5
    <3> QED BY <1>1, <3>1, <3>2 DEF Holders, Founding
  <2> QED BY <2>4, <2>5
<1> QED BY <1>2, <1>3

LEMMA CappedKept == IInv /\ Sound /\ Capped /\ [Next]_vars => Capped'
<1> SUFFICES ASSUME IInv, Sound, Capped, [Next]_vars PROVE Capped'
  OBVIOUS
<1>1. CASE \E r \in Refs : Checkout(r)
  BY <1>1, CheckoutCapped
<1>2. CASE \A r \in Refs : ~Checkout(r)
  <2>1. SUFFICES ASSUME NEW a \in Holders' PROVE a \in Holders
    BY FewerHolders
  <2>2. a \in Accounts
    BY <2>1 DEF Holders
  <2>3. CASE \E r \in Refs : Buyer[r] = a /\ Plan[r] = "founding" /\ checkout'[r] = "held"
    <3>1. PICK r \in Refs : Buyer[r] = a /\ Plan[r] = "founding" /\ checkout'[r] = "held"
      BY <2>3
    <3>2. checkout[r] = "held"
      BY <1>2, <3>1, HeldBefore
    <3> QED BY <2>2, <3>1, <3>2 DEF Holders
  <2>4. CASE a \notin overlapped' /\ Founding(row[a])' /\ ~row'[a].late
    <3>1. CASE row' = row /\ overlapped \subseteq overlapped'
      BY <2>2, <2>4, <3>1 DEF Holders, Founding
    <3>2. ASSUME NEW e \in sent \ seen, Handles(e) PROVE a \in Holders
      BY <2>2, <2>4, <3>2, PlaceWasHeld
    <3> QED BY <3>1, <3>2, StepIs DEF Quietly, Says, Duplicate
  <2> QED BY <2>1, <2>3, <2>4 DEF Holders
<1> QED BY <1>1, <1>2

------------------------------------------------------------------------------
Inductive == IInv /\ Sound /\ Followed /\ Paid /\ Capped

LEMMA SpecInductive == Spec => []Inductive
<1>1. Init => Inductive
  BY InitIInv, InitSound, InitFollowed, InitCapped DEF Inductive
<1>2. Inductive /\ [Next]_vars => Inductive'
  BY NextIInv, SoundKept, FollowedKept, CappedKept DEF Inductive
<1> QED BY <1>1, <1>2, PTL DEF Spec

(* The tables keep their shape, and a transaction works on an event that      *)
(* Creem has not been answered.                                               *)
THEOREM TypeCorrect == Spec => []TypeOK
<1>1. Inductive => TypeOK
  BY DEF Inductive, IInv, Shapes, Working, Sound, RowSound, TypeOK
<1> QED BY <1>1, SpecInductive, PTL

(* The row of an account with one subscription says what Creem says, once     *)
(* nothing of the account is on its way.                                      *)
THEOREM RowIsRight == Spec => []RowFollowsCreem
<1>1. Inductive => RowFollowsCreem
  <2>1. SUFFICES ASSUME Inductive, NEW a \in Accounts, NEW r \in Refs, Quiet(a), Bought(a) = {r}
                 PROVE  RowIsLatest(a, r)
    BY DEF RowFollowsCreem, RowIsLatest, Has
  <2>2. Buyer[r] = a
    BY <2>1 DEF Bought
  <2>3. ~Unanswered(r, creem[r].at)
    BY <2>1, <2>2 DEF Quiet, OfAccount, Unanswered
  <2> QED BY <2>1, <2>3 DEF Inductive, Followed, Follows, Only, Quiet
<1> QED BY <1>1, SpecInductive, PTL

(* A subscription Creem still charges has the row, or the operator knows.     *)
THEOREM NothingUnseen == Spec => []PaidIsHeldOrTold
<1>1. Inductive => PaidIsHeldOrTold
  <2>1. SUFFICES ASSUME Inductive, NEW r \in Refs, Quiet(Buyer[r]),
                        creem[r].status \notin {"none", "canceled"}
                 PROVE  Has(Buyer[r], r) \/ r \in told
    BY DEF PaidIsHeldOrTold, Has
  <2> QED BY <2>1 DEF Inductive, Paid, Quiet, OfAccount
<1> QED BY <1>1, SpecInductive, PTL

(* The founding places are kept, for any number of them.                      *)
THEOREM PlacesAreKept == Spec => []FoundingCap
<1>1. Inductive => FoundingCap
  <2> SUFFICES ASSUME Inductive PROVE FoundingCap
    OBVIOUS
  <2> DEFINE P == {a \in Accounts \ overlapped : Founding(row[a]) /\ ~row[a].late}
  <2>1. P \subseteq Holders
    BY DEF Holders
  <2>2. IsFiniteSet(Holders)
    BY FS_Subset, BillingAssumption DEF BillingAssumption, Holders
  <2>3. /\ Cardinality(P) <= Cardinality(Holders) /\ Cardinality(P) \in Nat
        /\ Cardinality(Holders) \in Nat /\ Cap \in Nat
    BY <2>1, <2>2, FS_Subset, FS_CardinalityType, BillingAssumption DEF BillingAssumption
  <2>4. Cardinality(Holders) <= Cap
    BY DEF Inductive, Capped
  <2> HIDE DEF P
  <2>5. Cardinality(P) <= Cap
    BY <2>3, <2>4
  <2> QED BY <2>5 DEF FoundingCap, P
<1> QED BY <1>1, SpecInductive, PTL
==============================================================================
