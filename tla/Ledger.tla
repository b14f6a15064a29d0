-------------------------------- MODULE Ledger --------------------------------
(* What the archive promises, with no sessions, transactions or statements:   *)
(* for every notice an append-only list of distinct contents, none of which   *)
(* is older by its source's own date than the one before it.                  *)
EXTENDS Integers, Sequences

CONSTANTS Notices, Contents, Precedes(_, _)   \* Precedes(a, b): a is older than b

VARIABLE history

(* A content may follow a list: it is new to it and not older than its last.  *)
MayFollow(h, c) ==
  /\ \A i \in DOMAIN h : h[i] # c
  /\ h # << >> => ~Precedes(c, h[Len(h)])

(* A list grown from another by contents that could each follow in turn.      *)
GrownFrom(old, new) ==
  /\ Len(new) >= Len(old)
  /\ \A i \in 1..Len(old) : new[i] = old[i]
  /\ \A j \in (Len(old) + 1)..Len(new) : MayFollow(SubSeq(new, 1, j - 1), new[j])

Init == history = [n \in Notices |-> << >>]

(* One commit publishes what one session appended, to any number of notices.  *)
Next ==
  /\ history' \in [Notices -> Seq(Contents)]
  /\ \A n \in Notices : GrownFrom(history[n], history'[n])

Spec == Init /\ [][Next]_history
===============================================================================
