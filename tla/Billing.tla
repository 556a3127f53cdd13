------------------------------ MODULE Billing ------------------------------
(***************************************************************************)
(* What traffic reporting promises of the bill, without cursors and        *)
(* counters: a debt to the server that traffic adds to and a report pays.  *)
(* A report bills no more than is owed.  If its answer is lost the debt    *)
(* stays, so the same traffic may be billed once more, and that is written *)
(* down.  Nothing is forgiven until the core's counters are cut off; from  *)
(* then on any step may forgive some, but none ever adds what was not      *)
(* carried.                                                                *)
(***************************************************************************)
EXTENDS Integers

CONSTANT Counter

VARIABLES carried, billed, unacked, owed, cut

account == <<carried, billed, unacked, owed, cut>>

\* All of a debt is owed, or, once counters were cut off, at most that.
Owes(debt) ==
  \A c \in Counter : owed'[c] \in 0 .. debt[c] /\ (cut' \/ owed'[c] = debt[c])

Init ==
  /\ carried = [c \in Counter |-> 0] /\ billed = carried /\ unacked = carried /\ owed = carried
  /\ cut = FALSE

Use(c) ==
  /\ carried' = [carried EXCEPT ![c] = @ + 1]
  /\ Owes([owed EXCEPT ![c] = @ + 1])
  /\ UNCHANGED <<billed, unacked, cut>>

\* What a report adds to the bill of a counter.
Charge(c) == billed'[c] - billed[c]
Covered == \A c \in Counter : Charge(c) \in 0 .. owed[c]

Bill ==
  /\ Covered
  /\ Owes([c \in Counter |-> owed[c] - Charge(c)])
  /\ UNCHANGED <<carried, unacked, cut>>

BillUnanswered ==
  /\ Covered
  /\ unacked' = [c \in Counter |-> unacked[c] + Charge(c)]
  /\ Owes(owed)
  /\ UNCHANGED <<carried, cut>>

CutOff ==
  /\ owed' = [c \in Counter |-> 0] /\ cut' = TRUE
  /\ UNCHANGED <<carried, billed, unacked>>

Forgive == cut /\ Owes(owed) /\ UNCHANGED <<carried, billed, unacked, cut>>

Next == (\E c \in Counter : Use(c)) \/ Bill \/ BillUnanswered \/ CutOff \/ Forgive

Spec == Init /\ [][Next]_account

=============================================================================
