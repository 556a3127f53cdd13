------------------------------ MODULE MCAgent ------------------------------
(* A small instance of Agent: two bases with the same hot-managed inbound   *)
(* and one that never builds, one e-mail, two accounts.  The sequences give  *)
(* the content of the server's versions 1, 2, 3.                            *)
EXTENDS Agent

CONSTANTS b1, b2, bad, s1, x, y

MCBase == {b1, b2, bad}
MCManaged == {b1, b2, bad}
MCSlot == {s1}
MCSlotsOf == [b \in MCBase |-> {s1}]
MCAccount == {x, y}
User(a) == [s \in MCSlot |-> a]
Conf(b, a) == [base |-> b, users |-> User(a)]
MCConfig == {Conf(b, a) : b \in MCBase, a \in MCAccount \cup {None}}
BadBase == {Conf(bad, a) : a \in MCAccount \cup {None}}

\* The account y is refused by the core (a key of a wrong length, say).
RefusedAccount == BadBase \cup {Conf(b, y) : b \in MCBase}
RefusedOnB1 == BadBase \cup {Conf(b1, y)}

BadThenGood == <<b1, bad, b2>>
TwoGood == <<b1, b2>>
GoodThenBad == <<b1, bad>>
ThreeGood == <<b1, b2, b1>>
NotJson == <<b1, None, b2>>
ThereAndBack == <<User(x), User(y), User(x)>>
TwoUsers == <<User(x), User(y)>>
NotValid == <<User(x), None, User(y)>>

=============================================================================
