--------------------------- MODULE MCXrayRuntime ---------------------------
(* A small instance of XrayRuntime: two hot-managed bases, one whose users  *)
(* cannot be managed hot, and configurations that do not build.            *)
EXTENDS XrayRuntime

CONSTANTS b1, b2, u, s1, s2, x, y

MCBase == {b1, b2, u}
MCManaged == {b1, b2}
MCSlot == {s1, s2}
MCSlotsOf == [b \in MCBase |-> IF b = b1 THEN {s1, s2} ELSE IF b = b2 THEN {s1} ELSE {}]
MCAccount == {x, y}

Users(p, q) == [s \in MCSlot |-> IF s = s1 THEN p ELSE q]
Conf(b, p, q) == [base |-> b, users |-> Users(p, q)]

MCMalformed == {Conf(b1, y, x), Conf(b2, y, None)}
MCUndecodable == {Conf(b2, y, None)}
MCConfig == MCMalformed \cup
  {Conf(b1, y, None), Conf(b1, x, y), Conf(b2, x, None), Conf(u, None, None)}

=============================================================================
