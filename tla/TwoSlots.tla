------------------------------ MODULE TwoSlots ------------------------------
(***************************************************************************)
(* What the runtime promises of its two configuration files, without the   *)
(* steps that get there: a candidate slot (current.json) that is replaced  *)
(* freely, and a good slot (last_good.json) that only ever receives what   *)
(* is being served at that moment and is also the candidate.  Whatever is  *)
(* served was taken from one of the two slots, or reached from there by a  *)
(* hot change of the accounts.  A change cut half-way tears the store: the *)
(* good slot then still receives only the candidate, and only while        *)
(* something is served; serving a slot that is in both again mends it.     *)
(***************************************************************************)
CONSTANTS Store, None

VARIABLES serving, candidate, good, torn

slots == <<serving, candidate, good, torn>>

Init == serving = None /\ candidate = None /\ good = None /\ torn = FALSE

Submit(c) == candidate' = c /\ UNCHANGED <<serving, good, torn>>

Adopt == candidate # None /\ serving' = candidate /\ UNCHANGED <<candidate, good, torn>>

Revert == good # None /\ serving' = good /\ UNCHANGED <<candidate, good, torn>>

\* The accounts of what is served move to those of c.
HotChange(c) ==
  /\ serving # None /\ serving.base = c.base
  /\ serving' = c
  /\ UNCHANGED <<candidate, good, torn>>

\* The store is mended, or as torn as it was.
Mend == torn' = torn \/ (serving = candidate' /\ candidate' = good' /\ torn' = FALSE)

Promote ==
  /\ serving # None /\ candidate # None
  /\ torn \/ serving = candidate
  /\ good' = candidate
  /\ UNCHANGED <<serving, candidate>>
  /\ Mend

Discard == good # None /\ candidate' = good /\ UNCHANGED <<serving, good>> /\ Mend

\* A change is cut half-way: what is served stops, stays, or gets part of its
\* new accounts.
Tear ==
  /\ torn' = TRUE
  /\ \/ serving' \in {serving, None}
     \/ /\ serving # None
        /\ \E c \in Store : c.base = serving.base /\ serving' = c
  /\ UNCHANGED <<candidate, good>>

Lose == candidate' = None /\ serving' = None /\ UNCHANGED <<good, torn>>

Halt == serving' = None /\ UNCHANGED <<candidate, good, torn>>

Next ==
  \/ \E c \in Store : Submit(c) \/ HotChange(c)
  \/ Adopt \/ Revert \/ Promote \/ Discard \/ Tear \/ Lose \/ Halt

Spec == Init /\ [][Next]_slots

=============================================================================
