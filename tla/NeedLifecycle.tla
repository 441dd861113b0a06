--------------------------- MODULE NeedLifecycle ---------------------------
(***************************************************************************)
(* What procurement promises about one purchase need: it is planned, it is *)
(* on a purchase record, or it was deleted while it was only planned, and  *)
(* it never is in two of these places or in none of them.                  *)
(***************************************************************************)
EXTENDS Naturals

CONSTANT Needs

VARIABLE place

Init == place = [n \in Needs |-> "none"]

Enter(n) == place[n] = "none" /\ place' = [place EXCEPT ![n] = "plan"]

\* One request moves several plans into one record.
Move(ns) ==
    /\ \A n \in ns : place[n] = "plan"
    /\ place' = [n \in Needs |-> IF n \in ns THEN "record" ELSE place[n]]

Restore(n) == place[n] = "record" /\ place' = [place EXCEPT ![n] = "plan"]

Delete(n) == place[n] = "plan" /\ place' = [place EXCEPT ![n] = "deleted"]

Next ==
    \/ \E n \in Needs : Enter(n) \/ Restore(n) \/ Delete(n)
    \/ \E ns \in SUBSET Needs : Move(ns)

Spec == Init /\ [][Next]_place
=============================================================================
