---------------------------- MODULE MCBadgeReset ----------------------------
(* BadgeReset for TLC: one account, and two values of every preference.  What *)
(* users can change starts from its default, the rest with something to lose. *)
EXTENDS BadgeReset

ASSUME ResetAssumption

Used == [k \in Keys |-> IF k \in Changeable THEN Default ELSE Revealed]

UsedInit == Init /\ flash = Used /\ wifi = "some"

UsedSpec == UsedInit /\ [][Next]_vars /\ Fairness
=============================================================================
