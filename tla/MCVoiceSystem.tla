---------------------------- MODULE MCVoiceSystem ----------------------------
(* VoiceSystem for TLC: one send, and the requests for its receipt, in two    *)
(* calls of the ledger at once, by a badge that is its owner's only one.      *)
EXTENDS VoiceSystem, TLC

Symmetry == Permutations(Calls)

AloneSpec == SystemInit /\ [][AloneNext]_system
=============================================================================
