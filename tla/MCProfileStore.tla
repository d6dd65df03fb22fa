--------------------------- MODULE MCProfileStore ---------------------------
(***************************************************************************)
(* Two saving tasks, two profiles, one photo: enough for a save to wait     *)
(* behind another one and to change either half of the record.              *)
(***************************************************************************)
EXTENDS ProfileStore
=============================================================================
