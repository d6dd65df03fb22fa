-------------------------- MODULE MCSetupServices --------------------------
(***************************************************************************)
(* One account the relay can serve and one it cannot, so that a form can    *)
(* change the account under a photo.  Sessions, downloads, resets and       *)
(* restarts repeat without bound.                                           *)
(***************************************************************************)
EXTENDS SetupServices
=============================================================================
