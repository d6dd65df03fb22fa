---------------------------- MODULE MCReplyLedger ----------------------------
(* ReplyLedger for TLC: three keys about one post, each for either of two       *)
(* texts, and two calls at once.                                              *)
EXTENDS ReplyLedger, TLC

Symmetry == Permutations(Keys) \cup Permutations(Texts) \cup Permutations(Calls)
=============================================================================
