---------------------------- MODULE MCClaimDraft ----------------------------
(* Instance of ClaimDraft for TLC: requests and item ids are               *)
(* interchangeable, and the runs that use this module check safety only.   *)
EXTENDS ClaimDraft, TLC

Symmetry == Permutations(Item) \cup Permutations(Handler)
=============================================================================
