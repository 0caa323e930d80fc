------------------------- MODULE MCClaimsPipeline -------------------------
(* Instance of ClaimsPipeline for TLC.  Requests, ids and claims are        *)
(* interchangeable, and the runs that use this module check safety only.    *)
EXTENDS ClaimsPipeline, TLC

Symmetry ==
    UNION {Permutations(S) : S \in {Claim, Key, Run, Task, Submit, Callback, Review}}
=============================================================================
