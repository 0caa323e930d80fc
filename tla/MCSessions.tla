----------------------------- MODULE MCSessions -----------------------------
(* Sessions on a small instance, used by any clients of its routes or by    *)
(* the pages of one browser (WebSession).  Requests, ids and tabs are       *)
(* interchangeable, and the run checks safety only.                         *)
EXTENDS WebSession, TLC

VARIABLE client     \* who uses the service in this behaviour

MCInit == WebInit /\ client \in {"any", "browser"}

\* Bound: the refreshes of one family overlap or break off.
OneSplit == Cardinality(split) <= 1

\* Bound: one family meets with an accident.  Once every family has, no property of
\* WebSession speaks of any.
OneAccident ==
    /\ Families = {} \/ astray # Families
    /\ Cardinality(astray \cup kept) <= 1

MCNext ==
    \/ client = "any" /\ OneSplit /\ Next /\ UNCHANGED <<browserVars, client>>
    \/ client = "browser" /\ OneAccident /\ WebNext /\ UNCHANGED client

MCSpec == MCInit /\ [][MCNext]_<<webVars, client>>

Symmetry == Permutations(Session) \cup Permutations(Handler) \cup Permutations(Tab)
=============================================================================
