--------------------------- MODULE SessionFamily ---------------------------
(***************************************************************************)
(* What rotation of refresh tokens promises, independently of requests,    *)
(* their statements and their interleaving: a family is one chain.  It is  *)
(* issued with its first token; one token at a time stands for it, and a   *)
(* rotation hands over to a token that never stood for anything; a token   *)
(* that is spent is spent for good, and a family whose token was revoked   *)
(* is over.  No promise is made about a family that is let go.             *)
(***************************************************************************)
CONSTANT Token      \* refresh tokens; a family is named after its first

VARIABLES
    holder,         \* [Token -> SUBSET Token]: who stands for a family now
    spent,          \* tokens that are accepted no more
    loose           \* families let go

familyVars == <<holder, spent, loose>>

FamilyInit ==
    /\ holder = [f \in Token |-> {}]
    /\ spent = {}
    /\ loose = {}

Fresh(n) == n \notin spent /\ \A f \in Token : n \notin holder[f]

\* A login.
Issue(f) ==
    /\ Fresh(f)
    /\ f \notin loose
    /\ holder[f] = {}
    /\ holder' = [holder EXCEPT ![f] = {f}]
    /\ UNCHANGED <<spent, loose>>

\* A refresh.
Rotate(f, s, n) ==
    /\ holder[f] = {s}
    /\ Fresh(n)
    /\ holder' = [holder EXCEPT ![f] = {n}]
    /\ spent' = spent \cup {s}
    /\ UNCHANGED loose

\* A logout of any number of tokens, or an accident of any number of families.
Lose ==
    /\ spent \subseteq spent' /\ loose \subseteq loose'
    /\ holder' = [f \in Token |-> {s \in holder[f] : f \notin loose' /\ s \notin spent'}]

FamilyNext ==
    \/ Lose
    \/ \E f \in Token : Issue(f) \/ \E s \in holder[f], n \in Token : Rotate(f, s, n)

FamilySpec == FamilyInit /\ [][FamilyNext]_familyVars
=============================================================================
