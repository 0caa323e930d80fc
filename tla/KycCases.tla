------------------------------ MODULE KycCases ------------------------------
(***************************************************************************)
(* identity-service: the KYC cases of one user, completed by the mock      *)
(* provider's control or by the provider's webhook.                        *)
(* (routes/kyc.routes.ts, domain/kyc.ts.)                                  *)
(*                                                                         *)
(* Both completions read the case, check that it is pending, and write it  *)
(* by id alone; an action is one statement.                                *)
(***************************************************************************)
EXTENDS Naturals, FiniteSets

CONSTANTS
    Case,           \* ids of cases
    KycHandler,     \* completions that may be in flight together
    NoCase

ASSUME NoCaseAssumption == NoCase \notin Case

VARIABLES
    kase,           \* kyc_cases
    kycHandler,     \* completions in flight
    contested       \* history: cases two of whose completions overlapped

kycVars == <<kase, kycHandler, contested>>

KycIdle == [pc |-> "idle", case |-> NoCase]

\* The mock provider decides by the identifier, the webhook brings the provider's decision.
Outcome == {"verified", "failed"}

\* born orders submittedAt; name and reason: verifiedName and failureReason are set.
KycTypeOK ==
    /\ kase \in [Case -> [status : {"absent", "pending"} \cup Outcome, born : Nat,
                          name : BOOLEAN, reason : BOOLEAN]]
    /\ kycHandler \in [KycHandler -> [pc : {"idle", "loaded"},
                                      case : Case \cup {NoCase}]]
    /\ contested \in SUBSET Case

KycInit ==
    /\ kase = [c \in Case |-> [status |-> "absent", born |-> 0,
                               name |-> FALSE, reason |-> FALSE]]
    /\ kycHandler = [h \in KycHandler |-> KycIdle]
    /\ contested = {}

Opened == {c \in Case : kase[c].status # "absent"}

\* GET /v1/kyc/cases/latest.
LatestCase(c) == c \in Opened /\ \A b \in Opened : kase[b].born <= kase[c].born

-----------------------------------------------------------------------------
(* POST /v1/kyc/cases: whatever cases the user already has.                 *)
OpenCase(c) ==
    /\ kase[c].status = "absent"
    /\ kase' = [kase EXCEPT ![c] =
         [status |-> "pending", born |-> Cardinality(Opened) + 1,
          name |-> TRUE, reason |-> FALSE]]
    /\ UNCHANGED <<kycHandler, contested>>

(* Mutant: the status is not looked at.                                     *)
LoadAnyCase(h, c) ==
    /\ kycHandler[h] = KycIdle
    /\ c \in Opened
    /\ kycHandler' = [kycHandler EXCEPT ![h] = [pc |-> "loaded", case |-> c]]
    /\ contested' = IF \E g \in KycHandler : kycHandler[g].case = c
                    THEN contested \cup {c} ELSE contested
    /\ UNCHANGED kase

(* Both completions, the mock's and the webhook's, find the case pending.   *)
LoadCase(h, c) ==
    /\ kycHandler[h] = KycIdle
    /\ kase[c].status = "pending"
    /\ kycHandler' = [kycHandler EXCEPT ![h] = [pc |-> "loaded", case |-> c]]
    /\ contested' = IF \E g \in KycHandler : kycHandler[g].case = c
                    THEN contested \cup {c} ELSE contested
    /\ UNCHANGED kase

(* Both UPDATEs: the name is kept with a verification, the reason set with a*)
(* failure.                                                                 *)
Decided(c, outcome) ==
    [kase EXCEPT ![c].status = outcome,
                 ![c].name   = outcome = "verified",
                 ![c].reason = outcome = "failed"]

CompleteCase(h, outcome) ==
    /\ kycHandler[h].pc = "loaded"
    /\ kase' = Decided(kycHandler[h].case, outcome)
    /\ kycHandler' = [kycHandler EXCEPT ![h] = KycIdle]
    /\ UNCHANGED contested

KycAbandon(h) ==
    /\ kycHandler[h] # KycIdle
    /\ kycHandler' = [kycHandler EXCEPT ![h] = KycIdle]
    /\ UNCHANGED <<kase, contested>>

KycNext ==
    \/ \E c \in Case : OpenCase(c)
    \/ \E h \in KycHandler :
         \/ \E c \in Case : LoadCase(h, c)
         \/ \E outcome \in Outcome : CompleteCase(h, outcome)
         \/ KycAbandon(h)

-----------------------------------------------------------------------------
(* "A case's pending -> verified | failed transition is the only state      *)
(* change" (kyc.routes.ts:16-20), unless two completions of it overlapped;  *)
(* and then a verdict still replaces the other as a whole: a failed case    *)
(* has a reason and no name left over from the submission, a verified one a *)
(* name and no reason.                                                      *)
VerdictIsFinal ==
    [][\A c \in Opened : kase[c].status # "pending" =>
         /\ c \notin contested => kase'[c] = kase[c]
         /\ kase'[c].name = (kase'[c].status # "failed")
         /\ kase'[c].reason = (kase'[c].status = "failed")]_kycVars
=============================================================================
