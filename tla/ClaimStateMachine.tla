------------------------- MODULE ClaimStateMachine -------------------------
(***************************************************************************)
(* The claim status graph of claims-service                                *)
(* (src/services/claims-service/src/domain/claim-state-machine.ts).        *)
(***************************************************************************)

ClaimStatus ==
    {"DRAFT", "SUBMITTED", "VERIFYING", "NEEDS_USER_INPUT", "MANUAL_REVIEW", "VERIFIED",
     "READY_FOR_INSURER", "INSURER_SUBMITTED", "INSURER_REVIEW", "DOCUMENTS_REQUESTED",
     "OFFER_RECEIVED", "NEGOTIATING", "CHALLENGE_PENDING_USER_APPROVAL", "CHALLENGED",
     "SETTLED", "ESCALATION_PENDING_APPROVAL", "ESCALATION_FILED",
     "ESCALATION_IN_PROGRESS", "ESCALATION_RESOLVED", "REJECTED", "CLOSED"}

\* The record TRANSITIONS as a relation: every other pair is illegal, a status
\* paired with itself included.
TRANSITIONS ==
    {<<"DRAFT", "SUBMITTED">>,
     <<"SUBMITTED", "VERIFYING">>,
     <<"VERIFYING", "NEEDS_USER_INPUT">>,
     <<"VERIFYING", "MANUAL_REVIEW">>,
     <<"VERIFYING", "VERIFIED">>,
     <<"NEEDS_USER_INPUT", "VERIFYING">>,
     <<"MANUAL_REVIEW", "VERIFIED">>,
     <<"MANUAL_REVIEW", "REJECTED">>,
     <<"VERIFIED", "READY_FOR_INSURER">>,
     <<"READY_FOR_INSURER", "INSURER_SUBMITTED">>,
     <<"INSURER_SUBMITTED", "INSURER_REVIEW">>,
     <<"INSURER_REVIEW", "DOCUMENTS_REQUESTED">>,
     <<"INSURER_REVIEW", "OFFER_RECEIVED">>,
     <<"INSURER_REVIEW", "REJECTED">>,
     <<"DOCUMENTS_REQUESTED", "INSURER_REVIEW">>,
     <<"OFFER_RECEIVED", "NEGOTIATING">>,
     <<"OFFER_RECEIVED", "SETTLED">>,
     <<"OFFER_RECEIVED", "REJECTED">>,
     <<"NEGOTIATING", "CHALLENGE_PENDING_USER_APPROVAL">>,
     <<"NEGOTIATING", "SETTLED">>,
     <<"NEGOTIATING", "ESCALATION_PENDING_APPROVAL">>,
     <<"CHALLENGE_PENDING_USER_APPROVAL", "CHALLENGED">>,
     <<"CHALLENGED", "OFFER_RECEIVED">>,
     <<"ESCALATION_PENDING_APPROVAL", "ESCALATION_FILED">>,
     <<"ESCALATION_FILED", "ESCALATION_IN_PROGRESS">>,
     <<"ESCALATION_IN_PROGRESS", "ESCALATION_RESOLVED">>,
     <<"ESCALATION_RESOLVED", "SETTLED">>,
     <<"ESCALATION_RESOLVED", "CLOSED">>,
     <<"SETTLED", "CLOSED">>,
     <<"REJECTED", "CLOSED">>}

canTransition(from, to) == <<from, to>> \in TRANSITIONS
=============================================================================
