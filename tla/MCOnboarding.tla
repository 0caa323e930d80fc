---------------------------- MODULE MCOnboarding ----------------------------
(* Onboarding and a visit of the claim wizard on small instances.  They     *)
(* share no state, so a behaviour is one of either.  Requests and ids are   *)
(* interchangeable, and the run checks safety only.                         *)
EXTENDS Onboarding, ClaimWizard, TLC

VARIABLE part       \* which of the two this behaviour is

MCInit == Init /\ WizardInit /\ part \in {"onboarding", "wizard"}

MCNext ==
    \/ part = "onboarding" /\ Next /\ UNCHANGED <<wizardVars, part>>
    \/ part = "wizard" /\ WizardNext /\ UNCHANGED <<vars, part>>

MCSpec == MCInit /\ [][MCNext]_<<vars, wizardVars, part>>

\* What is alike in the one has the same model values as what is alike in the other.
Symmetry == UNION {Permutations(S) : S \in {Doc, DocHandler, Case, KycHandler, Gate}}
=============================================================================
