----------------------------- MODULE Assessment -----------------------------
(***************************************************************************)
(* The deterministic functions a claim's assessment rests on:              *)
(*   - verification-service, scoring/engine.py: the weighted score of a    *)
(*     snapshot and the decision;                                          *)
(*   - agent-service, chunking.py: see Chunking;                           *)
(*   - agent-service, entitlement.py, negotiation/: an item's entitlement, *)
(*     the band of a claim and its value model.                            *)
(*                                                                         *)
(* They share no state, so a behaviour is one call of one of them.         *)
(* The providers' confidences are floats: they are counted here in parts   *)
(* of Unit, and the error of the arithmetic on them in Noise, so that the  *)
(* overall score, which the code rounds to four digits, is one of two      *)
(* numbers of ten-thousandths where it lies half-way between them.  The    *)
(* confidence of a finding is counted in hundredths.                       *)
(***************************************************************************)
EXTENDS Chunking, FiniteSetsExt

CONSTANTS
    Unit,           \* a power of ten for as many digits as the confidences have, 14 at most
    Confidence,     \* confidences of the disaster and image providers, in 1/Unit
    Noise,          \* twice the floating-point error of a weighted sum: less than what the
                    \* last of 14 digits of a confidence weighs, which is 3000 at least
    Certainty,      \* confidences of the language model's findings
    MaxItems,       \* bound: items of a claim
    Amount,         \* claimed values, sums insured and mandates
    Deduction,      \* amounts a finding may bring: its schema has no lower bound
    NoAmount        \* None, in a finding without a limit

ASSUME UnitAssumption == Unit \in Nat \ {0} /\ Noise \in Nat /\ Noise < Unit /\ Noise < 3000
ASSUME ConfidenceAssumption == Confidence \subseteq 0..Unit /\ Certainty \subseteq 0..100
ASSUME AmountAssumption == Amount \subseteq Nat /\ Deduction \subseteq Int /\ NoAmount \notin Int

VARIABLES
    verdict,        \* the latest run_verification: signals and decision
    settlement      \* the latest entitlement band and value model

vars == <<chunkVars, verdict, settlement>>

NoVerdict == [decision |-> "none"]
NoSettlement == [items |-> <<>>]

-----------------------------------------------------------------------------
(* scoring/engine.py.                                                       *)

Check == {"items", "location", "date", "evidence"}

DisasterScore(signal) ==
    IF signal.occurred THEN signal.confidence ELSE Unit - signal.confidence

EvidenceScore(signal) == IF "evidence" \in signal.present THEN signal.image ELSE 0

\* Of 100.  No geocoding yet: the same for every claim.
LocationScore == 80

\* Of 100.
CompletenessScore(signal) == 25 * Cardinality(signal.present)

\* In ten-thousandths of a Unit.
WeightedSum(signal) ==
    4000 * DisasterScore(signal) + 3000 * EvidenceScore(signal)
      + 15 * (LocationScore + CompletenessScore(signal)) * Unit

\* round(..., 4): the multiples of step ten-thousandths a sum may be rounded to.
Rounded(sum, step) ==
    LET below == step * (sum \div (step * Unit))
    IN  {n \in {below, below + step} : /\ 2 * (n * Unit - sum) <= step * Unit + Noise
                                      /\ 2 * (sum - n * Unit) <= step * Unit + Noise}

\* Mutant: rounded to two digits.
TwoDigitScore(signal) == Rounded(WeightedSum(signal), 100)

OverallScore(signal) == Rounded(WeightedSum(signal), 1)

Contradiction(signal) == ~signal.occurred /\ 10 * signal.confidence >= 7 * Unit

Decision(signal, score) ==
    IF Contradiction(signal) THEN "fail"
    ELSE IF score >= 8000 THEN "pass"
    ELSE IF score >= 5500 THEN "review"
    ELSE "fail"

-----------------------------------------------------------------------------
(* entitlement.py.                                                          *)

\* int(amount * percent / 100) in binary floating point: a product that should be a whole
\* number may come out just below it, unless the factor is exact.
Truncated(amount, percent) ==
    LET whole == (amount * percent) \div 100
    IN  {whole} \cup IF whole > 0 /\ (amount * percent) % 100 = 0 /\ percent % 25 # 0
                     THEN {whole - 1} ELSE {}

Least(a, b) == IF a <= b THEN a ELSE b
Greatest(a, b) == IF a >= b THEN a ELSE b

EligibleValue(claimed, finding) ==
    IF finding.coverage \in {"excluded", "uncertain"} THEN 0
    ELSE IF finding.payable = NoAmount THEN claimed ELSE Least(claimed, finding.payable)

\* Mutant: the deduction may take the entitlement below nothing.
PointUnclamped(claimed, finding) == EligibleValue(claimed, finding) - finding.deduction

\* deductible and depreciation are only ever subtracted together.
Point(claimed, finding) == Greatest(EligibleValue(claimed, finding) - finding.deduction, 0)

\* The values the low end may take; the high end is the point.
Low(claimed, finding) ==
    IF finding.coverage = "covered" /\ finding.confidence >= 90
    THEN {Point(claimed, finding)}
    ELSE Truncated(Point(claimed, finding), finding.confidence)

Total(items, amount) == MapThenSumSet(LAMBDA i : items[i][amount], DOMAIN items)

-----------------------------------------------------------------------------
(* negotiation/value_model.py, which nothing calls yet: the model calls it  *)
(* with the claim's own totals.                                             *)

OpeningAsk(claimed, insured, high) == Least(Least(claimed, insured), high)

\* 0.85 of the low end, or the mandate's minimum, and never above the opening ask.
Reservation(floor, mandate, opening) == Least(Greatest(floor, mandate), opening)

Target(opening, reservation) == (opening + reservation) \div 2

ValueModel(opening, reservation) ==
    [opening |-> opening, reservation |-> reservation, target |-> Target(opening, reservation)]

-----------------------------------------------------------------------------
Signal == [present : SUBSET Check, occurred : BOOLEAN, confidence : Confidence, image : Confidence]

Finding == [coverage : {"covered", "excluded", "partial", "uncertain"},
            confidence : Certainty, payable : Deduction \cup {NoAmount}, deduction : Deduction]

Init ==
    /\ ChunkInit
    /\ verdict = NoVerdict /\ settlement = NoSettlement

Idle == pages = <<>> /\ verdict = NoVerdict /\ settlement = NoSettlement

(* run_verification.                                                        *)
RunVerification(signal) ==
    /\ \E score \in OverallScore(signal) :
         verdict' = [signal |-> signal, decision |-> Decision(signal, score)]
    /\ UNCHANGED <<chunkVars, settlement>>

\* compute_item_entitlement.
Item(claimed, finding, low) ==
    [claimed |-> claimed, finding |-> finding, low |-> low, high |-> Point(claimed, finding)]

(* compute_entitlement_band for one more of the claim's items.              *)
AddItem(claimed, finding) ==
    /\ \E low \in Low(claimed, finding) :
         settlement' = [items |-> Append(settlement.items, Item(claimed, finding, low))]
    /\ UNCHANGED <<chunkVars, verdict>>

(* build_value_model, on the band of the items.                             *)
BuildValueModel(insured, mandate) ==
    LET items   == settlement.items
        claimed == Total(items, "claimed")
        opening == OpeningAsk(claimed, insured, Total(items, "high"))
    IN  /\ \E floor \in Truncated(Total(items, "low"), 85) :
             settlement' = [items |-> items, insured |-> insured, mandate |-> mandate,
                            model |-> ValueModel(opening, Reservation(floor, mandate, opening))]
        /\ UNCHANGED <<chunkVars, verdict>>

\* The call under way, if any, is the settlement.
Open == pages = <<>> /\ verdict = NoVerdict /\ DOMAIN settlement = {"items"}

Next ==
    \/ Idle /\ \E signal \in Signal : RunVerification(signal)
    \/ /\ ChunkNext
       /\ verdict = NoVerdict /\ settlement = NoSettlement
       /\ UNCHANGED <<verdict, settlement>>
    \/ /\ Open /\ Len(settlement.items) < MaxItems
       /\ \E claimed \in Amount, finding \in Finding : AddItem(claimed, finding)
    \/ /\ Open /\ settlement.items # <<>>
       /\ \E insured, mandate \in Amount : BuildValueModel(insured, mandate)

Spec == Init /\ [][Next]_vars

-----------------------------------------------------------------------------
Rank(decision) == CASE decision = "fail" -> 0 [] decision = "review" -> 1 [] decision = "pass" -> 2

\* Every signal of t speaks for the claim at least as much as that of s, and one of them more.
Better(t, s) ==
    /\ t.occurred = s.occurred
    /\ s.present \subseteq t.present
    /\ DisasterScore(t) >= DisasterScore(s)
    /\ t.image >= s.image
    /\ \/ s.present # t.present
       \/ DisasterScore(t) # DisasterScore(s)
       \/ EvidenceScore(t) # EvidenceScore(s)

(* The weights, the rounding, the thresholds and the override work together *)
(* (engine.py:17-30, 103-144): a claim without evidence never passes, nor   *)
(* does one whose event the provider denies by more than 0.425125, that is  *)
(* the 0.425 which the other signals outweigh at best and the half of a     *)
(* ten-thousandth that rounding adds; one denied by 0.7 always fails, a     *)
(* complete claim with an event confirmed by 0.7 never fails, and better    *)
(* signals never get a worse decision, however the floats round.            *)
DecisionJustified ==
    verdict # NoVerdict =>
      LET signal == verdict.signal
      IN  /\ verdict.decision = "pass" =>
               /\ "evidence" \in signal.present
               /\ signal.occurred \/ 8000 * signal.confidence <= 3401 * Unit + Noise
          /\ ~signal.occurred /\ 10 * signal.confidence >= 7 * Unit => verdict.decision = "fail"
          /\ signal.present = Check /\ signal.occurred /\ 10 * signal.confidence >= 7 * Unit
               => verdict.decision # "fail"
          /\ \A better \in Signal : Better(better, signal) =>
               \A score \in OverallScore(better) :
                  Rank(Decision(better, score)) >= Rank(verdict.decision)

(* Whatever the findings say, an item's band is ordered and not negative,   *)
(* and without negative deductions it stays within the claimed value and is *)
(* nothing for what is excluded or uncertain; so is the band of the claim,  *)
(* the sums over its items (entitlement.py:40-90).  The value model's       *)
(* reservation, target and opening ask are in that order, within what is    *)
(* claimed and insured and the high end of the band, and the reservation is *)
(* the mandate's minimum at least unless the opening ask is less            *)
(* (value_model.py:37-43).                                                  *)
NegotiableBand ==
    LET items == settlement.items
    IN  /\ \A i \in DOMAIN items :
             /\ 0 <= items[i].low /\ items[i].low <= items[i].high
             /\ items[i].finding.deduction >= 0 =>
                  /\ items[i].high <= items[i].claimed
                  /\ items[i].finding.coverage \in {"excluded", "uncertain"} => items[i].high = 0
        /\ 0 <= Total(items, "low") /\ Total(items, "low") <= Total(items, "high")
        /\ (\A i \in DOMAIN items : items[i].finding.deduction >= 0) =>
             Total(items, "high") <= Total(items, "claimed")
        /\ DOMAIN settlement # {"items"} =>
             LET model == settlement.model
             IN  /\ 0 <= model.reservation /\ model.reservation <= model.target
                 /\ model.target <= model.opening /\ model.opening <= settlement.insured
                 /\ model.opening <= Total(items, "claimed")
                 /\ model.opening <= Total(items, "high")
                 /\ model.reservation >= settlement.mandate \/ model.reservation = model.opening
=============================================================================
