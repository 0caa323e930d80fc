------------------------- MODULE Assessment_proofs -------------------------
(***************************************************************************)
(* The functions of Assessment, for every amount, confidence and signal:   *)
(* the decision, an item's band, the band of any number of items and the   *)
(* value model on it.  Then its chunks (Chunking),                         *)
(* for every document and any size above the overlap: splitting a page     *)
(* loses no text and no short stretch of it, for which the invariant says  *)
(* the same of what the chunks so far have reached of the current page.    *)
(* And the rate limiter, which is as self-contained: it is Metered for every*)
(* window and budget and without a bound on time.  Its invariant numbers   *)
(* the admitted calls within their windows and keeps the windows apart;    *)
(* counting the calls of a stretch of time is then an injection into an    *)
(* interval of numbers.                                                    *)
(***************************************************************************)
EXTENDS Assessment, RateLimiter, FiniteSetTheorems, WellFoundedInduction, TLAPS

(* There are four checks.                                                   *)
LEMMA Checks == IsFiniteSet(Check) /\ Cardinality(Check) = 4
<1> DEFINE one == {} \cup {"items"}
           two == one \cup {"location"}
           three == two \cup {"date"}
<1>1. IsFiniteSet({}) /\ Cardinality({}) = 0
  BY FS_EmptySet
<1>2. IsFiniteSet(one) /\ Cardinality(one) = 1
  BY <1>1, FS_AddElement
<1>3. "location" \notin one /\ "date" \notin two /\ "evidence" \notin three
  OBVIOUS
<1>4. Check = three \cup {"evidence"}
  BY DEF Check
<1> HIDE DEF one
<1>5. IsFiniteSet(two) /\ Cardinality(two) = 2
  BY <1>2, <1>3, FS_AddElement
<1> HIDE DEF two
<1>6. IsFiniteSet(three) /\ Cardinality(three) = 3
  BY <1>3, <1>5, FS_AddElement
<1> HIDE DEF three
<1> QED
  BY <1>3, <1>4, <1>6, FS_AddElement

(* What the scores of a signal range over, and what they add up to.         *)
LEMMA ScoreBounds ==
    ASSUME NEW signal \in Signal
    PROVE  /\ signal.confidence \in 0..Unit /\ signal.image \in 0..Unit
           /\ signal.occurred \in BOOLEAN
           /\ DisasterScore(signal) \in 0..Unit
           /\ EvidenceScore(signal) \in 0..Unit
           /\ Cardinality(signal.present) \in 0..4
           /\ WeightedSum(signal) = 4000 * DisasterScore(signal) + 3000 * EvidenceScore(signal)
                                     + 1200 * Unit + 375 * (Cardinality(signal.present) * Unit)
<1> USE UnitAssumption
<1>1. /\ signal.confidence \in 0..Unit /\ signal.image \in 0..Unit
      /\ signal.occurred \in BOOLEAN
  <2>1. signal.confidence \in Confidence /\ signal.image \in Confidence
    BY DEF Signal
  <2>2. \A c \in Confidence : c \in 0..Unit
    BY ConfidenceAssumption
  <2>3. signal.occurred \in BOOLEAN
    BY DEF Signal
  <2> QED
    BY <2>1, <2>2, <2>3
<1>2. Cardinality(signal.present) \in 0..4
  <2>1. signal.present \subseteq Check
    BY DEF Signal
  <2>2. IsFiniteSet(signal.present) /\ Cardinality(signal.present) <= 4
    BY <2>1, Checks, FS_Subset
  <2> QED
    BY <2>2, FS_CardinalityType
<1>3. DisasterScore(signal) \in 0..Unit /\ EvidenceScore(signal) \in 0..Unit
  BY <1>1 DEF DisasterScore, EvidenceScore
<1> DEFINE d == DisasterScore(signal)
           e == EvidenceScore(signal)
           k == Cardinality(signal.present)
<1>4. WeightedSum(signal) = 4000 * d + 3000 * e + 15 * (80 + 25 * k) * Unit
  BY DEF WeightedSum, LocationScore, CompletenessScore
<1>5. d \in 0..Unit /\ e \in 0..Unit /\ k \in 0..4
  BY <1>2, <1>3
<1> HIDE DEF d, e, k
<1>6. 15 * (80 + 25 * k) * Unit = 1200 * Unit + 375 * (k * Unit)
  BY <1>5
<1>7. 4000 * d + 3000 * e + 15 * (80 + 25 * k) * Unit
        = 4000 * d + 3000 * e + 1200 * Unit + 375 * (k * Unit)
  BY <1>5, <1>6
<1> QED
  BY <1>1, <1>4, <1>5, <1>7 DEF d, e, k

(* Better signals have a sum that is greater by more than the noise.        *)
LEMMA SumMonotone ==
    ASSUME NEW s \in Signal, NEW t \in Signal, Better(t, s)
    PROVE  WeightedSum(t) > WeightedSum(s) + Noise
<1> USE UnitAssumption
<1>1. /\ Cardinality(s.present) <= Cardinality(t.present)
      /\ s.present # t.present => Cardinality(s.present) < Cardinality(t.present)
  <2>1. IsFiniteSet(t.present) /\ IsFiniteSet(s.present) /\ s.present \subseteq t.present
    BY Checks, FS_Subset DEF Signal, Better
  <2>2. Cardinality(s.present) <= Cardinality(t.present)
    BY <2>1, FS_Subset
  <2>3. s.present # t.present => Cardinality(s.present) # Cardinality(t.present)
    BY <2>1, FS_Subset
  <2> QED
    BY <2>1, <2>2, <2>3, FS_CardinalityType
<1>2. EvidenceScore(t) >= EvidenceScore(s)
  <2>1. s.image \in 0..Unit /\ t.image \in 0..Unit /\ t.image >= s.image
    BY ScoreBounds DEF Better
  <2> QED
    BY <2>1 DEF EvidenceScore, Better
<1>3. DisasterScore(t) >= DisasterScore(s)
  BY DEF Better
<1> DEFINE ds == DisasterScore(s)
           es == EvidenceScore(s)
           ks == Cardinality(s.present)
           dt == DisasterScore(t)
           et == EvidenceScore(t)
           kt == Cardinality(t.present)
<1>4. /\ ds \in 0..Unit /\ es \in 0..Unit /\ ks \in 0..4
      /\ WeightedSum(s) = 4000 * ds + 3000 * es + 1200 * Unit + 375 * (ks * Unit)
  BY ScoreBounds
<1>5. /\ dt \in 0..Unit /\ et \in 0..Unit /\ kt \in 0..4
      /\ WeightedSum(t) = 4000 * dt + 3000 * et + 1200 * Unit + 375 * (kt * Unit)
  BY ScoreBounds
<1>6. dt >= ds /\ et >= es /\ kt >= ks /\ (kt > ks \/ dt # ds \/ et # es)
  BY <1>1, <1>2, <1>3 DEF Better
<1> HIDE DEF ds, es, ks, dt, et, kt
<1>7. /\ ks * Unit \in Nat /\ kt * Unit \in Nat
      /\ kt * Unit >= ks * Unit /\ (kt > ks => kt * Unit >= ks * Unit + Unit)
  <2>1. kt * Unit = ks * Unit + (kt - ks) * Unit
    BY <1>4, <1>5
  <2>2. kt - ks \in Nat /\ (kt - ks) * Unit \in Nat
    BY <1>4, <1>5, <1>6
  <2>3. kt > ks => (kt - ks) * Unit >= Unit
    BY <1>4, <1>5, <2>2
  <2> QED
    BY <1>4, <1>5, <2>1, <2>2, <2>3
<1> QED
  BY <1>4, <1>5, <1>6, <1>7

(* The score is a natural number next to the sum.                           *)
LEMMA ScoreNearSum ==
    ASSUME NEW signal \in Signal, NEW score \in OverallScore(signal)
    PROVE  /\ WeightedSum(signal) \in Nat /\ score \in Nat /\ score * Unit \in Nat
           /\ 2 * (score * Unit) <= 2 * WeightedSum(signal) + Unit + Noise
           /\ 2 * WeightedSum(signal) <= 2 * (score * Unit) + Unit + Noise
<1> USE UnitAssumption
<1> DEFINE sum == WeightedSum(signal)
<1>1. sum \in Nat
  <2> DEFINE d == DisasterScore(signal)
             e == EvidenceScore(signal)
             k == Cardinality(signal.present)
  <2>1. /\ d \in 0..Unit /\ e \in 0..Unit /\ k \in 0..4
        /\ sum = 4000 * d + 3000 * e + 1200 * Unit + 375 * (k * Unit)
    BY ScoreBounds
  <2> HIDE DEF d, e, k, sum
  <2>2. k * Unit \in Nat
    BY <2>1
  <2> QED
    BY <2>1, <2>2
<1>2. /\ score \in {1 * (sum \div (1 * Unit)), 1 * (sum \div (1 * Unit)) + 1}
      /\ 2 * (score * Unit - sum) <= 1 * Unit + Noise
      /\ 2 * (sum - score * Unit) <= 1 * Unit + Noise
  BY DEF OverallScore, Rounded
<1> HIDE DEF sum
<1>3. sum \div Unit \in Nat
  BY <1>1
<1>4. score \in Nat
  BY <1>2, <1>3
<1>5. score * Unit \in Nat
  BY <1>4
<1>6. /\ 2 * (score * Unit) <= 2 * sum + Unit + Noise
      /\ 2 * sum <= 2 * (score * Unit) + Unit + Noise
  BY <1>1, <1>2, <1>5
<1> QED
  BY <1>1, <1>4, <1>5, <1>6 DEF sum

(* Comparing scores in units.                                               *)
LEMMA InUnits ==
    ASSUME NEW m \in Nat, NEW n \in Nat
    PROVE  /\ m >= n => m * Unit >= n * Unit
           /\ m < n => m * Unit + Unit <= n * Unit
<1> USE UnitAssumption
<1>1. ASSUME NEW a \in Nat, NEW b \in Nat, a >= b PROVE a * Unit >= b * Unit
  <2>1. (a - b) * Unit \in Nat /\ (a - b) * Unit = a * Unit - b * Unit
    BY <1>1
  <2> QED
    BY <2>1
<1>2. m < n => n * Unit >= (m + 1) * Unit
  BY <1>1
<1>3. (m + 1) * Unit = m * Unit + Unit
  OBVIOUS
<1> QED
  BY <1>1, <1>2, <1>3

(* Every verdict is one the signals justify, whatever the providers'        *)
(* confidences and however their sum rounds: DecisionJustified for any      *)
(* run_verification.                                                        *)
LEMMA JustDecision ==
    ASSUME NEW signal \in Signal, NEW score \in OverallScore(signal),
           verdict = [signal |-> signal, decision |-> Decision(signal, score)]
    PROVE  DecisionJustified
<1> USE UnitAssumption
<1> DEFINE d == DisasterScore(signal)
           e == EvidenceScore(signal)
           k == Cardinality(signal.present)
           sum == WeightedSum(signal)
           units == score * Unit
<1>1. /\ signal.confidence \in 0..Unit /\ signal.image \in 0..Unit
      /\ signal.occurred \in BOOLEAN
  BY ScoreBounds
<1>2. /\ d \in 0..Unit /\ e \in 0..Unit /\ k \in 0..4
      /\ sum = 4000 * d + 3000 * e + 1200 * Unit + 375 * (k * Unit)
  BY ScoreBounds
<1>3. /\ sum \in Nat /\ score \in Nat /\ units \in Nat
      /\ 2 * units <= 2 * sum + Unit + Noise /\ 2 * sum <= 2 * units + Unit + Noise
  BY ScoreNearSum
<1>4. /\ score >= 8000 => units >= 8000 * Unit
      /\ score < 5500 => units + Unit <= 5500 * Unit
  BY <1>3, InUnits
<1> HIDE DEF d, e, k, sum, units
<1>5. /\ Decision(signal, score) = "pass" => score >= 8000 /\ ~Contradiction(signal)
      /\ Decision(signal, score) = "review" => score >= 5500 /\ ~Contradiction(signal)
      /\ Decision(signal, score) = "fail" => score < 5500 \/ Contradiction(signal)
      /\ Contradiction(signal) => Decision(signal, score) = "fail"
      /\ Decision(signal, score) \in {"fail", "pass", "review"}
  BY <1>3 DEF Decision
<1>6. Decision(signal, score) = "pass" =>
        /\ "evidence" \in signal.present
        /\ signal.occurred \/ 8000 * signal.confidence <= 3401 * Unit + Noise
  <2> SUFFICES ASSUME Decision(signal, score) = "pass"
               PROVE  /\ "evidence" \in signal.present
                      /\ signal.occurred \/ 8000 * signal.confidence <= 3401 * Unit + Noise
    OBVIOUS
  <2>1. 16000 * Unit <= 2 * sum + Unit + Noise
    BY <1>3, <1>4, <1>5
  <2>2. k * Unit <= 4 * Unit /\ k * Unit \in Nat
    BY <1>2
  <2>3. 8000 * d + 6000 * e + 5400 * Unit + Unit + Noise >= 16000 * Unit
    BY <1>2, <2>1, <2>2
  <2>4. e > 0 /\ 8000 * d + Noise >= 4599 * Unit
    BY <1>2, <2>3
  <2>5. "evidence" \in signal.present
    BY <1>2, <2>4 DEF EvidenceScore, e
  <2>6. signal.occurred \/ d = Unit - signal.confidence
    BY <1>1 DEF DisasterScore, d
  <2> QED
    BY <1>1, <1>2, <2>4, <2>5, <2>6
<1>7. ~signal.occurred /\ 10 * signal.confidence >= 7 * Unit => Decision(signal, score) = "fail"
  BY <1>5 DEF Contradiction
<1>8. signal.present = Check /\ signal.occurred /\ 10 * signal.confidence >= 7 * Unit
        => Decision(signal, score) # "fail"
  <2> SUFFICES ASSUME signal.present = Check, signal.occurred,
                      10 * signal.confidence >= 7 * Unit
               PROVE  Decision(signal, score) # "fail"
    OBVIOUS
  <2>1. k = 4 /\ d = signal.confidence
    BY <1>1, Checks DEF DisasterScore, d, k
  <2>2. sum >= 5500 * Unit
    BY <1>1, <1>2, <2>1
  <2>3. ~(score < 5500)
    BY <1>3, <1>4, <2>2
  <2> QED
    BY <1>5, <2>3 DEF Contradiction
<1>9. ASSUME NEW better \in Signal, Better(better, signal), NEW more \in OverallScore(better)
      PROVE  Rank(Decision(better, more)) >= Rank(Decision(signal, score))
  <2> DEFINE total == WeightedSum(better)
             unitsMore == more * Unit
  <2>1. /\ total \in Nat /\ more \in Nat /\ unitsMore \in Nat
        /\ 2 * total <= 2 * unitsMore + Unit + Noise
    BY <1>9, ScoreNearSum
  <2>2. total > sum + Noise
    BY <1>9, SumMonotone DEF sum
  <2>3. more < score => unitsMore + Unit <= units
    BY <1>3, <2>1, InUnits DEF units
  <2> HIDE DEF total, unitsMore
  <2>4. more >= score
    BY <1>3, <2>1, <2>2, <2>3
  <2>5. Contradiction(better) => Contradiction(signal)
    <3>1. better.confidence \in 0..Unit /\ better.occurred = signal.occurred
      BY <1>9, ScoreBounds DEF Better
    <3> QED
      BY <1>1, <1>9, <3>1 DEF Contradiction, Better, DisasterScore
  <2>6. /\ more >= 8000 /\ ~Contradiction(better) => Decision(better, more) = "pass"
        /\ more >= 5500 /\ ~Contradiction(better) => Decision(better, more) \in {"pass", "review"}
        /\ Decision(better, more) \in {"fail", "pass", "review"}
    BY <2>1 DEF Decision
  <2>7. Decision(signal, score) = "pass" => Decision(better, more) = "pass"
    BY <1>3, <1>5, <2>1, <2>4, <2>5, <2>6
  <2>8. Decision(signal, score) = "review" => Decision(better, more) \in {"pass", "review"}
    BY <1>3, <1>5, <2>1, <2>4, <2>5, <2>6
  <2> QED
    BY <1>5, <2>6, <2>7, <2>8 DEF Rank
<1> QED
  BY <1>6, <1>7, <1>8, <1>9 DEF DecisionJustified

(* Every verdict the model reaches is justified, in any unit for the        *)
(* confidences, for any confidences between nothing and one, whichever way  *)
(* the noise tips a tie (engine.py:17-30, 103-144).                         *)
THEOREM Justified == Spec => []DecisionJustified
<1> DEFINE Inv == verdict = NoVerdict
                    \/ \E signal \in Signal : \E score \in OverallScore(signal) :
                         verdict = [signal |-> signal, decision |-> Decision(signal, score)]
<1>1. Init => Inv
  BY DEF Init
<1>2. Inv /\ [Next]_vars => Inv'
  BY DEF Next, vars, RunVerification, AddItem, BuildValueModel
<1>3. Inv => DecisionJustified
  BY JustDecision DEF DecisionJustified
<1> QED
  BY <1>1, <1>2, <1>3, PTL DEF Spec

(* A share of an amount, truncated in floating point, is between nothing    *)
(* and the amount.                                                          *)
LEMMA TruncatedBounds ==
    ASSUME NEW amount \in Nat, NEW percent \in 0..100, NEW low \in Truncated(amount, percent)
    PROVE  low \in 0..amount
<1> DEFINE product == amount * percent
           whole == product \div 100
<1>1. product \in Nat /\ product <= 100 * amount
  <2>1. product \in Nat
    OBVIOUS
  <2>2. amount * (100 - percent) \in Nat
    OBVIOUS
  <2>3. amount * (100 - percent) = 100 * amount - amount * percent
    OBVIOUS
  <2> QED
    BY <2>1, <2>2, <2>3
<1> HIDE DEF product
<1>2. whole \in 0..amount
  BY <1>1
<1>3. low = whole \/ (whole > 0 /\ low = whole - 1)
  BY DEF Truncated, product
<1> QED
  BY <1>2, <1>3

(* One item's band, for any finding the schema admits (entitlement.py:40-65):*)
(* ordered, never negative, and without negative deductions within the      *)
(* claimed value and nothing for what is excluded or uncertain.             *)
THEOREM ItemBand ==
    ASSUME NEW claimed \in Amount, NEW finding \in Finding,
           NEW low \in Low(claimed, finding)
    PROVE  LET high == Point(claimed, finding)
           IN  /\ low \in Nat /\ high \in Nat /\ low <= high
               /\ finding.deduction >= 0 =>
                    /\ high <= claimed
                    /\ finding.coverage \in {"excluded", "uncertain"} => high = 0
<1>1. /\ claimed \in Nat /\ finding.deduction \in Int /\ finding.confidence \in 0..100
      /\ finding.payable = NoAmount \/ finding.payable \in Int
  BY AmountAssumption, ConfidenceAssumption DEF Finding
<1>2. /\ EligibleValue(claimed, finding) \in Int
      /\ EligibleValue(claimed, finding) <= claimed
      /\ finding.coverage \in {"excluded", "uncertain"} => EligibleValue(claimed, finding) = 0
  BY <1>1 DEF EligibleValue, Least
<1>3. /\ Point(claimed, finding) \in Nat
      /\ finding.deduction >= 0 =>
           /\ Point(claimed, finding) <= claimed
           /\ finding.coverage \in {"excluded", "uncertain"} => Point(claimed, finding) = 0
  BY <1>1, <1>2 DEF Point, Greatest
<1>4. low \in 0..Point(claimed, finding)
  <2>1. CASE low = Point(claimed, finding)
    BY <1>3, <2>1
  <2>2. CASE low \in Truncated(Point(claimed, finding), finding.confidence)
    BY <1>1, <1>3, <2>2, TruncatedBounds
  <2> QED
    BY <2>1, <2>2 DEF Low
<1> QED
  BY <1>3, <1>4

(* The value model never sets the reservation above the opening ask nor,    *)
(* where the ask allows it, below the mandate, and its target is between    *)
(* them (value_model.py:29-53).                                             *)
THEOREM ModelOrdered ==
    ASSUME NEW claimed \in Nat, NEW insured \in Nat, NEW high \in Nat,
           NEW floor \in Nat, NEW mandate \in Nat,
           NEW opening, opening = OpeningAsk(claimed, insured, high),
           NEW reservation, reservation = Reservation(floor, mandate, opening)
    PROVE  /\ 0 <= reservation /\ reservation <= Target(opening, reservation)
           /\ Target(opening, reservation) <= opening
           /\ opening <= claimed /\ opening <= insured /\ opening <= high
           /\ reservation >= mandate \/ reservation = opening
<1>1. opening \in Nat /\ opening <= claimed /\ opening <= insured /\ opening <= high
  BY DEF OpeningAsk, Least
<1>2. /\ reservation \in Nat /\ reservation <= opening
      /\ reservation >= mandate \/ reservation = opening
  BY <1>1 DEF Reservation, Least, Greatest
<1>3. reservation <= Target(opening, reservation) /\ Target(opening, reservation) <= opening
  BY <1>1, <1>2 DEF Target
<1> QED
  BY <1>1, <1>2, <1>3

-----------------------------------------------------------------------------
(* Sums over the items of a claim.                                          *)

(* Every set of naturals that is not empty has a least one: induction over  *)
(* numbers, as a statement about sets.                                      *)
LEMMA LeastNumber ==
    ASSUME NEW S \in SUBSET Nat, S # {}
    PROVE  \E n \in S : \A m \in S : n <= m
<1>1. PICK n \in S : \A m \in S : ~ (<<m, n>> \in OpToRel(<, Nat))
  BY WFMin, NatLessThanWellFounded, Zenon
<1>2. \A m \in S : ~ (m < n)
  BY <1>1 DEF OpToRel
<1> QED
  BY <1>2

\* The item MapThenSumSet takes first of a set.
Chosen(s) == CHOOSE x \in s : TRUE

Unfolds(sum, items, amount) ==
    /\ sum[{}] = 0
    /\ \A s \in SUBSET DOMAIN items : s # {} =>
         sum[s] = items[Chosen(s)][amount] + sum[s \ {Chosen(s)}]

(* The fold adds the chosen item to the sum over the others.  A function    *)
(* that does so exists on the sets of up to n items for every n, hence on   *)
(* all of them: what the recursive definition needs to be unfolded.         *)
LEMMA SumUnfolds ==
    ASSUME NEW items, NEW amount, IsFiniteSet(DOMAIN items)
    PROVE  \E sum : Total(items, amount) = sum[DOMAIN items] /\ Unfolds(sum, items, amount)
<1> DEFINE S == DOMAIN items
           Small(n) == {s \in SUBSET S : Cardinality(s) <= n}
           Summed(h, s) == IF s = {} THEN 0
                           ELSE items[Chosen(s)][amount] + h[s \ {Chosen(s)}]
           Has(n) == \E h : h = [s \in Small(n) |-> Summed(h, s)]
<1>1. \A s \in SUBSET S : IsFiniteSet(s) /\ Cardinality(s) \in Nat /\ Cardinality(s) <= Cardinality(S)
  BY FS_Subset, FS_CardinalityType
<1>2. \A s \in SUBSET S : s # {} => /\ Chosen(s) \in s
                                   /\ Cardinality(s) # 0
                                   /\ Cardinality(s \ {Chosen(s)}) = Cardinality(s) - 1
  BY <1>1, FS_RemoveElement, FS_EmptySet DEF Chosen
<1>3. Has(0)
  <2> DEFINE h == [s \in Small(0) |-> 0]
  <2>1. \A s \in SUBSET S : Cardinality(s) <= 0 => Cardinality(s) = 0
    BY <1>1
  <2>1a. \A s \in Small(0) : s = {}
    BY <1>2, <2>1
  <2>2. h = [s \in Small(0) |-> Summed(h, s)]
    BY <2>1a
  <2> QED
    BY <2>2
<1>4. ASSUME NEW n \in Nat, Has(n) PROVE Has(n + 1)
  <2>1. PICK h : h = [s \in Small(n) |-> Summed(h, s)]
    BY <1>4
  <2> DEFINE g == [s \in Small(n + 1) |-> Summed(h, s)]
  <2>2. \A s \in Small(n) : s \in Small(n + 1) /\ g[s] = h[s]
    <3> SUFFICES ASSUME NEW s \in Small(n) PROVE s \in Small(n + 1) /\ g[s] = h[s]
      OBVIOUS
    <3>1. s \in Small(n + 1)
      BY <1>1
    <3>2. h[s] = Summed(h, s)
      BY <2>1
    <3> QED
      BY <3>1, <3>2
  <2>3. \A s \in Small(n + 1) : s # {} => s \ {Chosen(s)} \in Small(n)
    BY <1>1, <1>2
  <2>4. \A s \in Small(n + 1) : Summed(h, s) = Summed(g, s)
    BY <2>2, <2>3
  <2>5. g = [s \in Small(n + 1) |-> Summed(g, s)]
    BY <2>4
  <2> QED
    BY <2>5
<1> HIDE DEF Has
<1>5. \A n \in Nat : Has(n)
  <2> SUFFICES ASSUME NEW k \in Nat, ~Has(k) PROVE FALSE
    OBVIOUS
  <2>1. PICK n \in Nat : ~Has(n) /\ \A m \in Nat : ~Has(m) => n <= m
    <3> DEFINE N == {n \in Nat : ~Has(n)}
    <3>1. N \in SUBSET Nat /\ N # {}
      OBVIOUS
    <3> QED
      BY <3>1, LeastNumber
  <2>2. n # 0 /\ n - 1 \in Nat /\ Has(n - 1)
    BY <1>3, <2>1
  <2>3. Has((n - 1) + 1)
    BY <1>4, <2>2
  <2>4. (n - 1) + 1 = n
    OBVIOUS
  <2> QED
    BY <2>1, <2>3, <2>4
<1>6. \E h : h = [s \in SUBSET S |-> Summed(h, s)]
  <2>1. Cardinality(S) \in Nat /\ Small(Cardinality(S)) = SUBSET S
    BY <1>1
  <2> QED
    BY <1>5, <2>1 DEF Has
<1> DEFINE iter == CHOOSE h : h = [s \in SUBSET S |-> Summed(h, s)]
<1>7. iter = [s \in SUBSET S |-> Summed(iter, s)]
  BY <1>6
<1>8. Total(items, amount) = iter[S]
  BY DEF Total, MapThenSumSet, MapThenFoldSet, Chosen
<1> HIDE DEF iter
<1>9. Unfolds(iter, items, amount)
  BY <1>7 DEF Unfolds
<1> QED
  BY <1>8, <1>9

(* Item by item ordered amounts have ordered sums: otherwise a smallest set *)
(* of items has not, and it has not without the chosen one either.          *)
LEMMA SumsCompare ==
    ASSUME NEW items, NEW less, NEW more, IsFiniteSet(DOMAIN items),
           \A i \in DOMAIN items : /\ items[i][less] \in Nat /\ items[i][more] \in Nat
                                   /\ items[i][less] <= items[i][more]
    PROVE  /\ Total(items, less) \in Nat /\ Total(items, more) \in Nat
           /\ Total(items, less) <= Total(items, more)
<1>1. PICK small : Total(items, less) = small[DOMAIN items] /\ Unfolds(small, items, less)
  BY SumUnfolds
<1>2. PICK large : Total(items, more) = large[DOMAIN items] /\ Unfolds(large, items, more)
  BY SumUnfolds
<1> DEFINE Ordered(s) == small[s] \in Nat /\ large[s] \in Nat /\ small[s] <= large[s]
<1>3. ASSUME NEW s \in SUBSET DOMAIN items, s # {}, Ordered(s \ {Chosen(s)})
      PROVE  Ordered(s)
  <2>1. Chosen(s) \in DOMAIN items
    BY <1>3 DEF Chosen
  <2>2. /\ small[s] = items[Chosen(s)][less] + small[s \ {Chosen(s)}]
        /\ large[s] = items[Chosen(s)][more] + large[s \ {Chosen(s)}]
    BY <1>1, <1>2, <1>3 DEF Unfolds
  <2> QED
    BY <1>3, <2>1, <2>2
<1>4. Ordered({})
  BY <1>1, <1>2 DEF Unfolds
<1> HIDE DEF Ordered
<1>5. ASSUME NEW s \in SUBSET DOMAIN items, s # {}
      PROVE  /\ s \ {Chosen(s)} \in SUBSET DOMAIN items
             /\ Cardinality(s) \in Nat /\ Cardinality(s \ {Chosen(s)}) \in Nat
             /\ Cardinality(s \ {Chosen(s)}) < Cardinality(s)
  <2>1. IsFiniteSet(s) /\ Cardinality(s) \in Nat /\ Chosen(s) \in s
    BY <1>5, FS_Subset, FS_CardinalityType DEF Chosen
  <2>2. IsFiniteSet(s \ {Chosen(s)}) /\ Cardinality(s \ {Chosen(s)}) = Cardinality(s) - 1
    BY <2>1, FS_RemoveElement
  <2> QED
    BY <2>1, <2>2, FS_CardinalityType
<1>6. \A s \in SUBSET DOMAIN items : Ordered(s)
  <2> SUFFICES ASSUME NEW t \in SUBSET DOMAIN items, ~Ordered(t) PROVE FALSE
    OBVIOUS
  <2> DEFINE Bad == {s \in SUBSET DOMAIN items : ~Ordered(s)}
             N == {Cardinality(s) : s \in Bad}
  <2>1. Bad \subseteq SUBSET DOMAIN items /\ {} \notin Bad /\ t \in Bad
    BY <1>4
  <2>2. N \in SUBSET Nat /\ N # {}
    BY <1>5, <2>1
  <2>3. PICK s \in Bad : \A m \in N : Cardinality(s) <= m
    BY <2>2, LeastNumber
  <2>4. s \ {Chosen(s)} \in Bad
    BY <1>3, <1>5, <2>1, <2>3
  <2>5. Cardinality(s) <= Cardinality(s \ {Chosen(s)})
    BY <2>3, <2>4
  <2> QED
    BY <1>5, <2>1, <2>3, <2>5
<1> QED
  BY <1>1, <1>2, <1>6 DEF Ordered

(* What a settlement is: items with a band of theirs, and, once the value   *)
(* model is built, the model of their sums for some rounding of the floor.  *)
Assessed ==
    {item \in [claimed : Amount, finding : Finding, low : Nat, high : Nat] :
        /\ item.low \in Low(item.claimed, item.finding)
        /\ item.high = Point(item.claimed, item.finding)}

Opening(items, insured) == OpeningAsk(Total(items, "claimed"), insured, Total(items, "high"))

Modelled(items) ==
    \E insured, mandate \in Amount : \E floor \in Truncated(Total(items, "low"), 85) :
       LET opening == Opening(items, insured)
       IN  settlement = [items |-> items, insured |-> insured, mandate |-> mandate,
                         model |-> ValueModel(opening, Reservation(floor, mandate, opening))]

Settled ==
    \E items \in Seq(Assessed) : settlement = [items |-> items] \/ Modelled(items)

(* The sums of assessed items are ordered as the items are.                 *)
LEMMA BandOfSums ==
    ASSUME NEW items \in Seq(Assessed)
    PROVE  /\ \A i \in DOMAIN items :
                /\ items[i].low \in Nat /\ items[i].high \in Nat
                /\ items[i].low <= items[i].high
                /\ items[i].finding.deduction >= 0 =>
                     /\ items[i].high <= items[i].claimed
                     /\ items[i].finding.coverage \in {"excluded", "uncertain"} =>
                          items[i].high = 0
           /\ Total(items, "claimed") \in Nat
           /\ Total(items, "low") \in Nat /\ Total(items, "high") \in Nat
           /\ Total(items, "low") <= Total(items, "high")
           /\ (\A i \in DOMAIN items : items[i].finding.deduction >= 0) =>
                Total(items, "high") <= Total(items, "claimed")
<1>1. IsFiniteSet(DOMAIN items)
  <2>1. DOMAIN items = 1..Len(items) /\ Len(items) \in Nat
    OBVIOUS
  <2> QED
    BY <2>1, FS_Interval
<1>2. ASSUME NEW i \in DOMAIN items
      PROVE  /\ items[i].claimed \in Nat /\ items[i].low \in Nat /\ items[i].high \in Nat
             /\ items[i].low <= items[i].high
             /\ items[i].finding.deduction >= 0 =>
                  /\ items[i].high <= items[i].claimed
                  /\ items[i].finding.coverage \in {"excluded", "uncertain"} =>
                       items[i].high = 0
  <2>1. /\ items[i].claimed \in Amount /\ items[i].finding \in Finding
        /\ items[i].low \in Low(items[i].claimed, items[i].finding)
        /\ items[i].high = Point(items[i].claimed, items[i].finding)
    <3>1. items[i] \in Assessed
      OBVIOUS
    <3> QED
      BY <3>1 DEF Assessed
  <2> QED
    BY <2>1, ItemBand, AmountAssumption
<1>3. /\ Total(items, "low") \in Nat /\ Total(items, "high") \in Nat
      /\ Total(items, "low") <= Total(items, "high")
  BY <1>1, <1>2, SumsCompare
<1>4. Total(items, "claimed") \in Nat
  BY <1>1, <1>2, SumsCompare
<1>5. ASSUME \A i \in DOMAIN items : items[i].finding.deduction >= 0
      PROVE  Total(items, "high") <= Total(items, "claimed")
  BY <1>1, <1>2, <1>5, SumsCompare
<1> QED
  BY <1>2, <1>3, <1>4, <1>5

(* What is settled is negotiable: the value model is built on ordered sums. *)
LEMMA SettledIsNegotiable == Settled => NegotiableBand
<1> SUFFICES ASSUME NEW items \in Seq(Assessed),
                    settlement = [items |-> items] \/ Modelled(items)
             PROVE  NegotiableBand
  BY DEF Settled
<1>1. settlement.items = items
  BY DEF Modelled
<1>2. ASSUME DOMAIN settlement # {"items"}
      PROVE  LET model == settlement.model
             IN  /\ 0 <= model.reservation /\ model.reservation <= model.target
                 /\ model.target <= model.opening /\ model.opening <= settlement.insured
                 /\ model.opening <= Total(items, "claimed")
                 /\ model.opening <= Total(items, "high")
                 /\ model.reservation >= settlement.mandate \/ model.reservation = model.opening
  <2>1. Modelled(items)
    BY <1>2
  <2>2. PICK insured \in Amount, mandate \in Amount,
             floor \in Truncated(Total(items, "low"), 85) :
          LET opening == Opening(items, insured)
          IN  settlement = [items |-> items, insured |-> insured, mandate |-> mandate,
                            model |-> ValueModel(opening, Reservation(floor, mandate, opening))]
    BY <2>1 DEF Modelled
  <2> DEFINE opening == Opening(items, insured)
             reservation == Reservation(floor, mandate, opening)
  <2>3. /\ floor \in Nat /\ insured \in Nat /\ mandate \in Nat
        /\ Total(items, "claimed") \in Nat /\ Total(items, "high") \in Nat
    <3>1. /\ Total(items, "claimed") \in Nat /\ Total(items, "high") \in Nat
          /\ Total(items, "low") \in Nat
      BY BandOfSums
    <3>2. floor \in 0..Total(items, "low")
      BY <3>1, TruncatedBounds
    <3> QED
      BY <3>1, <3>2, AmountAssumption
  <2>4. /\ 0 <= reservation /\ reservation <= Target(opening, reservation)
        /\ Target(opening, reservation) <= opening
        /\ opening <= Total(items, "claimed") /\ opening <= insured
        /\ opening <= Total(items, "high")
        /\ reservation >= mandate \/ reservation = opening
    BY <2>3, ModelOrdered DEF Opening
  <2>5. /\ settlement.model.reservation = reservation /\ settlement.model.opening = opening
        /\ settlement.model.target = Target(opening, reservation)
        /\ settlement.insured = insured /\ settlement.mandate = mandate
    BY <2>2 DEF ValueModel
  <2> QED
    BY <2>4, <2>5
<1> QED
  BY <1>1, <1>2, BandOfSums DEF NegotiableBand

(* An assessed item more, or the value model of those there are: whatever   *)
(* the findings say, for any number of items, the band is ordered and the   *)
(* model negotiable (entitlement.py:40-90, value_model.py:29-53).           *)
THEOREM BandNegotiable == Spec => []NegotiableBand
<1>1. Init => Settled
  <2>1. <<>> \in Seq(Assessed)
    OBVIOUS
  <2> QED
    BY <2>1 DEF Init, NoSettlement, Settled
<1>2. Settled /\ [Next]_vars => Settled'
  <2> SUFFICES ASSUME NEW items \in Seq(Assessed),
                      settlement = [items |-> items] \/ Modelled(items),
                      [Next]_vars
               PROVE  Settled'
    BY DEF Settled
  <2>1. ASSUME NEW claimed \in Amount, NEW finding \in Finding, AddItem(claimed, finding)
        PROVE  Settled'
    <3>1. PICK low \in Low(claimed, finding) :
            settlement' = [items |-> Append(settlement.items, Item(claimed, finding, low))]
      BY <2>1 DEF AddItem
    <3>2. Item(claimed, finding, low) \in Assessed
      BY ItemBand DEF Item, Assessed
    <3>3. Append(settlement.items, Item(claimed, finding, low)) \in Seq(Assessed)
      BY <3>2 DEF Modelled
    <3> QED
      BY <3>1, <3>3 DEF Settled
  <2>2. ASSUME NEW insured \in Amount, NEW mandate \in Amount,
               BuildValueModel(insured, mandate)
        PROVE  Settled'
    <3>1. settlement.items = items
      BY DEF Modelled
    <3>2. Modelled(items)'
      BY <2>2, <3>1 DEF BuildValueModel, Modelled, Opening
    <3> QED
      BY <3>2 DEF Settled
  <2>3. CASE UNCHANGED settlement
    BY <2>3 DEF Settled, Modelled
  <2> QED
    BY <2>1, <2>2, <2>3 DEF Next, vars, RunVerification
<1> QED
  BY <1>1, <1>2, SettledIsNegotiable, PTL DEF Spec

-----------------------------------------------------------------------------
(* The chunks of a document.                                                *)

ChunkTypeOK ==
    /\ pages \in Document \cup {<<>>}
    /\ page \in Nat \ {0}
    /\ start \in Nat
    /\ chunks \in Seq([page : Nat, content : SUBSET Nat])

\* Nothing is chunked before a document is loaded or on a page not begun.
Begun ==
    /\ pages = <<>> => page = 1 /\ start = 0
    /\ start # 0 => page <= Len(pages) /\ pages[page] # {}

\* What the chunks have reached of the current page is whole up to there.
ReachedIsWhole ==
    start # 0 =>
      \A x, y \in pages[page] :
        /\ x <= y /\ y - x <= ChunkOverlap
        /\ y < First(pages[page]) + start + ChunkOverlap
        => Whole(page, x, y)

ChunkInv == ChunkTypeOK /\ Begun /\ ReachedIsWhole /\ StretchesAreWhole

(* A page that is not blank has a first position with ink.                  *)
LEMMA FirstExists ==
    ASSUME NEW ink \in SUBSET Nat, ink # {}
    PROVE  IsFirst(First(ink), ink)
<1>1. \E n \in ink : \A m \in ink : ~ (<<m, n>> \in OpToRel(<, Nat))
  BY WFMin, NatLessThanWellFounded, Zenon
<1>2. \E n \in ink : IsFirst(n, ink)
  <2>1. PICK n \in ink : \A m \in ink : ~ (<<m, n>> \in OpToRel(<, Nat))
    BY <1>1
  <2>2. \A m \in ink : ~ (m < n)
    BY <2>1, Zenon DEF OpToRel
  <2>3. \A m \in ink : n <= m
    BY <2>2
  <2> QED
    BY <2>3 DEF IsFirst
<1> QED
  BY <1>2 DEF First

(* The page being split has a first position with ink and an end after all  *)
(* of it.                                                                   *)
LEMMA PageShape ==
    ASSUME ChunkTypeOK, page <= Len(pages), pages[page] # {}
    PROVE  /\ pages \in Document
           /\ pages[page] \in SUBSET Nat
           /\ IsFirst(First(pages[page]), pages[page])
           /\ First(pages[page]) \in Nat
           /\ End(pages[page]) \in Nat
           /\ \A m \in pages[page] : m < End(pages[page])
<1>1. pages \in Document
  BY DEF ChunkTypeOK
<1>2. pages[page] \in SUBSET Nat /\ page \in DOMAIN pages
  BY <1>1, DocumentAssumption DEF ChunkTypeOK
<1>3. IsFirst(First(pages[page]), pages[page])
  BY <1>2, FirstExists
<1>4. \E n \in pages[page] : IsLast(n, pages[page])
  BY <1>1, <1>2, DocumentAssumption
<1>5. IsLast(CHOOSE n \in pages[page] : IsLast(n, pages[page]), pages[page])
  BY <1>4
<1> QED
  BY <1>1, <1>2, <1>3, <1>5 DEF IsFirst, IsLast, End

(* One more chunk keeps what was whole, and makes whole what lies in it.    *)
LEMMA AppendedKeeps ==
    ASSUME ChunkTypeOK, page <= Len(pages), pages[page] # {},
           NEW from \in Nat, NEW to \in Nat, NEW q, q = page,
           chunks' = Appended(from, to), pages' = pages
    PROVE  /\ chunks' \in Seq([page : Nat, content : SUBSET Nat])
           /\ \A p, x, y : Whole(p, x, y) => Whole(p, x, y)'
           /\ \A x, y \in pages[q] :
                from <= x /\ x <= y /\ y < to => Whole(q, x, y)'
<1> DEFINE content == pages[page] \cap from..(to - 1)
           chunk == [page |-> page, content |-> content]
<1>1. pages[page] \in SUBSET Nat
  BY PageShape
<1>2. page \in Nat /\ chunks \in Seq([page : Nat, content : SUBSET Nat])
  BY DEF ChunkTypeOK
<1>3. chunk \in [page : Nat, content : SUBSET Nat]
  BY <1>1, <1>2
<1>4. CASE content = {}
  <2>1. chunks' = chunks
    BY <1>4 DEF Appended
  <2>2. \A x \in pages[page] : ~ (from <= x /\ x < to)
    BY <1>1, <1>4
  <2>3. \A x, y \in pages[page] : ~ (from <= x /\ x <= y /\ y < to)
    BY <1>1, <2>2
  <2>4. \A p, x, y : Whole(p, x, y) => Whole(p, x, y)'
    BY <2>1 DEF Whole
  <2> QED
    BY <1>2, <2>1, <2>3, <2>4
<1>5. CASE content # {}
  <2>1. chunks' = Append(chunks, chunk)
    BY <1>5 DEF Appended
  <2> HIDE DEF chunk
  <2>2. /\ chunks' \in Seq([page : Nat, content : SUBSET Nat])
        /\ Len(chunks) + 1 \in DOMAIN chunks'
        /\ chunks'[Len(chunks) + 1] = chunk
        /\ \A i \in DOMAIN chunks : i \in DOMAIN chunks' /\ chunks'[i] = chunks[i]
    BY <1>2, <1>3, <2>1
  <2>3. \A p, x, y : Whole(p, x, y) => Whole(p, x, y)'
    BY <2>2 DEF Whole
  <2>4. ASSUME NEW x \in pages[page], NEW y \in pages[page], from <= x, x <= y, y < to
        PROVE  Whole(q, x, y)'
    <3>1. pages[page] \cap x..y \subseteq content
      BY <1>1, <2>4
    <3>2. chunk.page = page /\ chunk.content = content
      BY DEF chunk
    <3>3. \E i \in DOMAIN chunks' : /\ chunks'[i].page = q
                                    /\ pages'[q] \cap x..y \subseteq chunks'[i].content
      BY <2>2, <3>1, <3>2
    <3> QED
      BY <3>3 DEF Whole
  <2> QED
    BY <2>2, <2>3, <2>4
<1> QED
  BY <1>4, <1>5

(* The two steps of the loop share the part of the page they add to what    *)
(* was reached: a stretch that ends in it either starts in the new chunk or *)
(* is short enough to have been whole before.                               *)
LEMMA ReachFurther ==
    ASSUME ChunkInv, page <= Len(pages), pages[page] # {},
           NEW from \in Nat, from = First(pages[page]) + start,
           NEW to \in Nat, NEW q, q = page,
           chunks' = Appended(from, to), pages' = pages
    PROVE  \A x, y \in pages[q] :
             x <= y /\ y - x <= ChunkOverlap /\ y < to => Whole(q, x, y)'
<1> SUFFICES ASSUME NEW x \in pages[q], NEW y \in pages[q],
                    x <= y, y - x <= ChunkOverlap, y < to
             PROVE  Whole(q, x, y)'
  OBVIOUS
<1>1. ChunkTypeOK
  BY DEF ChunkInv
<1>2. /\ pages[page] \in SUBSET Nat /\ First(pages[page]) \in Nat
      /\ First(pages[page]) <= x
  BY <1>1, PageShape DEF IsFirst
<1>3. x \in Nat /\ y \in Nat /\ start \in Nat /\ ChunkOverlap \in Nat
  BY <1>1, <1>2, ChunkAssumption DEF ChunkTypeOK
<1>4. CASE from <= x
  BY <1>1, <1>4, AppendedKeeps
<1>5. CASE x < from
  <2>1. start # 0 /\ y < First(pages[page]) + start + ChunkOverlap
    BY <1>2, <1>3, <1>5
  <2>2. Whole(q, x, y)
    BY <2>1 DEF ChunkInv, ReachedIsWhole
  <2> QED
    BY <1>1, <2>2, AppendedKeeps
<1> QED
  BY <1>2, <1>3, <1>4, <1>5

(* Loading a document begins its first page.                                *)
LEMMA LoadStep ==
    ASSUME ChunkInv, NEW document \in Document, Load(document)
    PROVE  ChunkInv'
<1>1. page = 1 /\ start = 0
  BY DEF Load, ChunkInv, Begun
<1>2. page' = 1 /\ start' = 0 /\ chunks' = chunks /\ pages' \in Document
  BY <1>1 DEF Load
<1>3. StretchesAreWhole'
  BY <1>2 DEF StretchesAreWhole
<1> QED
  BY <1>2, <1>3 DEF ChunkInv, ChunkTypeOK, Begun, ReachedIsWhole

(* A blank page has no stretches.                                           *)
LEMMA BlankStep ==
    ASSUME ChunkInv, BlankPage
    PROVE  ChunkInv'
<1>1. start = 0 /\ pages # <<>>
  BY DEF BlankPage, ChunkInv, Begun, ChunkTypeOK
<1>2. /\ page' = page + 1 /\ start' = 0 /\ chunks' = chunks /\ pages' = pages
      /\ pages[page] = {} /\ page \in Nat
  BY <1>1 DEF BlankPage, ChunkInv, ChunkTypeOK
<1>3. StretchesAreWhole'
  <2> SUFFICES ASSUME NEW p \in 1..page, NEW x \in pages[p], NEW y \in pages[p],
                      x <= y, y - x <= ChunkOverlap
               PROVE  Whole(p, x, y)'
    BY <1>2 DEF StretchesAreWhole
  <2>1. p \in 1..(page - 1)
    BY <1>2
  <2>2. Whole(p, x, y)
    BY <2>1 DEF ChunkInv, StretchesAreWhole
  <2> QED
    BY <1>2, <2>2 DEF Whole
<1> QED
  BY <1>1, <1>2, <1>3 DEF ChunkInv, ChunkTypeOK, Begun, ReachedIsWhole

(* The last chunk of a page reaches its end.                                *)
LEMMA LastStep ==
    ASSUME ChunkInv, LastChunk
    PROVE  ChunkInv'
<1> DEFINE from == First(pages[page]) + start
           end == End(pages[page])
<1>1. /\ page <= Len(pages) /\ pages[page] # {}
      /\ chunks' = Appended(from, end)
      /\ page' = page + 1 /\ start' = 0 /\ pages' = pages
  BY DEF LastChunk
<1>2. ChunkTypeOK /\ page \in Nat \ {0} /\ start \in Nat
  BY DEF ChunkInv, ChunkTypeOK
<1>3. /\ from \in Nat /\ end \in Nat /\ pages \in Document
      /\ \A m \in pages[page] : m < end
  BY <1>1, <1>2, PageShape
<1> HIDE DEF from, end
<1>4. /\ chunks' \in Seq([page : Nat, content : SUBSET Nat])
      /\ \A p, x, y : Whole(p, x, y) => Whole(p, x, y)'
  BY <1>1, <1>2, <1>3, AppendedKeeps
<1>5. ASSUME NEW q, q = page
      PROVE  \A x, y \in pages[q] :
               x <= y /\ y - x <= ChunkOverlap => Whole(q, x, y)'
  <2>1. \A x, y \in pages[q] :
          x <= y /\ y - x <= ChunkOverlap /\ y < end => Whole(q, x, y)'
    BY <1>1, <1>3, <1>5, ReachFurther DEF from
  <2> QED
    BY <1>3, <1>5, <2>1
<1>6. StretchesAreWhole'
  <2> SUFFICES ASSUME NEW p \in 1..page, NEW x \in pages[p], NEW y \in pages[p],
                      x <= y, y - x <= ChunkOverlap
               PROVE  Whole(p, x, y)'
    BY <1>1, <1>2 DEF StretchesAreWhole
  <2>1. CASE p = page
    BY <1>5, <2>1
  <2>2. CASE p # page
    <3>1. p \in 1..(page - 1)
      BY <1>2, <2>2
    <3>2. Whole(p, x, y)
      BY <3>1 DEF ChunkInv, StretchesAreWhole
    <3> QED
      BY <1>4, <3>2
  <2> QED
    BY <2>1, <2>2
<1>7. pages # <<>>
  BY <1>1, <1>2
<1> QED
  BY <1>1, <1>2, <1>3, <1>4, <1>6, <1>7
     DEF ChunkInv, ChunkTypeOK, Begun, ReachedIsWhole

(* Any other chunk moves what was reached to its own end.                   *)
LEMMA NextStep ==
    ASSUME ChunkInv, NextChunk
    PROVE  ChunkInv'
<1> DEFINE from == First(pages[page]) + start
           to == from + ChunkSize
<1>1. /\ page <= Len(pages) /\ pages[page] # {}
      /\ chunks' = Appended(from, to)
      /\ page' = page /\ start' = start + ChunkSize - ChunkOverlap /\ pages' = pages
  BY DEF NextChunk
<1>2. ChunkTypeOK /\ page \in Nat \ {0} /\ start \in Nat
  BY DEF ChunkInv, ChunkTypeOK
<1>3. /\ from \in Nat /\ to \in Nat /\ pages \in Document
      /\ First(pages[page]) \in Nat
  BY <1>1, <1>2, PageShape, ChunkAssumption
<1>4. /\ start' \in Nat /\ start' # 0
      /\ First(pages[page]) + start' + ChunkOverlap = to
  BY <1>1, <1>2, <1>3, ChunkAssumption
<1> HIDE DEF from, to
<1>5. /\ chunks' \in Seq([page : Nat, content : SUBSET Nat])
      /\ \A p, x, y : Whole(p, x, y) => Whole(p, x, y)'
  BY <1>1, <1>2, <1>3, AppendedKeeps
<1>6. ReachedIsWhole'
  <2>1. ASSUME NEW q, q = page
        PROVE  \A x, y \in pages[q] :
                 x <= y /\ y - x <= ChunkOverlap /\ y < to => Whole(q, x, y)'
    BY <1>1, <1>3, <2>1, ReachFurther DEF from
  <2>2. ASSUME NEW q, q = page
        PROVE  \A x, y \in pages'[q] :
                 x <= y /\ y - x <= ChunkOverlap
                   /\ y < First(pages'[q]) + start' + ChunkOverlap => Whole(q, x, y)'
    BY <1>1, <1>4, <2>1, <2>2
  <2>3. \A q : q = page' =>
          \A x, y \in pages'[q] :
            x <= y /\ y - x <= ChunkOverlap
              /\ y < First(pages'[q]) + start' + ChunkOverlap => Whole(q, x, y)'
    BY <1>1, <2>2
  <2> QED
    BY <2>3 DEF ReachedIsWhole, Whole
<1>7. StretchesAreWhole'
  <2> SUFFICES ASSUME NEW p \in 1..(page - 1), NEW x \in pages[p], NEW y \in pages[p],
                      x <= y, y - x <= ChunkOverlap
               PROVE  Whole(p, x, y)'
    BY <1>1 DEF StretchesAreWhole
  <2>1. Whole(p, x, y)
    BY DEF ChunkInv, StretchesAreWhole
  <2> QED
    BY <1>5, <2>1
<1>8. pages # <<>>
  BY <1>1, <1>2
<1> QED
  BY <1>1, <1>2, <1>3, <1>4, <1>5, <1>6, <1>7, <1>8 DEF ChunkInv, ChunkTypeOK, Begun

(* The invariant holds of every reachable state.                            *)
LEMMA ChunkInvariance == ChunkSpec => []ChunkInv
<1>1. ChunkInit => ChunkInv
  BY DEF ChunkInit, ChunkInv, ChunkTypeOK, Begun, ReachedIsWhole, StretchesAreWhole
<1>2. ChunkInv /\ [ChunkNext]_chunkVars => ChunkInv'
  <2> SUFFICES ASSUME ChunkInv, [ChunkNext]_chunkVars
               PROVE  ChunkInv'
    OBVIOUS
  <2>1. CASE ChunkNext
    BY <2>1, LoadStep, BlankStep, LastStep, NextStep DEF ChunkNext
  <2>2. CASE UNCHANGED chunkVars
    BY <2>2 DEF chunkVars, ChunkInv, ChunkTypeOK, Begun, ReachedIsWhole,
                StretchesAreWhole, Whole
  <2> QED
    BY <2>1, <2>2
<1> QED
  BY <1>1, <1>2, PTL DEF ChunkSpec

(* Chunking loses no text and no stretch of up to ChunkOverlap + 1          *)
(* characters, whatever the documents and the sizes (chunking.py:50-67).    *)
THEOREM WholeStretches == ChunkSpec => []StretchesAreWhole
<1>1. ChunkInv => StretchesAreWhole
  BY DEF ChunkInv
<1> QED
  BY <1>1, ChunkInvariance, PTL

-----------------------------------------------------------------------------
\* Every admitted call lies in its window, and the first of a window opens it.
Placed ==
    \A a \in admitted :
        /\ a.from <= a.at /\ a.at < a.from + windowMs /\ a.at <= now
        /\ a.n = 1 => a.at = a.from

\* A window and a number name one call, and windows do not overlap.
Numbered ==
    \A a, b \in admitted :
        /\ a.from = b.from /\ a.n = b.n => a = b
        /\ a.from < b.from => a.from + windowMs <= b.from

\* The calls of window f up to the k-th.
Filled(f, k) == \A n \in 1..k : \E a \in admitted : a.from = f /\ a.n = n

\* The entry tells the latest window and how far it is filled.
Current ==
    LET f == entry.resetAt - windowMs
    IN  /\ \A a \in admitted : a.from <= f /\ (a.from = f => a.n <= entry.count)
        /\ entry.count > 0 => f >= 0 /\ f <= now /\ Filled(f, entry.count)
        /\ entry.count = 0 => entry.resetAt = 0

\* A refusal came in a full window.
Spent ==
    \A t \in refused : \E f \in Nat :
        /\ f <= t /\ t < f + windowMs
        /\ \A n \in 1..maxAttempts :
             \E a \in admitted : a.from = f /\ a.n = n /\ a.at <= t

LimiterInv == LimiterTypeOK /\ Placed /\ Numbered /\ Current /\ Spent

-----------------------------------------------------------------------------
THEOREM LimiterStarts == LimiterInit => LimiterInv
  BY WindowAssumption, AttemptsAssumption
  DEF LimiterInit, NoEntry, LimiterInv, LimiterTypeOK, Placed, Numbered, Current, Spent, Filled

(* Every step keeps the invariant.                                          *)
THEOREM LimiterKeeps == LimiterInv /\ [LimiterNext]_limiterVars => LimiterInv'
<1> SUFFICES ASSUME LimiterInv, [LimiterNext]_limiterVars PROVE LimiterInv'
  OBVIOUS
<1> USE WindowAssumption, AttemptsAssumption DEF LimiterInv, LimiterTypeOK
<1>1. CASE Tick
  BY <1>1 DEF Tick, Placed, Numbered, Current, Spent, Filled
<1>2. CASE StartWindow
  <2> DEFINE a0 == [at |-> now, from |-> now, n |-> 1]
  <2>0. /\ entry' = [count |-> 1, resetAt |-> now + windowMs]
        /\ admitted' = admitted \cup {a0}
        /\ now' = now /\ refused' = refused /\ entry.resetAt <= now
    BY <1>2 DEF StartWindow, InWindow
  <2>1. LimiterTypeOK'
    BY <2>0
  <2>2. Placed'
    BY <2>0 DEF Placed
  <2>3. \A a \in admitted : a.from + windowMs <= now
    BY <2>0 DEF Current
  <2>4. Numbered'
    BY <2>0, <2>3 DEF Numbered
  <2>5. Current'
    <3>1. entry'.count = 1 /\ entry'.resetAt - windowMs = now
      BY <2>0
    <3>2. \A a \in admitted' : a.from <= now /\ (a.from = now => a.n <= 1)
      BY <2>0, <2>3
    <3>3. a0 \in admitted' /\ a0.from = now /\ a0.n = 1
      BY <2>0
    <3>4. Filled(entry.resetAt - windowMs, entry.count)'
      <4> HIDE DEF a0
      <4>1. QED BY <3>1, <3>3 DEF Filled
    <3>5. QED BY <2>0, <3>1, <3>2, <3>4 DEF Current
  <2>6. Spent'
    BY <2>0 DEF Spent
  <2>7. QED BY <2>1, <2>2, <2>4, <2>5, <2>6
<1>3. CASE Admit
  <2> DEFINE f == entry.resetAt - windowMs
             a0 == [at |-> now, from |-> f, n |-> entry.count + 1]
  <2>0. /\ entry' = [entry EXCEPT !.count = @ + 1]
        /\ admitted' = admitted \cup {a0}
        /\ now' = now /\ refused' = refused
        /\ entry.resetAt > now /\ entry.count < maxAttempts
    BY <1>3 DEF Admit, InWindow
  <2>1. entry.count > 0 /\ f \in Nat /\ f <= now /\ now < f + windowMs
    BY <2>0 DEF Current
  <2>2. entry'.count = entry.count + 1 /\ entry'.resetAt = entry.resetAt
    BY <2>0
  <2>3. LimiterTypeOK'
    BY <2>0, <2>1
  <2>4. Placed'
    BY <2>0, <2>1 DEF Placed
  <2>5. Numbered'
    <3>1. \A a \in admitted : a.from <= f /\ (a.from = f => a.n <= entry.count)
      BY DEF Current
    <3>2. PICK b \in admitted : b.from = f /\ b.n = 1
      BY <2>1 DEF Current, Filled
    <3>3. \A a \in admitted : a.from < f => a.from + windowMs <= f
      BY <3>2 DEF Numbered
    <3>4. QED BY <2>0, <2>1, <3>1, <3>3 DEF Numbered
  <2>6. Current'
    <3>1. Filled(f, entry.count)
      BY <2>1 DEF Current
    <3>2. \A n \in 1..entry.count + 1 : \E a \in admitted' : a.from = f /\ a.n = n
      <4> TAKE n \in 1..entry.count + 1
      <4>1. CASE n \in 1..entry.count
        BY <2>0, <3>1, <4>1 DEF Filled
      <4>2. CASE n = entry.count + 1
        <5>1. a0 \in admitted' /\ a0.from = f /\ a0.n = n
          BY <2>0, <4>2
        <5>2. QED BY <5>1
      <4>3. QED BY <2>1, <4>1, <4>2
    <3>3. \A a \in admitted' : a.from <= f /\ (a.from = f => a.n <= entry.count + 1)
      BY <2>0, <2>1 DEF Current
    <3>4. Filled(entry.resetAt - windowMs, entry.count)'
      BY <2>2, <3>2 DEF Filled
    <3>5. entry'.resetAt - windowMs = f /\ now' = now
      BY <2>0, <2>2
    <3> HIDE DEF f
    <3>6. QED BY <2>1, <2>2, <3>3, <3>4, <3>5 DEF Current
  <2>7. Spent'
    BY <2>0 DEF Spent
  <2>8. QED BY <2>3, <2>4, <2>5, <2>6, <2>7
<1>4. CASE RefuseAttempt
  <2>0. /\ entry.resetAt > now /\ entry.count >= maxAttempts
        /\ refused' = refused \cup {now}
        /\ UNCHANGED <<now, entry, admitted>>
    BY <1>4 DEF RefuseAttempt, InWindow
  <2>1. LimiterTypeOK' /\ Placed' /\ Numbered' /\ Current'
    BY <2>0 DEF Placed, Numbered, Current, Filled
  <2>2. Spent'
    <3> DEFINE f == entry.resetAt - windowMs
    <3>0. entry.count = maxAttempts /\ entry.count > 0
      BY <2>0
    <3>1. f \in Nat /\ f <= now /\ now < f + windowMs
      BY <2>0, <3>0 DEF Current
    <3>2. \A n \in 1..maxAttempts : \E a \in admitted : a.from = f /\ a.n = n /\ a.at <= now
      BY <3>0, <3>1 DEF Current, Filled, Placed
    <3> HIDE DEF f
    <3>3. QED BY <2>0, <3>1, <3>2 DEF Spent
  <2>3. QED BY <2>1, <2>2
<1>5. CASE Restart
  BY <1>5 DEF Restart, NoEntry, Placed, Numbered, Current, Spent, Filled
<1>6. CASE UNCHANGED limiterVars
  BY <1>6 DEF limiterVars, Placed, Numbered, Current, Spent, Filled
<1>7. QED BY <1>1, <1>2, <1>3, <1>4, <1>5, <1>6 DEF LimiterNext

-----------------------------------------------------------------------------
(* The calls admitted in a stretch of the window's length are few: its      *)
(* latest window brings maxAttempts of them at most, the only one before it *)
(* all but its first.                                                       *)
LEMMA FewBetween ==
  ASSUME LimiterInv, NEW s \in Int
  PROVE  /\ IsFiniteSet(Between(s, s + windowMs))
         /\ Cardinality(Between(s, s + windowMs)) <= 2 * maxAttempts - 1
<1> USE WindowAssumption, AttemptsAssumption
<1> DEFINE B == Between(s, s + windowMs)
           k == 2 * maxAttempts - 1
<1>0. k \in Nat /\ IsFiniteSet(1..k) /\ Cardinality(1..k) = k
  BY FS_Interval
<1>1. \A a \in B : /\ a \in admitted /\ a.from \in Nat /\ a.at \in Nat /\ a.n \in 1..maxAttempts
                   /\ s <= a.at /\ a.at < s + windowMs
                   /\ a.from <= a.at /\ a.at < a.from + windowMs
                   /\ a.n = 1 => a.at = a.from
  BY DEF Between, LimiterInv, LimiterTypeOK, Placed
<1>2. \A a, b \in B : /\ a.from = b.from /\ a.n = b.n => a = b
                      /\ a.from < b.from => a.from + windowMs <= b.from
  BY <1>1 DEF LimiterInv, Numbered
<1>3. PICK w \in Nat : \A a \in B : a.from # w => a.n >= 2 /\ a.from < w
                                              /\ \A b \in B : b.from # w => b.from = a.from
  <2>1. CASE \E a, b \in B : a.from < b.from
    <3>1. PICK a, b \in B : a.from < b.from
      BY <2>1
    <3>2. \A c \in B : c.from # b.from => c.from = a.from
      BY <1>1, <1>2, <3>1
    <3>3. \A c \in B : c.from = a.from => c.n >= 2
      BY <1>1, <1>2, <3>1
    <3>4. QED BY <1>1, <3>1, <3>2, <3>3
  <2>2. CASE ~ \E a, b \in B : a.from < b.from
    <3>1. CASE B = {}
      BY <3>1
    <3>2. CASE B # {}
      <4>1. PICK b \in B : TRUE
        BY <3>2
      <4>2. \A a \in B : a.from = b.from
        BY <1>1, <2>2
      <4>3. QED BY <1>1, <4>2
    <3>3. QED BY <3>1, <3>2
  <2>3. QED BY <2>1, <2>2
<1> DEFINE g == [a \in B |-> IF a.from = w THEN a.n ELSE maxAttempts + a.n - 1]
<1>4. g \in Injection(B, 1..k)
  <2>1. \A a \in B : g[a] \in 1..k
    BY <1>1, <1>3
  <2>2. \A a, b \in B : g[a] = g[b] => a = b
    BY <1>1, <1>2, <1>3
  <2> HIDE DEF g
  <2>3. g \in [B -> 1..k]
    BY <2>1 DEF g
  <2>4. QED BY <2>2, <2>3 DEF Injection, IsInjective
<1> HIDE DEF g, B, k
<1>5. IsFiniteSet(B) /\ Cardinality(B) <= Cardinality(1..k)
  BY <1>0, <1>4, FS_Injection
<1>6. QED BY <1>0, <1>5 DEF B, k

(* A call was refused because the whole budget went within the last window. *)
LEMMA BudgetSpent ==
  ASSUME LimiterInv, NEW t \in refused
  PROVE  Cardinality(Between(t - windowMs + 1, t + 1)) >= maxAttempts
<1> USE WindowAssumption, AttemptsAssumption
<1> DEFINE B == Between(t - windowMs + 1, t + 1)
<1>0. t \in Nat
  BY DEF LimiterInv, LimiterTypeOK
<1>1. IsFiniteSet(B)
  <2>1. t - windowMs + 1 \in Int /\ (t - windowMs + 1) + windowMs = t + 1
    BY <1>0
  <2>2. QED BY <2>1, FewBetween
<1>2. PICK f \in Nat : /\ f <= t /\ t < f + windowMs
                       /\ \A n \in 1..maxAttempts :
                            \E a \in admitted : a.from = f /\ a.n = n /\ a.at <= t
  BY DEF LimiterInv, Spent
<1>3. \A n \in 1..maxAttempts : \E a \in B : a.n = n
  BY <1>0, <1>2 DEF Between, LimiterInv, LimiterTypeOK, Placed
<1> DEFINE g == [n \in 1..maxAttempts |-> CHOOSE a \in B : a.n = n]
<1>4. \A n \in 1..maxAttempts : g[n] \in B /\ g[n].n = n
  BY <1>3
<1> HIDE DEF g, B
<1>5. g \in Injection(1..maxAttempts, B)
  <2>1. g \in [1..maxAttempts -> B]
    BY <1>4 DEF g
  <2>2. QED BY <1>4, <2>1 DEF Injection, IsInjective
<1>6. Cardinality(1..maxAttempts) <= Cardinality(B)
  BY <1>1, <1>5, FS_Injection
<1>7. Cardinality(1..maxAttempts) = maxAttempts
  BY FS_Interval
<1>8. Cardinality(B) \in Nat
  BY <1>1, FS_CardinalityType
<1>9. QED BY <1>6, <1>7, <1>8 DEF B

(* Less than twice the budget in any stretch of the window's length, and no *)
(* refusal without cause, for every window and budget (index.ts:18-34).     *)
THEOREM Metering == LimiterSpec => []Metered
<1>1. LimiterInv => Metered
  BY FewBetween, BudgetSpent DEF Metered, LimiterInv, LimiterTypeOK
<1>2. QED BY <1>1, LimiterStarts, LimiterKeeps, PTL DEF LimiterSpec
=============================================================================
