--------------------------- MODULE CalculationProofs ---------------------------
(***************************************************************************)
(* Proofs about the calculations: what the code believes of stored         *)
(* evidence, how the history is cut for the stages that try a candidate on *)
(* data it was not built on, and what a session allows: the cap on its     *)
(* trades, by induction over the bars of a column, and the trades of the   *)
(* session strategies.  They hold for every set of requests whose inputs   *)
(* are what the program hands to the calculation (the assumptions of       *)
(* module Calculations), not only for the ones that are model-checked.     *)
(***************************************************************************)
EXTENDS Calculations, FiniteSetTheorems, WellFoundedInduction, TLAPS

-----------------------------------------------------------------------------
(* Numbers *)

\* A set of numbers that is not empty has a least one.
LEMMA LeastNumber ==
    ASSUME NEW S \in SUBSET Nat, S # {}
    PROVE  \E m \in S : \A k \in S : m <= k
<1>1. PICK m \in S : \A k \in S : ~(<<k, m>> \in OpToRel(<, Nat))
  BY NatLessThanWellFounded, WFMin
<1>2. \A k \in S : ~(k < m)
  BY <1>1 DEF OpToRel
<1> QED
  BY <1>2

\* A bounded one has a greatest one.
LEMMA GreatestNumber ==
    ASSUME NEW n \in Nat, NEW S \in SUBSET (0..n), S # {}
    PROVE  Max(S) \in S /\ \A k \in S : k <= Max(S)
<1> DEFINE T == {n - k : k \in S}
<1>1. T \in SUBSET Nat /\ T # {}
  <2>1. \A k \in S : n - k \in Nat
    OBVIOUS
  <2>2. \E k : k \in S
    OBVIOUS
  <2> QED
    BY <2>1, <2>2
<1>2. PICK t \in T : \A u \in T : t <= u
  BY <1>1, LeastNumber
<1>3. PICK m \in S : t = n - m
  OBVIOUS
<1>4. \A k \in S : m >= k
  BY <1>2, <1>3
<1>5. Max(S) \in S /\ \A k \in S : Max(S) >= k
  BY <1>4 DEF Max
<1> QED
  BY <1>5

\* Positions that are closed downwards are the first so many.
LEMMA FirstPositions ==
    ASSUME NEW n \in Nat, NEW D \in SUBSET (1..n), \A i \in D : \A j \in 1..n : j <= i => j \in D
    PROVE  Cardinality(D) \in 0..n /\ D = 1..Cardinality(D)
<1>1. CASE D = {}
  BY <1>1, FS_EmptySet
<1>2. CASE D # {}
  <2>1. D \in SUBSET (0..n)
    OBVIOUS
  <2>2. Max(D) \in D /\ \A k \in D : k <= Max(D)
    BY <1>2, <2>1, GreatestNumber
  <2> DEFINE m == Max(D)
  <2>6. m \in D /\ \A k \in D : k <= m
    BY <2>2
  <2> HIDE DEF m
  <2>3. m \in 1..n /\ D = 1..m
    <3>1. m \in 1..n /\ \A i \in D : i \in 1..m
      BY <2>6
    <3>2. \A i \in 1..m : i \in D
      BY <2>6, <3>1
    <3> QED
      BY <3>1, <3>2
  <2>4. Cardinality(1..m) = IF 1 > m THEN 0 ELSE m - 1 + 1
    BY <2>3, FS_Interval
  <2>5. Cardinality(1..m) = m
    BY <2>3, <2>4
  <2> QED
    BY <2>3, <2>5
<1> QED
  BY <1>1, <1>2

\* A set with 0 and the successor of each of its numbers has every number.
LEMMA SetInduction ==
    ASSUME NEW A, 0 \in A, \A n \in Nat : n \in A => n + 1 \in A
    PROVE  Nat \subseteq A
<1> SUFFICES ASSUME Nat \ A # {} PROVE FALSE
  OBVIOUS
<1>1. PICK n \in Nat \ A : \A k \in Nat \ A : n <= k
  BY LeastNumber
<1>2. n # 0
  BY <1>1
<1>3. n - 1 \in Nat /\ ~(n <= n - 1) /\ (n - 1) + 1 = n
  BY <1>1, <1>2
<1>4. n - 1 \in A
  BY <1>1, <1>3
<1> QED
  BY <1>1, <1>3, <1>4

-----------------------------------------------------------------------------
(* Elements of a sequence *)

\* The positions of a sequence in ascending order are the positions.
LEMMA AscendingInterval ==
    ASSUME NEW n \in Nat
    PROVE  Ascending(1..n) = [k \in 1..n |-> k]
<1>1. Cardinality(1..n) = n
  BY FS_Interval
<1>2. \A x \in 1..n : Cardinality({y \in 1..n : y < x}) = x - 1
  <2> TAKE x \in 1..n
  <2>1. {y \in 1..n : y < x} = 1..(x - 1)
    OBVIOUS
  <2>2. Cardinality(1..(x - 1)) = IF 1 > x - 1 THEN 0 ELSE (x - 1) - 1 + 1
    BY FS_Interval
  <2>4. Cardinality(1..(x - 1)) = x - 1
    BY <2>2, SMT
  <2> QED
    BY <2>1, <2>4, Zenon
<1>3. \A k \in 1..n : (CHOOSE x \in 1..n : Cardinality({y \in 1..n : y < x}) = k - 1) = k
  BY <1>2
<1>4. Ascending(1..n) =
        [k \in 1..Cardinality(1..n) |->
            CHOOSE x \in 1..n : Cardinality({y \in 1..n : y < x}) = k - 1]
  BY DEF Ascending, Sorted
<1> QED
  BY <1>1, <1>3, <1>4

\* Picking every element of a sequence gives the sequence.
LEMMA PickedWhole ==
    ASSUME NEW S, NEW s \in Seq(S)
    PROVE  Picked(s, DOMAIN s) = s
<1>1. PICK n \in Nat : DOMAIN s = 1..n
  BY SMT
<1>2. Ascending(DOMAIN s) = [k \in DOMAIN s |-> k]
  BY <1>1, AscendingInterval
<1> QED
  BY <1>1, <1>2 DEF Picked

\* Finitely many elements of a sequence pass a test.
LEMMA WhereIsFinite ==
    ASSUME NEW s, IsSequence(s), NEW Test(_)
    PROVE  IsFiniteSet(Where(s, Test))
<1>1. PICK n \in Nat : DOMAIN s = 1..n
  BY DEF IsSequence
<1>2. IsFiniteSet(1..n)
  BY FS_Interval
<1>3. Where(s, Test) \in SUBSET (1..n)
  BY <1>1 DEF Where
<1> QED
  BY <1>2, <1>3, FS_Subset

\* Picking a finite set of rows gives one element for each of them.
LEMMA PickedRows ==
    ASSUME NEW s, NEW S, IsFiniteSet(S)
    PROVE  /\ Cardinality(S) \in Nat
           /\ DOMAIN Picked(s, S) = 1..Cardinality(S)
           /\ Picked(s, S) = [i \in 1..Cardinality(S) |-> s[Ascending(S)[i]]]
<1>1. DOMAIN Ascending(S) = 1..Cardinality(S)
  BY DEF Ascending, Sorted
<1> QED
  BY <1>1, FS_CardinalityType DEF Picked

\* Dropping the blank reasons drops nothing when there are none.
LEMMA NonBlankKept ==
    ASSUME NEW s, IsSequence(s), "" \notin Range(s)
    PROVE  NonBlank(s) = s
<1>1. Where(s, LAMBDA r : r /= "") = DOMAIN s
  BY DEF Where, Range
<1> QED
  BY <1>1, PickedWhole DEF NonBlank, IsSequence

-----------------------------------------------------------------------------
(* Documents *)

\* The normalized part that a case is built with, and the evidence it makes up.
Normalized(x) ==
    NormalizeEvidence(x.stage, x.native, IF x.stage = "walk_forward" THEN "not_applicable" ELSE x.state)

\* The evidence a document is built of.
EvidenceOf(x) == [native |-> x.native, normalized |-> Normalized(x)]

\* The stages that leave documents.
StageNames == {"walk_forward", "monte_carlo", "robustness"}

\* The last test window of a case is shorter than its configuration declares.
HasShortFinal(x) ==
    /\ x.stage = "walk_forward"
    /\ \E i \in DOMAIN x.native.folds : ShortFinal(x.native.folds, i, x.native.rules)

\* A case is of the cost stress of a whole-share rule.
HasShareStress(x) ==
    /\ x.stage = "robustness" /\ x.native.stress /= Null
    /\ IsOfShares(x.native.stress)

\* The two kinds of document that their reader never accepts although they were built.
IsMisread(x) == HasShortFinal(x) \/ HasShareStress(x)

\* The native part of a case is what its stage produces.
LEMMA StageIsKnown ==
    ASSUME NEW x, IsDocumentCase(x)
    PROVE  /\ x.stage \in StageNames
           /\ x.stage = "walk_forward" => IsWalkForward(x.native)
           /\ x.stage = "monte_carlo" => IsMonteCarlo(x.native)
           /\ x.stage = "robustness" => IsRobustness(x.native)
  BY DEF IsDocumentCase, StageNames

\* A document that was built holds the native part and the record normalized from it.
LEMMA BuiltDocument ==
    ASSUME NEW x, IsDocumentCase(x), IsReadable(BuildDocument(x.stage, x.native, x.source, x.state))
    PROVE  /\ Normalized(x).status # "invalid"
           /\ BuildDocument(x.stage, x.native, x.source, x.state) = Document(x.stage, x.source, EvidenceOf(x))
<1>1. BuildDocument(x.stage, x.native, x.source, x.state)
        = Written(x.stage, x.source, x.native, Normalized(x))
  BY StageIsKnown
     DEF BuildDocument, WalkForwardDocument, MonteCarloDocument, RobustnessDocument, Normalized, StageNames
<1>2. ~IsReadable(Unreadable("contract"))
  BY DEF IsReadable, Unreadable
<1> QED
  BY <1>1, <1>2 DEF Written, EvidenceOf

\* A record that is not invalid has a known state and the fields it was made from.
LEMMA RecordFields ==
    ASSUME NEW stage, NEW status, NEW reasons, NEW thresholds, NEW source, NEW state,
           Record(stage, status, reasons, thresholds, source, state).status # "invalid"
    PROVE  LET r == Record(stage, status, reasons, thresholds, source, state)
           IN  /\ state \in States
               /\ r.stage = stage /\ r.status = status /\ r.source = source
               /\ r.thresholds = thresholds /\ r.state = state
               /\ r.reasons = IF status = "passed" THEN NonBlank(reasons) ELSE Reasons(reasons, "returned")
               /\ r.eligible <=> EligibleToProgress(status, state)
  BY DEF Record

\* The record that a native part with these thresholds becomes.
RecordOf(stage, n, thresholds, state) ==
    Record(stage, MapNativeStatus(n.status), n.reasons, thresholds, n.source, state)

\* The record of a native part is accepted beside it unless it would progress by itself, and
\* with that part no other status or reasons are.
LEMMA NormalizedBuilt ==
    ASSUME NEW stage, NEW n, NEW thresholds, NEW state, StatesReasons(n),
           RecordOf(stage, n, thresholds, state).status # "invalid"
    PROVE  LET r == RecordOf(stage, n, thresholds, state)
           IN  /\ n.status \in NativeStatuses
               /\ NormalizedHolds(stage, [native |-> n, normalized |-> r], thresholds, n.reasons)
                    <=> ~r.eligible
               /\ \A m : NormalizedHolds(stage, [native |-> n, normalized |-> m], thresholds, n.reasons)
                            => m.status = r.status /\ m.reasons = r.reasons
<1> DEFINE r == RecordOf(stage, n, thresholds, state)
           status == MapNativeStatus(n.status)
           reasons == IF status = "passed" THEN NonBlank(n.reasons)
                      ELSE IF n.reasons = <<>> THEN <<"returned">> ELSE n.reasons
<1>1. /\ state \in States
      /\ r.stage = stage /\ r.status = status /\ r.source = n.source
      /\ r.thresholds = thresholds /\ r.state = state
      /\ r.reasons = IF status = "passed" THEN NonBlank(n.reasons) ELSE Reasons(n.reasons, "returned")
  BY RecordFields DEF RecordOf
<1>2. NonBlank(n.reasons) = n.reasons
  BY NonBlankKept DEF StatesReasons
<1>3. r.reasons = reasons
  BY <1>1, <1>2 DEF Reasons
<1>4. n.status \in NativeStatuses
  BY <1>1 DEF MapNativeStatus
<1>5. \A m : NormalizedHolds(stage, [native |-> n, normalized |-> m], thresholds, n.reasons) <=>
               /\ m.stage = stage /\ m.status = status /\ m.reasons = reasons
               /\ m.source = n.source /\ m.state \in States /\ ~m.eligible /\ m.thresholds = thresholds
  BY DEF NormalizedHolds
<1> HIDE DEF status, reasons, r
<1> QED
  BY <1>1, <1>3, <1>4, <1>5 DEF r

\* A run stamped with another time has the same content.
LEMMA FieldsStay ==
    ASSUME NEW n, NEW fields, NEW t, HasFields(n, fields), "timestamp" \in fields
    PROVE  /\ \A k \in fields \ {"timestamp"} : [n EXCEPT !.timestamp = t][k] = n[k]
           /\ [[n EXCEPT !.timestamp = t] EXCEPT !.timestamp = Null] = [n EXCEPT !.timestamp = Null]
  BY DEF HasFields

\* The time a walk-forward run is stamped with does not change what is accepted beside it.
LEMMA WalkRestamped ==
    ASSUME NEW n, NEW t, NEW r, IsWalkForward(n)
    PROVE  WalkForwardHolds([native |-> [n EXCEPT !.timestamp = t], normalized |-> r])
             <=> WalkForwardHolds([native |-> n, normalized |-> r])
<1> DEFINE m == [n EXCEPT !.timestamp = t]
<1>1. m.folds = n.folds /\ m.rules = n.rules /\ m.sessions = n.sessions /\ m.longest = n.longest
  BY FieldsStay DEF IsWalkForward, HasFields
<1> HIDE DEF m
<1>2. WalkForwardHolds([native |-> m, normalized |-> r])
        <=> /\ WindowRulesHold(m.rules)
            /\ StoredWindowsHold(m.folds, m.rules, m.sessions, m.longest)
            /\ r.status = FoldsOutcome(m.folds).status
            /\ r.reasons = FoldsOutcome(m.folds).reasons
  BY DEF WalkForwardHolds
<1>3. WalkForwardHolds([native |-> n, normalized |-> r])
        <=> /\ WindowRulesHold(n.rules)
            /\ StoredWindowsHold(n.folds, n.rules, n.sessions, n.longest)
            /\ r.status = FoldsOutcome(n.folds).status
            /\ r.reasons = FoldsOutcome(n.folds).reasons
  BY DEF WalkForwardHolds
<1> QED
  BY <1>1, <1>2, <1>3 DEF m

\* The thresholds of a Monte Carlo document, and of a robustness one, by their parts.
MonteThresholds(thresholds) ==
    [i \in DOMAIN thresholds |->
        [id |-> thresholds[i].id, value |-> thresholds[i].value,
         status |-> IF thresholds[i].passed THEN "passed" ELSE "failed"]]

\* What the validator of a Monte Carlo document asks for, by its parts.
LEMMA MonteHolds ==
    ASSUME NEW n, NEW r
    PROVE  MonteCarloHolds([native |-> n, normalized |-> r])
             <=> /\ n.status \in NativeStatuses
                 /\ \A s \in Range(n.stress) : s \in {"applied", "insufficient_evidence"}
                 /\ NormalizedHolds("monte_carlo", [native |-> n, normalized |-> r],
                                    MonteThresholds(n.thresholds), n.reasons)
<1>1. NormalizeMonteCarlo(n, "gated").thresholds = MonteThresholds(n.thresholds)
  BY DEF NormalizeMonteCarlo, Record, MonteThresholds
<1> QED
  BY <1>1 DEF MonteCarloHolds

\* The normalized part is compared with the status and the source of the run only.
LEMMA NormalizedRestamped ==
    ASSUME NEW stage, NEW n, NEW m, NEW r, NEW thresholds, NEW reasons,
           m.status = n.status, m.source = n.source
    PROVE  NormalizedHolds(stage, [native |-> m, normalized |-> r], thresholds, reasons)
             <=> NormalizedHolds(stage, [native |-> n, normalized |-> r], thresholds, reasons)
  BY DEF NormalizedHolds

\* The time a Monte Carlo run is stamped with does not change what is accepted beside it.
LEMMA MonteRestamped ==
    ASSUME NEW n, NEW t, NEW r, IsMonteCarlo(n)
    PROVE  MonteCarloHolds([native |-> [n EXCEPT !.timestamp = t], normalized |-> r])
             <=> MonteCarloHolds([native |-> n, normalized |-> r])
<1> DEFINE m == [n EXCEPT !.timestamp = t]
<1>1. /\ m.status = n.status /\ m.reasons = n.reasons /\ m.stress = n.stress
      /\ m.thresholds = n.thresholds /\ m.source = n.source
  BY FieldsStay DEF IsMonteCarlo, HasFields
<1> HIDE DEF m
<1>2. MonteCarloHolds([native |-> m, normalized |-> r])
        <=> MonteCarloHolds([native |-> n, normalized |-> r])
  BY <1>1, MonteHolds, NormalizedRestamped
<1> QED
  BY <1>2 DEF m

\* The thresholds of a robustness document, by its parts.
RobustThresholds(summary, stress, regimes) ==
    RobustnessThresholds([summary |-> summary, stress |-> stress, regimes |-> regimes])

\* The thresholds of a robustness run are made from its summary, stress and regimes.
LEMMA RobustThresholdsOf ==
    ASSUME NEW n
    PROVE  RobustnessThresholds(n) = RobustThresholds(n.summary, n.stress, n.regimes)
  BY DEF RobustnessThresholds, RobustThresholds

\* The time a robustness run is stamped with does not change what is accepted beside it.
LEMMA RobustRestamped ==
    ASSUME NEW n, NEW t, NEW r, IsRobustness(n)
    PROVE  RobustnessHolds([native |-> [n EXCEPT !.timestamp = t], normalized |-> r])
             <=> RobustnessHolds([native |-> n, normalized |-> r])
<1> DEFINE m == [n EXCEPT !.timestamp = t]
<1>1. /\ m.status = n.status /\ m.reasons = n.reasons /\ m.source = n.source
      /\ m.summary = n.summary /\ m.stress = n.stress /\ m.regimes = n.regimes
      /\ m.points = n.points /\ m.components = n.components
  BY FieldsStay DEF IsRobustness, HasFields
<1> HIDE DEF m
<1>2. RobustnessThresholds(m) = RobustnessThresholds(n)
  BY <1>1, RobustThresholdsOf
<1>3. RobustnessPartsHold(m) <=> RobustnessPartsHold(n)
  BY <1>1 DEF RobustnessPartsHold
<1>4. FixedRuleStressHolds(m) <=> FixedRuleStressHolds(n)
  BY <1>1 DEF FixedRuleStressHolds
<1>5. NormalizedHolds("robustness", [native |-> m, normalized |-> r], RobustnessThresholds(m), m.reasons)
        <=> NormalizedHolds("robustness", [native |-> n, normalized |-> r], RobustnessThresholds(n), n.reasons)
  BY <1>1, <1>2, NormalizedRestamped
<1>6. RobustnessHolds([native |-> m, normalized |-> r])
        <=> RobustnessHolds([native |-> n, normalized |-> r])
  BY <1>1, <1>3, <1>4, <1>5 DEF RobustnessHolds
<1> QED
  BY <1>6 DEF m

-----------------------------------------------------------------------------
(* A walk-forward document *)

\* Folds never pass by themselves, and what they are refused for is said.
LEMMA FoldsOutcomeIsSaid ==
    ASSUME NEW folds, IsSequence(folds)
    PROVE  /\ FoldsOutcome(folds).status \in {"failed", "insufficient_evidence"}
           /\ IsSequence(FoldsOutcome(folds).reasons)
           /\ "" \notin Range(FoldsOutcome(folds).reasons)
           /\ FoldsOutcome(folds).reasons # <<>>
<1> DEFINE failed == Picked(folds, Where(folds, LAMBDA f : f.status = "failed"))
           why == [i \in DOMAIN failed |-> IF failed[i].why = "" THEN "no_reason" ELSE failed[i].why]
<1>1. CASE failed = <<>>
  <2>1. /\ FoldsOutcome(folds).status = "insufficient_evidence"
        /\ FoldsOutcome(folds).reasons = <<"no_decision">>
    BY <1>1 DEF FoldsOutcome
  <2>2. <<"no_decision">> \in Seq({"no_decision"}) /\ Range(<<"no_decision">>) = {"no_decision"}
    BY DEF Range
  <2>3. <<"no_decision">> # <<>> /\ "" # "no_decision"
    OBVIOUS
  <2> DEFINE reasons == <<"no_decision">>
  <2>4. IsSequence(reasons) /\ "" \notin Range(reasons) /\ reasons # <<>>
    BY <2>2, <2>3 DEF IsSequence
  <2> QED
    BY <2>1, <2>4, Zenon
<1>2. CASE failed # <<>>
  <2>1. /\ FoldsOutcome(folds).status = "failed"
        /\ FoldsOutcome(folds).reasons = why
    BY <1>2 DEF FoldsOutcome
  <2>2. IsFiniteSet(Where(folds, LAMBDA f : f.status = "failed"))
    BY WhereIsFinite
  <2>3. PICK n \in Nat : DOMAIN failed = 1..n
    BY <2>2, PickedRows
  <2>4. failed \in Seq(Range(failed))
    BY <2>3 DEF Range, Picked
  <2>5. n # 0
    BY <2>3, <2>4, <1>2
  <2>6. DOMAIN why = 1..n /\ n >= 1
    BY <2>3, <2>5
  <2>7. \A i \in 1..n : why[i] # ""
    BY <2>3
  <2>10. why = [i \in 1..n |-> why[i]]
    BY <2>3
  <2> HIDE DEF why, failed
  <2>8. why \in Seq(Range(why)) /\ "" \notin Range(why) /\ why # <<>>
    <3>1. why \in [1..n -> Range(why)]
      BY <2>6, <2>10 DEF Range
    <3>2. why \in Seq(Range(why)) /\ Len(why) = n
      BY <3>1
    <3>3. why # <<>>
      BY <3>2, <2>6
    <3>4. "" \notin Range(why)
      BY <2>6, <2>7, Zenon DEF Range
    <3> QED
      BY <3>2, <3>3, <3>4
  <2> QED
    BY <2>1, <2>8 DEF IsSequence
<1> QED
  BY <1>1, <1>2

\* A walk-forward record that is not invalid is about folds whose windows hold.
LEMMA WalkNormalized ==
    ASSUME NEW n, IsWalkForward(n), NEW r, r = NormalizeWalkForward(n, "not_applicable"),
           r.status # "invalid"
    PROVE  /\ n.folds # <<>>
           /\ WindowsHold(n.folds, n.rules, n.sessions, n.longest)
           /\ \A f \in Range(n.folds) : f.status \in {"successful", "failed"}
           /\ r.status = FoldsOutcome(n.folds).status
           /\ r.reasons = FoldsOutcome(n.folds).reasons
           /\ ~r.eligible
<1> DEFINE outcome == FoldsOutcome(n.folds)
           Invalid(why) == Record("walk_forward", "invalid", <<why>>, <<>>, Null, "not_applicable")
<1>1. \A why : Invalid(why).status = "invalid"
  BY DEF Record
<1>2. /\ n.folds # <<>>
      /\ WindowsHold(n.folds, n.rules, n.sessions, n.longest)
      /\ \A f \in Range(n.folds) : f.status \in {"successful", "failed"}
      /\ r = Record("walk_forward", outcome.status, outcome.reasons, <<>>, "folds", "not_applicable")
  BY <1>1 DEF NormalizeWalkForward
<1>3. /\ r.status = outcome.status
      /\ r.reasons = IF outcome.status = "passed" THEN NonBlank(outcome.reasons)
                     ELSE Reasons(outcome.reasons, "returned")
      /\ r.eligible <=> EligibleToProgress(outcome.status, "not_applicable")
  BY <1>2, RecordFields
<1>4. /\ outcome.status \in {"failed", "insufficient_evidence"}
      /\ IsSequence(outcome.reasons) /\ "" \notin Range(outcome.reasons) /\ outcome.reasons # <<>>
  BY FoldsOutcomeIsSaid DEF IsWalkForward
<1>5. NonBlank(outcome.reasons) = outcome.reasons
  BY <1>4, NonBlankKept
<1> QED
  BY <1>2, <1>3, <1>4, <1>5 DEF Reasons, EligibleToProgress

\* The test window of a fold starts a session, and so after all of the fold before it.
LEMMA TestStartsSession ==
    ASSUME NEW n, IsWalkForward(n), n.longest # Null, NEW i \in DOMAIN n.folds, i > 1,
           WindowsHold(n.folds, n.rules, n.sessions, n.longest)
    PROVE  SessionBoundaryHolds(n.sessions, n.folds[i - 1].window.test.last, n.folds[i].window.test.first)
<1> DEFINE w == n.folds[i].window
           before == IF w.selection = Null THEN w.train ELSE w.selection
           last == n.folds[i - 1].window.test.last
<1>1. PICK k \in Nat : DOMAIN n.folds = 1..k
  BY DEF IsWalkForward, IsSequence
<1>2. i - 1 \in DOMAIN n.folds
  BY <1>1
<1>3. PICK m \in Nat : DOMAIN n.sessions = 1..m
  BY DEF IsWalkForward, InOrder, IsSequence
<1>4. /\ before.last \in 1..m /\ w.test.first \in 1..m /\ w.test.first = before.last + 1
  BY <1>3 DEF IsWalkForward, Range
<1>5. last \in 1..m
  BY <1>2, <1>3 DEF IsWalkForward, Range
<1>6. PartsHold(n.folds, i, n.rules, n.sessions, n.longest)
  BY DEF WindowsHold
<1>7. last < w.test.first
  BY <1>6 DEF PartsHold
<1>8. SessionBoundaryHolds(n.sessions, before.last, w.test.first)
  <2>1. CASE n.rules.selection = 0
    <3>1. w.selection = Null /\ SessionBoundaryHolds(n.sessions, w.train.last, w.test.first)
      BY <1>6, <2>1 DEF PartsHold
    <3> QED
      BY <3>1
  <2>2. CASE n.rules.selection # 0
    <3>1. w.selection # Null /\ SessionBoundaryHolds(n.sessions, w.selection.last, w.test.first)
      BY <1>6, <2>2 DEF PartsHold
    <3> QED
      BY <3>1
  <2> QED
    BY <2>1, <2>2, Zenon
<1>9. n.sessions[last] <= n.sessions[before.last]
  <2>1. \A a, b \in 1..m : a <= b => n.sessions[a] <= n.sessions[b]
    BY <1>3 DEF IsWalkForward, InOrder
  <2> HIDE DEF before, last
  <2>2. before.last \in 1..m /\ last <= before.last
    BY <1>4, <1>5, <1>7
  <2> QED
    BY <1>5, <2>1, <2>2
<1>10. /\ n.sessions[last] \in Int /\ n.sessions[before.last] \in Int
       /\ n.sessions[w.test.first] \in Int
  BY <1>3, <1>4, <1>5 DEF IsWalkForward, InOrder
<1> QED
  BY <1>8, <1>9, <1>10 DEF SessionBoundaryHolds

\* Windows that hold when a document is built hold when it is read, but for a short last test.
LEMMA WalkHolds ==
    ASSUME NEW n, IsWalkForward(n), n.folds # <<>>,
           \A f \in Range(n.folds) : f.status \in {"successful", "failed"},
           WindowsHold(n.folds, n.rules, n.sessions, n.longest)
    PROVE  StoredWindowsHold(n.folds, n.rules, n.sessions, n.longest)
             <=> ~ \E i \in DOMAIN n.folds : ShortFinal(n.folds, i, n.rules)
<1> DEFINE rows(i) == Rows(n.folds[i].window.test)
           Whole(i) == SizeWithin(rows(i), n.rules.test, n.longest, FALSE)
<1>1. \A i \in DOMAIN n.folds : n.folds[i].status \in {"successful", "failed"}
  BY DEF Range
<1>2. \A i \in DOMAIN n.folds : PartsHold(n.folds, i, n.rules, n.sessions, n.longest)
  BY DEF WindowsHold
<1>3. \A i \in DOMAIN n.folds : Whole(i) \/ ShortFinal(n.folds, i, n.rules)
  BY DEF WindowsHold
<1>4. ASSUME NEW i \in DOMAIN n.folds, ShortFinal(n.folds, i, n.rules), Whole(i) PROVE FALSE
  <2>1. rows(i) \in Int
    <3>1. PICK m \in Nat : DOMAIN n.sessions = 1..m
      BY DEF IsWalkForward, InOrder, IsSequence
    <3>2. n.folds[i].window.test.first \in 1..m /\ n.folds[i].window.test.last \in 1..m
      BY <3>1 DEF IsWalkForward, Range
    <3> QED
      BY <3>2 DEF Rows
  <2>2. n.rules.test \in Nat /\ (n.longest # Null => n.longest \in Nat)
    BY DEF IsWalkForward
  <2>3. rows(i) < n.rules.test
    BY <1>4 DEF ShortFinal
  <2>4. rows(i) = n.rules.test \/ n.rules.test <= rows(i)
    BY <1>4 DEF SizeWithin
  <2> QED
    BY <2>1, <2>2, <2>3, <2>4
<1>5. \A i \in DOMAIN n.folds : i > 1 /\ n.longest # Null =>
          SessionBoundaryHolds(n.sessions, n.folds[i - 1].window.test.last, n.folds[i].window.test.first)
  BY TestStartsSession
<1>6. StoredWindowsHold(n.folds, n.rules, n.sessions, n.longest)
        <=> \A i \in DOMAIN n.folds : Whole(i)
  BY <1>1, <1>2, <1>5 DEF StoredWindowsHold
<1> HIDE DEF Whole
<1> QED
  BY <1>3, <1>4, <1>6

\* The reader accepts a cost stress but for the one of whole shares, which has no cost of a
\* contract.
LEMMA StressHolds ==
    ASSUME NEW n, IsRobustness(n)
    PROVE  FixedRuleStressHolds(n) <=> ~(n.stress # Null /\ IsOfShares(n.stress))
<1> DEFINE s == n.stress
<1>1. CASE s = Null
  BY <1>1 DEF FixedRuleStressHolds
<1>2. CASE s # Null
  <2>1. IsStress(n)
    BY <1>2 DEF IsRobustness
  <2>2. CASE IsOfShares(s)
    <3>1. DOMAIN s.baseline = {"fees", "slippage"}
      BY <2>1, <2>2 DEF IsStress, CostsAreStressed, IsOfShares
    <3>2. "fixed_fee" \notin {"fees", "slippage"}
      OBVIOUS
    <3> QED
      BY <1>2, <2>2, <3>1, <3>2 DEF FixedRuleStressHolds
  <2>3. CASE ~IsOfShares(s)
    <3>1. /\ DOMAIN s.baseline = {"fixed_fee", "ticks"} /\ DOMAIN s.stressed = {"fixed_fee", "ticks"}
          /\ 0 < s.baseline["fixed_fee"] /\ s.baseline["fixed_fee"] < s.stressed["fixed_fee"]
          /\ 0 < s.baseline["ticks"] /\ s.baseline["ticks"] < s.stressed["ticks"]
      BY <2>1, <2>3 DEF IsStress, CostsAreStressed, IsOfShares
    <3> QED
      BY <2>1, <2>3, <3>1 DEF FixedRuleStressHolds, IsStress
  <2> QED
    BY <2>2, <2>3
<1> QED
  BY <1>1, <1>2

\* The content of a document that was built is accepted exactly when it cannot progress by
\* itself and no test window is short, whatever time the run was stamped with; beside its
\* native part no other status or reasons are.
LEMMA ContentHolds ==
    ASSUME NEW x, IsDocumentCase(x), Normalized(x).status # "invalid"
    PROVE  /\ StageHolds(x.stage, EvidenceOf(x)) <=> ~(Normalized(x).eligible \/ IsMisread(x))
           /\ x.stage = "walk_forward" => ~Normalized(x).eligible
           /\ \A m : StageHolds(x.stage, [native |-> x.native, normalized |-> m])
                        => m.status = Normalized(x).status /\ m.reasons = Normalized(x).reasons
           /\ \A t : StageHolds(x.stage, [native |-> [x.native EXCEPT !.timestamp = t],
                                          normalized |-> Normalized(x)])
                        <=> StageHolds(x.stage, EvidenceOf(x))
<1> DEFINE n == x.native
           r == Normalized(x)
           Of(m) == [native |-> n, normalized |-> m]
<1>0. r.status # "invalid" /\ EvidenceOf(x) = Of(r)
  BY DEF EvidenceOf
<1>1. CASE x.stage = "walk_forward"
  <2>1. IsWalkForward(n) /\ r = NormalizeWalkForward(n, "not_applicable")
    BY <1>1, StageIsKnown DEF Normalized, NormalizeEvidence
  <2>2. \A e : StageHolds(x.stage, e) <=> WalkForwardHolds(e)
    BY <1>1 DEF StageHolds
  <2> HIDE DEF n, r
  <2>3. /\ n.folds # <<>>
        /\ WindowsHold(n.folds, n.rules, n.sessions, n.longest)
        /\ \A f \in Range(n.folds) : f.status \in {"successful", "failed"}
        /\ r.status = FoldsOutcome(n.folds).status
        /\ r.reasons = FoldsOutcome(n.folds).reasons
        /\ ~r.eligible
    BY <2>1, <1>0, WalkNormalized
  <2>4. StoredWindowsHold(n.folds, n.rules, n.sessions, n.longest)
          <=> ~ \E i \in DOMAIN n.folds : ShortFinal(n.folds, i, n.rules)
    BY <2>1, <2>3, WalkHolds
  <2>5. WindowRulesHold(n.rules)
    BY <2>1 DEF IsWalkForward
  <2>6. \A m : WalkForwardHolds(Of(m))
          <=> /\ StoredWindowsHold(n.folds, n.rules, n.sessions, n.longest)
              /\ m.status = r.status /\ m.reasons = r.reasons
    BY <2>3, <2>5 DEF WalkForwardHolds
  <2>7. IsMisread(x) <=> \E i \in DOMAIN n.folds : ShortFinal(n.folds, i, n.rules)
    BY <1>1 DEF IsMisread, HasShortFinal, HasShareStress, n
  <2>8. \A t : WalkForwardHolds([native |-> [n EXCEPT !.timestamp = t], normalized |-> r])
                 <=> WalkForwardHolds(Of(r))
    BY <2>1, WalkRestamped
  <2> QED
    BY <1>0, <2>2, <2>3, <2>4, <2>6, <2>7, <2>8 DEF n, r
<1>2. CASE x.stage = "monte_carlo"
  <2>1. IsMonteCarlo(n) /\ r = NormalizeMonteCarlo(n, x.state)
    BY <1>2, StageIsKnown DEF Normalized, NormalizeEvidence
  <2>2. \A e : StageHolds(x.stage, e) <=> MonteCarloHolds(e)
    BY <1>2 DEF StageHolds
  <2>3. ~IsMisread(x)
    BY <1>2 DEF IsMisread, HasShortFinal, HasShareStress
  <2> HIDE DEF n, r
  <2>4. r = RecordOf("monte_carlo", n, MonteThresholds(n.thresholds), x.state)
    BY <2>1 DEF NormalizeMonteCarlo, MonteThresholds, RecordOf
  <2>5. StatesReasons(n) /\ \A s \in Range(n.stress) : s \in {"applied", "insufficient_evidence"}
    BY <2>1 DEF IsMonteCarlo
  <2>6. /\ n.status \in NativeStatuses
        /\ NormalizedHolds("monte_carlo", Of(r), MonteThresholds(n.thresholds), n.reasons) <=> ~r.eligible
        /\ \A m : NormalizedHolds("monte_carlo", Of(m), MonteThresholds(n.thresholds), n.reasons)
                     => m.status = r.status /\ m.reasons = r.reasons
    BY <2>4, <2>5, <1>0, NormalizedBuilt
  <2>7. \A m : MonteCarloHolds(Of(m))
                 <=> NormalizedHolds("monte_carlo", Of(m), MonteThresholds(n.thresholds), n.reasons)
    BY <2>5, <2>6, MonteHolds
  <2>8. \A t : MonteCarloHolds([native |-> [n EXCEPT !.timestamp = t], normalized |-> r])
                 <=> MonteCarloHolds(Of(r))
    BY <2>1, MonteRestamped
  <2> QED
    BY <1>0, <1>2, <2>2, <2>3, <2>6, <2>7, <2>8 DEF n, r
<1>3. CASE x.stage = "robustness"
  <2>1. IsRobustness(n) /\ r = NormalizeRobustness(n, x.state)
    BY <1>3, StageIsKnown DEF Normalized, NormalizeEvidence
  <2>2. \A e : StageHolds(x.stage, e) <=> RobustnessHolds(e)
    BY <1>3 DEF StageHolds
  <2>3. IsMisread(x) <=> n.stress # Null /\ IsOfShares(n.stress)
    BY <1>3 DEF IsMisread, HasShortFinal, HasShareStress, n
  <2> HIDE DEF n, r
  <2>4. r = RecordOf("robustness", n, RobustnessThresholds(n), x.state)
    BY <2>1 DEF NormalizeRobustness, RecordOf
  <2>5. StatesReasons(n) /\ RobustnessPartsHold(n)
    BY <2>1 DEF IsRobustness
  <2>9. FixedRuleStressHolds(n) <=> ~IsMisread(x)
    BY <2>1, <2>3, StressHolds
  <2>6. /\ n.status \in NativeStatuses
        /\ NormalizedHolds("robustness", Of(r), RobustnessThresholds(n), n.reasons) <=> ~r.eligible
        /\ \A m : NormalizedHolds("robustness", Of(m), RobustnessThresholds(n), n.reasons)
                     => m.status = r.status /\ m.reasons = r.reasons
    BY <2>4, <2>5, <1>0, NormalizedBuilt
  <2>7. \A m : RobustnessHolds(Of(m))
                 <=> /\ ~IsMisread(x)
                     /\ NormalizedHolds("robustness", Of(m), RobustnessThresholds(n), n.reasons)
    BY <2>5, <2>6, <2>9 DEF RobustnessHolds
  <2>8. \A t : RobustnessHolds([native |-> [n EXCEPT !.timestamp = t], normalized |-> r])
                 <=> RobustnessHolds(Of(r))
    BY <2>1, RobustRestamped
  <2> QED
    BY <1>0, <1>3, <2>2, <2>3, <2>6, <2>7, <2>8 DEF n, r
<1> QED
  BY <1>1, <1>2, <1>3, StageIsKnown DEF StageNames

\* Every record has a status and reasons.
LEMMA NormalizedFields ==
    ASSUME NEW x, IsDocumentCase(x)
    PROVE  {"status", "reasons"} \subseteq DOMAIN Normalized(x)
<1>1. \A stage, status, reasons, thresholds, source, state :
        {"status", "reasons"} \subseteq DOMAIN Record(stage, status, reasons, thresholds, source, state)
  BY DEF Record
<1>2. \E status, reasons, thresholds, source, state :
        Normalized(x) = Record(x.stage, status, reasons, thresholds, source, state)
  <2>1. CASE x.stage = "walk_forward"
    BY <2>1, Zenon DEF Normalized, NormalizeEvidence, NormalizeWalkForward
  <2>2. CASE x.stage = "monte_carlo"
    BY <2>2 DEF Normalized, NormalizeEvidence, NormalizeMonteCarlo
  <2>3. CASE x.stage = "robustness"
    BY <2>3 DEF Normalized, NormalizeEvidence, NormalizeRobustness
  <2> QED
    BY <2>1, <2>2, <2>3, StageIsKnown DEF StageNames
<1> QED
  BY <1>1, <1>2

\* Why a document is refused, in the order of the checks.
LEMMA RefusedFor ==
    ASSUME NEW stage, NEW doc, NEW expected
    PROVE  /\ DocumentRefusal(stage, doc, expected) = Null
                <=> /\ doc.kind = stage /\ doc.source = expected
                    /\ StageHolds(stage, doc.evidence)
                    /\ doc.identity = IdentityPayload(doc.evidence)
           /\ doc.kind = stage /\ doc.source.run = expected.run /\ ~StageHolds(stage, doc.evidence)
                => DocumentRefusal(stage, doc, expected) = "content"
<1> DEFINE refusal == DocumentRefusal(stage, doc, expected)
           holds == StageHolds(stage, doc.evidence)
<1>1. Null \notin {"kind", "run", "content", "identity", "lineage"}
  BY RefusalAssumption DEF Refusals
<1>2. CASE doc.kind /= stage
  <2>1. refusal = "kind"
    BY <1>2 DEF DocumentRefusal
  <2> QED
    BY <1>1, <1>2, <2>1
<1>3. CASE doc.kind = stage /\ doc.source.run /= expected.run
  <2>1. refusal = "run"
    BY <1>3 DEF DocumentRefusal
  <2> QED
    BY <1>1, <1>3, <2>1
<1>4. CASE doc.kind = stage /\ doc.source.run = expected.run /\ ~holds
  <2>1. refusal = "content"
    BY <1>4 DEF DocumentRefusal
  <2> QED
    BY <1>1, <1>4, <2>1
<1>5. CASE doc.kind = stage /\ doc.source.run = expected.run /\ holds
  <2>1. refusal = IF doc.identity /= IdentityPayload(doc.evidence) THEN "identity"
              ELSE IF doc.source /= expected THEN "lineage" ELSE Null
    BY <1>5 DEF DocumentRefusal
  <2> QED
    BY <1>1, <1>5, <2>1
<1> QED
  BY <1>2, <1>3, <1>4, <1>5, Zenon

\* A stored document is read back as it was written, and as nothing else.
LEMMA DocumentIsRevalidated ==
    ASSUME NEW x, IsDocumentCase(x), NEW out, out = StoredDocument(x), IsReadable(out.built)
    PROVE  LET n == out.built.evidence.normalized
               excepted == n.eligible \/ IsMisread(x)
           IN  /\ ~excepted => out.read = Null
               /\ excepted => out.read = "content"
               /\ x.asked /= x.source => out.moved /= Null
               /\ [x.changed EXCEPT !.timestamp = Null] /= [x.native EXCEPT !.timestamp = Null]
                     => out.altered /= Null
               /\ out.restamped = out.read
               /\ out.forged = Null =>
                     \A k \in DOMAIN x.forge \cap {"status", "reasons"} : x.forge[k] = n[k]
<1> DEFINE built == BuildDocument(x.stage, x.native, x.source, x.state)
           e == EvidenceOf(x)
           r == Normalized(x)
           changed == [built EXCEPT !.evidence.native = x.changed]
           later == [built EXCEPT !.evidence.native.timestamp = "later"]
           m == [k \in DOMAIN r |-> IF k \in DOMAIN x.forge THEN x.forge[k] ELSE r[k]]
           forged == Document(x.stage, built.source, [built.evidence EXCEPT !.normalized = m])
<1>1. out.built = built
  BY DEF StoredDocument
<1>2. /\ r.status # "invalid" /\ built = Document(x.stage, x.source, e)
  BY <1>1, BuiltDocument
<1>3. /\ built.kind = x.stage /\ built.source = x.source /\ built.evidence = e
      /\ built.identity = IdentityPayload(e) /\ e.native = x.native /\ e.normalized = r
  BY <1>2 DEF Document, EvidenceOf
<1>4. /\ out.read = DocumentRefusal(x.stage, built, x.source)
      /\ out.moved = DocumentRefusal(x.stage, built, x.asked)
      /\ out.altered = DocumentRefusal(x.stage, changed, x.source)
      /\ out.restamped = DocumentRefusal(x.stage, later, x.source)
      /\ out.forged = DocumentRefusal(x.stage, forged, x.source)
  BY <1>1, <1>3 DEF StoredDocument
<1>5. changed = [kind |-> x.stage, source |-> x.source, identity |-> IdentityPayload(e),
                 evidence |-> [native |-> x.changed, normalized |-> r]]
  BY <1>2 DEF Document, EvidenceOf
<1>6. later = [kind |-> x.stage, source |-> x.source, identity |-> IdentityPayload(e),
               evidence |-> [native |-> [x.native EXCEPT !.timestamp = "later"], normalized |-> r]]
  BY <1>2 DEF Document, EvidenceOf
<1>7. /\ forged.kind = x.stage
      /\ forged.evidence = [native |-> x.native, normalized |-> m]
  BY <1>2 DEF Document, EvidenceOf
<1>8. IdentityPayload(e) = [native |-> [x.native EXCEPT !.timestamp = Null], normalized |-> r]
  BY DEF IdentityPayload, EvidenceOf
<1>9. /\ StageHolds(x.stage, e) <=> ~(r.eligible \/ IsMisread(x))
      /\ x.stage = "walk_forward" => ~r.eligible
      /\ \A w : StageHolds(x.stage, [native |-> x.native, normalized |-> w])
                   => w.status = r.status /\ w.reasons = r.reasons
      /\ StageHolds(x.stage, [native |-> [x.native EXCEPT !.timestamp = "later"], normalized |-> r])
            <=> StageHolds(x.stage, e)
  BY <1>2, ContentHolds
<1>10. [[x.native EXCEPT !.timestamp = "later"] EXCEPT !.timestamp = Null]
         = [x.native EXCEPT !.timestamp = Null]
  OBVIOUS
<1>18. {"status", "reasons"} \subseteq DOMAIN r
  BY NormalizedFields
<1> HIDE DEF built, e, r, changed, later, forged, m
<1>11. out.read = Null <=> ~(r.eligible \/ IsMisread(x))
  BY <1>3, <1>4, <1>9, RefusedFor
<1>12. r.eligible \/ IsMisread(x) => out.read = "content"
  BY <1>3, <1>4, <1>9, RefusedFor
<1>13. x.asked /= x.source => out.moved /= Null
  BY <1>3, <1>4, RefusedFor
<1>14. [x.changed EXCEPT !.timestamp = Null] /= [x.native EXCEPT !.timestamp = Null]
         => out.altered /= Null
  <2>1. IdentityPayload(changed.evidence) = [native |-> [x.changed EXCEPT !.timestamp = Null], normalized |-> r]
    BY <1>5 DEF IdentityPayload
  <2>2. changed.identity = [native |-> [x.native EXCEPT !.timestamp = Null], normalized |-> r]
    BY <1>5, <1>8
  <2>3. DocumentRefusal(x.stage, changed, x.source) = Null
          => changed.identity = IdentityPayload(changed.evidence)
    BY RefusedFor
  <2> QED
    BY <1>4, <2>1, <2>2, <2>3
<1>15. out.restamped = out.read
  <2>1. /\ later.kind = x.stage /\ later.source = x.source
        /\ later.evidence = [native |-> [x.native EXCEPT !.timestamp = "later"], normalized |-> r]
        /\ later.identity = IdentityPayload(e)
    BY <1>6
  <2>2. later.identity = IdentityPayload(later.evidence)
    BY <2>1, <1>8, <1>10 DEF IdentityPayload
  <2>3. StageHolds(x.stage, later.evidence) <=> StageHolds(x.stage, e)
    BY <2>1, <1>9
  <2>4. out.restamped = Null <=> StageHolds(x.stage, e)
    BY <1>4, <2>1, <2>2, <2>3, RefusedFor
  <2>5. ~StageHolds(x.stage, e) => out.restamped = "content"
    BY <1>4, <2>1, <2>3, RefusedFor
  <2> QED
    BY <1>9, <1>11, <1>12, <2>4, <2>5
<1>16. out.forged = Null =>
         \A k \in DOMAIN x.forge \cap {"status", "reasons"} : x.forge[k] = r[k]
  <2>0. {"status", "reasons"} \subseteq DOMAIN r /\ m = [k \in DOMAIN r |-> IF k \in DOMAIN x.forge THEN x.forge[k] ELSE r[k]]
    BY <1>18 DEF m
  <2> SUFFICES ASSUME out.forged = Null, NEW k \in DOMAIN x.forge \cap {"status", "reasons"}
               PROVE  x.forge[k] = r[k]
    OBVIOUS
  <2>1. StageHolds(x.stage, [native |-> x.native, normalized |-> m])
    BY <1>4, <1>7, RefusedFor
  <2>2. m.status = r.status /\ m.reasons = r.reasons
    BY <2>1, <1>9
  <2>3. m[k] = x.forge[k]
    BY <2>0
  <2>4. m[k] = r[k]
    BY <2>2
  <2> QED
    BY <2>3, <2>4
<1>17. out.built.evidence.normalized = r
  BY <1>1, <1>3
<1> QED
  BY <1>11, <1>12, <1>13, <1>14, <1>15, <1>16, <1>17

-----------------------------------------------------------------------------
(* The lockbox gate *)

\* A sequence of at most one element, and its elements.
LEMMA SingleSequence ==
    /\ IsSequence(<<>>) /\ Range(<<>>) = {}
    /\ \A x : IsSequence(<<x>>) /\ Range(<<x>>) = {x}
<1>1. \A x : Range(<<x>>) = {x}
  BY DEF Range
<1>2. Range(<<>>) = {}
  BY DEF Range
<1>3. \A x : <<x>> \in Seq({x})
  OBVIOUS
<1> QED
  BY <1>1, <1>2, <1>3 DEF IsSequence

\* One sequence after another is a sequence of the elements of both.
LEMMA ConcatSequence ==
    ASSUME NEW a, NEW b, IsSequence(a), IsSequence(b)
    PROVE  IsSequence(a \o b) /\ Range(a \o b) = Range(a) \cup Range(b)
<1> DEFINE S == Range(a)
           T == Range(b)
<1>0. a \in Seq(S) /\ b \in Seq(T)
  BY DEF IsSequence
<1> HIDE DEF S, T
<1>1. a \in Seq(S \cup T) /\ b \in Seq(S \cup T)
  BY <1>0
<1>2. DOMAIN (a \o b) = 1..(Len(a) + Len(b))
  BY <1>0
<1>3. \A i \in 1..Len(a) : i \in DOMAIN (a \o b) /\ (a \o b)[i] = a[i]
  BY <1>0
<1>4. \A i \in 1..Len(b) : Len(a) + i \in DOMAIN (a \o b) /\ (a \o b)[Len(a) + i] = b[i]
  BY <1>0
<1>5. Range(a) \cup Range(b) \subseteq Range(a \o b)
  <2>1. DOMAIN a = 1..Len(a) /\ DOMAIN b = 1..Len(b)
    BY <1>0
  <2>2. Range(a) \subseteq Range(a \o b)
    BY <1>3, <2>1, Zenon DEF Range
  <2>3. Range(b) \subseteq Range(a \o b)
    BY <1>4, <2>1, Zenon DEF Range
  <2> QED
    BY <2>2, <2>3
<1>6. ASSUME NEW i \in DOMAIN (a \o b) PROVE (a \o b)[i] \in Range(a) \cup Range(b)
  <2>1. CASE i <= Len(a)
    BY <2>1, <1>2, <1>3 DEF Range
  <2>2. CASE i > Len(a)
    <3>1. i - Len(a) \in 1..Len(b) /\ i = Len(a) + (i - Len(a))
      BY <2>2, <1>2
    <3>2. (a \o b)[i] = b[i - Len(a)]
      BY <3>1, <1>4
    <3> QED
      BY <3>1, <3>2 DEF Range
  <2> QED
    BY <2>1, <2>2, <1>2
<1>7. Range(a \o b) \subseteq Range(a) \cup Range(b)
  BY <1>6 DEF Range
<1>8. a \o b \in Seq(S \cup T)
  BY <1>1
<1> QED
  BY <1>5, <1>7, <1>8 DEF IsSequence, S, T

\* The reasons of a stage are a sequence.
LEMMA StageStatusReasons ==
    ASSUME NEW stage, NEW n, IsSequence(n.reasons)
    PROVE  LET r == StageStatus(stage, n)
           IN  IsSequence([i \in DOMAIN r.reasons |-> <<r.status, r.reasons[i][2]>>])
<1> DEFINE r == StageStatus(stage, n)
           listed == [i \in DOMAIN r.reasons |-> <<r.status, r.reasons[i][2]>>]
<1>1. PICK k \in Nat : DOMAIN n.reasons = 1..k
  BY DEF IsSequence
<1>2. r.reasons = <<>> \/ DOMAIN r.reasons = 1..k
  BY <1>1 DEF StageStatus
<1>3. DOMAIN r.reasons = 1..0 \/ DOMAIN r.reasons = 1..k
  <2>1. DOMAIN <<>> = 1..0
    OBVIOUS
  <2> QED
    BY <1>2, <2>1
<1>4. PICK m \in Nat : DOMAIN listed = 1..m
  BY <1>1, <1>3
<1>5. listed \in [1..m -> Range(listed)]
  BY <1>4 DEF Range
<1> HIDE DEF listed
<1>6. IsSequence(listed)
  BY <1>4, <1>5 DEF IsSequence
<1> QED
  BY <1>6 DEF listed

\* So is every part of a gate.
LEMMA PartsAreSequences ==
    ASSUME NEW docs, AreDocuments(docs), NEW lock, NEW state
    PROVE  /\ IsSequence(StatePart(state))
           /\ IsSequence(LockPart(lock))
           /\ \A s \in StageNames : IsSequence(StagePart(docs, s))
           /\ IsSequence(LockAgreesPart(lock, docs["walk_forward"], docs["robustness"]))
<1>1. IsSequence(StatePart(state))
  BY SingleSequence DEF StatePart
<1>2. IsSequence(LockPart(lock))
  BY SingleSequence, ConcatSequence DEF LockPart
<1>3. ASSUME NEW s \in StageNames PROVE IsSequence(StagePart(docs, s))
  <2> DEFINE r == StageStatus(s, docs[s].evidence.normalized)
             listed == [i \in DOMAIN r.reasons |-> <<r.status, r.reasons[i][2]>>]
             first == IF LineageOf(docs[s]) = FirstLineage(docs) THEN <<>> ELSE << <<"invalid", s>> >>
  <2>1. CASE docs[s] = Null
    BY <2>1, SingleSequence DEF StagePart
  <2>2. CASE docs[s] # Null
    <3>1. StagePart(docs, s) = first \o listed
      BY <2>2 DEF StagePart
    <3>2. IsSequence(listed)
      BY <2>2, StageStatusReasons DEF AreDocuments, StageNames
    <3>3. IsSequence(first)
      BY SingleSequence
    <3> QED
      BY <3>1, <3>2, <3>3, ConcatSequence
  <2> QED
    BY <2>1, <2>2
<1>4. IsSequence(LockAgreesPart(lock, docs["walk_forward"], docs["robustness"]))
  BY SingleSequence, ConcatSequence DEF LockAgreesPart
<1> QED
  BY <1>1, <1>2, <1>3, <1>4

\* The gate lists the entries of its parts and no other.
LEMMA RangeOfGateParts ==
    ASSUME NEW docs, AreDocuments(docs), NEW lock, NEW state
    PROVE  Range(GateParts(docs, lock, state)) =
             Range(StatePart(state)) \cup Range(LockPart(lock))
             \cup Range(StagePart(docs, "walk_forward")) \cup Range(StagePart(docs, "monte_carlo"))
             \cup Range(StagePart(docs, "robustness"))
             \cup Range(LockAgreesPart(lock, docs["walk_forward"], docs["robustness"]))
<1> DEFINE a == StatePart(state)
           b == LockPart(lock)
           c == StagePart(docs, "walk_forward")
           d == StagePart(docs, "monte_carlo")
           e == StagePart(docs, "robustness")
           f == LockAgreesPart(lock, docs["walk_forward"], docs["robustness"])
<1>1. IsSequence(a) /\ IsSequence(b) /\ IsSequence(c) /\ IsSequence(d) /\ IsSequence(e) /\ IsSequence(f)
  BY PartsAreSequences DEF StageNames
<1>2. GateParts(docs, lock, state) = a \o b \o c \o d \o e \o f
  BY DEF GateParts
<1> HIDE DEF a, b, c, d, e, f
<1>3. IsSequence(a \o b) /\ Range(a \o b) = Range(a) \cup Range(b)
  BY <1>1, ConcatSequence
<1>4. IsSequence(a \o b \o c) /\ Range(a \o b \o c) = Range(a \o b) \cup Range(c)
  BY <1>1, <1>3, ConcatSequence
<1>5. IsSequence(a \o b \o c \o d) /\ Range(a \o b \o c \o d) = Range(a \o b \o c) \cup Range(d)
  BY <1>1, <1>4, ConcatSequence
<1>6. IsSequence(a \o b \o c \o d \o e) /\ Range(a \o b \o c \o d \o e) = Range(a \o b \o c \o d) \cup Range(e)
  BY <1>1, <1>5, ConcatSequence
<1>7. Range(a \o b \o c \o d \o e \o f) = Range(a \o b \o c \o d \o e) \cup Range(f)
  BY <1>1, <1>6, ConcatSequence
<1>8. Range(GateParts(docs, lock, state))
        = Range(a) \cup Range(b) \cup Range(c) \cup Range(d) \cup Range(e) \cup Range(f)
  BY <1>2, <1>3, <1>4, <1>5, <1>6, <1>7
<1> QED
  BY <1>8 DEF a, b, c, d, e, f

\* A gate that passed: protected data, a lock that passed, three documents of one
\* lineage, and a lock that names what the robustness evidence tested.
LEMMA GatePassed ==
    ASSUME NEW docs, AreDocuments(docs), NEW lock, NEW state,
           EvaluateGate(docs, lock, state).status = "passed"
    PROVE  /\ state = "gated" /\ EvaluateGate(docs, lock, state).state = "gated"
           /\ EvaluateGate(docs, lock, state).executable
           /\ lock # Null /\ lock.status = "passed"
           /\ \A s \in StageNames : docs[s] # Null /\ LineageOf(docs[s]) = FirstLineage(docs)
           /\ \A k \in LockKeys : lock[k] = docs["robustness"].evidence.native.config[k]
<1> DEFINE known == IF state \in States THEN state ELSE "invalid"
           parts == GateParts(docs, lock, known)
           robust == docs["robustness"]
           agrees == LockAgreesPart(lock, docs["walk_forward"], robust)
<1>1. ResultStatus({p[1] : p \in Range(parts)}) = "passed"
  BY DEF EvaluateGate
<1>2. \A p \in Range(parts) : p[1] \notin {"invalid", "failed", "insufficient_evidence"}
  BY <1>1 DEF ResultStatus
<1> DEFINE Passes(part) == \A p \in Range(part) : p[1] \notin {"invalid", "failed", "insufficient_evidence"}
<1>3. /\ Passes(StatePart(known)) /\ Passes(LockPart(lock)) /\ Passes(agrees)
      /\ \A s \in StageNames : Passes(StagePart(docs, s))
  BY <1>2, RangeOfGateParts DEF StageNames
<1>4. \A a, b : Range(<< <<a, b>> >>) = {<<a, b>>}
  BY SingleSequence
<1>5. state = "gated" /\ known = "gated"
  <2>1. StatePart(known) # << <<"failed", "spent">> >> /\ StatePart(known) # << <<"invalid", "not_gated">> >>
        /\ StatePart(known) # << <<"failed", "not_gated">> >>
    BY <1>3, <1>4
  <2> HIDE DEF known
  <2>2. known = "gated"
    BY <2>1 DEF StatePart
  <2> QED
    BY <2>2 DEF known
<1>6. lock # Null
  BY <1>3, <1>4 DEF LockPart
<1>7. lock.status = "passed" /\ lock.setting # Null
  <2> DEFINE status == IF lock.status = "passed" THEN <<>> ELSE << <<MapNativeStatus(lock.status), "lock">> >>
             fields == IF lock.setting = Null THEN << <<"invalid", "no_setting">> >>
                       ELSE IF lock.artifact = Null THEN << <<"invalid", "no_artifact">> >>
                       ELSE IF lock.id = Null THEN << <<"invalid", "no_lock_id">> >>
                       ELSE <<>>
  <2>1. LockPart(lock) = status \o fields
    BY <1>6 DEF LockPart
  <2>2. IsSequence(status) /\ IsSequence(fields)
    BY SingleSequence
  <2>3. Range(LockPart(lock)) = Range(status) \cup Range(fields)
    BY <2>1, <2>2, ConcatSequence
  <2>4. \A p \in Range(status) \cup Range(fields) : p[1] \notin {"invalid", "failed", "insufficient_evidence"}
    BY <1>3, <2>3
  <2>5. lock.status # "passed" => <<MapNativeStatus(lock.status), "lock">> \in Range(status)
    BY <1>4
  <2>6. lock.status # "passed" => MapNativeStatus(lock.status) \in {"invalid", "failed", "insufficient_evidence"}
    BY DEF MapNativeStatus, NativeStatuses
  <2>7. lock.setting = Null => <<"invalid", "no_setting">> \in Range(fields)
    BY <1>4
  <2> QED
    BY <2>4, <2>5, <2>6, <2>7
<1>8. ASSUME NEW s \in StageNames PROVE docs[s] # Null /\ LineageOf(docs[s]) = FirstLineage(docs)
  <2>1. docs[s] # Null
    <3>1. docs[s] = Null => Range(StagePart(docs, s)) = {<<"insufficient_evidence", s>>}
      BY <1>4 DEF StagePart
    <3>2. <<"insufficient_evidence", s>>[1] = "insufficient_evidence"
      OBVIOUS
    <3> QED
      BY <3>1, <3>2, <1>3
  <2> DEFINE r == StageStatus(s, docs[s].evidence.normalized)
             listed == [i \in DOMAIN r.reasons |-> <<r.status, r.reasons[i][2]>>]
             first == IF LineageOf(docs[s]) = FirstLineage(docs) THEN <<>> ELSE << <<"invalid", s>> >>
  <2>2. StagePart(docs, s) = first \o listed
    BY <2>1 DEF StagePart
  <2>3. IsSequence(listed)
    BY <2>1, StageStatusReasons DEF AreDocuments, StageNames
  <2>4. IsSequence(first)
    BY SingleSequence
  <2> HIDE DEF first, listed
  <2>5. Range(first) \subseteq Range(StagePart(docs, s))
    BY <2>2, <2>3, <2>4, ConcatSequence
  <2>6. LineageOf(docs[s]) # FirstLineage(docs) => <<"invalid", s>> \in Range(first)
    BY <1>4 DEF first
  <2>7. <<"invalid", s>>[1] = "invalid"
    OBVIOUS
  <2> QED
    BY <1>3, <2>1, <2>5, <2>6, <2>7
<1>9. \A k \in LockKeys : lock[k] = robust.evidence.native.config[k]
  <2> DEFINE differ == {k \in LockKeys : lock[k] # robust.evidence.native.config[k]}
             first == IF robust # Null /\ differ # {} THEN << <<"invalid", "lock_differs">> >> ELSE <<>>
             unlocked == \E f \in Range(docs["walk_forward"].evidence.native.folds) :
                             f.status = "successful" /\ f.setting # Null /\ f.lock = Null
             second == IF docs["walk_forward"] # Null /\ unlocked
                       THEN << <<"invalid", "fold_lock">> >> ELSE <<>>
  <2>1. agrees = first \o second
    BY <1>6, <1>7 DEF LockAgreesPart
  <2>2. IsSequence(first) /\ IsSequence(second)
    BY SingleSequence
  <2>3. Range(first) \subseteq Range(agrees)
    BY <2>1, <2>2, ConcatSequence
  <2>4. robust # Null
    BY <1>8 DEF StageNames
  <2>5. differ # {} => <<"invalid", "lock_differs">> \in Range(first)
    BY <1>4, <2>4
  <2>6. <<"invalid", "lock_differs">>[1] = "invalid"
    OBVIOUS
  <2> HIDE DEF first, agrees
  <2>7. differ = {}
    BY <1>3, <2>3, <2>5, <2>6
  <2> QED
    BY <2>7
<1>10. EvaluateGate(docs, lock, state).state = known /\ EvaluateGate(docs, lock, state).executable
  BY <1>5 DEF EvaluateGate
<1> QED
  BY <1>5, <1>6, <1>7, <1>8, <1>9, <1>10

\* What a gate that may be executed rests on.
RestsOn(gate, docs, lock) ==
    gate.executable =>
        /\ gate.state = "gated" /\ lock.status = "passed"
        /\ \A s \in DOMAIN docs : docs[s] /= Null
        /\ Cardinality({[k \in LineageKeys |-> docs[s].source[k]] : s \in DOMAIN docs}) = 1
        /\ \A k \in LockKeys : lock[k] = docs["robustness"].evidence.native.config[k]

\* A gate may be executed only on what it rests on.
LEMMA ExecutableGate ==
    ASSUME NEW docs, AreDocuments(docs), NEW lock, NEW state
    PROVE  RestsOn(EvaluateGate(docs, lock, state), docs, lock)
<1> SUFFICES ASSUME EvaluateGate(docs, lock, state).executable
             PROVE  /\ EvaluateGate(docs, lock, state).state = "gated" /\ lock.status = "passed"
                    /\ \A s \in DOMAIN docs : docs[s] /= Null
                    /\ Cardinality({LineageOf(docs[s]) : s \in DOMAIN docs}) = 1
                    /\ \A k \in LockKeys : lock[k] = docs["robustness"].evidence.native.config[k]
  BY DEF RestsOn, LineageOf
<1>1. EvaluateGate(docs, lock, state).status = "passed"
  BY DEF EvaluateGate
<1>2. DOMAIN docs = StageNames
  BY DEF AreDocuments, StageNames
<1>3. \A s \in DOMAIN docs : docs[s] # Null /\ LineageOf(docs[s]) = FirstLineage(docs)
  BY <1>1, <1>2, GatePassed
<1>4. {LineageOf(docs[s]) : s \in DOMAIN docs} = {FirstLineage(docs)}
  BY <1>2, <1>3 DEF StageNames
<1>5. Cardinality({FirstLineage(docs)}) = 1
  BY FS_Singleton
<1> QED
  BY <1>1, <1>3, <1>4, <1>5, GatePassed

\* A gate never progresses by itself, and names what it was made on.
LEMMA GateFields ==
    ASSUME NEW docs, NEW lock, NEW state
    PROVE  LET gate == EvaluateGate(docs, lock, state)
           IN  /\ gate.eligible = FALSE
               /\ gate.references = GateReferences(docs, lock)
  BY DEF EvaluateGate

\* The gate names its lock once.
LEMMA OneLockReference ==
    ASSUME NEW docs, NEW lock, lock # Null
    PROVE  {r \in GateReferences(docs, lock) : r[1] = "out_of_sample"}
             = {<<"out_of_sample", lock.artifact, Null>>}
<1> DEFINE staged == {<<Stages[i], docs[Stages[i]].kind, docs[Stages[i]].identity>> : i \in Present(docs)}
           ours == <<"out_of_sample", lock.artifact, Null>>
<1>1. Present(docs) \subseteq 1..3
  BY DEF Present, Where, Stages
<1>2. \A i \in 1..3 : Stages[i] \in StageNames
  BY DEF Stages, StageNames
<1>3. \A r \in staged : r[1] \in StageNames
  BY <1>1, <1>2
<1>4. "out_of_sample" \notin StageNames
  BY DEF StageNames
<1>5. GateReferences(docs, lock) = {ours} \cup staged
  BY DEF GateReferences
<1>6. ours[1] = "out_of_sample"
  OBVIOUS
<1> HIDE DEF staged, ours
<1>7. {r \in GateReferences(docs, lock) : r[1] = "out_of_sample"} = {ours}
  BY <1>3, <1>4, <1>5, <1>6
<1> QED
  BY <1>7 DEF ours

\* A decision that was made on a gate with a lock and reviewed is read back beside that gate;
\* what is read back was made on the gate and for the source of the reading.
LEMMA DecisionIsRead ==
    ASSUME NEW x, IsReviewCase(x)
    PROVE  LET gate == EvaluateGate(x.docs, x.lock, x.state)
               now == EvaluateGate(x.later.docs, x.later.lock, x.later.state)
               decision == BuildDecision("run", x.source, gate, x.review, x.audit)
           IN  /\ x.lock # Null /\ x.review.reason # "" =>
                     DecisionRefusal(decision, "run", x.source, gate) = Null
               /\ DecisionRefusal(decision, "run", x.later.source, now) = Null =>
                     now = gate /\ x.later.source = x.source
<1> DEFINE source == x.source
           review == x.review
           audit == x.audit
           lock == x.lock
           docs == x.docs
           gate == EvaluateGate(x.docs, x.lock, x.state)
           now == EvaluateGate(x.later.docs, x.later.lock, x.later.state)
           expected == x.later.source
           blank == [source |-> source, gate |-> gate, review |-> review, audit |-> audit, identity |-> Null]
           d == [blank EXCEPT !.identity = DecisionIdentity(blank)]
           decision == BuildDecision("run", source, gate, review, audit)
<1>0. /\ source.run = "run" /\ review.target = "run" /\ review.reviewer # ""
      /\ \A k \in {"target", "state", "reason", "reviewer"} : audit[k] = review[k]
  BY DEF IsReviewCase
<1>1. gate.eligible = FALSE /\ gate.references = GateReferences(docs, lock)
  BY GateFields
<1>2. decision = d
  BY <1>0, <1>1 DEF BuildDecision
<1>3. /\ d.source = source /\ d.gate = gate /\ d.review = review /\ d.audit = audit
      /\ d.identity = DecisionIdentity(d)
  BY DEF DecisionIdentity
<1> HIDE DEF source, review, audit, lock, docs, gate, now, expected, blank, d, decision
<1>4. ASSUME lock # Null, review.reason # ""
      PROVE  DecisionRefusal(decision, "run", source, gate) = Null
  <2> DEFINE ours == <<"out_of_sample", lock.artifact, Null>>
  <2>1. {r \in GateReferences(docs, lock) : r[1] = "out_of_sample"} = {ours}
    BY <1>4, OneLockReference
  <2>2. ours[3] = Null
    OBVIOUS
  <2> HIDE DEF ours
  <2>5. d.gate.references = GateReferences(docs, lock)
    BY <1>1, <1>3, Zenon
  <2>3. Cardinality({ours}) = 1 /\ \A r \in {ours} : r[3] = Null
    BY <2>2, FS_Singleton
  <2>4. "" \notin {d.review.reason, d.review.reviewer}
    BY <1>0, <1>3, <1>4
  <2> QED
    BY <1>0, <1>1, <1>2, <1>3, <2>1, <2>3, <2>4, <2>5 DEF DecisionRefusal
<1>5. ASSUME DecisionRefusal(decision, "run", expected, now) = Null PROVE now = gate /\ expected = source
  <2>1. d.gate = now /\ d.source = expected
    BY <1>0, <1>2, <1>5, RefusalAssumption DEF DecisionRefusal, Refusals
  <2> QED
    BY <1>3, <2>1
<1> QED
  BY <1>4, <1>5 DEF source, review, audit, lock, docs, gate, now, expected, decision

\* A context that was persisted says so, and stands on a gate that passed.
LEMMA ContextPersisted ==
    ASSUME NEW docs, AreDocuments(docs), NEW lock, NEW runs, NEW state, NEW created,
           NEW configuration, NEW source,
           IsReadable(PersistContext("run", lock, runs, state, created, docs, configuration, source))
    PROVE  LET c == PersistContext("run", lock, runs, state, created, docs, configuration, source)
           IN  /\ c.target = "run" /\ c.lock = lock /\ c.runs = runs /\ c.state = state
               /\ c.identity = ContextIdentity(c)
               /\ state = "gated"
               /\ lock # Null /\ lock.status = "passed"
               /\ \A s \in DOMAIN docs : docs[s] # Null
               /\ CompatibleWithTarget(docs, lock, configuration, source)
               /\ EvaluateGate(docs, lock, state).status = "passed"
<1> DEFINE c == PersistContext("run", lock, runs, state, created, docs, configuration, source)
           blank == [target |-> "run", lock |-> lock, runs |-> runs, state |-> state,
                     created |-> created, identity |-> Null]
           stamped == [blank EXCEPT !.identity = ContextIdentity(blank)]
<1>1. \A why : ~IsReadable(Unreadable(why))
  BY DEF IsReadable, Unreadable
<1>2. /\ lock # Null /\ lock.status = "passed"
      /\ \A s \in DOMAIN docs : docs[s] # Null
      /\ CompatibleWithTarget(docs, lock, configuration, source)
      /\ EvaluateGate(docs, lock, state).status = "passed"
      /\ c = BuildContext("run", lock, runs, state, created)
  BY <1>1 DEF PersistContext
<1>3. state = "gated"
  BY <1>2, GatePassed
<1>4. c = stamped
  BY <1>2, <1>3 DEF BuildContext
<1>5. /\ stamped.target = "run" /\ stamped.lock = lock /\ stamped.runs = runs /\ stamped.state = state
      /\ stamped.identity = ContextIdentity(stamped)
  BY DEF ContextIdentity
<1> QED
  BY <1>2, <1>3, <1>4, <1>5

\* A persisted context read back beside the evidence it was persisted with is the gate of
\* that evidence.
LEMMA ContextIsRead ==
    ASSUME NEW docs, AreDocuments(docs), NEW lock, NEW runs, Null \notin Range(runs), NEW state,
           NEW created, NEW configuration, NEW source,
           IsReadable(PersistContext("run", lock, runs, state, created, docs, configuration, source))
    PROVE  EvaluateContext(PersistContext("run", lock, runs, state, created, docs, configuration, source),
                           "run", lock, docs, configuration, source)
             = EvaluateGate(docs, lock, state)
<1> DEFINE c == PersistContext("run", lock, runs, state, created, docs, configuration, source)
<1>1. /\ c.target = "run" /\ c.lock = lock /\ c.runs = runs /\ c.state = state
      /\ c.identity = ContextIdentity(c)
      /\ state = "gated"
      /\ lock # Null /\ lock.status = "passed"
      /\ \A s \in DOMAIN docs : docs[s] # Null
      /\ CompatibleWithTarget(docs, lock, configuration, source)
      /\ EvaluateGate(docs, lock, state).status = "passed"
  BY ContextPersisted
<1> HIDE DEF c
<1>2. ContextRefusal(c, "run") = Null
  BY <1>1 DEF ContextRefusal
<1>3. EvaluateContext(c, "run", lock, docs, configuration, source) = EvaluateGate(docs, lock, state)
  BY <1>1, <1>2 DEF EvaluateContext
<1> QED
  BY <1>3 DEF c

\* A context that is believed names the lock it is read beside, and the gate passes.
LEMMA ContextIsBelieved ==
    ASSUME NEW c, NEW docs, AreDocuments(docs), NEW lock, NEW configuration, NEW source,
           IsReadable(EvaluateContext(c, "run", lock, docs, configuration, source))
    PROVE  /\ lock = c.lock
           /\ EvaluateContext(c, "run", lock, docs, configuration, source).executable
<1>1. \A why : ~IsReadable(Unreadable(why))
  BY DEF IsReadable, Unreadable
<1>2. /\ lock = c.lock
      /\ EvaluateContext(c, "run", lock, docs, configuration, source) = EvaluateGate(docs, lock, c.state)
      /\ EvaluateGate(docs, lock, c.state).status = "passed"
  BY <1>1 DEF EvaluateContext
<1> QED
  BY <1>2, GatePassed

\* A gate rests on complete evidence, a decision is read back beside the gate it was made on
\* and no other, and a context is believed only while its lock is unchanged and the gate passes.
LEMMA ReviewIsRevalidated ==
    ASSUME NEW x, IsReviewCase(x)
    PROVE  LET r == Review(x)
           IN  /\ RestsOn(r.gate, x.docs, x.lock)
               /\ RestsOn(r.now, x.later.docs, x.later.lock)
               /\ x.lock # Null /\ x.review.reason # "" => r.read = Null
               /\ r.reread = Null => r.now = r.gate /\ x.later.source = x.source
               /\ IsReadable(r.context) => r.evaluated = r.gate
               /\ IsReadable(r.later) => x.later.lock = x.lock /\ r.later.executable
<1> DEFINE r == Review(x)
           gate == EvaluateGate(x.docs, x.lock, x.state)
           now == EvaluateGate(x.later.docs, x.later.lock, x.later.state)
           decision == BuildDecision("run", x.source, gate, x.review, x.audit)
           c == PersistContext("run", x.lock, x.runs, x.state, 1, x.docs, x.configuration, x.source)
           here == EvaluateContext(c, "run", x.lock, x.docs, x.configuration, x.source)
           later == EvaluateContext(c, "run", x.later.lock, x.later.docs, x.configuration, x.later.source)
<1>1. /\ r.gate = gate /\ r.now = now /\ r.context = c
      /\ r.read = DecisionRefusal(decision, "run", x.source, gate)
      /\ r.reread = DecisionRefusal(decision, "run", x.later.source, now)
      /\ r.evaluated = IF IsReadable(c) THEN here ELSE c
      /\ r.later = IF IsReadable(c) THEN later ELSE c
  BY DEF Review
<1>2. AreDocuments(x.docs) /\ AreDocuments(x.later.docs) /\ Null \notin Range(x.runs)
  BY DEF IsReviewCase
<1>3. RestsOn(gate, x.docs, x.lock) /\ RestsOn(now, x.later.docs, x.later.lock)
  BY <1>2, ExecutableGate
<1>4. /\ x.lock # Null /\ x.review.reason # "" => DecisionRefusal(decision, "run", x.source, gate) = Null
      /\ DecisionRefusal(decision, "run", x.later.source, now) = Null => now = gate /\ x.later.source = x.source
  BY DecisionIsRead
<1>5. IsReadable(c) => here = gate
  BY <1>2, ContextIsRead
<1>6. IsReadable(c) => c.lock = x.lock
  BY <1>2, ContextPersisted
<1>7. IsReadable(later) => x.later.lock = c.lock /\ later.executable
  BY <1>2, ContextIsBelieved
<1> HIDE DEF r, gate, now, decision, c, here, later
<1>8. /\ RestsOn(r.gate, x.docs, x.lock)
      /\ RestsOn(r.now, x.later.docs, x.later.lock)
      /\ x.lock # Null /\ x.review.reason # "" => r.read = Null
      /\ r.reread = Null => r.now = r.gate /\ x.later.source = x.source
      /\ IsReadable(r.context) => r.evaluated = r.gate
      /\ IsReadable(r.later) => x.later.lock = x.lock /\ r.later.executable
  BY <1>1, <1>3, <1>4, <1>5, <1>6, <1>7, Zenon
<1> QED
  BY <1>8 DEF r

-----------------------------------------------------------------------------
(* Cuts between sessions *)

\* The rows of an ordered history, and their numbers.
LEMMA InOrderRows ==
    ASSUME NEW s, InOrder(s)
    PROVE  /\ Len(s) \in Nat /\ DOMAIN s = 1..Len(s)
           /\ \A i \in 1..Len(s) : s[i] \in Int
           /\ \A i, j \in 1..Len(s) : i <= j => s[i] <= s[j]
  BY DEF InOrder, IsSequence

\* The rows up to a value are the first so many, and end where the value does.
LEMMA RowsUpToValue ==
    ASSUME NEW s, InOrder(s), NEW v \in Int
    PROVE  LET d == Cardinality({i \in DOMAIN s : s[i] <= v})
           IN  d \in 0..Len(s) /\ \A i \in 1..Len(s) : i <= d <=> s[i] <= v
<1> DEFINE D == {i \in DOMAIN s : s[i] <= v}
<1>1. /\ Len(s) \in Nat /\ DOMAIN s = 1..Len(s)
      /\ \A i \in 1..Len(s) : s[i] \in Int
      /\ \A i, j \in 1..Len(s) : i <= j => s[i] <= s[j]
  BY InOrderRows
<1>2. D \in SUBSET (1..Len(s)) /\ \A i \in D : \A j \in 1..Len(s) : j <= i => j \in D
  BY <1>1
<1>3. Cardinality(D) \in 0..Len(s) /\ D = 1..Cardinality(D)
  BY <1>1, <1>2, FirstPositions
<1>4. \A i \in 1..Len(s) : i \in D <=> s[i] <= v
  BY <1>1
<1> HIDE DEF D
<1>5. \A i \in 1..Len(s) : i <= Cardinality(D) <=> s[i] <= v
  BY <1>3, <1>4
<1> QED
  BY <1>3, <1>5 DEF D

\* So are the rows below a value.
LEMMA RowsBelowValue ==
    ASSUME NEW s, InOrder(s), NEW v \in Int
    PROVE  LET d == Cardinality({i \in DOMAIN s : s[i] < v})
           IN  d \in 0..Len(s) /\ \A i \in 1..Len(s) : i <= d <=> s[i] < v
<1> DEFINE D == {i \in DOMAIN s : s[i] < v}
<1>1. /\ Len(s) \in Nat /\ DOMAIN s = 1..Len(s)
      /\ \A i \in 1..Len(s) : s[i] \in Int
      /\ \A i, j \in 1..Len(s) : i <= j => s[i] <= s[j]
  BY InOrderRows
<1>2. D \in SUBSET (1..Len(s)) /\ \A i \in D : \A j \in 1..Len(s) : j <= i => j \in D
  BY <1>1
<1>3. Cardinality(D) \in 0..Len(s) /\ D = 1..Cardinality(D)
  BY <1>1, <1>2, FirstPositions
<1>4. \A i \in 1..Len(s) : i \in D <=> s[i] < v
  BY <1>1
<1> HIDE DEF D
<1>5. \A i \in 1..Len(s) : i <= Cardinality(D) <=> s[i] < v
  BY <1>3, <1>4
<1> QED
  BY <1>3, <1>5 DEF D

\* A cut: no row, every row, or between two sessions.
IsCut(s, d) == d \in 0..Len(s) /\ (0 < d /\ d < Len(s) => s[d] < s[d + 1])

\* A cut is moved forward to the end of the session it falls into.
LEMMA DayStartCuts ==
    ASSUME NEW s, InOrder(s), NEW p \in Nat, p <= Len(s)
    PROVE  /\ IsCut(s, DayStart(s, p)) /\ p <= DayStart(s, p)
           /\ \A i \in 1..Len(s) : p <= i /\ i <= DayStart(s, p) => s[i] = s[p] \/ p = 0
           /\ p = Len(s) => DayStart(s, p) = p
           /\ IsCut(s, p) => DayStart(s, p) = p
<1> DEFINE d == DayStart(s, p)
<1>1. /\ Len(s) \in Nat /\ DOMAIN s = 1..Len(s)
      /\ \A i \in 1..Len(s) : s[i] \in Int
      /\ \A i, j \in 1..Len(s) : i <= j => s[i] <= s[j]
  BY InOrderRows
<1>2. CASE p = 0 \/ p = Len(s)
  <2>0. p <= 0 \/ p >= Len(s)
    <3>1. Len(s) \in Nat
      BY <1>1
    <3> QED
      BY <3>1, <1>2
  <2>1. d = p
    BY <2>0, Zenon DEF DayStart
  <2> HIDE DEF d
  <2>2. IsCut(s, d) /\ p <= d /\ d = p
    <3>0. Len(s) \in Nat
      BY <1>1
    <3>1. p \in 0..Len(s) /\ ~(0 < p /\ p < Len(s)) /\ p <= p
      BY <3>0, <1>2
    <3> QED
      BY <2>1, <3>1, Zenon DEF IsCut
  <2> QED
    BY <2>1, <2>2, <1>1 DEF d
<1>3. CASE 0 < p /\ p < Len(s)
  <2>0. p \in 1..Len(s) /\ s[p] \in Int
    BY <1>1, <1>3
  <2>1. d = Cardinality({i \in DOMAIN s : s[i] <= s[p]})
    BY <1>1, <1>3 DEF DayStart
  <2> HIDE DEF d
  <2>2. d \in 0..Len(s) /\ \A i \in 1..Len(s) : i <= d <=> s[i] <= s[p]
    BY <2>0, <2>1, RowsUpToValue
  <2>3. p <= d
    BY <2>0, <2>2, <1>1
  <2>4. d < Len(s) => s[d] < s[d + 1]
    <3> SUFFICES ASSUME d < Len(s) PROVE s[d] < s[d + 1]
      OBVIOUS
    <3>1. d \in 1..Len(s) /\ d + 1 \in 1..Len(s)
      BY <2>0, <2>2, <2>3, <1>1
    <3>2. s[d] <= s[p] /\ ~(s[d + 1] <= s[p])
      BY <3>1, <2>2
    <3> QED
      BY <3>1, <3>2, <2>0, <1>1
  <2>5. \A i \in 1..Len(s) : p <= i /\ i <= d => s[i] = s[p]
    BY <2>0, <2>2, <1>1
  <2>6. IsCut(s, p) => d = p
    <3> SUFFICES ASSUME IsCut(s, p), d # p PROVE FALSE
      OBVIOUS
    <3>1. p + 1 \in 1..Len(s) /\ p + 1 <= d
      BY <1>1, <1>3, <2>2, <2>3
    <3>2. s[p + 1] = s[p]
      BY <3>1, <2>5
    <3> QED
      BY <3>2, <1>3, <2>0 DEF IsCut
  <2>7. IsCut(s, d)
    BY <2>2, <2>4, Zenon DEF IsCut
  <2>8. p # Len(s)
    <3>1. Len(s) \in Nat
      BY <1>1
    <3> QED
      BY <3>1, <1>3
  <2>9. /\ IsCut(s, d) /\ p <= d
        /\ \A i \in 1..Len(s) : p <= i /\ i <= d => s[i] = s[p] \/ p = 0
        /\ p = Len(s) => d = p
        /\ IsCut(s, p) => d = p
    BY <2>3, <2>5, <2>6, <2>7, <2>8, Zenon
  <2> QED
    BY <2>9 DEF d
<1>4. (p = 0 \/ p = Len(s)) \/ (0 < p /\ p < Len(s))
  <2>1. Len(s) \in Nat
    BY <1>1
  <2> QED
    BY <2>1
<1> QED
  BY <1>2, <1>3, <1>4, Zenon

\* The session that a row is in starts at a cut before it.
LEMMA SessionFloorCuts ==
    ASSUME NEW s, InOrder(s), NEW p \in Nat, p < Len(s)
    PROVE  /\ IsCut(s, SessionFloor(s, p)) /\ SessionFloor(s, p) <= p
           /\ \A i \in 1..Len(s) : SessionFloor(s, p) < i /\ i <= p + 1 => s[i] = s[p + 1]
<1> DEFINE d == SessionFloor(s, p)
<1>1. /\ Len(s) \in Nat /\ DOMAIN s = 1..Len(s)
      /\ \A i \in 1..Len(s) : s[i] \in Int
      /\ \A i, j \in 1..Len(s) : i <= j => s[i] <= s[j]
  BY InOrderRows
<1>2. p + 1 \in 1..Len(s) /\ s[p + 1] \in Int
  BY <1>1
<1>3. d = Cardinality({i \in DOMAIN s : s[i] < s[p + 1]})
  BY DEF SessionFloor
<1> HIDE DEF d
<1>4. d \in 0..Len(s) /\ \A i \in 1..Len(s) : i <= d <=> s[i] < s[p + 1]
  BY <1>2, <1>3, RowsBelowValue
<1>5. d <= p
  BY <1>2, <1>4, <1>1
<1>6. 0 < d => s[d] < s[d + 1]
  <2> SUFFICES ASSUME 0 < d PROVE s[d] < s[d + 1]
    OBVIOUS
  <2>1. d \in 1..Len(s) /\ d + 1 \in 1..Len(s) /\ ~(d + 1 <= d)
    BY <1>1, <1>4, <1>5
  <2>2. s[d] < s[p + 1] /\ ~(s[d + 1] < s[p + 1])
    BY <2>1, <1>4
  <2> QED
    BY <2>1, <2>2, <1>1, <1>2
<1>7. \A i \in 1..Len(s) : d < i /\ i <= p + 1 => s[i] = s[p + 1]
  BY <1>1, <1>2, <1>4
<1> QED
  BY <1>4, <1>5, <1>6, <1>7 DEF IsCut, d

\* Rows of one session are no more than the longest session has, and one where every
\* row is a session of its own.
LEMMA RowsOfOneSession ==
    ASSUME NEW s, InOrder(s), NEW a \in 1..Len(s), NEW b \in 1..Len(s), a <= b,
           \A i \in 1..Len(s) : a <= i /\ i <= b => s[i] = s[a]
    PROVE  /\ IsInjective(s) => a = b
           /\ ~IsInjective(s) => /\ LongestSession(s) \in Nat
                                 /\ b - a + 1 <= LongestSession(s)
<1>1. /\ Len(s) \in Nat /\ DOMAIN s = 1..Len(s)
  BY InOrderRows
<1>2. IsInjective(s) => a = b
  BY <1>1 DEF IsInjective
<1>3. ASSUME ~IsInjective(s) PROVE LongestSession(s) \in Nat /\ b - a + 1 <= LongestSession(s)
  <2> DEFINE Of(v) == {i \in DOMAIN s : s[i] = v}
             Size(v) == Cardinality(Of(v))
             sizes == {Size(v) : v \in Range(s)}
  <2>5. LongestSession(s) = Max(sizes)
    BY <1>3 DEF LongestSession, Where
  <2> HIDE DEF sizes
  <2>1. \A v : Of(v) = {i \in 1..Len(s) : s[i] = v}
    BY <1>1
  <2>2. IsFiniteSet(1..Len(s)) /\ Cardinality(1..Len(s)) <= Len(s)
    BY <1>1, FS_Interval
  <2>3. \A v : Size(v) \in 0..Len(s)
    <3> TAKE v
    <3> DEFINE W == Of(v)
    <3>0. W = {i \in 1..Len(s) : s[i] = v}
      BY <2>1
    <3> HIDE DEF W
    <3>1. W \in SUBSET (1..Len(s))
      BY <3>0
    <3>2. Cardinality(W) <= Cardinality(1..Len(s)) /\ IsFiniteSet(W)
      BY <3>1, <2>2, FS_Subset
    <3>3. Cardinality(W) \in Nat /\ Cardinality(1..Len(s)) \in Nat
      BY <3>2, <2>2, FS_CardinalityType
    <3>4. Cardinality(W) \in 0..Len(s)
      BY <3>2, <3>3, <2>2, <1>1
    <3> QED
      BY <3>4 DEF W
  <2>4. s[a] \in Range(s) /\ Size(s[a]) \in sizes
    BY <1>1 DEF Range, sizes
  <2>6. a..b \in SUBSET {i \in 1..Len(s) : s[i] = s[a]}
    BY <1>1
  <2>7. IsFiniteSet({i \in 1..Len(s) : s[i] = s[a]})
    BY <2>2, FS_Subset
  <2>8. Cardinality(a..b) <= Size(s[a])
    BY <2>1, <2>6, <2>7, FS_Subset
  <2> HIDE DEF Of
  <2>9. Cardinality(a..b) = b - a + 1
    <3>1. Cardinality(a..b) = IF a > b THEN 0 ELSE b - a + 1
      BY <1>1, FS_Interval
    <3> QED
      BY <3>1, <1>1
  <2> HIDE DEF Size
  <2>10. Size(s[a]) \in 0..Len(s) /\ sizes \in SUBSET (0..Len(s)) /\ sizes # {}
    BY <2>3, <2>4 DEF sizes
  <2>11. Max(sizes) \in sizes /\ \A k \in sizes : k <= Max(sizes)
    <3>1. Len(s) \in Nat
      BY <1>1
    <3> QED
      BY <2>10, <3>1, GreatestNumber, Zenon
  <2> DEFINE m == Max(sizes)
  <2> HIDE DEF m
  <2>12. m \in Nat /\ Size(s[a]) <= m
    <3>1. m \in sizes /\ \A k \in sizes : k <= m
      BY <2>11 DEF m
    <3> QED
      BY <3>1, <2>4, <2>10
  <2> QED
    BY <2>5, <2>8, <2>9, <2>10, <2>12 DEF m
<1> QED
  BY <1>2, <1>3

\* A part that a cut moved within one session is as long as was declared, give or take
\* less than a session.
LEMMA SizeFits ==
    ASSUME NEW s, InOrder(s), NEW a \in 1..Len(s), NEW b \in 1..Len(s), a <= b,
           \A i \in 1..Len(s) : a <= i /\ i <= b => s[i] = s[a],
           NEW declared \in Nat, NEW actual \in Int, actual = declared + (b - a),
           NEW open \in BOOLEAN
    PROVE  SizeWithin(actual, declared, LongestSession(s), open)
<1>1. Len(s) \in Nat
  BY InOrderRows
<1>2. /\ IsInjective(s) => a = b
      /\ ~IsInjective(s) => /\ LongestSession(s) \in Nat
                            /\ b - a + 1 <= LongestSession(s)
  BY RowsOfOneSession
<1>3. CASE IsInjective(s)
  <2>1. LongestSession(s) = Null
    BY <1>3 DEF LongestSession
  <2>2. actual = declared
    BY <1>1, <1>2, <1>3
  <2> QED
    BY <2>1, <2>2 DEF SizeWithin
<1>4. CASE ~IsInjective(s)
  <2>1. LongestSession(s) \in Nat /\ b - a + 1 <= LongestSession(s) /\ LongestSession(s) # Null
    BY <1>2, <1>4, NullAssumption
  <2>2. declared <= actual /\ actual < declared + LongestSession(s)
    BY <1>1, <2>1
  <2> QED
    BY <2>1, <2>2 DEF SizeWithin
<1> QED
  BY <1>3, <1>4

\* The greater of two numbers.
LEMMA MaxOfTwo ==
    ASSUME NEW a \in Int, NEW b \in Int
    PROVE  Max({a, b}) \in {a, b} /\ a <= Max({a, b}) /\ b <= Max({a, b})
<1>1. \E m \in {a, b} : \A k \in {a, b} : m >= k
  <2>1. CASE a >= b
    BY <2>1
  <2>2. CASE ~(a >= b)
    BY <2>2
  <2> QED
    BY <2>1, <2>2
<1>2. Max({a, b}) \in {a, b} /\ \A k \in {a, b} : Max({a, b}) >= k
  BY <1>1, Zenon DEF Max
<1> DEFINE m == Max({a, b})
<1>3. m \in {a, b} /\ \A k \in {a, b} : m >= k
  BY <1>2
<1> HIDE DEF m
<1>4. m \in {a, b} /\ a <= m /\ b <= m
  BY <1>3
<1> QED
  BY <1>4 DEF m

-----------------------------------------------------------------------------
(* The windows of a walk-forward run *)

\* A configuration of windows that the program accepts.
AcceptedWindows(c) ==
    /\ WalkForwardConfigHolds(c)
    /\ {c.training, c.selection, c.test, c.step, c.minimum} \subseteq Nat

\* The rows of a window: three parts of the history without a gap, cut between sessions.
WindowIsCut(s, c, w) ==
    LET before == IF c.selection = 0 THEN w.train ELSE w.selection
    IN  /\ w.train.first \in 1..Len(s) /\ w.train.last \in 1..Len(s)
        /\ w.train.first <= w.train.last
        /\ w.test.first \in 1..Len(s) /\ w.test.last \in 1..Len(s)
        /\ w.test.first <= w.test.last
        /\ c.selection = 0 => w.selection = Null
        /\ c.selection # 0 => /\ w.selection # Null
                              /\ w.selection.first \in 1..Len(s) /\ w.selection.last \in 1..Len(s)
                              /\ w.selection.first <= w.selection.last
                              /\ w.selection.first = w.train.last + 1
                              /\ s[w.train.last] < s[w.selection.first]
        /\ w.test.first = before.last + 1
        /\ s[before.last] < s[w.test.first]

\* The sizes of its parts.
WindowFits(s, c, w) ==
    /\ c.mode = "rolling" \/ LongestSession(s) /= Null =>
           SizeWithin(Rows(w.train), c.training, LongestSession(s), c.mode = "expanding")
    /\ w.selection /= Null => SizeWithin(Rows(w.selection), c.selection, LongestSession(s), FALSE)
    /\ \/ SizeWithin(Rows(w.test), c.test, LongestSession(s), FALSE)
       \/ c.final = "include" /\ w.test.last = Len(s)

\* What one round of the loop cuts off the history that is left.
LEMMA NextWindowIsClean ==
    ASSUME NEW s, InOrder(s), NEW c, AcceptedWindows(c), NEW raw \in Nat, c.training <= raw,
           ~NextWindow(s, c, raw).done
    PROVE  LET r == NextWindow(s, c, raw)
           IN  /\ r.raw \in Nat /\ c.training <= r.raw
               /\ raw + c.selection < r.window.test.first
               /\ r.window.test.last <= r.raw + c.selection
               /\ WindowIsCut(s, c, r.window)
               /\ WindowFits(s, c, r.window)
<1> DEFINE n == Len(s)
           cursor == DayStart(s, raw)
           selected == DayStart(s, cursor + c.selection)
           requested == selected + c.test
           partial == requested > n
           end == IF partial THEN n ELSE DayStart(s, requested)
           start == IF c.mode = "expanding" THEN 0 ELSE SessionFloor(s, cursor - c.training)
           next == Max({cursor + c.step, end - c.selection})
           w == [train |-> [first |-> start + 1, last |-> cursor],
                 selection |-> IF c.selection = 0 THEN Null
                               ELSE [first |-> cursor + 1, last |-> selected],
                 test |-> [first |-> selected + 1, last |-> end]]
           r == NextWindow(s, c, raw)
<1>1. /\ r = [done |-> FALSE, window |-> w, raw |-> next]
      /\ ~(cursor + c.selection >= n)
      /\ ~(partial /\ (c.final = "drop" \/ end - selected < c.minimum))
  BY DEF NextWindow
<1>2. /\ c.training \in Nat /\ c.selection \in Nat /\ c.test \in Nat /\ c.step \in Nat
      /\ c.minimum \in Nat /\ c.training >= 1 /\ c.test >= 1 /\ c.step >= 1 /\ c.minimum >= 1
      /\ c.mode \in {"rolling", "expanding"} /\ c.final \in {"drop", "include"}
  BY DEF AcceptedWindows, WalkForwardConfigHolds
<1>3. n \in Nat
  BY InOrderRows
<1>4. r.raw = next /\ r.window = w
  BY <1>1
<1>5. raw < n
  <2> SUFFICES ASSUME raw >= n PROVE FALSE
    BY <1>3
  <2>1. cursor = raw
    BY DEF DayStart
  <2> HIDE DEF cursor
  <2> QED
    BY <1>1, <1>2, <1>3, <2>1
<1> HIDE DEF r, next, w, start, end, partial
<1>6. /\ IsCut(s, cursor) /\ raw <= cursor /\ cursor \in Nat /\ cursor <= n
  <2>1. IsCut(s, cursor) /\ raw <= cursor
    BY <1>3, <1>5, DayStartCuts
  <2> HIDE DEF cursor
  <2> QED
    BY <2>1, <1>3 DEF IsCut
<1>7. cursor >= 1 /\ cursor < n /\ cursor + c.selection \in Nat /\ cursor + c.selection < n
  <2> HIDE DEF cursor
  <2> QED
    BY <1>1, <1>2, <1>3, <1>6
<1> HIDE DEF cursor
<1>8. /\ IsCut(s, selected) /\ cursor + c.selection <= selected
      /\ \A i \in 1..n : cursor + c.selection <= i /\ i <= selected => s[i] = s[cursor + c.selection]
      /\ c.selection = 0 => selected = cursor
  <2>1. c.selection = 0 => cursor + c.selection = cursor
    BY <1>2, <1>6
  <2>2. cursor + c.selection # 0
    BY <1>2, <1>6, <1>7
  <2> QED
    BY <1>3, <1>6, <1>7, <2>1, <2>2, DayStartCuts
<1> HIDE DEF selected
<1>9. selected \in Nat /\ selected <= n
  BY <1>3, <1>8 DEF IsCut
<1>10. /\ end \in Nat /\ selected < end /\ end <= n
       /\ partial => c.final = "include" /\ end = n
       /\ ~partial => /\ requested \in 1..n /\ requested <= end
                      /\ \A i \in 1..n : requested <= i /\ i <= end => s[i] = s[requested]
  <2>1. CASE partial
    <3>1. end = n
      BY <2>1 DEF end
    <3> QED
      BY <1>1, <1>2, <1>3, <1>9, <2>1, <3>1
  <2>2. CASE ~partial
    <3>1. requested \in 1..n /\ requested \in Nat
      BY <1>2, <1>3, <1>9, <2>2 DEF partial
    <3>2. end = DayStart(s, requested)
      BY <2>2 DEF end
    <3> HIDE DEF requested
    <3>3. /\ IsCut(s, end) /\ requested <= end
          /\ \A i \in 1..n : requested <= i /\ i <= end => s[i] = s[requested]
      BY <1>3, <3>1, <3>2, DayStartCuts
    <3>4. end \in 0..n
      BY <3>3 DEF IsCut
    <3>5. selected < requested
      BY <1>2, <1>9 DEF requested
    <3> QED
      BY <1>3, <1>9, <2>2, <3>1, <3>3, <3>4, <3>5
  <2> QED
    BY <2>1, <2>2
<1>11. /\ start \in Nat /\ start < cursor
       /\ c.mode = "expanding" => start = 0
       /\ c.mode # "expanding" =>
             /\ cursor - c.training \in Nat /\ start <= cursor - c.training
             /\ \A i \in 1..n : start < i /\ i <= cursor - c.training + 1
                                  => s[i] = s[cursor - c.training + 1]
  <2>1. CASE c.mode = "expanding"
    BY <2>1, <1>6, <1>7 DEF start
  <2>2. CASE c.mode # "expanding"
    <3> DEFINE p == cursor - c.training
    <3>1. p \in Nat /\ p < n /\ p < cursor
      BY <1>2, <1>3, <1>6, <1>7
    <3>2. start = SessionFloor(s, p)
      BY <2>2 DEF start
    <3> HIDE DEF p
    <3>3. /\ IsCut(s, start) /\ start <= p
          /\ \A i \in 1..n : start < i /\ i <= p + 1 => s[i] = s[p + 1]
      BY <1>3, <3>1, <3>2, SessionFloorCuts
    <3>4. start \in Nat /\ start < cursor
      BY <1>3, <1>6, <3>1, <3>3 DEF IsCut
    <3> QED
      BY <2>2, <3>1, <3>3, <3>4 DEF p
  <2> QED
    BY <2>1, <2>2
<1>12. /\ next \in Nat /\ cursor + c.step <= next /\ end <= next + c.selection
  <2>1. cursor + c.step \in Int /\ end - c.selection \in Int
    BY <1>2, <1>6, <1>10
  <2>2. next \in {cursor + c.step, end - c.selection} /\ cursor + c.step <= next /\ end - c.selection <= next
    BY <2>1, MaxOfTwo DEF next
  <2> QED
    BY <1>2, <1>6, <1>10, <2>2
<1>13. /\ w.train.first = start + 1 /\ w.train.last = cursor
       /\ w.test.first = selected + 1 /\ w.test.last = end
       /\ w.selection = IF c.selection = 0 THEN Null ELSE [first |-> cursor + 1, last |-> selected]
  BY DEF w
<1>14. WindowIsCut(s, c, w)
  <2>1. s[cursor] < s[cursor + 1]
    BY <1>3, <1>6, <1>7 DEF IsCut
  <2>2. s[selected] < s[selected + 1]
    <3>1. 0 < selected /\ selected < n
      BY <1>2, <1>3, <1>6, <1>7, <1>8, <1>9, <1>10
    <3> QED
      BY <3>1, <1>8 DEF IsCut
  <2>3. /\ start + 1 \in 1..n /\ cursor \in 1..n /\ start + 1 <= cursor
        /\ selected + 1 \in 1..n /\ end \in 1..n /\ selected + 1 <= end
    BY <1>3, <1>6, <1>7, <1>9, <1>10, <1>11
  <2>4. c.selection # 0 => /\ w.selection # Null
                           /\ w.selection.first = cursor + 1 /\ w.selection.last = selected
                           /\ cursor + 1 \in 1..n /\ selected \in 1..n /\ cursor + 1 <= selected
    BY <1>2, <1>3, <1>6, <1>7, <1>8, <1>9, <1>13, NullAssumption
  <2>5. CASE c.selection = 0
    BY <1>8, <1>13, <2>1, <2>3, <2>5 DEF WindowIsCut
  <2>6. CASE c.selection # 0
    BY <1>13, <2>1, <2>2, <2>3, <2>4, <2>6 DEF WindowIsCut
  <2> QED
    BY <2>5, <2>6
<1>15. WindowFits(s, c, w)
  <2>1. c.mode = "rolling" \/ LongestSession(s) /= Null =>
          SizeWithin(Rows(w.train), c.training, LongestSession(s), c.mode = "expanding")
    <3>1. Rows(w.train) = cursor - start /\ Rows(w.train) \in Int
      BY <1>6, <1>11, <1>13 DEF Rows
    <3>2. CASE c.mode = "expanding"
      <4>1. c.training <= Rows(w.train)
        BY <1>2, <1>6, <1>11, <3>1, <3>2
      <4> QED
        BY <3>2, <4>1 DEF SizeWithin
    <3>3. CASE c.mode # "expanding"
      <4> DEFINE a == start + 1
                 b == cursor - c.training + 1
      <4>1. a \in 1..n /\ b \in 1..n /\ a <= b /\ Rows(w.train) = c.training + (b - a)
        <5>1. start \in Nat /\ cursor - c.training \in Nat /\ start <= cursor - c.training
          BY <1>11, <3>3
        <5>2. cursor \in Nat /\ cursor < n /\ c.training \in Nat /\ c.training >= 1
          BY <1>2, <1>6, <1>7
        <5>3. a \in 1..n /\ b \in 1..n /\ a <= b
          BY <1>3, <5>1, <5>2
        <5>4. \A x, y, t \in Int : x - y = t + ((x - t + 1) - (y + 1))
          OBVIOUS
        <5>6. cursor \in Int /\ start \in Int /\ c.training \in Int
          BY <5>1, <5>2
        <5>5. cursor - start = c.training + (b - a)
          BY <5>4, <5>6, Zenon
        <5> QED
          BY <3>1, <5>3, <5>5, Zenon
      <4>2. \A i \in 1..n : a <= i /\ i <= b => s[i] = s[b]
        BY <1>11, <3>3
      <4> HIDE DEF a, b
      <4>3. \A i \in 1..n : a <= i /\ i <= b => s[i] = s[a]
        BY <1>3, <4>1, <4>2
      <4>4. SizeWithin(Rows(w.train), c.training, LongestSession(s), FALSE)
        BY <1>2, <3>1, <4>1, <4>3, SizeFits
      <4> QED
        BY <3>3, <4>4
    <3> QED
      BY <3>2, <3>3
  <2>2. w.selection /= Null => SizeWithin(Rows(w.selection), c.selection, LongestSession(s), FALSE)
    <3> SUFFICES ASSUME w.selection /= Null
                 PROVE  SizeWithin(Rows(w.selection), c.selection, LongestSession(s), FALSE)
      OBVIOUS
    <3> DEFINE a == cursor + c.selection
    <3>1. w.selection = [first |-> cursor + 1, last |-> selected]
      BY <1>13, Zenon
    <3>2. Rows(w.selection) = c.selection + (selected - a) /\ Rows(w.selection) \in Int
      <4>1. w.selection.first = cursor + 1 /\ w.selection.last = selected
        BY <3>1
      <4>2. Rows(w.selection) = selected - (cursor + 1) + 1
        BY <4>1 DEF Rows
      <4> QED
        BY <1>2, <1>6, <1>9, <4>2
    <3>3. a \in 1..n /\ selected \in 1..n /\ a <= selected
      BY <1>2, <1>3, <1>6, <1>7, <1>8, <1>9
    <3>4. \A i \in 1..n : a <= i /\ i <= selected => s[i] = s[a]
      BY <1>8
    <3> HIDE DEF a
    <3> QED
      BY <1>2, <3>2, <3>3, <3>4, SizeFits
  <2>3. \/ SizeWithin(Rows(w.test), c.test, LongestSession(s), FALSE)
        \/ c.final = "include" /\ w.test.last = Len(s)
    <3>1. CASE partial
      BY <3>1, <1>10, <1>13
    <3>2. CASE ~partial
      <4>1. Rows(w.test) = c.test + (end - requested) /\ Rows(w.test) \in Int
        BY <1>2, <1>9, <1>10, <1>13 DEF Rows
      <4>2. /\ requested \in 1..n /\ end \in 1..n /\ requested <= end
            /\ \A i \in 1..n : requested <= i /\ i <= end => s[i] = s[requested]
        BY <1>3, <1>10, <3>2
      <4> HIDE DEF requested
      <4> QED
        BY <1>2, <4>1, <4>2, SizeFits
    <3> QED
      BY <3>1, <3>2
  <2> QED
    BY <2>1, <2>2, <2>3 DEF WindowFits
<1>16. /\ next \in Nat /\ c.training <= next
       /\ raw + c.selection < w.test.first
       /\ w.test.last <= next + c.selection
  BY <1>2, <1>6, <1>8, <1>9, <1>12, <1>13
<1> QED
  BY <1>4, <1>14, <1>15, <1>16 DEF r

\* The state of the loop before its first round.
FirstRound(c) == [done |-> FALSE, raw |-> c.training, windows |-> <<>>]

\* The rounds of the loop, by their recursion.
AreRounds(f, s, c, n) ==
    f = [k \in 0..n |-> IF k = 0 THEN FirstRound(c) ELSE NextFold(s, c, f[k - 1])]

\* The rounds of the loop, one after the other.
LEMMA RoundsAt ==
    ASSUME NEW f, NEW s, NEW c, NEW n \in Nat, AreRounds(f, s, c, n)
    PROVE  /\ f[0] = FirstRound(c)
           /\ \A k \in 1..n : f[k] = NextFold(s, c, f[k - 1])
<1> DEFINE E(k) == IF k = 0 THEN FirstRound(c) ELSE NextFold(s, c, f[k - 1])
<1>1. f = [k \in 0..n |-> E(k)]
  BY DEF AreRounds
<1> HIDE DEF E
<1>2. \A k \in 0..n : f[k] = E(k)
  BY <1>1
<1>3. 0 \in 0..n /\ \A k \in 1..n : k \in 0..n /\ k # 0
  OBVIOUS
<1> QED
  BY <1>2, <1>3 DEF E

\* There are rounds, as many as are asked for.
LEMMA RoundsExist ==
    ASSUME NEW s, NEW c, NEW n \in Nat
    PROVE  \E f : AreRounds(f, s, c, n)
<1> DEFINE A == {m \in Nat : \E f : AreRounds(f, s, c, m)}
<1>1. 0 \in A
  <2>1. AreRounds([k \in 0..0 |-> FirstRound(c)], s, c, 0)
    BY DEF AreRounds
  <2> QED
    BY <2>1
<1>2. ASSUME NEW m \in Nat, m \in A PROVE m + 1 \in A
  <2>1. PICK f : AreRounds(f, s, c, m)
    BY <1>2
  <2> DEFINE g == [k \in 0..(m + 1) |-> IF k = m + 1 THEN NextFold(s, c, f[m]) ELSE f[k]]
  <2>2. ASSUME NEW k \in 0..(m + 1)
        PROVE  g[k] = IF k = 0 THEN FirstRound(c) ELSE NextFold(s, c, g[k - 1])
    <3>1. CASE k = m + 1
      <4>1. k # 0 /\ k - 1 = m /\ m \in 0..(m + 1) /\ m # m + 1
        BY <3>1
      <4>2. g[k] = NextFold(s, c, f[m]) /\ g[k - 1] = f[m]
        BY <3>1, <4>1
      <4> QED
        BY <4>1, <4>2
    <3>2. CASE k = 0
      <4>1. g[k] = f[0]
        BY <3>2
      <4> QED
        BY <2>1, <3>2, <4>1, RoundsAt
    <3>3. CASE k \in 1..m
      <4>1. k # 0 /\ k # m + 1 /\ k - 1 # m + 1 /\ k - 1 \in 0..(m + 1)
        BY <3>3
      <4>2. g[k] = f[k] /\ g[k - 1] = f[k - 1]
        BY <4>1
      <4> QED
        BY <2>1, <3>3, <4>1, <4>2, RoundsAt
    <3> QED
      BY <3>1, <3>2, <3>3
  <2>3. AreRounds(g, s, c, m + 1)
    <3> HIDE DEF g
    <3>1. g = [k \in 0..(m + 1) |-> g[k]]
      BY DEF g
    <3> QED
      BY <2>2, <3>1 DEF AreRounds
  <2> QED
    BY <2>3
<1> HIDE DEF A
<1>3. n \in A
  BY <1>1, <1>2, SetInduction
<1> QED
  BY <1>3 DEF A

\* A sequence with one element more.
LEMMA AppendedSequence ==
    ASSUME NEW q, IsSequence(q), NEW x
    PROVE  /\ IsSequence(Append(q, x)) /\ Len(q) \in Nat /\ Len(Append(q, x)) = Len(q) + 1
           /\ DOMAIN q = 1..Len(q) /\ DOMAIN Append(q, x) = 1..(Len(q) + 1)
           /\ \A i \in 1..Len(q) : Append(q, x)[i] = q[i]
           /\ Append(q, x)[Len(q) + 1] = x
<1> DEFINE S == Range(q)
           r == Append(q, x)
<1>1. q \in Seq(S)
  BY DEF IsSequence
<1> HIDE DEF S
<1>2. q \in Seq(S \cup {x})
  BY <1>1
<1>3. /\ r \in Seq(S \cup {x}) /\ Len(q) \in Nat /\ Len(r) = Len(q) + 1
      /\ DOMAIN q = 1..Len(q) /\ DOMAIN r = 1..(Len(q) + 1)
      /\ \A i \in 1..Len(q) : r[i] = q[i]
      /\ r[Len(q) + 1] = x
  BY <1>2
<1> HIDE DEF r
<1>4. r \in [1..(Len(q) + 1) -> Range(r)]
  <2>1. DOMAIN r = 1..(Len(q) + 1) /\ r = [i \in DOMAIN r |-> r[i]]
    BY <1>3
  <2> QED
    BY <2>1 DEF Range
<1>5. IsSequence(r)
  <2>1. Len(q) + 1 \in Nat
    BY <1>3
  <2> QED
    BY <2>1, <1>4 DEF IsSequence
<1> QED
  BY <1>3, <1>5 DEF r

\* What holds of the windows that were built so far and of the history that is left.
BuiltSoFar(s, c, b) ==
    /\ b.raw \in Nat /\ c.training <= b.raw
    /\ IsSequence(b.windows)
    /\ \A k \in DOMAIN b.windows : WindowIsCut(s, c, b.windows[k]) /\ WindowFits(s, c, b.windows[k])
    /\ \A k \in 1..(Len(b.windows) - 1) : b.windows[k].test.last < b.windows[k + 1].test.first
    /\ Len(b.windows) # 0 => b.windows[Len(b.windows)].test.last <= b.raw + c.selection

\* It holds before the first round.
LEMMA FirstRoundBuilt ==
    ASSUME NEW s, NEW c, AcceptedWindows(c)
    PROVE  BuiltSoFar(s, c, FirstRound(c))
<1>1. FirstRound(c).raw = c.training /\ FirstRound(c).windows = <<>>
  BY DEF FirstRound
<1>2. <<>> \in Seq({}) /\ DOMAIN <<>> = {} /\ Len(<<>>) = 0 /\ Range(<<>>) = {}
  BY DEF Range
<1>3. c.training \in Nat
  BY DEF AcceptedWindows
<1>4. 1..(0 - 1) = {}
  OBVIOUS
<1> HIDE DEF FirstRound
<1> QED
  BY <1>1, <1>2, <1>3, <1>4 DEF BuiltSoFar, IsSequence

\* A round keeps it.
LEMMA NextRoundBuilt ==
    ASSUME NEW s, InOrder(s), NEW c, AcceptedWindows(c), NEW b, BuiltSoFar(s, c, b)
    PROVE  BuiltSoFar(s, c, NextFold(s, c, b))
<1> DEFINE r == NextWindow(s, c, b.raw)
           w == r.window
           q == b.windows
           next == NextFold(s, c, b)
<1>1. CASE b.done
  BY <1>1 DEF NextFold
<1>2. CASE ~b.done /\ r.done
  <2>1. next = [b EXCEPT !.done = TRUE]
    BY <1>2 DEF NextFold
  <2>2. next.raw = b.raw /\ next.windows = b.windows
    BY <2>1
  <2> HIDE DEF next
  <2>3. BuiltSoFar(s, c, next)
    BY <2>2 DEF BuiltSoFar
  <2> QED
    BY <2>3 DEF next
<1>3. CASE ~b.done /\ ~r.done
  <2>1. next.raw = r.raw /\ next.windows = Append(q, w)
    BY <1>3 DEF NextFold
  <2>2. /\ b.raw \in Nat /\ c.training <= b.raw /\ IsSequence(q)
        /\ \A k \in DOMAIN q : WindowIsCut(s, c, q[k]) /\ WindowFits(s, c, q[k])
        /\ \A k \in 1..(Len(q) - 1) : q[k].test.last < q[k + 1].test.first
        /\ Len(q) # 0 => q[Len(q)].test.last <= b.raw + c.selection
    BY DEF BuiltSoFar
  <2>3. /\ r.raw \in Nat /\ c.training <= r.raw
        /\ b.raw + c.selection < w.test.first
        /\ w.test.last <= r.raw + c.selection
        /\ WindowIsCut(s, c, w) /\ WindowFits(s, c, w)
    BY <1>3, <2>2, NextWindowIsClean
  <2>4. /\ IsSequence(Append(q, w)) /\ Len(q) \in Nat /\ Len(Append(q, w)) = Len(q) + 1
        /\ DOMAIN q = 1..Len(q) /\ DOMAIN Append(q, w) = 1..(Len(q) + 1)
        /\ \A i \in 1..Len(q) : Append(q, w)[i] = q[i]
        /\ Append(q, w)[Len(q) + 1] = w
    BY <2>2, AppendedSequence
  <2>5. c.selection \in Nat
    BY DEF AcceptedWindows
  <2>6. Len(s) \in Nat
    BY InOrderRows
  <2> DEFINE a == Append(q, w)
             n == Len(q)
  <2>7. \A k \in 1..n : WindowIsCut(s, c, q[k]) /\ WindowFits(s, c, q[k])
    BY <2>2, <2>4
  <2> HIDE DEF q, w, r, a, n
  <2>8. \A k \in 1..(n + 1) : WindowIsCut(s, c, a[k]) /\ WindowFits(s, c, a[k])
    <3> TAKE k \in 1..(n + 1)
    <3>1. n \in Nat
      BY <2>4 DEF n
    <3>2. k \in 1..n \/ k = n + 1
      BY <3>1
    <3>3. k \in 1..n => a[k] = q[k]
      BY <2>4 DEF a, n
    <3>4. a[n + 1] = w
      BY <2>4 DEF a, n
    <3> QED
      BY <2>3, <2>7, <3>2, <3>3, <3>4
  <2>9. \A k \in 1..n : a[k].test.last < a[k + 1].test.first
    <3> TAKE k \in 1..n
    <3>1. n \in Nat /\ a[k] = q[k] /\ a[n + 1] = w
      BY <2>4 DEF a, n
    <3>2. CASE k = n
      <4>1. q[n].test.last <= b.raw + c.selection
        BY <2>2, <3>1, <3>2 DEF n
      <4>2. q[n].test.last \in Int /\ w.test.first \in Int
        <5>1. WindowIsCut(s, c, q[n]) /\ WindowIsCut(s, c, w)
          BY <2>3, <2>7, <3>2
        <5>2. q[n].test.last \in 1..Len(s) /\ w.test.first \in 1..Len(s)
          BY <5>1 DEF WindowIsCut
        <5> QED
          BY <2>6, <5>2
      <4>3. b.raw \in Nat
        BY <2>2
      <4>4. q[n].test.last < w.test.first
        BY <2>3, <2>5, <4>1, <4>2, <4>3
      <4> QED
        BY <3>1, <3>2, <4>4
    <3>3. CASE k # n
      <4>1. k \in 1..(n - 1) /\ k + 1 \in 1..n
        BY <3>1, <3>3
      <4>2. a[k + 1] = q[k + 1]
        BY <2>4, <4>1 DEF a, n
      <4>3. q[k].test.last < q[k + 1].test.first
        BY <2>2, <4>1 DEF n
      <4> QED
        BY <3>1, <4>2, <4>3
    <3> QED
      BY <3>2, <3>3
  <2>10. a[n + 1].test.last <= r.raw + c.selection
    BY <2>3, <2>4 DEF a, n
  <2>11. IsSequence(a) /\ n \in Nat /\ Len(a) = n + 1 /\ DOMAIN a = 1..(n + 1) /\ (n + 1) - 1 = n
    BY <2>4 DEF a, n
  <2>12. next.raw = r.raw /\ next.windows = a
    BY <2>1 DEF a
  <2> HIDE DEF next
  <2>13. BuiltSoFar(s, c, next)
    BY <2>3, <2>8, <2>9, <2>10, <2>11, <2>12 DEF BuiltSoFar
  <2> QED
    BY <2>13 DEF next
<1> QED
  BY <1>1, <1>2, <1>3

\* The windows of a walk-forward run are cut between sessions, have their sizes and never
\* test a row twice, whatever the history and the accepted configuration.
LEMMA FoldWindowsAreClean ==
    ASSUME NEW s, InOrder(s), NEW c, AcceptedWindows(c)
    PROVE  LET w == FoldWindows(s, c)
           IN  /\ IsSequence(w)
               /\ \A k \in DOMAIN w : WindowIsCut(s, c, w[k]) /\ WindowFits(s, c, w[k])
               /\ \A k \in 1..(Len(w) - 1) : w[k].test.last < w[k + 1].test.first
<1> DEFINE n == Len(s)
           f == CHOOSE f : AreRounds(f, s, c, n)
           A == {k \in Nat : k <= n => BuiltSoFar(s, c, f[k])}
<1>1. n \in Nat
  BY InOrderRows
<1>2. AreRounds(f, s, c, n)
  BY <1>1, RoundsExist
<1>3. FoldWindows(s, c) = f[n].windows
  BY DEF FoldWindows, AreRounds, FirstRound
<1> HIDE DEF f, n
<1>4. f[0] = FirstRound(c) /\ \A k \in 1..n : f[k] = NextFold(s, c, f[k - 1])
  BY <1>1, <1>2, RoundsAt
<1>5. 0 \in A
  BY <1>4, FirstRoundBuilt
<1>6. ASSUME NEW k \in Nat, k \in A PROVE k + 1 \in A
  <2> SUFFICES ASSUME k + 1 <= n PROVE BuiltSoFar(s, c, f[k + 1])
    OBVIOUS
  <2>1. k + 1 \in 1..n /\ k <= n /\ (k + 1) - 1 = k
    BY <1>1
  <2>2. BuiltSoFar(s, c, f[k])
    BY <1>6, <2>1
  <2>3. f[k + 1] = NextFold(s, c, f[k])
    BY <1>4, <2>1
  <2> QED
    BY <2>2, <2>3, NextRoundBuilt
<1>7. n \in A
  <2> HIDE DEF A
  <2> QED
    BY <1>1, <1>5, <1>6, SetInduction
<1>8. BuiltSoFar(s, c, f[n])
  BY <1>1, <1>7
<1> QED
  BY <1>3, <1>8 DEF BuiltSoFar

\* Rows that no splitter refuses are labelled in order, each differently.
LEMMA IndexIsSorted ==
    ASSUME NEW index, IsSequence(index), \A i \in DOMAIN index : index[i] \in Int,
           IndexRefusal(index) = Null
    PROVE  \A i, j \in DOMAIN index : i < j => index[i] < index[j]
<1> DEFINE n == Len(index)
           A == {d \in Nat : \A i \in 1..n : i + d <= n => index[i] <= index[i + d]}
<1>1. n \in Nat /\ DOMAIN index = 1..n
  BY DEF IsSequence
<1>2. /\ ~ \E i \in 1..(n - 1) : index[i] > index[i + 1]
      /\ IsInjective(index)
  BY NullAssumption DEF IndexRefusal
<1> HIDE DEF n
<1>3. \A i \in 1..n : index[i] \in Int
  BY <1>1
<1>4. \A i \in 1..(n - 1) : index[i] <= index[i + 1]
  <2> TAKE i \in 1..(n - 1)
  <2>1. i \in 1..n /\ i + 1 \in 1..n
    BY <1>1
  <2> QED
    BY <1>2, <1>3, <2>1
<1>5. 0 \in A
  BY <1>1, <1>3
<1>6. ASSUME NEW d \in Nat, d \in A PROVE d + 1 \in A
  <2> SUFFICES ASSUME NEW i \in 1..n, i + (d + 1) <= n PROVE index[i] <= index[i + (d + 1)]
    OBVIOUS
  <2>1. i + d \in 1..(n - 1) /\ i + d \in 1..n /\ i + d <= n /\ (i + d) + 1 = i + (d + 1)
        /\ (i + d) + 1 \in 1..n
    BY <1>1
  <2>2. index[i] <= index[i + d]
    BY <1>6, <2>1
  <2>3. index[i + d] <= index[(i + d) + 1]
    BY <1>4, <2>1
  <2>4. index[i] \in Int /\ index[i + d] \in Int /\ index[(i + d) + 1] \in Int
    BY <1>3, <2>1
  <2>5. index[i] <= index[(i + d) + 1]
    BY <2>2, <2>3, <2>4
  <2> QED
    BY <2>1, <2>5
<1>7. Nat \subseteq A
  <2> HIDE DEF A
  <2> QED
    BY <1>5, <1>6, SetInduction
<1>8. ASSUME NEW i \in 1..n, NEW j \in 1..n, i < j PROVE index[i] < index[j]
  <2>1. j - i \in Nat /\ i + (j - i) = j /\ i + (j - i) <= n /\ i # j
    BY <1>1, <1>8
  <2>2. index[i] <= index[i + (j - i)]
    BY <1>7, <2>1
  <2>3. index[i] # index[j]
    BY <1>1, <1>2, <2>1 DEF IsInjective
  <2> QED
    BY <1>3, <2>1, <2>2, <2>3
<1> QED
  BY <1>1, <1>8

\* Three parts without a gap, cut where a session ends, are clean.
LEMMA ThreePartsAreClean ==
    ASSUME NEW s, NEW w, w.selection # Null,
           w.selection.first = w.train.last + 1, s[w.train.last] < s[w.selection.first],
           w.test.first = w.selection.last + 1, s[w.selection.last] < s[w.test.first]
    PROVE  PartsAreClean(w, s)
<1> DEFINE parts == <<w.train, w.selection, w.test>>
<1>1. Len(parts) = 3 /\ parts[1] = w.train /\ parts[2] = w.selection /\ parts[3] = w.test
  OBVIOUS
<1> HIDE DEF parts
<1>2. \A i \in 1..(Len(parts) - 1) :
          /\ parts[i].last + 1 = parts[i + 1].first
          /\ SessionBoundaryHolds(s, parts[i].last, parts[i + 1].first)
  <2> TAKE i \in 1..(Len(parts) - 1)
  <2>1. i = 1 \/ i = 2
    BY <1>1
  <2>2. CASE i = 1
    BY <1>1, <2>2 DEF SessionBoundaryHolds
  <2>3. CASE i = 2
    BY <1>1, <2>3 DEF SessionBoundaryHolds
  <2> QED
    BY <2>1, <2>2, <2>3
<1> QED
  BY <1>2 DEF PartsAreClean, parts

\* The splitter's check of the order of a window never fires.
LEMMA WindowIsOrdered ==
    ASSUME NEW index, NEW s, InOrder(s), DOMAIN s = DOMAIN index,
           \A i, j \in DOMAIN index : i < j => index[i] < index[j],
           NEW c, NEW w, WindowIsCut(s, c, w)
    PROVE  Ordered(index, w) /\ PartsAreClean(w, s)
<1>1. Len(s) \in Nat /\ DOMAIN index = 1..Len(s)
  BY InOrderRows
<1>2. CASE c.selection = 0
  <2>1. /\ w.selection = Null /\ w.train.last \in 1..Len(s) /\ w.test.first \in 1..Len(s)
        /\ w.test.first = w.train.last + 1 /\ s[w.train.last] < s[w.test.first]
    BY <1>2 DEF WindowIsCut
  <2>2. w.train.last < w.test.first
    BY <1>1, <2>1
  <2>3. Ordered(index, w)
    BY <1>1, <2>1, <2>2 DEF Ordered
  <2>4. PartsAreClean(w, s)
    <3>1. Len(<<w.train, w.test>>) = 2
      OBVIOUS
    <3>2. \A i \in 1..(2 - 1) : i = 1
      OBVIOUS
    <3> QED
      BY <2>1, <3>1, <3>2 DEF PartsAreClean, SessionBoundaryHolds
  <2> QED
    BY <2>3, <2>4
<1>3. CASE c.selection # 0
  <2>1. /\ w.selection # Null /\ w.train.last \in 1..Len(s) /\ w.test.first \in 1..Len(s)
        /\ w.selection.first \in 1..Len(s) /\ w.selection.last \in 1..Len(s)
        /\ w.selection.first <= w.selection.last
        /\ w.selection.first = w.train.last + 1 /\ s[w.train.last] < s[w.selection.first]
        /\ w.test.first = w.selection.last + 1 /\ s[w.selection.last] < s[w.test.first]
    BY <1>3 DEF WindowIsCut
  <2>2. w.train.last < w.selection.first /\ w.selection.first < w.test.first
    BY <1>1, <2>1
  <2>3. Ordered(index, w)
    BY <1>1, <2>1, <2>2 DEF Ordered
  <2>4. PartsAreClean(w, s)
    BY <2>1, ThreePartsAreClean
  <2> QED
    BY <2>3, <2>4
<1> QED
  BY <1>2, <1>3

\* So what the splitter returns is what it built, and it refuses only rows it cannot split.
LEMMA WindowsAreBuilt ==
    ASSUME NEW index, IsSequence(index), \A i \in DOMAIN index : index[i] \in Int,
           NEW s, DOMAIN s = DOMAIN index, IndexRefusal(index) = Null => InOrder(s),
           NEW c, AcceptedWindows(c)
    PROVE  LET r == BuildWalkForwardWindows(index, s, c)
           IN  \/ r = Refused(IndexRefusal(index)) /\ IndexRefusal(index) # Null
               \/ /\ IndexRefusal(index) = Null /\ r = [windows |-> FoldWindows(s, c)]
                  /\ IsSequence(r.windows)
                  /\ \A k \in DOMAIN r.windows : /\ PartsAreClean(r.windows[k], s)
                                                /\ WindowIsCut(s, c, r.windows[k])
                                                /\ WindowFits(s, c, r.windows[k])
                  /\ \A k \in 1..(Len(r.windows) - 1) :
                         r.windows[k].test.last < r.windows[k + 1].test.first
<1> DEFINE w == FoldWindows(s, c)
           r == BuildWalkForwardWindows(index, s, c)
<1>1. CASE IndexRefusal(index) # Null
  BY <1>1 DEF BuildWalkForwardWindows
<1>2. CASE IndexRefusal(index) = Null
  <2>1. /\ IsSequence(w)
        /\ \A k \in DOMAIN w : WindowIsCut(s, c, w[k]) /\ WindowFits(s, c, w[k])
        /\ \A k \in 1..(Len(w) - 1) : w[k].test.last < w[k + 1].test.first
    BY <1>2, FoldWindowsAreClean
  <2>2. \A i, j \in DOMAIN index : i < j => index[i] < index[j]
    BY <1>2, IndexIsSorted
  <2> HIDE DEF w
  <2>3. \A k \in DOMAIN w : Ordered(index, w[k]) /\ PartsAreClean(w[k], s)
    BY <1>2, <2>1, <2>2, WindowIsOrdered
  <2>4. ~ \E v \in Range(w) : ~Ordered(index, v)
    BY <2>3 DEF Range
  <2>5. r = [windows |-> w]
    BY <1>2, <2>4 DEF BuildWalkForwardWindows, w
  <2>6. r.windows = w
    BY <2>5
  <2> HIDE DEF r
  <2>7. /\ IndexRefusal(index) = Null /\ r = [windows |-> w]
        /\ IsSequence(r.windows)
        /\ \A k \in DOMAIN r.windows : /\ PartsAreClean(r.windows[k], s)
                                      /\ WindowIsCut(s, c, r.windows[k])
                                      /\ WindowFits(s, c, r.windows[k])
        /\ \A k \in 1..(Len(r.windows) - 1) : r.windows[k].test.last < r.windows[k + 1].test.first
    BY <1>2, <2>1, <2>3, <2>5, <2>6
  <2> QED
    BY <2>7 DEF r, w
<1> QED
  BY <1>1, <1>2

-----------------------------------------------------------------------------
(* The out-of-sample split *)

\* Every number of a finite set has its own place, and every place its number.
LEMMA PlacesAreTaken ==
    ASSUME NEW S \in SUBSET Int, IsFiniteSet(S)
    PROVE  /\ Cardinality(S) \in Nat
           /\ \A k \in 1..Cardinality(S) :
                 /\ Ascending(S)[k] \in S
                 /\ Cardinality({y \in S : y < Ascending(S)[k]}) = k - 1
           /\ \A x, y \in S : x < y => Cardinality({z \in S : z < x}) < Cardinality({z \in S : z < y})
           /\ \A x \in S : Cardinality({z \in S : z < x}) \in 0..(Cardinality(S) - 1)
<1> DEFINE n == Cardinality(S)
           Below(x) == {z \in S : z < x}
           place == [x \in S |-> Cardinality(Below(x))]
<1>1. n \in Nat
  BY FS_CardinalityType
<1>2. ASSUME NEW x \in S
      PROVE  /\ IsFiniteSet(Below(x)) /\ Cardinality(Below(x)) \in Nat
             /\ Cardinality(Below(x)) < n
  <2>1. IsFiniteSet(Below(x)) /\ Cardinality(Below(x)) <= n
        /\ (n = Cardinality(Below(x)) => S = Below(x))
    BY FS_Subset
  <2>2. Cardinality(Below(x)) \in Nat
    BY <2>1, FS_CardinalityType
  <2>3. S # Below(x)
    OBVIOUS
  <2> QED
    BY <1>1, <2>1, <2>2, <2>3
<1>3. ASSUME NEW u \in S, NEW v \in S, u < v PROVE Cardinality(Below(u)) < Cardinality(Below(v))
  <2>1. u \in Int /\ v \in Int /\ \A z \in S : z \in Int
    OBVIOUS
  <2>2. \A z \in Below(u) : z \in Below(v)
    BY <1>3, <2>1
  <2>3. u \in Below(v) /\ u \notin Below(u)
    BY <1>3, <2>1
  <2>4. /\ Cardinality(Below(u)) \in Nat /\ Cardinality(Below(v)) \in Nat
        /\ IsFiniteSet(Below(v))
    BY <1>2
  <2> HIDE DEF Below
  <2>5. /\ Cardinality(Below(u)) <= Cardinality(Below(v))
        /\ (Cardinality(Below(v)) = Cardinality(Below(u)) => Below(v) = Below(u))
    BY <2>2, <2>4, FS_Subset
  <2> QED
    BY <2>3, <2>4, <2>5
<1>4. place \in Injection(S, 0..(n - 1))
  <2>1. place \in [S -> 0..(n - 1)]
    BY <1>1, <1>2
  <2>2. \A u, v \in S : place[u] = place[v] => u = v
    <3>1. SUFFICES ASSUME NEW u \in S, NEW v \in S, place[u] = place[v], u # v PROVE FALSE
      OBVIOUS
    <3>2. u \in Int /\ v \in Int
      OBVIOUS
    <3>3. u < v \/ v < u
      BY <3>1, <3>2
    <3>4. Cardinality(Below(u)) = Cardinality(Below(v))
      BY <3>1
    <3>5. Cardinality(Below(u)) \in Nat /\ Cardinality(Below(v)) \in Nat
      BY <1>2
    <3> HIDE DEF place, Below
    <3>6. Cardinality(Below(u)) < Cardinality(Below(v)) \/ Cardinality(Below(v)) < Cardinality(Below(u))
      BY <1>3, <3>3
    <3> QED
      BY <3>4, <3>5, <3>6
  <2> HIDE DEF place
  <2> QED
    BY <2>1, <2>2 DEF Injection, IsInjective
<1>5. IsFiniteSet(0..(n - 1)) /\ Cardinality(0..(n - 1)) = n
  <2>1. IsFiniteSet(0..(n - 1)) /\ Cardinality(0..(n - 1)) = IF 0 > n - 1 THEN 0 ELSE (n - 1) - 0 + 1
    BY <1>1, FS_Interval
  <2> QED
    BY <1>1, <2>1
<1>6. place \in Surjection(S, 0..(n - 1))
  BY <1>4, <1>5, FS_Injection
<1>7. ASSUME NEW k \in 1..n PROVE Ascending(S)[k] \in S /\ Cardinality(Below(Ascending(S)[k])) = k - 1
  <2>1. k - 1 \in 0..(n - 1)
    BY <1>1
  <2>2. \E x \in S : place[x] = k - 1
    BY <1>6, <2>1 DEF Surjection
  <2>3. \E x \in S : Cardinality({y \in S : y < x}) = k - 1
    BY <2>2
  <2>4. Ascending(S)[k] = CHOOSE x \in S : Cardinality({y \in S : y < x}) = k - 1
    BY DEF Ascending, Sorted
  <2> QED
    BY <2>3, <2>4
<1> QED
  BY <1>1, <1>2, <1>3, <1>7

\* Ascending lists the numbers of a finite set, each once and in order.
LEMMA AscendingLists ==
    ASSUME NEW S \in SUBSET Int, IsFiniteSet(S)
    PROVE  /\ \A k \in 1..Cardinality(S) : Ascending(S)[k] \in S
           /\ \A i, j \in 1..Cardinality(S) : i < j => Ascending(S)[i] < Ascending(S)[j]
           /\ \A x \in S : \E k \in 1..Cardinality(S) : Ascending(S)[k] = x
<1> DEFINE n == Cardinality(S)
           place(x) == Cardinality({z \in S : z < x})
           a == Ascending(S)
<1>1. /\ n \in Nat
      /\ \A k \in 1..n : a[k] \in S /\ place(a[k]) = k - 1
      /\ \A x, y \in S : x < y => place(x) < place(y)
      /\ \A x \in S : place(x) \in 0..(n - 1)
  BY PlacesAreTaken
<1> HIDE DEF n, place, a
<1>2. ASSUME NEW i \in 1..n, NEW j \in 1..n, i < j PROVE a[i] < a[j]
  <2>1. a[i] \in Int /\ a[j] \in Int /\ place(a[i]) = i - 1 /\ place(a[j]) = j - 1
    BY <1>1
  <2>2. a[i] # a[j] /\ ~(a[j] < a[i])
    BY <1>1, <1>2, <2>1
  <2> QED
    BY <2>1, <2>2
<1>3. ASSUME NEW x \in S PROVE \E k \in 1..n : a[k] = x
  <2>1. place(x) \in 0..(n - 1)
    BY <1>1
  <2>2. place(x) + 1 \in 1..n /\ (place(x) + 1) - 1 = place(x)
    BY <1>1, <2>1
  <2> DEFINE y == a[place(x) + 1]
  <2>3. y \in S /\ place(y) = place(x)
    BY <1>1, <2>2
  <2> HIDE DEF y
  <2>4. ~(x < y) /\ ~(y < x)
    BY <1>1, <2>1, <2>3
  <2>5. x = y
    BY <2>3, <2>4
  <2> QED
    BY <2>2, <2>5 DEF y
<1> QED
  BY <1>1, <1>2, <1>3 DEF n, a

\* The rows of the first days end where a day does.
LEMMA RowsUptoCut ==
    ASSUME NEW s, InOrder(s), NEW m \in Nat, m <= Cardinality(Range(s))
    PROVE  /\ RowsUpto(s, m) \in 0..Len(s)
           /\ 0 < RowsUpto(s, m) /\ RowsUpto(s, m) < Len(s) =>
                 s[RowsUpto(s, m)] < s[RowsUpto(s, m) + 1]
<1> DEFINE unique == Ascending(Range(s))
           n == Cardinality(Range(s))
           D == {i \in DOMAIN s : \E k \in 1..m : s[i] = unique[k]}
           d == RowsUpto(s, m)
<1>1. /\ Len(s) \in Nat /\ DOMAIN s = 1..Len(s)
      /\ \A i \in 1..Len(s) : s[i] \in Int
      /\ \A i, j \in 1..Len(s) : i <= j => s[i] <= s[j]
  BY InOrderRows
<1>2. Range(s) \in SUBSET Int /\ \A i \in 1..Len(s) : s[i] \in Range(s)
  BY <1>1 DEF Range
<1>3. IsFiniteSet(Range(s))
  <2>1. IsFiniteSet(1..Len(s))
    BY <1>1, FS_Interval
  <2>2. s \in Surjection(1..Len(s), Range(s))
    BY <1>1 DEF Surjection, Range, InOrder, IsSequence
  <2> QED
    BY <2>1, <2>2, FS_Surjection
<1>4. /\ \A k \in 1..n : unique[k] \in Range(s)
      /\ \A i, j \in 1..n : i < j => unique[i] < unique[j]
      /\ \A x \in Range(s) : \E k \in 1..n : unique[k] = x
  BY <1>2, <1>3, AscendingLists
<1>5. n \in Nat
  BY <1>3, FS_CardinalityType
<1>6. d = Cardinality(D)
  BY DEF RowsUpto
<1> HIDE DEF unique, n, d
<1>7. D \in SUBSET (1..Len(s))
  BY <1>1
<1>8. ASSUME NEW i \in D, NEW j \in 1..Len(s), j <= i PROVE j \in D
  <2>1. PICK k \in 1..m : s[i] = unique[k]
    OBVIOUS
  <2>2. i \in 1..Len(s) /\ s[j] <= s[i] /\ s[i] \in Int /\ s[j] \in Int
    BY <1>1, <1>7, <1>8
  <2>3. PICK l \in 1..n : unique[l] = s[j]
    BY <1>2, <1>4
  <2>4. k \in 1..n
    BY <1>5, <2>1 DEF n
  <2>5. ~(k < l)
    <3>1. k < l => unique[k] < unique[l]
      BY <1>4, <2>3, <2>4
    <3> QED
      BY <2>1, <2>2, <2>3, <3>1
  <2>6. l \in 1..m
    BY <1>5, <2>1, <2>3, <2>5
  <2> QED
    BY <1>1, <2>3, <2>6
<1>9. d \in 0..Len(s) /\ D = 1..d
  <2> HIDE DEF D
  <2>1. Cardinality(D) \in 0..Len(s) /\ D = 1..Cardinality(D)
    BY <1>1, <1>7, <1>8, FirstPositions
  <2> QED
    BY <1>6, <2>1
<1>10. ASSUME 0 < d, d < Len(s) PROVE s[d] < s[d + 1]
  <2>1. d \in 1..d /\ d + 1 \notin 1..d /\ d \in 1..Len(s) /\ d + 1 \in 1..Len(s)
    BY <1>1, <1>9, <1>10
  <2>2. d \in D /\ d + 1 \notin D
    BY <1>9, <2>1
  <2>3. s[d] # s[d + 1]
    BY <1>1, <2>1, <2>2
  <2>4. s[d] <= s[d + 1] /\ s[d] \in Int /\ s[d + 1] \in Int
    BY <1>1, <2>1
  <2> QED
    BY <2>3, <2>4
<1> QED
  BY <1>9, <1>10 DEF d

\* Two shares of a number that make up no more than the whole.
LEMMA SharesFit ==
    ASSUME NEW n \in Nat, NEW t \in Nat, NEW u \in Nat, t + u <= 100
    PROVE  /\ (n * t) \div 100 \in Nat
           /\ (n * t) \div 100 + (n * u) \div 100 \in Nat
           /\ (n * t) \div 100 <= n
           /\ (n * t) \div 100 + (n * u) \div 100 <= n
<1>1. n * t \in Nat /\ n * u \in Nat /\ n * t + n * u = n * (t + u)
  OBVIOUS
<1>2. n * (t + u) <= n * 100
  <2>1. \A k \in Nat : n * k \in Nat /\ n * ((t + u) + k) = n * (t + u) + n * k
    OBVIOUS
  <2>2. 100 - (t + u) \in Nat /\ (t + u) + (100 - (t + u)) = 100
    OBVIOUS
  <2>3. n * (t + u) \in Nat
    OBVIOUS
  <2> QED
    BY <2>1, <2>2, <2>3
<1>3. \A a, b \in Nat : a + b <= n * 100 =>
          /\ a \div 100 \in Nat /\ b \div 100 \in Nat
          /\ a \div 100 <= n /\ a \div 100 + b \div 100 <= n
  OBVIOUS
<1> QED
  BY <1>1, <1>2, <1>3

\* The rows of a split: three parts of the history, the test after the others.
SplitIsCut(s, w) ==
    /\ w.train.first \in 1..Len(s) /\ w.train.last \in 1..Len(s)
    /\ w.selection # Null
    /\ w.selection.first \in 1..Len(s) /\ w.selection.last \in 1..Len(s)
    /\ w.test.first \in 1..Len(s) /\ w.test.last \in 1..Len(s)
    /\ w.train.last < w.test.first /\ w.selection.last < w.test.first
    /\ w.test.first <= w.test.last

\* A split that is not refused cuts the history between days, and its check of the order
\* of its parts never fires.
LEMMA SplitIsClean ==
    ASSUME NEW index, NEW s, IndexRefusal(index) = Null => InOrder(s),
           NEW c, SplitConfigHolds(c), {c.train, c.selection, c.test, c.minimum} \subseteq Nat
    PROVE  LET r == SplitChronologically(index, s, c)
           IN  \/ \E why \in {"empty", "unsorted", "duplicate", "rows"} : r = Refused(why)
               \/ /\ "refused" \notin DOMAIN r
                  /\ PartsAreClean(r, s)
                  /\ r.selection.last \in Int /\ r.test.first = r.selection.last + 1
                  /\ IndexRefusal(index) = Null /\ SplitIsCut(s, r)
<1> DEFINE r == SplitChronologically(index, s, c)
           total == Cardinality(Range(s))
           train == (total * c.train) \div 100
           both == train + (total * c.selection) \div 100
           first == RowsUpto(s, train)
           second == RowsUpto(s, both)
           split == [train |-> [first |-> 1, last |-> first],
                     selection |-> [first |-> first + 1, last |-> second],
                     test |-> [first |-> second + 1, last |-> Len(s)]]
<1>1. CASE IndexRefusal(index) # Null
  <2>1. r = Refused(IndexRefusal(index))
    BY <1>1 DEF SplitChronologically
  <2>2. IndexRefusal(index) \in {"empty", "unsorted", "duplicate"}
    BY <1>1 DEF IndexRefusal
  <2> QED
    BY <2>1, <2>2
<1>2. CASE IndexRefusal(index) = Null
  <2>1. r = IF \E part \in DOMAIN split : Rows(split[part]) < c.minimum THEN Refused("rows")
            ELSE IF ~(s[first] < s[first + 1] /\ s[first + 1] < s[second + 1]) THEN Refused("order")
            ELSE split
    BY <1>2 DEF SplitChronologically
  <2>2. /\ Len(s) \in Nat /\ DOMAIN s = 1..Len(s)
        /\ \A i \in 1..Len(s) : s[i] \in Int
        /\ \A i, j \in 1..Len(s) : i <= j => s[i] <= s[j]
    BY <1>2, InOrderRows
  <2>3. total \in Nat
    <3>1. s \in Surjection(1..Len(s), Range(s))
      BY <1>2, <2>2 DEF Surjection, Range, InOrder, IsSequence
    <3>2. IsFiniteSet(1..Len(s))
      BY <2>2, FS_Interval
    <3>3. IsFiniteSet(Range(s))
      BY <3>1, <3>2, FS_Surjection
    <3> QED
      BY <3>3, FS_CardinalityType
  <2>4. c.train \in Nat /\ c.selection \in Nat /\ c.train + c.selection <= 100
        /\ c.minimum \in Nat /\ c.minimum >= 1
    BY DEF SplitConfigHolds
  <2>5. train \in Nat /\ train <= total /\ both \in Nat /\ both <= total
    <3> HIDE DEF total
    <3> QED
      BY <2>3, <2>4, SharesFit
  <2> HIDE DEF train, both
  <2>6. /\ first \in 0..Len(s) /\ second \in 0..Len(s)
        /\ 0 < first /\ first < Len(s) => s[first] < s[first + 1]
        /\ 0 < second /\ second < Len(s) => s[second] < s[second + 1]
    BY <1>2, <2>5, RowsUptoCut
  <2> HIDE DEF first, second, total, r
  <2>7. CASE \E part \in DOMAIN split : Rows(split[part]) < c.minimum
    BY <2>1, <2>7 DEF r
  <2>8. CASE ~ \E part \in DOMAIN split : Rows(split[part]) < c.minimum
    <3>1. /\ first - 1 + 1 >= c.minimum
          /\ second - (first + 1) + 1 >= c.minimum
          /\ Len(s) - (second + 1) + 1 >= c.minimum
      <4>1. /\ "train" \in DOMAIN split /\ split["train"] = [first |-> 1, last |-> first]
            /\ "selection" \in DOMAIN split /\ split["selection"] = [first |-> first + 1, last |-> second]
            /\ "test" \in DOMAIN split /\ split["test"] = [first |-> second + 1, last |-> Len(s)]
        OBVIOUS
      <4> HIDE DEF split
      <4>2. /\ Rows(split["train"]) = first - 1 + 1
            /\ Rows(split["selection"]) = second - (first + 1) + 1
            /\ Rows(split["test"]) = Len(s) - (second + 1) + 1
        BY <4>1 DEF Rows
      <4>3. /\ Rows(split["train"]) \in Int /\ Rows(split["selection"]) \in Int
            /\ Rows(split["test"]) \in Int
        BY <2>2, <2>6, <4>2
      <4> QED
        BY <2>4, <2>8, <4>1, <4>2, <4>3
    <3>2. 0 < first /\ first < second /\ second < Len(s)
      BY <2>2, <2>4, <2>6, <3>1
    <3>3. s[first] < s[first + 1] /\ s[second] < s[second + 1]
      BY <2>2, <2>6, <3>2
    <3>4. s[first + 1] <= s[second] /\ s[first + 1] \in Int /\ s[second] \in Int /\ s[second + 1] \in Int
      <4>1. first + 1 \in 1..Len(s) /\ second \in 1..Len(s) /\ second + 1 \in 1..Len(s)
            /\ first + 1 <= second
        BY <2>2, <2>6, <3>2
      <4> QED
        BY <2>2, <4>1
    <3>5. s[first + 1] < s[second + 1]
      BY <3>3, <3>4
    <3>6. r = split
      BY <2>1, <2>8, <3>3, <3>5
    <3>7. /\ split.selection # Null
          /\ split.selection.first = split.train.last + 1 /\ split.train.last = first
          /\ split.test.first = split.selection.last + 1 /\ split.selection.last = second
      <4>1. split.selection \in [first : Int, last : Int]
        BY <2>6
      <4> QED
        BY <4>1, NullAssumption
    <3>8. "refused" \notin DOMAIN split
      OBVIOUS
    <3>10. /\ split.train.first = 1 /\ split.selection.first = first + 1
           /\ split.test.first = second + 1 /\ split.test.last = Len(s)
      OBVIOUS
    <3> HIDE DEF split
    <3>11. SplitIsCut(s, split)
      <4>1. first \in 1..Len(s) /\ second \in 1..Len(s) /\ 1 \in 1..Len(s) /\ Len(s) \in 1..Len(s)
            /\ first + 1 \in 1..Len(s) /\ second + 1 \in 1..Len(s) /\ first < second + 1
            /\ second + 1 <= Len(s) /\ second < second + 1
        BY <2>2, <2>6, <3>2
      <4> QED
        BY <3>7, <3>10, <4>1 DEF SplitIsCut
    <3>9. PartsAreClean(split, s)
      BY <3>3, <3>7, ThreePartsAreClean
    <3> QED
      BY <1>2, <2>6, <3>6, <3>7, <3>8, <3>9, <3>11 DEF r
  <2> QED
    BY <2>7, <2>8
<1> QED
  BY <1>1, <1>2

-----------------------------------------------------------------------------
(* The stages *)

\* A stage runs on the rows of its history, with a session for each of them.
LEMMA StageRows ==
    ASSUME NEW x, IsStageCase(x)
    PROVE  LET index == x.experiment.data.index
           IN  /\ IsSequence(index) /\ \A i \in DOMAIN index : index[i] \in Int
               /\ DOMAIN x.sessions = DOMAIN index
               /\ IndexRefusal(index) = Null => InOrder(x.sessions)
<1>1. IsExperiment(x.experiment)
  BY DEF IsStageCase
<1>2. /\ IsSequence(x.experiment.data.index)
      /\ \A i \in DOMAIN x.experiment.data.index : x.experiment.data.index[i] \in Int
  BY <1>1 DEF IsExperiment
<1>3. /\ DOMAIN x.sessions = DOMAIN x.experiment.data.index
      /\ IndexRefusal(x.experiment.data.index) = Null => InOrder(x.sessions)
  BY DEF IsStageCase
<1> QED
  BY <1>2, <1>3

\* A trial ends in a report of its own.
LEMMA TrialReports ==
    ASSUME NEW x, NEW w, NEW size, NEW cache
    PROVE  "refused" \notin DOMAIN Trial(x, w, size, cache)
  BY DEF Trial

\* What a stage returns of one experiment, given its sessions and configuration.
CleanRun(method, c, s, run) ==
    /\ "refused" \in DOMAIN run => run.refused # "order"
    /\ method = "oos" /\ "refused" \notin DOMAIN run =>
           /\ PartsAreClean(run.split, s)
           /\ InSampleSlice(run.split).last = run.split.selection.last
    /\ method = "walk" /\ "refused" \notin DOMAIN run =>
           /\ \A k \in DOMAIN run.windows :
                  PartsAreClean(run.windows[k], s) /\ WindowFits(s, c, run.windows[k])
           /\ \A k \in 1..(Len(run.windows) - 1) :
                  run.windows[k].test.last < run.windows[k + 1].test.first

\* The out-of-sample run keeps the split it was made on.
LEMMA OutOfSampleIsClean ==
    ASSUME NEW x, IsStageCase(x), x.method = "oos"
    PROVE  CleanRun("oos", x.config, x.sessions,
                    ExecuteOutOfSample(x.experiment, x.sessions, x.config))
<1> DEFINE s == x.sessions
           c == x.config
           split == SplitChronologically(x.experiment.data.index, s, c)
           trial == Trial(UnseenDataScreening(x.experiment), split, c.shortlist, NewSignalCache)
           run == ExecuteOutOfSample(x.experiment, s, c)
<1>1. run = IF "refused" \in DOMAIN split THEN split
            ELSE [k \in DOMAIN trial \cup {"split"} |-> IF k = "split" THEN split ELSE trial[k]]
  BY DEF ExecuteOutOfSample
<1>2. \/ \E why \in {"empty", "unsorted", "duplicate", "rows"} : split = Refused(why)
      \/ /\ "refused" \notin DOMAIN split
         /\ PartsAreClean(split, s)
         /\ split.selection.last \in Int /\ split.test.first = split.selection.last + 1
  BY SplitIsClean DEF IsStageCase
<1>3. "refused" \notin DOMAIN trial
  BY TrialReports
<1> HIDE DEF split, trial, run, s, c
<1>4. CASE \E why \in {"empty", "unsorted", "duplicate", "rows"} : split = Refused(why)
  <2>1. PICK why \in {"empty", "unsorted", "duplicate", "rows"} : split = [refused |-> why]
    BY <1>4 DEF Refused
  <2>2. run = [refused |-> why]
    BY <1>1, <2>1
  <2> QED
    BY <2>2 DEF CleanRun, run, s, c
<1>5. CASE "refused" \notin DOMAIN split
  <2>1. PartsAreClean(split, s) /\ split.selection.last \in Int
        /\ split.test.first = split.selection.last + 1
    BY <1>2, <1>5 DEF Refused
  <2>2. /\ DOMAIN run = DOMAIN trial \cup {"split"} /\ run.split = split
    BY <1>1, <1>5
  <2>3. "refused" \notin DOMAIN run
    BY <1>3, <2>2
  <2>4. InSampleSlice(split).last = split.selection.last
    BY <2>1 DEF InSampleSlice
  <2>5. CleanRun("oos", c, s, run)
    BY <2>1, <2>2, <2>3, <2>4 DEF CleanRun
  <2> QED
    BY <2>5 DEF run, s, c
<1> QED
  BY <1>2, <1>4, <1>5

\* A walk-forward run that is not refused ran on the windows that were built.
LEMMA WalkForwardIsClean ==
    ASSUME NEW x, IsStageCase(x), x.method = "walk"
    PROVE  CleanRun("walk", x.config, x.sessions,
                    ExecuteWalkForward(x.experiment, x.sessions, x.config))
<1> DEFINE s == x.sessions
           c == x.config
           index == x.experiment.data.index
           built == BuildWalkForwardWindows(index, s, c)
           run == ExecuteWalkForward(x.experiment, s, c)
<1>1. \/ run = built /\ "refused" \in DOMAIN built
      \/ run = Refused("no_folds") \/ run = Refused("raised")
      \/ /\ "refused" \notin DOMAIN built
         /\ "refused" \notin DOMAIN run /\ run.windows = built.windows
  BY DEF ExecuteWalkForward
<1>2. \/ built = Refused(IndexRefusal(index)) /\ IndexRefusal(index) # Null
      \/ /\ built = [windows |-> FoldWindows(s, c)]
         /\ \A k \in DOMAIN built.windows :
                PartsAreClean(built.windows[k], s) /\ WindowFits(s, c, built.windows[k])
         /\ \A k \in 1..(Len(built.windows) - 1) :
                built.windows[k].test.last < built.windows[k + 1].test.first
  <2>1. AcceptedWindows(c)
    BY DEF IsStageCase, AcceptedWindows
  <2>2. /\ IsSequence(index) /\ \A i \in DOMAIN index : index[i] \in Int
        /\ DOMAIN s = DOMAIN index /\ (IndexRefusal(index) = Null => InOrder(s))
    BY StageRows
  <2> HIDE DEF s, c, index
  <2> QED
    BY <2>1, <2>2, WindowsAreBuilt
<1>3. IndexRefusal(index) # Null => IndexRefusal(index) # "order"
  BY DEF IndexRefusal
<1> HIDE DEF s, c, index, built, run
<1>4. CleanRun("walk", c, s, run)
  BY <1>1, <1>2, <1>3 DEF CleanRun, Refused
<1> QED
  BY <1>4 DEF s, c, run

\* Low-frequency evidence is never refused for the order of its windows.
LEMMA LowFrequencyIsClean ==
    ASSUME NEW x, IsStageCase(x), x.method = "low"
    PROVE  CleanRun("low", x.config, x.sessions,
                    ExecuteLowFrequency(x.experiment, x.sessions, x.config, x.forbidden, x.policy))
<1> DEFINE s == x.sessions
           c == x.config
           index == x.experiment.data.index
           built == BuildWalkForwardWindows(index, s, c)
           run == ExecuteLowFrequency(x.experiment, s, c, x.forbidden, x.policy)
<1>1. \/ run = built /\ "refused" \in DOMAIN built
      \/ \E why \in {"forbidden", "fixed_parameters", "no_folds", "selection", "raised"} :
            run = Refused(why)
      \/ "refused" \notin DOMAIN run
  BY DEF ExecuteLowFrequency
<1>2. \/ built = Refused(IndexRefusal(index)) /\ IndexRefusal(index) # Null
      \/ built = [windows |-> FoldWindows(s, c)]
  <2>1. AcceptedWindows(c)
    BY DEF IsStageCase, AcceptedWindows
  <2>2. /\ IsSequence(index) /\ \A i \in DOMAIN index : index[i] \in Int
        /\ DOMAIN s = DOMAIN index /\ (IndexRefusal(index) = Null => InOrder(s))
    BY StageRows
  <2> HIDE DEF s, c, index
  <2> QED
    BY <2>1, <2>2, WindowsAreBuilt
<1>3. IndexRefusal(index) # Null => IndexRefusal(index) # "order"
  BY DEF IndexRefusal
<1> HIDE DEF s, c, index, built, run
<1>4. CleanRun("low", c, s, run)
  BY <1>1, <1>2, <1>3 DEF CleanRun, Refused
<1> QED
  BY <1>4 DEF s, c, run

\* So does every stage, whatever was submitted to it.
LEMMA StageIsClean ==
    ASSUME NEW x, IsStageCase(x)
    PROVE  CleanRun(x.method, x.config, x.sessions, Stage(x).run)
<1>1. CASE x.method = "oos"
  <2>1. Stage(x).run = ExecuteOutOfSample(x.experiment, x.sessions, x.config)
    BY <1>1 DEF Stage
  <2> QED
    BY <1>1, <2>1, OutOfSampleIsClean
<1>2. CASE x.method = "walk"
  <2>1. Stage(x).run = ExecuteWalkForward(x.experiment, x.sessions, x.config)
    BY <1>2 DEF Stage
  <2> QED
    BY <1>2, <2>1, WalkForwardIsClean
<1>3. CASE x.method = "low"
  <2>1. Stage(x).run = ExecuteLowFrequency(x.experiment, x.sessions, x.config, x.forbidden, x.policy)
    BY <1>3 DEF Stage
  <2> QED
    BY <1>3, <2>1, LowFrequencyIsClean
<1> QED
  BY <1>1, <1>2, <1>3 DEF IsStageCase

-----------------------------------------------------------------------------
(* The answers *)

\* What is submitted is a case of its kind, and what was answered is the answer to it.
AnswerInv ==
    /\ request \in Cases(kind)
    /\ input \in {Null, Load(kind, request)}
    /\ kind = "document" /\ output # Null =>
           input = Load(kind, request) /\ input # Null /\ output = StoredDocument(input)
    /\ kind = "review" /\ output # Null =>
           input = Load(kind, request) /\ input # Null /\ output = Review(input)
    /\ kind = "stage" /\ output # Null =>
           input = Load(kind, request) /\ input # Null /\ output = Stage(input)
    /\ kind = "column" /\ output # Null =>
           input = Load(kind, request) /\ input # Null /\ output = Simulation(input)
    /\ kind = "trades" /\ output # Null =>
           input = Load(kind, request) /\ input # Null /\ output = Trades(input)

\* Nothing is answered before something is submitted.
LEMMA AnswerInvInit == Init => AnswerInv
  BY DEF Init, AnswerInv

\* The answers of the other kinds are not spoken of.
LEMMA OtherAnswer ==
    ASSUME NEW k, k \notin {"document", "review", "stage", "column", "trades"}, AnswerInv, kind = k,
           UNCHANGED <<kind, request, input>>
    PROVE  AnswerInv'
  BY DEF AnswerInv

\* Every step keeps the answers.
LEMMA AnswerInvStep == AnswerInv /\ [Next]_vars => AnswerInv'
<1> SUFFICES ASSUME AnswerInv, [Next]_vars PROVE AnswerInv'
  OBVIOUS
<1>1. CASE Submit
  BY <1>1 DEF Submit, AnswerInv
<1>2. CASE StoreDocument
  <2>1. /\ kind = "document" /\ input /= Null /\ output' = StoredDocument(input)
        /\ UNCHANGED <<kind, request, input>>
    BY <1>2 DEF StoreDocument, Answer
  <2> QED
    BY <2>1 DEF AnswerInv
<1>3. CASE ReviewEvidence
  <2>1. /\ kind = "review" /\ input /= Null /\ output' = Review(input)
        /\ UNCHANGED <<kind, request, input>>
    BY <1>3 DEF ReviewEvidence, Answer
  <2> QED
    BY <2>1 DEF AnswerInv
<1>4. CASE RunSweep
  BY <1>4, OtherAnswer DEF RunSweep, Answer
<1>5. CASE SimulateColumn
  <2>1. /\ kind = "column" /\ input /= Null /\ output' = Simulation(input)
        /\ UNCHANGED <<kind, request, input>>
    BY <1>5 DEF SimulateColumn, Answer
  <2> QED
    BY <2>1 DEF AnswerInv
<1>6. CASE GenerateTrades
  <2>1. /\ kind = "trades" /\ input /= Null /\ output' = Trades(input)
        /\ UNCHANGED <<kind, request, input>>
    BY <1>6 DEF GenerateTrades, Answer
  <2> QED
    BY <2>1 DEF AnswerInv
<1>7. CASE EvaluateRule
  BY <1>7, OtherAnswer DEF EvaluateRule, Answer
<1>8. CASE RunGapReversal
  BY <1>8, OtherAnswer DEF RunGapReversal, Answer
<1>9. CASE ReviewPlan
  BY <1>9, OtherAnswer DEF ReviewPlan, Answer
<1>10. CASE RunStage
  <2>1. /\ kind = "stage" /\ input /= Null /\ output' = Stage(input)
        /\ UNCHANGED <<kind, request, input>>
    BY <1>10 DEF RunStage, Answer
  <2> QED
    BY <2>1 DEF AnswerInv
<1>11. CASE BuildNeighbors
  BY <1>11, OtherAnswer DEF BuildNeighbors, Answer
<1>12. CASE RunRobustness
  BY <1>12, OtherAnswer DEF RunRobustness, Answer
<1>13. CASE RunFixedRule
  BY <1>13, OtherAnswer DEF RunFixedRule, Answer
<1>14. CASE SimulatePaths
  BY <1>14, OtherAnswer DEF SimulatePaths, Answer
<1>15. CASE BuildMatrix
  BY <1>15, OtherAnswer DEF BuildMatrix, Answer
<1>16. CASE SubmitRule
  BY <1>16, OtherAnswer DEF SubmitRule, Answer
<1>17. CASE ReviewPacket
  BY <1>17, OtherAnswer DEF ReviewPacket, Answer
<1>18. CASE TopUpLibrary
  BY <1>18, OtherAnswer DEF TopUpLibrary, Answer
<1>19. CASE LoadDailyPrices
  BY <1>19, OtherAnswer DEF LoadDailyPrices, Answer
<1>20. CASE BuyPrices
  BY <1>20, OtherAnswer DEF BuyPrices, Answer
<1>21. CASE UNCHANGED vars
  BY <1>21 DEF vars, AnswerInv
<1> QED
  BY <1>1, <1>2, <1>3, <1>4, <1>5, <1>6, <1>7, <1>8, <1>9, <1>10, <1>11, <1>12, <1>13,
     <1>14, <1>15, <1>16, <1>17, <1>18, <1>19, <1>20, <1>21 DEF Next

\* So stored evidence says what was run.
LEMMA AnswersAreRevalidated == AnswerInv => EvidenceIsRevalidated
<1> SUFFICES ASSUME AnswerInv PROVE EvidenceIsRevalidated
  OBVIOUS
<1>1. ASSUME Answered("document"), IsReadable(output.built)
      PROVE  LET n == output.built.evidence.normalized
                 excepted == n.eligible \/ IsMisread(input)
             IN  /\ ~excepted => output.read = Null
                 /\ excepted => output.read = "content"
                 /\ input.asked /= input.source => output.moved /= Null
                 /\ [input.changed EXCEPT !.timestamp = Null] /= [input.native EXCEPT !.timestamp = Null]
                       => output.altered /= Null
                 /\ output.restamped = output.read
                 /\ output.forged = Null =>
                       \A k \in DOMAIN input.forge \cap {"status", "reasons"} : input.forge[k] = n[k]
  <2>1. /\ kind = "document" /\ request \in Cases("document")
        /\ input = Load("document", request) /\ output = StoredDocument(input)
    BY <1>1 DEF AnswerInv, Answered
  <2>2. IsDocumentCase(input)
    BY <2>1, DocumentCases
  <2> QED
    BY <1>1, <2>1, <2>2, DocumentIsRevalidated
<1>2. ASSUME Answered("review")
      PROVE  /\ RestsOn(output.gate, input.docs, input.lock)
             /\ RestsOn(output.now, input.later.docs, input.later.lock)
             /\ input.lock # Null /\ input.review.reason # "" => output.read = Null
             /\ output.reread = Null => output.now = output.gate /\ input.later.source = input.source
             /\ IsReadable(output.context) => output.evaluated = output.gate
             /\ IsReadable(output.later) => input.later.lock = input.lock /\ output.later.executable
  <2>1. /\ kind = "review" /\ request \in Cases("review")
        /\ input = Load("review", request) /\ output = Review(input)
    BY <1>2 DEF AnswerInv, Answered
  <2>2. IsReviewCase(input)
    BY <2>1, ReviewCases
  <2> QED
    BY <2>1, <2>2, ReviewIsRevalidated
<1> QED
  BY <1>1, <1>2 DEF EvidenceIsRevalidated, RestsOn, IsMisread, HasShortFinal, HasShareStress

\* What a review believes of stored evidence is what was run: see EvidenceIsRevalidated.
THEOREM EvidenceRevalidated == Spec => []EvidenceIsRevalidated
<1>1. Spec => []AnswerInv
  BY AnswerInvInit, AnswerInvStep, PTL DEF Spec
<1>2. AnswerInv => EvidenceIsRevalidated
  BY AnswersAreRevalidated
<1> QED
  BY <1>1, <1>2, PTL

\* So the partitions of a stage are clean.
LEMMA AnswersArePartitioned == AnswerInv => PartitionsAreClean
<1> SUFFICES ASSUME AnswerInv PROVE PartitionsAreClean
  OBVIOUS
<1>1. ASSUME Answered("stage")
      PROVE  CleanRun(input.method, input.config, input.sessions, output.run)
  <2>1. /\ kind = "stage" /\ request \in Cases("stage")
        /\ input = Load("stage", request) /\ output = Stage(input)
    BY <1>1 DEF AnswerInv, Answered
  <2>2. IsStageCase(input)
    BY <2>1, StageCases
  <2> QED
    BY <2>1, <2>2, StageIsClean
<1> QED
  BY <1>1 DEF PartitionsAreClean, CleanRun, WindowFits

\* Every history a stage is run on is cut into parts that follow each other without a gap
\* or an overlap, between sessions and in the sizes that were asked for; the tests of the
\* folds are disjoint, and the splitters' own check of the order never fires.
THEOREM PartitionsClean == Spec => []PartitionsAreClean
<1>1. Spec => []AnswerInv
  BY AnswerInvInit, AnswerInvStep, PTL DEF Spec
<1>2. AnswerInv => PartitionsAreClean
  BY AnswersArePartitioned
<1> QED
  BY <1>1, <1>2, PTL

-----------------------------------------------------------------------------
(* One bar of a capped column *)

\* The parts of a state.
StateFields == {"session", "count", "side", "since", "position", "paid", "cash", "trades", "stop",
                "hold"}

\* A state of the engine with that of the cap.
IsState(t) ==
    /\ t = [f \in StateFields |-> t[f]]
    /\ t.session \in Int /\ t.count \in Nat /\ t.since \in Int /\ t.trades \in Nat
    /\ t.side \in {-1, 0, 1} /\ t.position \in {-1, 0, 1}

\* The maximum hold that is read on a bar.
HoldAt(c, i) == IF "td_stop" \in DOMAIN c.args THEN c.args["td_stop"][i] ELSE -1

\* The trades of the session and the open one, as bar i finds them.
CountAt(bar, t) == IF bar.session = t.session THEN t.count ELSE 0
SideAt(bar, t) == IF bar.session # t.session /\ t.position = 0 THEN 0 ELSE t.side

\* A rule exit of a side, or the maximum hold since a bar.
Ends(bar, side, since, i) ==
    \/ side > 0 /\ bar.long_exit
    \/ side < 0 /\ bar.short_exit
    \/ bar.hold >= 0 /\ i - since >= bar.hold

\* The bar opens a position.
OpensTrade(c, i, t, u) ==
    LET bar == ColumnBar(c, i, t)
    IN  /\ t.position = 0 /\ u.position # 0 /\ i \in EntryBars(c)
        /\ SideAt(bar, t) = 0 /\ CountAt(bar, t) < c.cap
        /\ u.count = CountAt(bar, t) + 1 /\ u.side = u.position /\ u.since = i
        /\ u.trades = t.trades + 1 /\ u.hold = HoldAt(c, i)

\* Or it opens none, and ends the open trade or not.
KeepsTrade(c, i, t, u) ==
    LET bar == ColumnBar(c, i, t)
        side == SideAt(bar, t)
    IN  /\ t.position # 0 \/ u.position = 0
        /\ u.count = CountAt(bar, t) /\ u.since = t.since /\ u.trades = t.trades
        /\ u.side = IF side # 0 /\ Ends(bar, side, t.since, i) THEN 0 ELSE side

\* The open trade of the session ends.
LEMMA StateEnded ==
    ASSUME NEW t, IsState(t)
    PROVE  LET u == [t EXCEPT !.side = 0]
           IN  /\ IsState(u) /\ u.session = t.session /\ u.count = t.count /\ u.side = 0
               /\ u.since = t.since /\ u.position = t.position /\ u.trades = t.trades /\ u.hold = t.hold
<1> DEFINE u == [t EXCEPT !.side = 0]
<1>1. DOMAIN t = StateFields
  BY DEF IsState
<1>2. u = [f \in StateFields |-> IF f = "side" THEN 0 ELSE t[f]]
  BY <1>1 DEF StateFields
<1> HIDE DEF u
<1>3. /\ u.session = t.session /\ u.count = t.count /\ u.side = 0
      /\ u.since = t.since /\ u.position = t.position /\ u.trades = t.trades /\ u.hold = t.hold
  BY <1>2 DEF StateFields
<1>4. u = [f \in StateFields |-> u[f]]
  BY <1>2
<1>5. IsState(u)
  BY <1>3, <1>4 DEF IsState
<1> QED
  BY <1>3, <1>5 DEF u

\* What the cap lets through, and the state it hands to the engine.
LEMMA CapSignalGiven ==
    ASSUME NEW bar, bar.session \in Int, NEW i, NEW cap \in Nat, NEW t, IsState(t)
    PROVE  LET r == SessionCapSignal(bar, i, cap, t)
               d == r.state
               side == SideAt(bar, t)
           IN  /\ IsState(d) /\ d.session = bar.session /\ d.count = CountAt(bar, t)
               /\ d.since = t.since /\ d.position = t.position /\ d.trades = t.trades
               /\ d.side = IF side # 0 /\ Ends(bar, side, t.since, i) THEN 0 ELSE side
               /\ r.long_entry => bar.long_entry /\ side = 0 /\ CountAt(bar, t) < cap
               /\ r.short_entry => bar.short_entry /\ side = 0 /\ CountAt(bar, t) < cap
<1> DEFINE day == IF bar.session = t.session THEN t
                  ELSE [t EXCEPT !.session = bar.session, !.count = 0,
                                 !.side = IF t.position = 0 THEN 0 ELSE @]
           ends == \/ day.side > 0 /\ bar.long_exit
                   \/ day.side < 0 /\ bar.short_exit
                   \/ bar.hold >= 0 /\ i - day.since >= bar.hold
           open == day.side /= 0
           blocked == open \/ day.count >= cap
           r == SessionCapSignal(bar, i, cap, t)
           side == SideAt(bar, t)
<1>1. /\ r.state = IF open /\ ends THEN [day EXCEPT !.side = 0] ELSE day
      /\ r.long_entry = (bar.long_entry /\ ~blocked)
      /\ r.short_entry = (bar.short_entry /\ ~blocked)
  BY DEF SessionCapSignal
<1>2. /\ IsState(day) /\ day.session = bar.session /\ day.count = CountAt(bar, t)
      /\ day.side = side
      /\ day.since = t.since /\ day.position = t.position /\ day.trades = t.trades
  <2>1. CASE bar.session = t.session
    <3>1. day = t /\ CountAt(bar, t) = t.count /\ side = t.side
      BY <2>1 DEF CountAt, SideAt
    <3> QED
      BY <2>1, <3>1
  <2>2. CASE bar.session # t.session
    <3> DEFINE d == IF t.position = 0 THEN 0 ELSE t.side
    <3>1. d \in {-1, 0, 1} /\ d = side /\ CountAt(bar, t) = 0
      BY <2>2 DEF IsState, CountAt, SideAt
    <3>2. day = [t EXCEPT !.session = bar.session, !.count = 0, !.side = d]
      BY <2>2
    <3>3. IsState(t) /\ bar.session \in Int
      OBVIOUS
    <3> HIDE DEF d, day, side
    <3>4. DOMAIN t = StateFields
      BY <3>3 DEF IsState
    <3>5. day = [f \in StateFields |->
              IF f = "session" THEN bar.session
              ELSE IF f = "count" THEN 0
              ELSE IF f = "side" THEN d
              ELSE t[f]]
      BY <3>2, <3>4 DEF StateFields
    <3>6. /\ day.session = bar.session /\ day.count = 0 /\ day.side = d /\ day.since = t.since
          /\ day.position = t.position /\ day.trades = t.trades /\ day.hold = t.hold
      BY <3>5 DEF StateFields
    <3>7. day = [f \in StateFields |-> day[f]]
      BY <3>5
    <3>8. IsState(day)
      BY <3>3, <3>1, <3>6, <3>7 DEF IsState
    <3> QED
      BY <3>1, <3>6, <3>8
  <2> QED
    BY <2>1, <2>2
<1> HIDE DEF day, r
<1>3. ends <=> Ends(bar, side, t.since, i)
  BY <1>2 DEF Ends
<1>4. CountAt(bar, t) \in Nat
  BY <1>2 DEF IsState
<1>5. ~blocked => side = 0 /\ CountAt(bar, t) < cap
  BY <1>2, <1>4
<1> HIDE DEF ends, side
<1>6. CASE open /\ ends
  BY <1>1, <1>2, <1>3, <1>5, <1>6, StateEnded DEF r, side
<1>7. CASE ~(open /\ ends)
  BY <1>1, <1>2, <1>3, <1>5, <1>7 DEF r, side
<1> QED
  BY <1>6, <1>7

\* What the engine does on a bar.
LEMMA EngineFilled ==
    ASSUME NEW c, NEW signal, NEW bar, NEW i, IsState(signal.state)
    PROVE  LET s == signal.state
               u == EngineFill(c, signal, bar, i)
           IN  /\ IsState(u) /\ u.session = s.session /\ u.count = s.count /\ u.side = s.side
               /\ u.since = s.since
               /\ \/ /\ s.position = 0 /\ u.position # 0
                     /\ u.trades = s.trades + 1 /\ u.hold = HoldAt(c, i)
                     /\ signal.long_entry \/ signal.short_entry
                  \/ /\ s.position # 0 \/ u.position = 0
                     /\ u.trades = s.trades
<1> DEFINE s == signal.state
           u == EngineFill(c, signal, bar, i)
           leave == \/ signal.long_exit \/ signal.short_exit
                    \/ bar.stop
                    \/ s.hold >= 0 /\ i - s.since >= s.hold
           side == IF signal.long_entry THEN 1 ELSE IF signal.short_entry THEN -1 ELSE 0
           price == c.args["price"][i]
           worse == c.slippage[i]
           Level(n) == IF n \in DOMAIN c.args THEN c.args[n][i] ELSE Absent(n)
           left == s.cash + s.position * (price - s.paid) - worse - c.fee
           stop == Level("sl_stop")
           hold == Level("td_stop")
           paid == price + side * worse
           cash == s.cash - c.fee
<1>1. u = IF s.position /= 0 /\ leave THEN [s EXCEPT !.position = 0, !.cash = left]
          ELSE IF s.position = 0 /\ side /= 0
          THEN [s EXCEPT !.position = side, !.paid = paid, !.cash = cash,
                         !.trades = @ + 1, !.stop = stop, !.hold = hold]
          ELSE s
  BY DEF EngineFill
<1>2. hold = HoldAt(c, i)
  BY DEF HoldAt, Absent
<1>3. side \in {-1, 0, 1} /\ (side # 0 => signal.long_entry \/ signal.short_entry)
  OBVIOUS
<1>4. IsState(s) /\ s.trades \in Nat
  BY DEF IsState
<1> HIDE DEF s, u, leave, side, left, stop, hold, paid, cash
<1>5. CASE s.position # 0 /\ leave
  <2>1. u = [s EXCEPT !.position = 0, !.cash = left]
    BY <1>1, <1>5
  <2>2. DOMAIN s = StateFields
    BY <1>4 DEF IsState
  <2>3. u = [f \in StateFields |->
            IF f = "position" THEN 0 ELSE IF f = "cash" THEN left ELSE s[f]]
    BY <2>1, <2>2 DEF StateFields
  <2>4. /\ u.position = 0 /\ u.session = s.session /\ u.count = s.count /\ u.side = s.side
        /\ u.since = s.since /\ u.trades = s.trades /\ u.hold = s.hold
    BY <2>3 DEF StateFields
  <2>5. u = [f \in StateFields |-> u[f]]
    BY <2>3
  <2>6. IsState(u)
    BY <1>4, <2>4, <2>5 DEF IsState
  <2> QED
    BY <1>4, <1>5, <2>4, <2>6 DEF s, u
<1>6. CASE s.position = 0 /\ side # 0
  <2>1. u = [s EXCEPT !.position = side, !.paid = paid, !.cash = cash,
                      !.trades = @ + 1, !.stop = stop, !.hold = hold]
    BY <1>1, <1>6
  <2>2. DOMAIN s = StateFields
    BY <1>4 DEF IsState
  <2>3. u = [f \in StateFields |->
            IF f = "position" THEN side
            ELSE IF f = "paid" THEN paid
            ELSE IF f = "cash" THEN cash
            ELSE IF f = "trades" THEN s.trades + 1
            ELSE IF f = "stop" THEN stop
            ELSE IF f = "hold" THEN hold
            ELSE s[f]]
    BY <2>1, <2>2 DEF StateFields
  <2>4. /\ u.position = side /\ u.trades = s.trades + 1 /\ u.hold = hold /\ u.session = s.session
        /\ u.count = s.count /\ u.side = s.side /\ u.since = s.since
    BY <2>3 DEF StateFields
  <2>5. u = [f \in StateFields |-> u[f]]
    BY <2>3
  <2>6. IsState(u)
    BY <1>4, <1>3, <2>4, <2>5 DEF IsState
  <2> QED
    BY <1>2, <1>3, <1>6, <2>4, <2>6 DEF s, u
<1>7. CASE ~(s.position # 0 /\ leave) /\ ~(s.position = 0 /\ side # 0)
  <2>1. u = s
    BY <1>1, <1>7
  <2> QED
    BY <1>4, <2>1 DEF s, u
<1> QED
  BY <1>5, <1>6, <1>7

\* A bar opens a trade when the cap allows one more, or it keeps the one there is.
LEMMA CappedStep ==
    ASSUME NEW c, c.cap \in Nat, c.cap # Null, NEW i \in Int, NEW t, IsState(t),
           c.sessions # Null, c.sessions[i] \in Int, i \in DOMAIN c.close
    PROVE  LET u == NextState(c, i, t)
           IN  /\ IsState(u) /\ u.session = c.sessions[i]
               /\ OpensTrade(c, i, t, u) \/ KeepsTrade(c, i, t, u)
<1> DEFINE bar == ColumnBar(c, i, t)
           signal == SessionCapSignal(bar, i, c.cap, t)
           d == signal.state
           v == EngineFill(c, signal, bar, i)
           u == NextState(c, i, t)
           side == SideAt(bar, t)
<1>1. bar.session = c.sessions[i] /\ bar.session \in Int
  BY DEF ColumnBar
<1>2. bar.long_entry \/ bar.short_entry => i \in EntryBars(c)
  BY DEF ColumnBar, EntryBars
<1>3. u = RecordTrade(t, v, i)
  BY DEF NextState, BarSignal
<1> HIDE DEF bar, u
<1>4. /\ IsState(d) /\ d.session = bar.session /\ d.count = CountAt(bar, t)
      /\ d.since = t.since /\ d.position = t.position /\ d.trades = t.trades
      /\ d.side = IF side # 0 /\ Ends(bar, side, t.since, i) THEN 0 ELSE side
      /\ signal.long_entry => bar.long_entry /\ side = 0 /\ CountAt(bar, t) < c.cap
      /\ signal.short_entry => bar.short_entry /\ side = 0 /\ CountAt(bar, t) < c.cap
  BY <1>1, CapSignalGiven
<1> HIDE DEF signal
<1>5. /\ IsState(v) /\ v.session = d.session /\ v.count = d.count /\ v.side = d.side
      /\ v.since = d.since
      /\ \/ /\ d.position = 0 /\ v.position # 0
            /\ v.trades = d.trades + 1 /\ v.hold = HoldAt(c, i)
            /\ signal.long_entry \/ signal.short_entry
         \/ /\ d.position # 0 \/ v.position = 0
            /\ v.trades = d.trades
  BY <1>4, EngineFilled
<1> HIDE DEF v, d, side
<1>6. CASE t.position = 0 /\ v.position # 0
  <2>1. u = [v EXCEPT !.count = @ + 1, !.side = v.position, !.since = i]
    BY <1>3, <1>6 DEF RecordTrade
  <2>2. v.position \in {-1, 0, 1}
    BY <1>5 DEF IsState
  <2>3. DOMAIN v = StateFields
    BY <1>5 DEF IsState
  <2>4. u = [f \in StateFields |->
            IF f = "count" THEN v.count + 1
            ELSE IF f = "side" THEN v.position
            ELSE IF f = "since" THEN i
            ELSE v[f]]
    BY <2>1, <2>3 DEF StateFields
  <2>5. /\ u.count = v.count + 1 /\ u.side = v.position /\ u.since = i /\ u.session = v.session
        /\ u.position = v.position /\ u.trades = v.trades /\ u.hold = v.hold
    BY <2>4 DEF StateFields
  <2>6. u = [f \in StateFields |-> u[f]]
    BY <2>4
  <2>7. IsState(u)
    BY <1>5, <2>2, <2>5, <2>6 DEF IsState
  <2>8. signal.long_entry \/ signal.short_entry
    BY <1>4, <1>5, <1>6
  <2>9. i \in EntryBars(c) /\ side = 0 /\ CountAt(bar, t) < c.cap
    BY <1>2, <1>4, <2>8
  <2>10. v.trades = t.trades + 1 /\ v.hold = HoldAt(c, i) /\ v.count = CountAt(bar, t)
    BY <1>4, <1>5, <1>6
  <2>11. OpensTrade(c, i, t, u)
    BY <1>6, <2>5, <2>7, <2>9, <2>10 DEF OpensTrade, bar, side
  <2> QED
    BY <1>1, <1>4, <1>5, <2>5, <2>7, <2>11 DEF u
<1>7. CASE ~(t.position = 0 /\ v.position # 0)
  <2>1. u = v
    BY <1>3, <1>7 DEF RecordTrade
  <2>2. KeepsTrade(c, i, t, u)
    BY <1>4, <1>5, <1>7, <2>1 DEF KeepsTrade, bar, side
  <2> QED
    BY <1>1, <1>4, <1>5, <2>1, <2>2 DEF u
<1> QED
  BY <1>6, <1>7

-----------------------------------------------------------------------------
(* The bars of a column *)

\* The state that bar i finds.
StateBefore(c, s, i) == IF i = 1 THEN NoTrade(c.cash) ELSE s[i - 1]

\* The portfolio of the first n bars.
IsPortfolio(s, c, n) ==
    /\ IsSequence(s) /\ Len(s) = n
    /\ \A i \in 1..n : s[i] = NextState(c, i, StateBefore(c, s, i))

\* The portfolio with one bar more.
NextHistory(c, i, past) ==
    Append(past, NextState(c, i, IF i = 1 THEN NoTrade(c.cash) ELSE past[i - 1]))

\* The portfolios of longer and longer parts of a column, by their recursion.
AreHistories(f, c, n) ==
    f = [i \in 0..n |-> IF i = 0 THEN <<>> ELSE NextHistory(c, i, f[i - 1])]

\* Each of them is the one before with one bar more.
LEMMA HistoriesAt ==
    ASSUME NEW f, NEW c, NEW n \in Nat, AreHistories(f, c, n)
    PROVE  /\ f[0] = <<>>
           /\ \A k \in 1..n : f[k] = NextHistory(c, k, f[k - 1])
<1> DEFINE E(k) == IF k = 0 THEN <<>> ELSE NextHistory(c, k, f[k - 1])
<1>1. f = [k \in 0..n |-> E(k)]
  BY DEF AreHistories
<1> HIDE DEF E
<1>2. \A k \in 0..n : f[k] = E(k)
  BY <1>1
<1>3. 0 \in 0..n /\ \A k \in 1..n : k \in 0..n /\ k # 0
  OBVIOUS
<1> QED
  BY <1>2, <1>3 DEF E

\* A column has portfolios of as many bars as it has.
LEMMA HistoriesExist ==
    ASSUME NEW c, NEW n \in Nat
    PROVE  \E f : AreHistories(f, c, n)
<1> DEFINE A == {m \in Nat : \E f : AreHistories(f, c, m)}
<1>1. 0 \in A
  <2>1. AreHistories([k \in 0..0 |-> <<>>], c, 0)
    BY DEF AreHistories
  <2> QED
    BY <2>1
<1>2. ASSUME NEW m \in Nat, m \in A PROVE m + 1 \in A
  <2>1. PICK f : AreHistories(f, c, m)
    BY <1>2
  <2> DEFINE g == [k \in 0..(m + 1) |-> IF k = m + 1 THEN NextHistory(c, m + 1, f[m]) ELSE f[k]]
  <2>2. ASSUME NEW k \in 0..(m + 1)
        PROVE  g[k] = IF k = 0 THEN <<>> ELSE NextHistory(c, k, g[k - 1])
    <3>1. CASE k = m + 1
      <4>1. k # 0 /\ k - 1 = m /\ m \in 0..(m + 1) /\ m # m + 1
        BY <3>1
      <4>2. g[k] = NextHistory(c, m + 1, f[m]) /\ g[k - 1] = f[m]
        BY <3>1, <4>1
      <4> QED
        BY <3>1, <4>1, <4>2
    <3>2. CASE k = 0
      <4>1. g[k] = f[0]
        BY <3>2
      <4> QED
        BY <2>1, <3>2, <4>1, HistoriesAt
    <3>3. CASE k \in 1..m
      <4>1. k # 0 /\ k # m + 1 /\ k - 1 # m + 1 /\ k - 1 \in 0..(m + 1)
        BY <3>3
      <4>2. g[k] = f[k] /\ g[k - 1] = f[k - 1]
        BY <4>1
      <4> QED
        BY <2>1, <3>3, <4>1, <4>2, HistoriesAt
    <3> QED
      BY <3>1, <3>2, <3>3
  <2>3. AreHistories(g, c, m + 1)
    <3> HIDE DEF g
    <3>1. g = [k \in 0..(m + 1) |-> g[k]]
      BY DEF g
    <3> QED
      BY <2>2, <3>1 DEF AreHistories
  <2> QED
    BY <2>3
<1> HIDE DEF A
<1>3. n \in A
  BY <1>1, <1>2, SetInduction
<1> QED
  BY <1>3 DEF A

\* One bar more.
LEMMA LongerPortfolio ==
    ASSUME NEW c, NEW s, NEW n \in Nat, IsPortfolio(s, c, n)
    PROVE  IsPortfolio(NextHistory(c, n + 1, s), c, n + 1)
<1> DEFINE x == NextState(c, n + 1, IF n + 1 = 1 THEN NoTrade(c.cash) ELSE s[n + 1 - 1])
           r == Append(s, x)
<1>1. r = NextHistory(c, n + 1, s)
  BY DEF NextHistory
<1>2. IsSequence(s) /\ Len(s) = n
  BY DEF IsPortfolio
<1> HIDE DEF x
<1>3. /\ IsSequence(r) /\ Len(r) = n + 1
      /\ \A i \in 1..n : r[i] = s[i]
      /\ r[n + 1] = x
  BY <1>2, AppendedSequence
<1> HIDE DEF r
<1>4. x = NextState(c, n + 1, StateBefore(c, r, n + 1))
  <2>1. CASE n = 0
    BY <2>1 DEF x, StateBefore
  <2>2. CASE n # 0
    <3>1. n + 1 # 1 /\ n + 1 - 1 = n /\ n \in 1..n
      BY <2>2
    <3>2. r[n] = s[n]
      BY <1>3, <3>1
    <3> QED
      BY <3>1, <3>2 DEF x, StateBefore
  <2> QED
    BY <2>1, <2>2
<1>5. ASSUME NEW i \in 1..n PROVE r[i] = NextState(c, i, StateBefore(c, r, i))
  <2>1. s[i] = NextState(c, i, StateBefore(c, s, i))
    BY DEF IsPortfolio
  <2>2. StateBefore(c, s, i) = StateBefore(c, r, i)
    <3>1. i # 1 => i - 1 \in 1..n
      OBVIOUS
    <3> QED
      BY <1>3, <3>1 DEF StateBefore
  <2> QED
    BY <1>3, <2>1, <2>2
<1>6. \A i \in 1..(n + 1) : i \in 1..n \/ i = n + 1
  OBVIOUS
<1> QED
  BY <1>1, <1>3, <1>4, <1>5, <1>6 DEF IsPortfolio

\* The portfolio of a column has the states that its bars leave.
LEMMA PortfolioSteps ==
    ASSUME NEW c, Len(c.close) \in Nat
    PROVE  IsPortfolio(Portfolio(c), c, Len(c.close))
<1> DEFINE n == Len(c.close)
           f == CHOOSE f : AreHistories(f, c, n)
           A == {k \in Nat : k <= n => IsPortfolio(f[k], c, k)}
<1>1. AreHistories(f, c, n)
  BY HistoriesExist
<1>2. Portfolio(c) = f[n]
  BY DEF Portfolio, AreHistories, NextHistory
<1> HIDE DEF f, n
<1>3. n \in Nat
  BY DEF n
<1>4. f[0] = <<>> /\ \A k \in 1..n : f[k] = NextHistory(c, k, f[k - 1])
  BY <1>1, <1>3, HistoriesAt
<1>5. 0 \in A
  <2>1. IsSequence(<<>>) /\ Len(<<>>) = 0
    BY DEF IsSequence
  <2> QED
    BY <1>4, <2>1 DEF IsPortfolio
<1>6. ASSUME NEW k \in Nat, k \in A PROVE k + 1 \in A
  <2> SUFFICES ASSUME k + 1 <= n PROVE IsPortfolio(f[k + 1], c, k + 1)
    OBVIOUS
  <2>1. k + 1 \in 1..n /\ k <= n /\ (k + 1) - 1 = k
    BY <1>3
  <2>2. IsPortfolio(f[k], c, k)
    BY <1>6, <2>1
  <2>3. f[k + 1] = NextHistory(c, k + 1, f[k])
    BY <1>4, <2>1
  <2> QED
    BY <2>2, <2>3, LongerPortfolio
<1>7. n \in A
  <2> HIDE DEF A
  <2> QED
    BY <1>3, <1>5, <1>6, SetInduction
<1>8. IsPortfolio(f[n], c, n)
  BY <1>3, <1>7
<1> QED
  BY <1>2, <1>8 DEF n

-----------------------------------------------------------------------------
(* The trades of a session *)

\* A column with a cap, as the callers build it.
IsCapped(c) == IsColumnCase([column |-> c]) /\ c.cap # Null

\* What bar i does to the state it finds.
IsStep(c, s, i) ==
    LET t == StateBefore(c, s, i)
    IN  /\ IsState(t) /\ IsState(s[i]) /\ s[i].session = c.sessions[i]
        /\ OpensTrade(c, i, t, s[i]) \/ KeepsTrade(c, i, t, s[i])

\* What the callers build.
LEMMA CappedColumn ==
    ASSUME NEW c, IsCapped(c)
    PROVE  /\ Len(c.close) \in Nat /\ DOMAIN c.close = 1..Len(c.close)
           /\ c.cap \in Nat /\ c.cap # Null /\ c.sessions # Null
           /\ DOMAIN c.sessions = 1..Len(c.close)
           /\ \A i \in 1..Len(c.close) : c.sessions[i] \in Nat \cup {-1}
           /\ \A i, j, k \in 1..Len(c.close) :
                  i <= j /\ j <= k /\ c.sessions[i] = c.sessions[k] /\ c.sessions[i] >= 0
                      => c.sessions[j] = c.sessions[i]
           /\ \A i \in EntryBars(c), k \in 1..Len(c.close) : i <= k => HoldAt(c, k) = HoldAt(c, i)
<1>1. IsSequence(c.close) /\ c.cap # Null
  BY DEF IsCapped, IsColumnCase
<1>2. Len(c.close) \in Nat /\ DOMAIN c.close = 1..Len(c.close)
  BY <1>1 DEF IsSequence
<1>3. /\ c.cap \in Nat /\ c.sessions # Null /\ DOMAIN c.sessions = DOMAIN c.close
      /\ \A i \in DOMAIN c.close : c.sessions[i] \in Nat \cup {-1}
      /\ \A i, j, k \in DOMAIN c.close :
             i <= j /\ j <= k /\ c.sessions[i] = c.sessions[k] /\ c.sessions[i] >= 0
                 => c.sessions[j] = c.sessions[i]
  BY <1>1 DEF IsCapped, IsColumnCase
<1>4. ASSUME NEW i \in EntryBars(c), NEW k \in DOMAIN c.close, i <= k
      PROVE  HoldAt(c, k) = HoldAt(c, i)
  BY <1>1, <1>4 DEF IsCapped, IsColumnCase, HoldAt
<1> QED
  BY <1>1, <1>2, <1>3, <1>4

\* An empty portfolio.
LEMMA NoTradeIsState ==
    ASSUME NEW v
    PROVE  LET t == NoTrade(v) IN IsState(t) /\ t.session = -2 /\ t.position = 0
<1> DEFINE t == NoTrade(v)
<1>1. /\ DOMAIN t = StateFields /\ t = [f \in DOMAIN t |-> t[f]]
      /\ t.session = -2 /\ t.count = 0 /\ t.side = 0 /\ t.since = 0 /\ t.position = 0 /\ t.trades = 0
  BY DEF NoTrade, StateFields
<1> HIDE DEF t
<1> QED
  BY <1>1 DEF IsState, t

\* Every bar of a capped column is such a step.
LEMMA StepsOfColumn ==
    ASSUME NEW c, IsCapped(c), NEW s, IsPortfolio(s, c, Len(c.close))
    PROVE  \A i \in 1..Len(c.close) : IsStep(c, s, i)
<1> DEFINE n == Len(c.close)
           A == {k \in Nat : k \in 1..n => IsStep(c, s, k)}
<1>1. n \in Nat
  BY CappedColumn
<1>2. 0 \in A
  OBVIOUS
<1>3. ASSUME NEW k \in Nat, k \in A PROVE k + 1 \in A
  <2> SUFFICES ASSUME k + 1 \in 1..n PROVE IsStep(c, s, k + 1)
    OBVIOUS
  <2> DEFINE i == k + 1
             t == StateBefore(c, s, i)
  <2>1. IsState(t)
    <3>1. CASE k = 0
      <4>1. t = NoTrade(c.cash)
        BY <3>1 DEF StateBefore
      <4> QED
        BY <4>1, NoTradeIsState
    <3>2. CASE k # 0
      <4>1. k \in 1..n /\ i # 1 /\ i - 1 = k
        BY <1>1, <3>2
      <4>2. t = s[k] /\ IsStep(c, s, k)
        BY <1>3, <4>1 DEF StateBefore
      <4> QED
        BY <4>2 DEF IsStep
    <3> QED
      BY <3>1, <3>2
  <2>2. s[i] = NextState(c, i, t)
    BY DEF IsPortfolio
  <2>3. i \in Int /\ i \in DOMAIN c.close /\ c.sessions[i] \in Int
    BY CappedColumn
  <2>4. c.cap \in Nat /\ c.cap # Null /\ c.sessions # Null
    BY CappedColumn
  <2> HIDE DEF i, t
  <2>5. /\ IsState(NextState(c, i, t)) /\ NextState(c, i, t).session = c.sessions[i]
        /\ OpensTrade(c, i, t, NextState(c, i, t)) \/ KeepsTrade(c, i, t, NextState(c, i, t))
    BY <2>1, <2>3, <2>4, CappedStep
  <2> QED
    BY <2>1, <2>2, <2>5 DEF IsStep, i, t
<1>4. Nat \subseteq A
  <2> HIDE DEF A
  <2> QED
    BY <1>2, <1>3, SetInduction
<1> QED
  BY <1>1, <1>4

\* A bar that opens a position from flat.
Opens(c, s, i) == StateBefore(c, s, i).position = 0 /\ s[i].position # 0

\* The trades of a session that were opened on the first n bars.
TradesOf(c, s, d, n) == {k \in 1..n : Opens(c, s, k) /\ c.sessions[k] = d}

\* A rule exit of the trade that bar k opened, or its maximum hold, on bar m.
FreedOn(c, s, k, m) ==
    LET bar == ColumnBar(c, m, s[m - 1])
    IN  \/ s[k].position > 0 /\ bar.long_exit
        \/ s[k].position < 0 /\ bar.short_exit
        \/ s[k].hold >= 0 /\ m - k >= s[k].hold

\* The cap counts the trades of the session, and keeps the last until it is freed.
IsKept(c, s, i) ==
    /\ s[i].count <= c.cap
    /\ c.sessions[i] # -1 =>
           /\ s[i].count = Cardinality(TradesOf(c, s, c.sessions[i], i))
           /\ \A k \in TradesOf(c, s, c.sessions[i], i) :
                  \/ \E m \in (k + 1)..i : FreedOn(c, s, k, m)
                  \/ s[i].side = s[k].position /\ s[i].since = k

\* Which bars open a trade.
LEMMA OpeningBars ==
    ASSUME NEW c, NEW s, NEW i \in Int, IsStep(c, s, i)
    PROVE  /\ Opens(c, s, i) <=> s[i].position # 0 /\ (i = 1 \/ s[i - 1].trades < s[i].trades)
           /\ Opens(c, s, i) <=> OpensTrade(c, i, StateBefore(c, s, i), s[i])
           /\ ~Opens(c, s, i) => KeepsTrade(c, i, StateBefore(c, s, i), s[i])
<1> DEFINE t == StateBefore(c, s, i)
<1>1. /\ IsState(t) /\ IsState(s[i])
      /\ OpensTrade(c, i, t, s[i]) \/ KeepsTrade(c, i, t, s[i])
  BY DEF IsStep
<1>2. t.trades \in Nat /\ s[i].trades \in Nat
  BY <1>1 DEF IsState
<1>3. i = 1 => t.position = 0
  BY NoTradeIsState DEF StateBefore
<1>4. i # 1 => t = s[i - 1]
  BY DEF StateBefore
<1>5. Opens(c, s, i) <=> t.position = 0 /\ s[i].position # 0
  BY DEF Opens
<1> HIDE DEF t
<1>6. CASE OpensTrade(c, i, t, s[i])
  <2>1. t.position = 0 /\ s[i].position # 0 /\ s[i].trades = t.trades + 1
    BY <1>6 DEF OpensTrade
  <2> QED
    BY <1>2, <1>4, <1>5, <1>6, <2>1 DEF t
<1>7. CASE KeepsTrade(c, i, t, s[i]) /\ ~OpensTrade(c, i, t, s[i])
  <2>1. (t.position # 0 \/ s[i].position = 0) /\ s[i].trades = t.trades
    BY <1>7 DEF KeepsTrade
  <2> QED
    BY <1>2, <1>3, <1>4, <1>5, <1>7, <2>1 DEF t
<1> QED
  BY <1>1, <1>6, <1>7

\* What the state before a bar knows of the session's earlier trades.
LEMMA EarlierTrades ==
    ASSUME NEW c, IsCapped(c), NEW s, NEW i \in 1..Len(c.close),
           \A k \in 1..Len(c.close) : IsStep(c, s, k),
           i = 1 \/ IsKept(c, s, i - 1),
           c.sessions[i] # -1
    PROVE  LET t == StateBefore(c, s, i)
               bar == ColumnBar(c, i, t)
               P == TradesOf(c, s, c.sessions[i], i - 1)
           IN  /\ CountAt(bar, t) = Cardinality(P)
               /\ \A k \in P : \/ \E m \in (k + 1)..(i - 1) : FreedOn(c, s, k, m)
                               \/ SideAt(bar, t) = s[k].position /\ t.since = k
<1> DEFINE t == StateBefore(c, s, i)
           bar == ColumnBar(c, i, t)
           d == c.sessions[i]
           P == TradesOf(c, s, d, i - 1)
           n == Len(c.close)
<1>1. n \in Nat /\ d \in Nat /\ bar.session = d
  BY CappedColumn DEF ColumnBar
<1>2. CASE t.session = d
  <2>1. i # 1
    BY <1>1, <1>2, NoTradeIsState DEF StateBefore
  <2>2. i - 1 \in 1..n /\ t = s[i - 1]
    BY <1>1, <2>1 DEF StateBefore
  <2>3. c.sessions[i - 1] = d
    BY <1>2, <2>2 DEF IsStep
  <2>4. /\ t.count = Cardinality(P)
        /\ \A k \in P : \/ \E m \in (k + 1)..(i - 1) : FreedOn(c, s, k, m)
                        \/ t.side = s[k].position /\ t.since = k
    BY <2>1, <2>2, <2>3 DEF IsKept
  <2>5. CountAt(bar, t) = t.count /\ SideAt(bar, t) = t.side
    BY <1>1, <1>2 DEF CountAt, SideAt
  <2> QED
    BY <2>4, <2>5
<1>3. CASE t.session # d
  <2>1. P = {}
    <3> SUFFICES ASSUME NEW k \in P PROVE FALSE
      OBVIOUS
    <3>1. k \in 1..(i - 1) /\ c.sessions[k] = d
      BY DEF TradesOf
    <3>2. i # 1 /\ k \in 1..n /\ i - 1 \in 1..n /\ k <= i - 1 /\ i - 1 <= i /\ i \in 1..n
      BY <1>1, <3>1
    <3>3. c.sessions[i - 1] = d
      BY <1>1, <3>1, <3>2, CappedColumn
    <3>4. t = s[i - 1]
      BY <3>2 DEF StateBefore
    <3> QED
      BY <1>3, <3>2, <3>3, <3>4 DEF IsStep
  <2>2. CountAt(bar, t) = 0
    BY <1>1, <1>3 DEF CountAt
  <2>3. Cardinality(P) = 0
    BY <2>1, FS_EmptySet
  <2> QED
    BY <2>1, <2>2, <2>3
<1> QED
  BY <1>2, <1>3

\* So every bar keeps the trades of its session.
LEMMA NextBarKept ==
    ASSUME NEW c, IsCapped(c), NEW s, NEW i \in 1..Len(c.close),
           \A k \in 1..Len(c.close) : IsStep(c, s, k),
           i = 1 \/ IsKept(c, s, i - 1)
    PROVE  IsKept(c, s, i)
<1> DEFINE t == StateBefore(c, s, i)
           u == s[i]
           bar == ColumnBar(c, i, t)
           side == SideAt(bar, t)
           count == CountAt(bar, t)
           d == c.sessions[i]
           P == TradesOf(c, s, d, i - 1)
           Q == TradesOf(c, s, d, i)
           n == Len(c.close)
<1>1. n \in Nat /\ c.cap \in Nat /\ d \in Nat \cup {-1} /\ bar.session = d
  BY CappedColumn DEF ColumnBar
<1>2. IsStep(c, s, i) /\ IsState(t) /\ IsState(u) /\ u.session = d
  BY DEF IsStep
<1>3. count \in Nat /\ count <= c.cap
  <2>1. t.count \in Nat
    BY <1>2 DEF IsState
  <2>2. CASE t.session = d
    <3>1. i # 1
      BY <1>1, <2>2, NoTradeIsState DEF StateBefore
    <3>2. t = s[i - 1] /\ IsKept(c, s, i - 1)
      BY <3>1 DEF StateBefore
    <3> QED
      BY <1>1, <2>1, <2>2, <3>2 DEF CountAt, IsKept
  <2>3. CASE t.session # d
    BY <1>1, <2>3 DEF CountAt
  <2> QED
    BY <2>2, <2>3
<1>4. Q = IF Opens(c, s, i) THEN P \cup {i} ELSE P
  <2>1. \A k : k \in 1..i <=> k \in 1..(i - 1) \/ k = i
    OBVIOUS
  <2> QED
    BY <2>1 DEF TradesOf
<1>5. IsFiniteSet(P) /\ i \notin P
  <2>1. P \subseteq 1..(i - 1) /\ IsFiniteSet(1..(i - 1)) /\ i \notin 1..(i - 1)
    BY FS_Interval DEF TradesOf
  <2> QED
    BY <2>1, FS_Subset
<1>6. d # -1 => /\ count = Cardinality(P)
                /\ \A k \in P : \/ \E m \in (k + 1)..(i - 1) : FreedOn(c, s, k, m)
                                \/ side = s[k].position /\ t.since = k
  BY EarlierTrades
<1>7. \A k \in P : k \in 1..(i - 1) /\ Opens(c, s, k) /\ k \in 1..n
  BY <1>1 DEF TradesOf
<1>8. CASE Opens(c, s, i)
  <2>1. OpensTrade(c, i, t, u)
    BY <1>2, <1>8, OpeningBars
  <2>2. /\ side = 0 /\ count < c.cap
        /\ u.count = count + 1 /\ u.side = u.position /\ u.since = i
    BY <2>1 DEF OpensTrade
  <2>3. u.count <= c.cap
    BY <1>1, <1>3, <2>2
  <2>4. ASSUME d # -1 PROVE u.count = Cardinality(Q)
    <3>1. Cardinality(P \cup {i}) = Cardinality(P) + 1
      BY <1>5, FS_AddElement
    <3> QED
      BY <1>4, <1>6, <1>8, <2>2, <2>4, <3>1
  <2>5. ASSUME d # -1, NEW k \in Q
        PROVE  \/ \E m \in (k + 1)..i : FreedOn(c, s, k, m)
               \/ u.side = s[k].position /\ u.since = k
    <3>1. CASE k = i
      BY <2>2, <3>1
    <3>2. CASE k # i
      <4>1. k \in P
        BY <1>4, <1>8, <2>5, <3>2
      <4>2. s[k].position # 0
        BY <1>7, <4>1 DEF Opens
      <4>3. PICK m \in (k + 1)..(i - 1) : FreedOn(c, s, k, m)
        BY <1>6, <2>2, <2>5, <4>1, <4>2
      <4>4. m \in (k + 1)..i
        BY <1>7, <4>1
      <4> QED
        BY <4>3, <4>4
    <3> QED
      BY <3>1, <3>2
  <2> QED
    BY <2>3, <2>4, <2>5 DEF IsKept
<1>9. CASE ~Opens(c, s, i)
  <2>1. KeepsTrade(c, i, t, u)
    BY <1>2, <1>9, OpeningBars
  <2>2. /\ u.count = count /\ u.since = t.since
        /\ u.side = IF side # 0 /\ Ends(bar, side, t.since, i) THEN 0 ELSE side
    BY <2>1 DEF KeepsTrade
  <2>3. ASSUME d # -1, NEW k \in Q
        PROVE  \/ \E m \in (k + 1)..i : FreedOn(c, s, k, m)
               \/ u.side = s[k].position /\ u.since = k
    <3>1. k \in P
      BY <1>4, <1>9, <2>3
    <3>2. k \in 1..(i - 1) /\ k \in 1..n /\ Opens(c, s, k)
      BY <1>7, <3>1
    <3>3. CASE \E m \in (k + 1)..(i - 1) : FreedOn(c, s, k, m)
      <4>1. \A m \in (k + 1)..(i - 1) : m \in (k + 1)..i
        BY <3>2
      <4> QED
        BY <3>3, <4>1
    <3>4. CASE side = s[k].position /\ t.since = k
      <4>1. CASE ~Ends(bar, side, k, i)
        BY <2>2, <3>4, <4>1
      <4>2. CASE Ends(bar, side, k, i)
        <5>1. OpensTrade(c, k, StateBefore(c, s, k), s[k])
          BY <3>2, OpeningBars
        <5>2. s[k].hold = HoldAt(c, k) /\ k \in EntryBars(c)
          BY <5>1 DEF OpensTrade
        <5>3. bar.hold = HoldAt(c, i)
          BY DEF ColumnBar, HoldAt
        <5>4. bar.hold = s[k].hold
          BY <3>2, <5>2, <5>3, CappedColumn
        <5>5. t = s[i - 1]
          BY <3>2 DEF StateBefore
        <5>6. FreedOn(c, s, k, i)
          <6> HIDE DEF t, bar, side
          <6>1. bar = ColumnBar(c, i, s[i - 1])
            BY <5>5 DEF bar
          <6> HIDE DEF bar
          <6> QED
            BY <3>4, <4>2, <5>4, <6>1 DEF FreedOn, Ends
        <5>7. i \in (k + 1)..i
          BY <3>2
        <5> QED
          BY <5>6, <5>7
      <4> QED
        BY <4>1, <4>2
    <3> QED
      BY <1>6, <2>3, <3>1, <3>3, <3>4
  <2> QED
    BY <1>3, <1>4, <1>6, <1>9, <2>2, <2>3 DEF IsKept
<1> QED
  BY <1>8, <1>9

\* By induction over the bars.
LEMMA EveryBarKept ==
    ASSUME NEW c, IsCapped(c), NEW s, \A k \in 1..Len(c.close) : IsStep(c, s, k)
    PROVE  \A i \in 1..Len(c.close) : IsKept(c, s, i)
<1> DEFINE n == Len(c.close)
           A == {k \in Nat : k \in 1..n => IsKept(c, s, k)}
<1>1. n \in Nat
  BY CappedColumn
<1>2. 0 \in A
  OBVIOUS
<1>3. ASSUME NEW k \in Nat, k \in A PROVE k + 1 \in A
  <2> SUFFICES ASSUME k + 1 \in 1..n PROVE IsKept(c, s, k + 1)
    OBVIOUS
  <2>1. k + 1 = 1 \/ k \in 1..n
    BY <1>1
  <2>2. (k + 1) - 1 = k
    OBVIOUS
  <2>3. k + 1 = 1 \/ IsKept(c, s, (k + 1) - 1)
    BY <1>3, <2>1, <2>2
  <2> QED
    BY <2>3, NextBarKept
<1>4. Nat \subseteq A
  <2> HIDE DEF A
  <2> QED
    BY <1>2, <1>3, SetInduction
<1> QED
  BY <1>1, <1>4

\* What CapHolds says of the states of a column.
KeepsCap(c, s) ==
    LET opened == {i \in DOMAIN s : s[i].position /= 0 /\ (i = 1 \/ s[i - 1].trades < s[i].trades)}
    IN  /\ \A d \in Range(c.sessions) \ {-1} : Cardinality({i \in opened : c.sessions[i] = d}) <= c.cap
        /\ \A i, j \in opened : i < j /\ c.sessions[i] = c.sessions[j] /\ c.sessions[i] /= -1 =>
               \E k \in (i + 1) .. (j - 1) : FreedOn(c, s, i, k)

\* The states of a capped column keep the cap.
LEMMA CapIsKept ==
    ASSUME NEW c, IsCapped(c)
    PROVE  KeepsCap(c, Portfolio(c))
<1> DEFINE s == Portfolio(c)
           n == Len(c.close)
           opened == {i \in DOMAIN s : s[i].position /= 0 /\ (i = 1 \/ s[i - 1].trades < s[i].trades)}
<1>1. n \in Nat /\ IsPortfolio(s, c, n)
  BY CappedColumn, PortfolioSteps
<1> HIDE DEF s
<1>2. DOMAIN s = 1..n
  BY <1>1 DEF IsPortfolio, IsSequence
<1>3. \A i \in 1..n : IsStep(c, s, i)
  BY <1>1, StepsOfColumn
<1>4. \A i \in 1..n : IsKept(c, s, i)
  BY <1>3, EveryBarKept
<1>5. \A i \in 1..n : i \in opened <=> Opens(c, s, i)
  <2> TAKE i \in 1..n
  <2>1. Opens(c, s, i) <=> s[i].position # 0 /\ (i = 1 \/ s[i - 1].trades < s[i].trades)
    BY <1>3, OpeningBars
  <2> QED
    BY <1>2, <2>1
<1>6. opened \subseteq 1..n
  BY <1>2
<1> HIDE DEF opened
<1>7. ASSUME NEW d \in Range(c.sessions) \ {-1}
      PROVE  Cardinality({i \in opened : c.sessions[i] = d}) <= c.cap
  <2> DEFINE B == {i \in 1..n : c.sessions[i] = d}
             last == Max(B)
  <2>1. DOMAIN c.sessions = 1..n
    BY CappedColumn
  <2>2. B \in SUBSET (0..n) /\ B # {}
    <3>1. PICK i \in DOMAIN c.sessions : c.sessions[i] = d
      BY DEF Range
    <3>2. i \in B
      BY <2>1, <3>1
    <3> QED
      BY <1>1, <3>2
  <2>3. last \in B /\ \A k \in B : k <= last
    BY <1>1, <2>2, GreatestNumber
  <2> HIDE DEF last
  <2>4. last \in 1..n /\ c.sessions[last] = d /\ c.sessions[last] # -1
    BY <2>3
  <2>5. {i \in opened : c.sessions[i] = d} = TradesOf(c, s, d, last)
    <3>1. ASSUME NEW i \in opened, c.sessions[i] = d PROVE i \in 1..last /\ Opens(c, s, i)
      BY <1>5, <1>6, <2>3, <3>1
    <3>2. ASSUME NEW i \in 1..last, Opens(c, s, i) PROVE i \in opened
      BY <1>5, <2>4, <3>2
    <3> QED
      BY <3>1, <3>2 DEF TradesOf
  <2>6. s[last].count = Cardinality(TradesOf(c, s, d, last)) /\ s[last].count <= c.cap
    BY <1>4, <2>4 DEF IsKept
  <2> QED
    BY <2>5, <2>6
<1>8. ASSUME NEW i \in opened, NEW j \in opened, i < j, c.sessions[i] = c.sessions[j], c.sessions[i] # -1
      PROVE  \E k \in (i + 1) .. (j - 1) : FreedOn(c, s, i, k)
  <2> DEFINE t == StateBefore(c, s, j)
             bar == ColumnBar(c, j, t)
  <2>1. i \in 1..n /\ j \in 1..n /\ Opens(c, s, i) /\ Opens(c, s, j) /\ j - 1 \in 1..n
    BY <1>1, <1>5, <1>6, <1>8
  <2>2. i \in TradesOf(c, s, c.sessions[j], j - 1)
    BY <1>8, <2>1 DEF TradesOf
  <2>3. \/ \E m \in (i + 1)..(j - 1) : FreedOn(c, s, i, m)
        \/ SideAt(bar, t) = s[i].position /\ t.since = i
    BY <1>3, <1>4, <1>8, <2>1, <2>2, EarlierTrades
  <2>4. SideAt(bar, t) = 0
    <3>1. OpensTrade(c, j, t, s[j])
      BY <1>3, <2>1, OpeningBars
    <3> QED
      BY <3>1 DEF OpensTrade
  <2>5. s[i].position # 0
    BY <2>1 DEF Opens
  <2> QED
    BY <2>3, <2>4, <2>5
<1> QED
  BY <1>7, <1>8 DEF KeepsCap, opened, s

-----------------------------------------------------------------------------
(* The trades of the session strategies *)

\* A trade that begins and ends in a session.
TradeInSession(x, s) ==
    /\ x.side \in {"long", "short"}
    /\ x.at \in SessionBars(s) /\ x.exit \in SessionBars(s) /\ x.at <= x.exit

\* What SessionTradesClose says of signals.
KeepsSessions(g, q) ==
    LET at == g.entries \cup g.short_entries
        leave == g.exits \cup g.short_exits
    IN  /\ g.entries \cap g.short_entries = {}
        /\ \A s \in Range(q) :
               /\ Cardinality(at \cap SessionBars(s)) <= 1
               /\ Cardinality(leave \cap SessionBars(s)) = Cardinality(at \cap SessionBars(s))
               /\ \A t \in at \cap SessionBars(s), u \in leave \cap SessionBars(s) : t <= u
        /\ Cardinality(at) = Cardinality(leave)

\* No bar is in two sessions.
LEMMA SessionsAreDisjoint ==
    ASSUME NEW q, IsSchedule(q), NEW i \in DOMAIN q, NEW j \in DOMAIN q, NEW t,
           t \in SessionBars(q[i]), t \in SessionBars(q[j])
    PROVE  i = j
<1>1. i \in Int /\ j \in Int
  BY DEF IsSchedule, IsSequence
<1>2. /\ q[i].open \in Int /\ q[i].close \in Int /\ q[j].open \in Int /\ q[j].close \in Int
      /\ i < j => q[i].close <= q[j].open
      /\ j < i => q[j].close <= q[i].open
  BY DEF IsSchedule
<1>3. t \in Int /\ q[i].open <= t /\ t < q[i].close /\ q[j].open <= t /\ t < q[j].close
  BY <1>2 DEF SessionBars
<1> QED
  BY <1>1, <1>2, <1>3

\* A bounded set of numbers that is not empty has a least one.
LEMMA LeastInteger ==
    ASSUME NEW n \in Int, NEW S \in SUBSET Int, \A k \in S : n <= k, S # {}
    PROVE  Min(S) \in S /\ \A k \in S : Min(S) <= k
<1> DEFINE T == {k - n : k \in S}
<1>1. T \in SUBSET Nat /\ T # {}
  <2>1. \A k \in S : k - n \in Nat
    OBVIOUS
  <2>2. \E k : k \in S
    OBVIOUS
  <2> QED
    BY <2>1, <2>2
<1>2. PICK t \in T : \A u \in T : t <= u
  BY <1>1, LeastNumber
<1>3. PICK m \in S : t = m - n
  OBVIOUS
<1>4. ASSUME NEW k \in S PROVE m <= k
  <2>1. k - n \in T
    OBVIOUS
  <2>2. t <= k - n
    BY <1>2, <2>1
  <2> QED
    BY <1>3, <2>2
<1>5. Min(S) \in S /\ \A k \in S : Min(S) <= k
  BY <1>4 DEF Min
<1> QED
  BY <1>5

\* One trade at most for each session, in that session: the signals keep the sessions.
LEMMA SignalsKeepSessions ==
    ASSUME NEW q, IsSchedule(q), NEW f, DOMAIN f = DOMAIN q,
           \A k \in DOMAIN q : f[k] # Null => TradeInSession(f[k], q[k])
    PROVE  KeepsSessions(SignalsOf(Range(f) \ {Null}), q)
<1> DEFINE T == Range(f) \ {Null}
           g == SignalsOf(T)
           at == g.entries \cup g.short_entries
           leave == g.exits \cup g.short_exits
<1>1. \A x \in T : \E k \in DOMAIN q : x = f[k] /\ TradeInSession(x, q[k])
  BY DEF Range
<1>2. IsFiniteSet(T)
  <2> DEFINE h == [k \in DOMAIN q |-> f[k]]
  <2>2. IsFiniteSet(DOMAIN q)
    <3>1. Len(q) \in Nat /\ DOMAIN q = 1..Len(q)
      BY DEF IsSchedule, IsSequence
    <3> QED
      BY <3>1, FS_Interval
  <2>3. h \in Surjection(DOMAIN q, Range(f))
    BY DEF Surjection, Range
  <2>4. IsFiniteSet(Range(f))
    BY <2>2, <2>3, FS_Surjection
  <2>5. T \subseteq Range(f)
    OBVIOUS
  <2> HIDE DEF T
  <2> QED
    BY <2>4, <2>5, FS_Subset
<1> HIDE DEF T
<1>3. ASSUME NEW x \in T, NEW y \in T, NEW k \in DOMAIN q,
             x.at \in SessionBars(q[k]) \/ x.exit \in SessionBars(q[k]),
             y.at \in SessionBars(q[k]) \/ y.exit \in SessionBars(q[k])
      PROVE  x = y /\ TradeInSession(x, q[k])
  <2>1. PICK i \in DOMAIN q : x = f[i] /\ TradeInSession(x, q[i])
    BY <1>1
  <2>2. PICK j \in DOMAIN q : y = f[j] /\ TradeInSession(y, q[j])
    BY <1>1
  <2>3. i = k
    BY <1>3, <2>1, SessionsAreDisjoint DEF TradeInSession
  <2>4. j = k
    BY <1>3, <2>2, SessionsAreDisjoint DEF TradeInSession
  <2> QED
    BY <2>1, <2>2, <2>3, <2>4
<1>4. \A x \in T : x.side = "long" \/ x.side = "short"
  BY <1>1 DEF TradeInSession
<1>5. /\ g.entries = {x.at : x \in {y \in T : y.side = "long"}}
      /\ g.exits = {x.exit : x \in {y \in T : y.side = "long"}}
      /\ g.short_entries = {x.at : x \in {y \in T : y.side = "short"}}
      /\ g.short_exits = {x.exit : x \in {y \in T : y.side = "short"}}
  BY DEF SignalsOf
<1>6. at = {x.at : x \in T} /\ leave = {x.exit : x \in T}
  BY <1>4, <1>5
<1>7. g.entries \cap g.short_entries = {}
  <2> SUFFICES ASSUME NEW x \in T, NEW y \in T, x.side = "long", y.side = "short", x.at = y.at
               PROVE  FALSE
    BY <1>5
  <2>1. PICK k \in DOMAIN q : x.at \in SessionBars(q[k])
    BY <1>1 DEF TradeInSession
  <2>2. x = y
    BY <1>3, <2>1
  <2> QED
    BY <2>2
<1> HIDE DEF at, leave
<1>8. ASSUME NEW s \in Range(q)
      PROVE  /\ Cardinality(at \cap SessionBars(s)) <= 1
             /\ Cardinality(leave \cap SessionBars(s)) = Cardinality(at \cap SessionBars(s))
             /\ \A t \in at \cap SessionBars(s), u \in leave \cap SessionBars(s) : t <= u
  <2>1. PICK k \in DOMAIN q : s = q[k]
    BY DEF Range
  <2>2. CASE \E x \in T : x.at \in SessionBars(s) \/ x.exit \in SessionBars(s)
    <3>1. PICK x \in T : x.at \in SessionBars(s) \/ x.exit \in SessionBars(s)
      BY <2>2
    <3>2. TradeInSession(x, s)
      BY <1>3, <2>1, <3>1
    <3>3. \A y \in T : y.at \in SessionBars(s) \/ y.exit \in SessionBars(s) => y = x
      BY <1>3, <2>1, <3>1
    <3>4. at \cap SessionBars(s) = {x.at}
      BY <1>6, <3>2, <3>3 DEF TradeInSession
    <3>5. leave \cap SessionBars(s) = {x.exit}
      BY <1>6, <3>2, <3>3 DEF TradeInSession
    <3>6. Cardinality({x.at}) = 1 /\ Cardinality({x.exit}) = 1
      BY FS_Singleton
    <3> QED
      BY <3>2, <3>4, <3>5, <3>6 DEF TradeInSession
  <2>3. CASE ~\E x \in T : x.at \in SessionBars(s) \/ x.exit \in SessionBars(s)
    <3>1. at \cap SessionBars(s) = {} /\ leave \cap SessionBars(s) = {}
      BY <1>6, <2>3
    <3>2. Cardinality({}) = 0
      BY FS_EmptySet
    <3>3. Cardinality(at \cap SessionBars(s)) = 0 /\ Cardinality(leave \cap SessionBars(s)) = 0
      BY <3>1, <3>2, Zenon
    <3>4. \A t \in at \cap SessionBars(s) : FALSE
      BY <3>1, Zenon
    <3> QED
      BY <3>3, <3>4
  <2> QED
    BY <2>2, <2>3
<1>9. Cardinality(at) = Cardinality(leave)
  <2>1. ASSUME NEW x \in T, NEW y \in T, x.at = y.at \/ x.exit = y.exit PROVE x = y
    <3>1. PICK k \in DOMAIN q : x.at \in SessionBars(q[k]) /\ x.exit \in SessionBars(q[k])
      BY <1>1 DEF TradeInSession
    <3> QED
      BY <1>3, <2>1, <3>1
  <2> DEFINE a == [x \in T |-> x.at]
             e == [x \in T |-> x.exit]
  <2>2. a \in Bijection(T, at)
    BY <1>6, <2>1 DEF Bijection, Injection, Surjection, IsInjective
  <2>3. e \in Bijection(T, leave)
    BY <1>6, <2>1 DEF Bijection, Injection, Surjection, IsInjective
  <2> HIDE DEF a, e
  <2>4. ExistsBijection(T, at) /\ ExistsBijection(T, leave)
    BY <2>2, <2>3 DEF ExistsBijection
  <2>5. Cardinality(at) = Cardinality(T)
    BY <1>2, <2>4, FS_Bijection
  <2>6. Cardinality(leave) = Cardinality(T)
    BY <1>2, <2>4, FS_Bijection
  <2> QED
    BY <2>5, <2>6
<1> QED
  BY <1>7, <1>8, <1>9 DEF KeepsSessions, at, leave, T

\* A session of a schedule.
LEMMA SessionNumbers ==
    ASSUME NEW q, IsSchedule(q), NEW k \in DOMAIN q
    PROVE  /\ q[k].open \in Int /\ q[k].close \in Int /\ q[k].open < q[k].close
           /\ q[k] \in Range(q)
           /\ \A t : t \in SessionBars(q[k]) <=> t \in Int /\ q[k].open <= t /\ t < q[k].close
  BY DEF IsSchedule, SessionBars, Range

\* The run is faded for two bars, or until the session is about to end.
LEMMA RunTradeInSession ==
    ASSUME NEW data, NEW s, s.open \in Int, s.close \in Int, NEW p, p.full \in Int, p.to \in Int,
           p.to + 2 <= p.full, FiveBarRunTrade(data, s, p) # Null
    PROVE  TradeInSession(FiveBarRunTrade(data, s, p), s)
<1> DEFINE Body(t) == data[t].Close - data[t].Open
           Run(t, sign) ==
               /\ t - p.run + 1 >= s.open
               /\ \A u \in (t - p.run + 1) .. t : sign * Body(u) > 0 /\ Abs(Body(u)) >= p.minimum
           exhausted == {t \in SessionBars(s) : /\ t + 1 - s.open \in p.from .. p.to
                                                /\ Run(t, 1) \/ Run(t, -1)}
           at == Min(exhausted)
           exit == Min({at + 2, s.close - 3})
           side == IF Run(at, 1) THEN "short" ELSE "long"
           x == FiveBarRunTrade(data, s, p)
<1>1. x = IF \/ ~FullSession(data, s, p.full)
             \/ exhausted = {}
             \/ ~({at + 1, exit} \subseteq DOMAIN data)
          THEN Null ELSE [side |-> side, at |-> at, exit |-> exit]
  BY DEF FiveBarRunTrade
<1>2. side \in {"long", "short"}
  OBVIOUS
<1>3. \A t \in exhausted : t \in Int /\ s.open <= t /\ t < s.close /\ t + 1 - s.open <= p.to
  BY DEF SessionBars
<1> HIDE DEF exhausted, side, x
<1>4. FullSession(data, s, p.full) /\ exhausted # {} /\ x = [side |-> side, at |-> at, exit |-> exit]
  BY <1>1 DEF x
<1>5. exhausted \in SUBSET Int /\ \A t \in exhausted : s.open <= t
  BY <1>3
<1>6. at \in exhausted
  BY <1>4, <1>5, LeastInteger
<1> HIDE DEF at
<1>7. at \in Int /\ s.open <= at /\ at + 1 - s.open <= p.to /\ s.close - s.open = p.full
  BY <1>3, <1>4, <1>6 DEF FullSession
<1>8. exit \in {at + 2, s.close - 3} /\ \A k \in {at + 2, s.close - 3} : exit <= k
  <2> DEFINE S == {at + 2, s.close - 3}
             n == IF at + 2 <= s.close - 3 THEN at + 2 ELSE s.close - 3
  <2>1. S \in SUBSET Int /\ S # {} /\ n \in Int /\ \A k \in S : n <= k
    BY <1>7
  <2> HIDE DEF S, n
  <2>2. Min(S) \in S /\ \A k \in S : Min(S) <= k
    BY <2>1, LeastInteger
  <2> QED
    BY <2>2 DEF S
<1> HIDE DEF exit
<1>9. exit \in Int /\ at <= exit /\ exit < s.close
  BY <1>7, <1>8
<1>10. x.side = side /\ x.at = at /\ x.exit = exit
  BY <1>4
<1> QED
  BY <1>2, <1>7, <1>9, <1>10 DEF TradeInSession, SessionBars, x

\* A cross is held until two bars before the close.
LEMMA CrossTradeInSession ==
    ASSUME NEW data, NEW s, s.open \in Int, s.close \in Int, NEW p, p.slow \in Nat,
           SmaCrossoverTrade(data, s, p) # Null
    PROVE  TradeInSession(SmaCrossoverTrade(data, s, p), s)
<1> DEFINE Total(t, n) == FoldSet(LAMBDA u, acc : acc + data[u].Close, 0, (t - n + 1) .. t)
           Spread(t) == Total(t, p.fast) * p.slow - Total(t, p.slow) * p.fast
           exit == s.close - 2
           eligible == (s.open + p.slow) .. (exit - 1)
           Up(t) == Spread(t - 1) <= 0 /\ Spread(t) > 0
           Down(t) == Spread(t - 1) >= 0 /\ Spread(t) < 0
           crossed == {t \in eligible : Up(t) \/ Down(t)}
           at == Min(crossed)
           side == IF Up(Min(crossed)) THEN "long" ELSE "short"
           x == SmaCrossoverTrade(data, s, p)
<1>1. x = IF ~FullSession(data, s, p.full) \/ crossed = {} THEN Null
          ELSE [side |-> side, at |-> at, exit |-> exit]
  BY DEF SmaCrossoverTrade
<1>2. side \in {"long", "short"}
  OBVIOUS
<1> HIDE DEF Up, Down
<1>3. \A t \in crossed : t \in Int /\ s.open + p.slow <= t /\ t <= s.close - 3
  OBVIOUS
<1> HIDE DEF crossed, side, x
<1>4. crossed # {} /\ x = [side |-> side, at |-> at, exit |-> exit]
  BY <1>1 DEF x
<1>5. crossed \in SUBSET Int /\ s.open + p.slow \in Int
  BY <1>3
<1>6. at \in crossed
  BY <1>3, <1>4, <1>5, LeastInteger
<1> HIDE DEF at
<1>7. x.side = side /\ x.at = at /\ x.exit = s.close - 2
  BY <1>4
<1> QED
  BY <1>2, <1>3, <1>6, <1>7 DEF TradeInSession, SessionBars, x

\* A break of the opening range is held to the last bar.
LEMMA RangeTradeInSession ==
    ASSUME NEW data, NEW s, s.open \in Int, s.close \in Int, NEW p, p.range \in Nat,
           p.direction \in {"long", "short"}, OpeningRangeTrade(data, s, p) # Null
    PROVE  TradeInSession(OpeningRangeTrade(data, s, p), s)
<1> DEFINE range == s.open .. (s.open + p.range - 1)
           exit == s.close - 1
           Beyond(t) == IF p.direction = "long"
                        THEN data[t].Close > RangeHigh(data, s, p.range) + p.offset
                        ELSE data[t].Close < RangeLow(data, s, p.range) - p.offset
           qualifying == {t \in (s.open + p.range) .. (exit - 1) :
                             t \in DOMAIN data /\ t + 1 \in DOMAIN data /\ Beyond(t)}
           at == Min(qualifying)
           x == OpeningRangeTrade(data, s, p)
<1>1. x = IF ~((range \cup {exit, s.close}) \subseteq DOMAIN data) \/ qualifying = {}
          THEN Null ELSE [side |-> p.direction, at |-> at, exit |-> exit]
  BY DEF OpeningRangeTrade
<1>2. \A t \in qualifying : t \in Int /\ s.open + p.range <= t /\ t <= s.close - 2
  OBVIOUS
<1> HIDE DEF qualifying, x
<1>3. qualifying # {} /\ x = [side |-> p.direction, at |-> at, exit |-> exit]
  BY <1>1 DEF x
<1>4. qualifying \in SUBSET Int /\ s.open + p.range \in Int
  BY <1>2
<1>5. at \in qualifying
  BY <1>2, <1>3, <1>4, LeastInteger
<1> HIDE DEF at
<1>6. x.side = p.direction /\ x.at = at /\ x.exit = s.close - 1
  BY <1>3
<1> QED
  BY <1>2, <1>5, <1>6 DEF TradeInSession, SessionBars, x

\* A breakout is held until two bars before the close.
LEMMA BreakoutTradeInSession ==
    ASSUME NEW data, NEW s, s.open \in Int, s.close \in Int, NEW p, p.range \in Nat,
           VwapBreakoutTrade(data, s, p) # Null
    PROVE  TradeInSession(VwapBreakoutTrade(data, s, p), s)
<1> DEFINE Sum3(t) == data[t].High + data[t].Low + data[t].Close
           Weighted(t) == FoldSet(LAMBDA u, acc : acc + Sum3(u) * data[u].Volume, 0, s.open .. t)
           Traded(t) == FoldSet(LAMBDA u, acc : acc + data[u].Volume, 0, s.open .. t)
           OverVwap(t) == 3 * data[t].Close * Traded(t) - Weighted(t)
           high == RangeHigh(data, s, p.range)
           low == RangeLow(data, s, p.range)
           exit == s.close - 2
           Height(t) == data[t].High - data[t].Low
           Body(t) == /\ Height(t) > 0
                      /\ 100 * Abs(data[t].Close - data[t].Open) >= p.body * Height(t)
           Long(t) == data[t].Close >= high + p.buffer /\ OverVwap(t) > 0
           Short(t) == data[t].Close <= low - p.buffer /\ OverVwap(t) < 0
           Entry(t) == data[t + 1].Open
           Risk(t) == IF Long(t) THEN Entry(t) - low ELSE high - Entry(t)
           signalled == {t \in (s.open + p.range) .. (exit - 1) :
                            /\ t + 1 \in DOMAIN data
                            /\ Body(t)
                            /\ Long(t) \/ Short(t)}
           valid == {t \in signalled : Risk(t) > 0 /\ Entry(t) > 0}
           usable == /\ SessionBars(s) \subseteq DOMAIN data
                     /\ s.close - s.open >= p.full - 1
                     /\ \A t \in SessionBars(s) : Finite(data[t]) /\ data[t].Volume > 0
           at == Min(valid)
           side == IF Long(Min(valid)) THEN "long" ELSE "short"
           stop == <<Risk(Min(valid)), Entry(Min(valid))>>
           x == VwapBreakoutTrade(data, s, p)
<1>1. x = IF ~usable \/ valid = {} THEN Null
          ELSE [side |-> side, at |-> at, exit |-> exit, stop |-> stop]
  BY DEF VwapBreakoutTrade
<1>2. side \in {"long", "short"}
  OBVIOUS
<1> HIDE DEF Body, Long, Short, Risk, Entry
<1>3. \A t \in valid : t \in Int /\ s.open + p.range <= t /\ t <= s.close - 3
  OBVIOUS
<1> HIDE DEF valid, usable, side, stop, x
<1>4. valid # {} /\ x = [side |-> side, at |-> at, exit |-> exit, stop |-> stop]
  BY <1>1 DEF x
<1>5. valid \in SUBSET Int /\ s.open + p.range \in Int
  BY <1>3
<1>6. at \in valid
  BY <1>3, <1>4, <1>5, LeastInteger
<1> HIDE DEF at
<1>7. x.side = side /\ x.at = at /\ x.exit = s.close - 2
  BY <1>4
<1> QED
  BY <1>2, <1>3, <1>6, <1>7 DEF TradeInSession, SessionBars, x

\* The momentum candidate trades between two bars of a session.
LEMMA MomentumTradeInSession ==
    ASSUME NEW data, NEW q, NEW k \in DOMAIN q, NEW p, MomentumTrade(data, q, k, p) # Null,
           q[k].open \in Int, q[k].close \in Int,
           p.entry \in Nat, p.full \in Int, p.entry < p.full,
           \A t \in DOMAIN data : q[k].open <= t /\ t < q[k].open + p.full => t < q[k].close
    PROVE  TradeInSession(MomentumTrade(data, q, k, p), q[k])
<1> DEFINE s == q[k]
           before == q[k - 1].open + p.full - 1
           now == s.open + p.morning
           entry == s.open + p.entry
           exit == s.open + p.full - 1
           side == IF data[now].Close > data[before].Close THEN "long" ELSE "short"
           x == MomentumTrade(data, q, k, p)
<1>1. x = IF k = 1 THEN Null
          ELSE IF ~({before, now, entry, exit} \subseteq DOMAIN data) THEN Null
          ELSE [side |-> side, at |-> entry, exit |-> exit]
  BY DEF MomentumTrade
<1>2. side \in {"long", "short"}
  OBVIOUS
<1> HIDE DEF side, x
<1>3. entry \in DOMAIN data /\ exit \in DOMAIN data /\ x = [side |-> side, at |-> entry, exit |-> exit]
  BY <1>1 DEF x
<1>4. /\ entry \in Int /\ exit \in Int /\ s.open <= entry /\ entry <= exit
      /\ entry < s.close /\ exit < s.close
  BY <1>3
<1>5. x.side = side /\ x.at = entry /\ x.exit = exit
  BY <1>3
<1> HIDE DEF entry, exit
<1> QED
  BY <1>2, <1>4, <1>5 DEF TradeInSession, SessionBars, x

\* And so does the gap reversal.
LEMMA GapTradeInSession ==
    ASSUME NEW data, NEW q, NEW mapping, NEW k \in DOMAIN q, NEW p,
           GapSession(data, q, mapping, k, p).trade # Null,
           q[k].open \in Int, q[k].close \in Int, p.hold \in Nat \ {0},
           q[k].open + p.hold < q[k].close
    PROVE  TradeInSession(GapSession(data, q, mapping, k, p).trade, q[k])
<1> DEFINE s == q[k]
           x == GapSession(data, q, mapping, k, p).trade
           gap == data[s.open].Open - data[q[k - 1].open + p.full - 1].Close
           side == IF (IF gap > 0 THEN -1 ELSE 1) > 0 THEN "long" ELSE "short"
<1>1. x = Null \/ (x.side = side /\ x.at = s.open + 1 /\ x.exit = s.open + p.hold)
  BY DEF GapSession
<1>2. side \in {"long", "short"}
  OBVIOUS
<1> HIDE DEF side, x
<1>3. x.side = side /\ x.at = s.open + 1 /\ x.exit = s.open + p.hold
  BY <1>1 DEF x
<1> QED
  BY <1>2, <1>3 DEF TradeInSession, SessionBars, x

\* The signals of every session strategy keep the sessions.
LEMMA StrategyKeepsSessions ==
    ASSUME NEW x, IsTradeCase(x), x.p.strategy \notin {"donchian", "rsi"}
    PROVE  KeepsSessions(GenerateSignals(x.data, x.p.schedule, x.p), x.p.schedule)
<1> DEFINE p == x.p
           q == p.schedule
           data == x.data
           g == GenerateSignals(data, q, p)
<1>1. p.strategy \in {"run_exhaustion", "sma", "orb", "vwap", "momentum", "gap"} /\ IsSchedule(q)
  BY DEF IsTradeCase
<1>2. CASE p.strategy = "run_exhaustion"
  <2> DEFINE f == [k \in DOMAIN q |-> FiveBarRunTrade(data, q[k], p)]
  <2>1. g = SignalsOf({FiveBarRunTrade(data, s, p) : s \in Range(q)} \ {Null})
    BY <1>2 DEF GenerateSignals, OneTradeEach
  <2>2. Range(f) = {FiveBarRunTrade(data, s, p) : s \in Range(q)}
    BY DEF Range
  <2>3. p.full \in Int /\ p.to \in Int /\ p.to + 2 <= p.full
    BY <1>2 DEF IsTradeCase
  <2>4. \A k \in DOMAIN q : f[k] # Null => TradeInSession(f[k], q[k])
    BY <1>1, <2>3, SessionNumbers, RunTradeInSession
  <2>5. DOMAIN f = DOMAIN q
    OBVIOUS
  <2> HIDE DEF f, g, q
  <2> QED
    BY <1>1, <2>1, <2>2, <2>4, <2>5, SignalsKeepSessions DEF g, q
<1>3. CASE p.strategy = "sma"
  <2> DEFINE f == [k \in DOMAIN q |-> SmaCrossoverTrade(data, q[k], p)]
  <2>1. g = SignalsOf({SmaCrossoverTrade(data, s, p) : s \in Range(q)} \ {Null})
    BY <1>3 DEF GenerateSignals, OneTradeEach
  <2>2. Range(f) = {SmaCrossoverTrade(data, s, p) : s \in Range(q)}
    BY DEF Range
  <2>3. p.slow \in Nat
    BY <1>3 DEF IsTradeCase
  <2>4. \A k \in DOMAIN q : f[k] # Null => TradeInSession(f[k], q[k])
    BY <1>1, <2>3, SessionNumbers, CrossTradeInSession
  <2>5. DOMAIN f = DOMAIN q
    OBVIOUS
  <2> HIDE DEF f, g, q
  <2> QED
    BY <1>1, <2>1, <2>2, <2>4, <2>5, SignalsKeepSessions DEF g, q
<1>4. CASE p.strategy = "orb"
  <2> DEFINE f == [k \in DOMAIN q |-> OpeningRangeTrade(data, q[k], p)]
  <2>1. g = SignalsOf({OpeningRangeTrade(data, s, p) : s \in Range(q)} \ {Null})
    BY <1>4 DEF GenerateSignals, OneTradeEach
  <2>2. Range(f) = {OpeningRangeTrade(data, s, p) : s \in Range(q)}
    BY DEF Range
  <2>3. p.range \in Nat /\ p.direction \in {"long", "short"}
    BY <1>4 DEF IsTradeCase
  <2>4. \A k \in DOMAIN q : f[k] # Null => TradeInSession(f[k], q[k])
    BY <1>1, <2>3, SessionNumbers, RangeTradeInSession
  <2>5. DOMAIN f = DOMAIN q
    OBVIOUS
  <2> HIDE DEF f, g, q
  <2> QED
    BY <1>1, <2>1, <2>2, <2>4, <2>5, SignalsKeepSessions DEF g, q
<1>5. CASE p.strategy = "vwap"
  <2> DEFINE f == [k \in DOMAIN q |-> VwapBreakoutTrade(data, q[k], p)]
  <2>1. g = SignalsOf({VwapBreakoutTrade(data, s, p) : s \in Range(q)} \ {Null})
    BY <1>5 DEF GenerateSignals, OneTradeEach
  <2>2. Range(f) = {VwapBreakoutTrade(data, s, p) : s \in Range(q)}
    BY DEF Range
  <2>3. p.range \in Nat
    BY <1>5 DEF IsTradeCase
  <2>4. \A k \in DOMAIN q : f[k] # Null => TradeInSession(f[k], q[k])
    BY <1>1, <2>3, SessionNumbers, BreakoutTradeInSession
  <2>5. DOMAIN f = DOMAIN q
    OBVIOUS
  <2> HIDE DEF f, g, q
  <2> QED
    BY <1>1, <2>1, <2>2, <2>4, <2>5, SignalsKeepSessions DEF g, q
<1>6. CASE p.strategy = "momentum"
  <2> DEFINE f == [k \in DOMAIN q |-> MomentumTrade(data, q, k, p)]
  <2>1. g = SignalsOf({MomentumTrade(data, q, k, p) : k \in DOMAIN q} \ {Null})
    BY <1>6 DEF GenerateSignals, MomentumTrades
  <2>2. Range(f) = {MomentumTrade(data, q, k, p) : k \in DOMAIN q}
    BY DEF Range
  <2>3. /\ p.entry \in Nat /\ p.full \in Int /\ p.entry < p.full
        /\ \A s \in Range(q), t \in DOMAIN data :
               s.open <= t /\ t < s.open + p.full => t < s.close
    BY <1>6 DEF IsTradeCase
  <2>4. \A k \in DOMAIN q : f[k] # Null => TradeInSession(f[k], q[k])
    BY <1>1, <2>3, SessionNumbers, MomentumTradeInSession
  <2>5. DOMAIN f = DOMAIN q
    OBVIOUS
  <2> HIDE DEF f, g, q
  <2> QED
    BY <1>1, <2>1, <2>2, <2>4, <2>5, SignalsKeepSessions DEF g, q
<1>7. CASE p.strategy = "gap"
  <2> DEFINE T(k) == GapSession(data, q, p.mapping, k, p).trade
             f == [k \in DOMAIN q |-> T(k)]
  <2>1. g = SignalsOf({T(k) : k \in {j \in DOMAIN q : T(j) /= Null}})
    BY <1>7 DEF GenerateSignals, GapBundle
  <2>2. Range(f) \ {Null} = {T(k) : k \in {j \in DOMAIN q : T(j) /= Null}}
    <3> HIDE DEF T
    <3> QED
      BY DEF Range
  <2>3. p.hold \in Nat \ {0} /\ \A s \in Range(q) : s.open + p.hold < s.close
    BY <1>7 DEF IsTradeCase
  <2>4. \A k \in DOMAIN q : f[k] # Null => TradeInSession(f[k], q[k])
    BY <1>1, <2>3, SessionNumbers, GapTradeInSession
  <2>5. DOMAIN f = DOMAIN q
    OBVIOUS
  <2> HIDE DEF f, g, q, T
  <2> QED
    BY <1>1, <2>1, <2>2, <2>4, <2>5, SignalsKeepSessions DEF g, q
<1> QED
  BY <1>1, <1>2, <1>3, <1>4, <1>5, <1>6, <1>7

-----------------------------------------------------------------------------
(* The answers *)

\* So no session has more trades than it may have.
LEMMA AnswersKeepSessions == AnswerInv => SessionLimitsHold
<1> SUFFICES ASSUME AnswerInv PROVE CapHolds /\ SessionTradesClose
  BY DEF SessionLimitsHold
<1>1. ASSUME Answered("column"), input.column.cap # Null
      PROVE  KeepsCap(input.column, output.states)
  <2>1. /\ kind = "column" /\ request \in Cases("column")
        /\ input = Load("column", request) /\ output = Simulation(input)
    BY <1>1 DEF AnswerInv, Answered
  <2>2. IsColumnCase(input)
    BY <2>1, ColumnCases
  <2>3. IsCapped(input.column)
    BY <1>1, <2>2 DEF IsCapped, IsColumnCase
  <2>4. output.states = Portfolio(input.column)
    BY <2>1 DEF Simulation
  <2> QED
    BY <2>3, <2>4, CapIsKept
<1>2. CapHolds
  BY <1>1 DEF CapHolds, KeepsCap, FreedOn
<1>3. ASSUME Answered("trades"), input.p.strategy \notin {"donchian", "rsi"}
      PROVE  KeepsSessions(output.signals, input.p.schedule)
  <2>1. /\ kind = "trades" /\ request \in Cases("trades")
        /\ input = Load("trades", request) /\ output = Trades(input)
    BY <1>3 DEF AnswerInv, Answered
  <2>2. IsTradeCase(input)
    BY <2>1, TradeCases
  <2>3. output.signals = GenerateSignals(input.data, input.p.schedule, input.p)
    BY <2>1 DEF Trades
  <2> QED
    BY <1>3, <2>2, <2>3, StrategyKeepsSessions
<1>4. SessionTradesClose
  BY <1>3 DEF SessionTradesClose, KeepsSessions
<1> QED
  BY <1>2, <1>4

\* Whatever its prices and signals do, a session has no more trades than its cap, and its
\* next one waits for a rule exit or the maximum hold of the last, although the engine may
\* have stopped out before; the trades of a session strategy end in the session they began.
THEOREM SessionLimits == Spec => []SessionLimitsHold
<1>1. Spec => []AnswerInv
  BY AnswerInvInit, AnswerInvStep, PTL DEF Spec
<1>2. AnswerInv => SessionLimitsHold
  BY AnswersKeepSessions
<1> QED
  BY <1>1, <1>2, PTL
================================================================================
