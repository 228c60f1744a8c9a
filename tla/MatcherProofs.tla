---------------------------- MODULE MatcherProofs ----------------------------
(***************************************************************************)
(* The matcher for galleries of any size, all images and all answers of    *)
(* OpenCV: what the loop of dev_match_print decides, and on what.          *)
(*                                                                         *)
(* The argument: accepted and best_inliers summarize the scores seen so    *)
(* far (Summary), and one score is there for each entry passed, all of     *)
(* which decoded (Compared).  The driver's own prints decode because the   *)
(* extraction clamps and refuses exactly where the decoder does.           *)
(***************************************************************************)
EXTENDS MatcherProperties, FiniteSetTheorems, TLAPS

Types ==
    /\ template \in Templates
    /\ foreign \in BOOLEAN
    /\ probe = <<>> \/ (\E p \in Prints : probe = <<p>>)
    /\ scores \in Seq(Scores)
    /\ accepted \in 0 .. Len(scores) /\ best_inliers \in Nat
    /\ verdict \in Verdicts

\* The locals of the loop say of the scores what the decision needs.
Summary ==
    /\ accepted > 0 <=> \E i \in DOMAIN scores : scores[i].accepted
    /\ accepted > 1 <=>
          \E i, j \in DOMAIN scores : i # j /\ scores[i].accepted /\ scores[j].accepted
    /\ \A i \in DOMAIN scores : scores[i].inliers <= best_inliers
    /\ best_inliers > 0 => \E i \in DOMAIN scores : scores[i].inliers = best_inliers

\* One score for each entry passed, and each of those decoded.
Compared ==
    /\ ~Idle => verdict = "none"
    /\ Len(scores) <= Len(template.entries)
    /\ \A i \in DOMAIN scores : Decodes(template.entries[i])
    /\ verdict \in {"match", "noMatch"} =>
          /\ Len(scores) = Len(template.entries)
          /\ (verdict = "match") <=> Enough

\* The driver's own prints, the scan included, can be decoded.
OwnPrints ==
    /\ probe # <<>> => Decodes(probe[1])
    /\ ~foreign =>
          /\ \A i \in DOMAIN template.entries : Decodes(template.entries[i])
          /\ template.type = IF template.entries = <<>> THEN "null" ELSE "aay"
    /\ verdict = "error" => foreign

IInv == Types /\ Summary /\ Compared /\ OwnPrints

(***************************************************************************)
(* The extraction and the scores.                                          *)
(***************************************************************************)
\* What the extraction does not refuse, decode_features accepts.
LEMMA ExtractDecodes ==
    ASSUME NEW n \in Nat, ~TooFew(n)
    PROVE  Extract(n) \in Prints /\ Decodes(Extract(n))
  BY DEF TooFew, Clamped, Extract, Encode, Decodes, Prints, MaximumFeatures, MinimumFeatures

\* The score of an answer of OpenCV.
LEMMA ScoreType == ASSUME NEW f \in FitType PROVE Score(f) \in Scores
  BY DEF FitType, Score, Scores, Accepted

\* A verification that has no scores yet has nothing accepted.
LEMMA NothingYet == NoScores => scores' = <<>> /\ Summary'
  BY DEF NoScores, Summary

LEMMA InitOK == Init => IInv
<1> SUFFICES ASSUME Init PROVE IInv
  OBVIOUS
<1>1. template = [type |-> "null", entries |-> <<>>] /\ template \in Templates
  BY DEF Init, Fresh, Templates
<1>2. Types
  <2>1. scores = <<>> /\ scores \in Seq(Scores) /\ Len(scores) = 0
    BY DEF Init
  <2>2. accepted \in 0 .. Len(scores) /\ best_inliers \in Nat
    BY <2>1 DEF Init
  <2>3. foreign \in BOOLEAN /\ probe = <<>> /\ verdict \in Verdicts
    BY DEF Init, Verdicts
  <2> QED
    BY <1>1, <2>1, <2>2, <2>3 DEF Types
<1>3. Summary
  BY DEF Init, Summary
<1>4. Compared
  BY <1>1 DEF Init, Compared, Idle
<1>5. OwnPrints
  BY <1>1 DEF Init, OwnPrints
<1> QED
  BY <1>2, <1>3, <1>4, <1>5 DEF IInv

LEMMA EnrollOK == ASSUME IInv, NEW n \in Keypoints, Enroll(n) PROVE IInv'
<1>1. n \in Nat
  BY MatcherAssumption
<1>2. scores' = <<>> /\ Summary' /\ accepted' = 0 /\ best_inliers' = 0
  BY NothingYet DEF Enroll, NoScores
<1>3. probe = <<>> /\ probe' = <<>> /\ ~foreign /\ ~foreign'
  BY DEF Enroll, Idle, IInv, Types
<1>4. CASE TooFew(n)
  BY <1>2, <1>3, <1>4 DEF Enroll, IInv, Types, Compared, OwnPrints, Idle, Verdicts
<1>5. CASE ~TooFew(n)
  <2>1. /\ verdict' = "none"
        /\ template' = [type |-> "aay", entries |-> Append(template.entries, Extract(n))]
    BY <1>5 DEF Enroll
  <2>2. template.entries \in Seq(Prints)
    BY DEF IInv, Types, Templates
  <2>3. Extract(n) \in Prints /\ Decodes(Extract(n))
    BY <1>1, <1>5, ExtractDecodes
  <2>4. template' \in Templates
    BY <2>1, <2>2, <2>3 DEF Templates
  <2>5. template'.entries # <<>>
    <3>1. Len(template'.entries) = Len(template.entries) + 1
      BY <2>1, <2>2, <2>3
    <3>2. Len(template.entries) \in Nat /\ Len(<<>>) = 0
      BY <2>2
    <3> QED
      BY <3>1, <3>2
  <2>6. \A i \in DOMAIN template'.entries : Decodes(template'.entries[i])
    BY <1>3, <2>1, <2>2, <2>3 DEF IInv, OwnPrints
  <2> QED
    BY <1>2, <1>3, <2>1, <2>4, <2>5, <2>6 DEF IInv, Types, Compared, OwnPrints, Idle, Verdicts, Templates, Enroll
<1> QED
  BY <1>4, <1>5

LEMMA LoadOK == IInv /\ Load => IInv'
<1> SUFFICES ASSUME IInv, Load PROVE IInv'
  OBVIOUS
<1>1. scores' = <<>> /\ Summary' /\ accepted' = 0 /\ best_inliers' = 0
  BY NothingYet DEF Load, NoScores
<1>2. template' \in Templates
  BY MatcherAssumption DEF Load
<1> QED
  BY <1>1, <1>2 DEF Load, IInv, Types, Compared, OwnPrints, Idle, Verdicts, Templates

LEMMA VerifyOK == ASSUME IInv, NEW n \in Keypoints, Verify(n) PROVE IInv'
<1>1. n \in Nat
  BY MatcherAssumption
<1>2. scores' = <<>> /\ Summary' /\ accepted' = 0 /\ best_inliers' = 0
  BY NothingYet DEF Verify, NoScores
<1>3. probe = <<>> /\ template.type # "null" /\ template' = template /\ foreign' = foreign
  BY DEF Verify, Scan, Idle
<1>4. template.entries \in Seq(Prints)
  BY DEF IInv, Types, Templates
<1>5. CASE TooFew(n)
  BY <1>2, <1>3, <1>4, <1>5 DEF Verify, Scan, IInv, Types, Compared, OwnPrints, Idle, Verdicts
<1>6. CASE ~TooFew(n) /\ template.type # "aay"
  <2>1. foreign
    BY <1>3, <1>6 DEF IInv, OwnPrints
  <2>2. verdict' = "error" /\ probe' = <<>>
    BY <1>3, <1>6 DEF Verify, Scan
  <2> QED
    BY <1>2, <1>3, <1>4, <2>1, <2>2 DEF IInv, Types, Compared, OwnPrints, Idle, Verdicts
<1>7. CASE ~TooFew(n) /\ template.type = "aay"
  <2>1. verdict' = "none" /\ probe' = <<Extract(n)>>
    BY <1>7 DEF Verify, Scan
  <2>2. Extract(n) \in Prints /\ Decodes(Extract(n))
    BY <1>1, <1>7, ExtractDecodes
  <2> QED
    BY <1>2, <1>3, <1>4, <2>1, <2>2 DEF IInv, Types, Compared, OwnPrints, Idle, Verdicts
<1> QED
  BY <1>5, <1>6, <1>7

\* A print that does not decode was loaded from storage.
LEMMA CompareBrokenOK == IInv /\ CompareBroken => IInv'
<1> SUFFICES ASSUME IInv, CompareBroken PROVE IInv'
  OBVIOUS
<1>1. template.entries \in Seq(Prints) /\ scores \in Seq(Scores)
  BY DEF IInv, Types, Templates
<1>2. Len(scores) + 1 \in DOMAIN template.entries
  BY <1>1 DEF CompareBroken, Comparing
<1>3. Decodes(probe[1])
  BY DEF IInv, OwnPrints, CompareBroken, Comparing, Idle
<1>4. foreign
  BY <1>2, <1>3 DEF IInv, OwnPrints, CompareBroken, Entry
<1>5. Summary'
  BY DEF IInv, Summary, CompareBroken
<1>6. Types'
  BY DEF IInv, Types, CompareBroken, Verdicts
<1>7. Compared'
  BY DEF IInv, Compared, CompareBroken, Idle
<1>8. OwnPrints'
  BY <1>4 DEF IInv, OwnPrints, CompareBroken
<1> QED
  BY <1>5, <1>6, <1>7, <1>8 DEF IInv

\* The summary takes one more score in.
LEMMA SummaryExtends ==
    ASSUME IInv, NEW f \in Fits, Compare(f)
    PROVE  Summary' /\ accepted' \in 0 .. Len(scores') /\ best_inliers' \in Nat
<1> DEFINE score == Score(f)
           n == Len(scores)
<1>1. score \in Scores
  BY ScoreType, MatcherAssumption
<1>2. scores \in Seq(Scores) /\ n \in Nat /\ accepted \in 0 .. n /\ best_inliers \in Nat
  BY DEF IInv, Types
<1>3. /\ scores' = Append(scores, score)
      /\ accepted' = IF score.accepted THEN accepted + 1 ELSE accepted
      /\ best_inliers' = IF score.inliers > best_inliers THEN score.inliers ELSE best_inliers
  BY DEF Compare, Best
<1>4. score.inliers \in Nat /\ score.accepted \in BOOLEAN
  BY <1>1 DEF Scores
<1> HIDE DEF score
<1>5. /\ Len(scores') = n + 1
      /\ DOMAIN scores' = 1 .. n + 1 /\ DOMAIN scores = 1 .. n
      /\ scores'[n + 1] = score
      /\ \A i \in 1 .. n : scores'[i] = scores[i]
  BY <1>1, <1>2, <1>3
<1> HIDE DEF n
<1>6. /\ accepted > 0 <=> \E i \in 1 .. n : scores[i].accepted
      /\ accepted > 1 <=> \E i, j \in 1 .. n : i # j /\ scores[i].accepted /\ scores[j].accepted
      /\ \A i \in 1 .. n : scores[i].inliers <= best_inliers
      /\ best_inliers > 0 => \E i \in 1 .. n : scores[i].inliers = best_inliers
  BY <1>5 DEF IInv, Summary
<1>7. accepted' > 0 <=> \E i \in 1 .. n + 1 : scores'[i].accepted
  <2>1. CASE score.accepted
    BY <1>2, <1>3, <1>5, <2>1
  <2>2. CASE ~score.accepted
    BY <1>2, <1>3, <1>5, <1>6, <2>2
  <2> QED
    BY <2>1, <2>2
<1>8. accepted' > 1 <=>
        \E i, j \in 1 .. n + 1 : i # j /\ scores'[i].accepted /\ scores'[j].accepted
  <2>1. CASE score.accepted
    <3>1. accepted' > 1 <=> accepted > 0
      BY <1>2, <1>3, <2>1
    <3>2. accepted > 0 => \E i \in 1 .. n : i # n + 1 /\ scores'[i].accepted
      BY <1>2, <1>5, <1>6
    <3>3. (\E i, j \in 1 .. n + 1 : i # j /\ scores'[i].accepted /\ scores'[j].accepted)
             => \E i \in 1 .. n : scores[i].accepted
      BY <1>2, <1>5
    <3> QED
      BY <1>2, <1>5, <1>6, <2>1, <3>1, <3>2, <3>3
  <2>2. CASE ~score.accepted
    <3>1. accepted' = accepted
      BY <1>3, <2>2
    <3>2. \A i \in 1 .. n + 1 : scores'[i].accepted => i \in 1 .. n /\ scores[i].accepted
      BY <1>2, <1>5, <2>2
    <3>3. \A i \in 1 .. n : i \in 1 .. n + 1 /\ (scores[i].accepted => scores'[i].accepted)
      BY <1>2, <1>5
    <3> QED
      BY <1>6, <3>1, <3>2, <3>3
  <2> QED
    BY <2>1, <2>2
<1>9. /\ \A i \in 1 .. n + 1 : scores'[i].inliers <= best_inliers'
      /\ best_inliers' > 0 => \E i \in 1 .. n + 1 : scores'[i].inliers = best_inliers'
  <2>1. \A i \in 1 .. n : scores[i].inliers \in Nat
    <3>1. \A i \in 1 .. n : scores[i] \in Scores
      BY <1>2, <1>5
    <3> QED
      BY <3>1 DEF Scores
  <2>2. CASE score.inliers > best_inliers
    BY <1>2, <1>3, <1>4, <1>5, <1>6, <2>1, <2>2
  <2>3. CASE ~(score.inliers > best_inliers)
    BY <1>2, <1>3, <1>4, <1>5, <1>6, <2>1, <2>3
  <2> QED
    BY <2>2, <2>3
<1>10. accepted' \in 0 .. n + 1 /\ best_inliers' \in Nat
  BY <1>2, <1>3, <1>4
<1> QED
  BY <1>5, <1>7, <1>8, <1>9, <1>10 DEF Summary

LEMMA CompareOK == ASSUME IInv, NEW f \in Fits, Compare(f) PROVE IInv'
<1>1. Score(f) \in Scores
  BY ScoreType, MatcherAssumption
<1>2. scores \in Seq(Scores) /\ template.entries \in Seq(Prints)
  BY DEF IInv, Types, Templates
<1>3. /\ scores' = Append(scores, Score(f)) /\ probe # <<>>
      /\ Len(scores) < Len(template.entries) /\ Decodes(template.entries[Len(scores) + 1])
      /\ UNCHANGED <<template, foreign, probe, verdict>>
  BY DEF Compare, Comparing, Idle, Entry
<1>4. Summary' /\ accepted' \in 0 .. Len(scores') /\ best_inliers' \in Nat
  BY SummaryExtends
<1>5. Types'
  BY <1>1, <1>2, <1>3, <1>4 DEF IInv, Types
<1>6. \A i \in DOMAIN scores' : Decodes(template.entries[i])
  <2> SUFFICES ASSUME NEW i \in DOMAIN scores' PROVE Decodes(template.entries[i])
    OBVIOUS
  <2>1. i \in DOMAIN scores \/ i = Len(scores) + 1
    BY <1>1, <1>2, <1>3
  <2> QED
    BY <1>3, <2>1 DEF IInv, Compared
<1>7. Compared'
  BY <1>1, <1>2, <1>3, <1>6 DEF IInv, Compared, Idle
<1>8. OwnPrints'
  BY <1>3 DEF IInv, OwnPrints
<1> QED
  BY <1>4, <1>5, <1>7, <1>8 DEF IInv

LEMMA DecideOK == IInv /\ Decide => IInv'
<1> SUFFICES ASSUME IInv, Decide PROVE IInv'
  OBVIOUS
<1>1. Types'
  BY DEF IInv, Types, Decide, Verdicts
<1>2. Summary'
  BY DEF IInv, Summary, Decide
<1>3. Compared'
  BY DEF IInv, Compared, Decide, Idle, Enough
<1>4. OwnPrints'
  BY DEF IInv, OwnPrints, Decide
<1> QED
  BY <1>1, <1>2, <1>3, <1>4 DEF IInv

\* The inductive invariant, for every image, gallery and answer of OpenCV.
THEOREM Invariance == Spec => []IInv
<1>1. IInv /\ [Next]_vars => IInv'
  <2> SUFFICES ASSUME IInv, [Next]_vars PROVE IInv'
    OBVIOUS
  <2>1. CASE UNCHANGED vars
    BY <2>1 DEF vars, IInv, Types, Summary, Compared, OwnPrints, Idle, Enough
  <2> QED
    BY <2>1, EnrollOK, LoadOK, VerifyOK, CompareOK, CompareBrokenOK, DecideOK DEF Next
<1> QED
  BY InitOK, <1>1, PTL DEF Spec

\* The variables keep their types, and no more entries are accepted than were
\* compared.
THEOREM TypeCorrect == Spec => []TypeOK
<1>1. IInv => TypeOK
  <2> SUFFICES ASSUME Types PROVE TypeOK
    BY DEF IInv
  <2>1. CASE probe = <<>>
    BY <2>1 DEF Types, TypeOK
  <2>2. CASE \E p \in Prints : probe = <<p>>
    <3>1. Len(probe) = 1 /\ probe[1] \in Prints
      BY <2>2
    <3> QED
      BY <3>1 DEF Types, TypeOK
  <2> QED
    BY <2>1, <2>2 DEF Types
<1> QED
  BY Invariance, <1>1, PTL

\* A gallery the driver enrolled itself never makes a verification fail.
THEOREM OwnGalleryReadable == Spec => []OwnPrintsDecode
<1>1. IInv => OwnPrintsDecode
  BY DEF IInv, OwnPrints, OwnPrintsDecode
<1> QED
  BY Invariance, <1>1, PTL

\* The verdict of dev_match_print is the one all comparisons together give, in
\* whatever order the gallery holds its prints.
THEOREM VerdictIsCollective == Spec => []VerdictWeighsAllEntries
<1>1. IInv => VerdictWeighsAllEntries
  <2> SUFFICES ASSUME IInv PROVE VerdictWeighsAllEntries
    OBVIOUS
  <2>1. /\ accepted \in Nat /\ best_inliers \in Nat
        /\ \A i \in DOMAIN scores : scores[i].inliers \in Nat
    <3>1. \A i \in DOMAIN scores : scores[i] \in Scores
      BY DEF IInv, Types
    <3> QED
      BY <3>1 DEF IInv, Types, Scores
  <2>2. Enough <=> Suffices(DOMAIN scores)
    <3>1. best_inliers >= StrongInliers <=> \E i \in DOMAIN scores : scores[i].inliers >= StrongInliers
      BY <2>1 DEF IInv, Summary, StrongInliers
    <3>2. accepted >= 2 <=> accepted > 1
      BY <2>1
    <3> QED
      BY <3>1, <3>2 DEF IInv, Summary, Enough, Suffices
  <2>3. \A S \in SUBSET DOMAIN scores : Suffices(S) => Suffices(DOMAIN scores)
    BY DEF Suffices
  <2>4. /\ verdict = "match" => Enough
        /\ verdict = "noMatch" => ~Enough
    BY DEF IInv, Compared
  <2> QED
    BY <2>2, <2>3, <2>4 DEF VerdictWeighsAllEntries
<1> QED
  BY Invariance, <1>1, PTL

\* A gallery with a print that cannot be read ends in no verdict.
THEOREM DamageIsNoVerdict == Spec => []DamagedGalleryDecidesNothing
<1>1. IInv => DamagedGalleryDecidesNothing
  <2> SUFFICES ASSUME IInv, verdict \in {"match", "noMatch"}, NEW i \in DOMAIN template.entries
               PROVE  Decodes(template.entries[i])
    BY DEF DamagedGalleryDecidesNothing
  <2>1. DOMAIN scores = DOMAIN template.entries
    BY DEF IInv, Types, Compared, Templates
  <2> QED
    BY <2>1 DEF IInv, Compared
<1> QED
  BY Invariance, <1>1, PTL

\* The reference implementation never matches what the driver, with the same
\* scores, refuses: its best fit is one of those the driver's counts are about.
THEOREM ReferenceIsStricter == Spec => []PythonMatchesOnlyWithDriver
<1>1. IInv => PythonMatchesOnlyWithDriver
  <2> SUFFICES ASSUME IInv, verdict = "noMatch", PythonMatched(scores) PROVE FALSE
    BY DEF PythonMatchesOnlyWithDriver
  <2>1. ~Enough
    BY DEF IInv, Compared
  <2> DEFINE passed == {j \in DOMAIN scores : scores[j].accepted}
  <2>2. PICK i \in DOMAIN scores :
            /\ scores[i].accepted
            /\ scores[i].inliers >= StrongInliers \/ Cardinality(passed) >= 2
    BY DEF PythonMatched, StrongInliers
  <2>3. accepted > 0 /\ accepted \in Nat /\ best_inliers \in Nat
    BY <2>2 DEF IInv, Types, Summary
  <2>4. CASE scores[i].inliers >= StrongInliers
    <3>1. scores[i].inliers \in Nat /\ scores[i].inliers <= best_inliers
      <4>1. scores[i] \in Scores
        BY DEF IInv, Types
      <4> QED
        BY <4>1 DEF IInv, Summary, Scores
    <3> QED
      BY <2>1, <2>3, <2>4, <3>1 DEF Enough, StrongInliers
  <2>5. CASE Cardinality(passed) >= 2
    <3>1. accepted <= 1
      BY <2>1, <2>3 DEF Enough
    <3>2. \A j \in passed : j = i
      BY <2>2, <2>3, <3>1 DEF IInv, Summary
    <3>3. passed = {i}
      BY <2>2, <3>2
    <3>4. Cardinality(passed) = 1
      BY <3>3, FS_Singleton
    <3> QED
      BY <2>5, <3>4
  <2> QED
    BY <2>2, <2>4, <2>5
<1> QED
  BY Invariance, <1>1, PTL
=============================================================================
