------------------------------ MODULE Decision ------------------------------
(***************************************************************************)
(* The reference matcher's decision (tools/syna0082_matcher.py): what it   *)
(* makes of the fits OpenCV found between a scan and each enrolled sample. *)
(* Scale is in hundredths, coverage in thousandths.                        *)
(***************************************************************************)
EXTENDS Integers, Sequences, FiniteSets

\* A fit: how many matches, and the transformation through them.
FitType == [matches : Nat, fitted : BOOLEAN, inliers : Nat, scale : Nat, coverage : Nat]

\* PairScore.accepted.
PythonAccepted(f) ==
    /\ f.inliers >= 6
    /\ 100 * f.inliers >= 65 * f.matches
    /\ f.scale \in 70 .. 135
    /\ f.coverage >= 15

NoScore(f) ==
    [matches |-> f.matches, inliers |-> 0, scale |-> 0, coverage |-> 0, accepted |-> FALSE]

\* compare: the score of a fit.
PythonScore(f) ==
    IF f.matches < 3 \/ ~f.fitted THEN NoScore(f)
    ELSE [matches |-> f.matches, inliers |-> f.inliers, scale |-> f.scale,
          coverage |-> IF f.inliers >= 2 THEN f.coverage ELSE 0,
          accepted |-> PythonAccepted(f)]

\* _score_key: inliers, then their share of the matches, then coverage.
RanksAbove(a, b) ==
    \/ a.inliers > b.inliers
    \/ a.inliers = b.inliers /\ a.inliers * b.matches > b.inliers * a.matches
    \/ /\ a.inliers = b.inliers /\ a.inliers * b.matches = b.inliers * a.matches
       /\ a.coverage > b.coverage

\* max returns the first of the highest.
IsBest(s, i) ==
    /\ \A j \in DOMAIN s : ~RanksAbove(s[j], s[i])
    /\ \A j \in 1 .. i - 1 : RanksAbove(s[i], s[j])

\* Mutant: the best score decides although it was rejected.
PythonMatched_RejectedBest(s) ==
    \E i \in DOMAIN s :
        /\ IsBest(s, i)
        /\ s[i].inliers >= 8 \/ Cardinality({j \in DOMAIN s : s[j].accepted}) >= 2

\* Mutant: a rejected score above any accepted one decides against a match.
PythonMatched_RejectedAbove(s) ==
    \E i \in DOMAIN s :
        /\ IsBest(s, i)
        /\ \A j, k \in DOMAIN s : ~s[j].accepted /\ s[k].accepted => RanksAbove(s[k], s[j])
        /\ s[i].accepted
        /\ s[i].inliers >= 8 \/ Cardinality({j \in DOMAIN s : s[j].accepted}) >= 2

\* verify.
PythonMatched(s) ==
    \E i \in DOMAIN s :
        /\ IsBest(s, i)
        /\ s[i].accepted
        /\ s[i].inliers >= 8 \/ Cardinality({j \in DOMAIN s : s[j].accepted}) >= 2
=============================================================================
