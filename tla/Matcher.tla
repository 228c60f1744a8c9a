------------------------------ MODULE Matcher ------------------------------
(***************************************************************************)
(* The small-area matcher of the driver: what an extracted print holds,    *)
(* the gallery an enrollment collects, and the decision of dev_match_print *)
(* over the comparisons of a scan with every print of the gallery.         *)
(*                                                                         *)
(* A print is what decode_features tells apart: its header, its feature    *)
(* count, the rows its length holds and whether every number is finite.    *)
(* A comparison is what OpenCV answers: the ratio-test matches and the     *)
(* affine fit through them.                                                *)
(***************************************************************************)
EXTENDS Decision

CONSTANTS
    Keypoints,    \* numbers of keypoints SIFT may find in an image
    Fits,         \* what OpenCV may answer to a comparison
    Stored,       \* templates that may come out of the client's storage
    MaxSamples    \* bound: prints of an enrollment

MaximumFeatures == 700
MinimumFeatures == 8
MinimumInliers == 6
StrongInliers == 8

Prints == [magic : BOOLEAN, count : Nat, rows : Nat, finite : BOOLEAN]

\* "type" is the GVariant type of fpi-data, "null" when there is none.
Templates == [type : {"null", "ay", "aay"}, entries : Seq(Prints)]

Scores == [matches : Nat, inliers : Nat, scale : Nat, coverage : Nat, accepted : BOOLEAN]

ASSUME MatcherAssumption ==
    /\ Keypoints \subseteq Nat
    /\ Fits \subseteq FitType
    /\ Stored \subseteq Templates
    /\ MaxSamples \in Nat

VARIABLES
    template,      \* the enrollment print, or the one loaded from storage
    foreign,       \* was it loaded from storage?
    probe,         \* the scan being compared, <<>> between verifications
    accepted,      \* the locals of dev_match_print
    best_inliers,
    scores,        \* the scores of this verification, one per compared entry
    verdict        \* what the last action returned

vars == <<template, foreign, probe, accepted, best_inliers, scores, verdict>>

Verdicts == {"none", "retry", "error", "match", "noMatch"}

Fresh == [type |-> "null", entries |-> <<>>]

(***************************************************************************)
(* syna0082_matcher_extract and decode_features.                           *)
(***************************************************************************)
Encode(n) == [magic |-> TRUE, count |-> n, rows |-> n, finite |-> TRUE]

\* Mutant: SIFT's feature limit is taken on trust.
Clamped_Trusting(n) == n

\* SIFT may find one keypoint more than it was asked for.
Clamped(n) == IF n > MaximumFeatures THEN MaximumFeatures ELSE n

TooFew(n) == Clamped(n) < MinimumFeatures

Extract(n) == Encode(Clamped(n))

Decodes(p) ==
    /\ p.magic
    /\ p.count \in MinimumFeatures .. MaximumFeatures
    /\ p.rows = p.count
    /\ p.finite

(***************************************************************************)
(* syna0082_matcher_compare: the score of a fit.                           *)
(***************************************************************************)
Accepted(f) ==
    /\ f.inliers >= MinimumInliers
    /\ 100 * f.inliers >= 65 * f.matches
    /\ f.scale \in 70 .. 135
    /\ f.coverage >= 15

Score(f) ==
    IF f.matches < 3 \/ ~f.fitted
    THEN [matches |-> f.matches, inliers |-> 0, scale |-> 0, coverage |-> 0,
          accepted |-> FALSE]
    ELSE [matches |-> f.matches, inliers |-> f.inliers, scale |-> f.scale,
          coverage |-> f.coverage, accepted |-> Accepted(f)]

(***************************************************************************)
(* Actions.  A verification compares one gallery entry at a time.          *)
(***************************************************************************)
Idle == probe = <<>>

Init ==
    /\ template = Fresh
    /\ foreign = FALSE
    /\ probe = <<>>
    /\ accepted = 0
    /\ best_inliers = 0
    /\ scores = <<>>
    /\ verdict = "none"

\* The locals of dev_match_print live for one call.
NoScores == accepted' = 0 /\ best_inliers' = 0 /\ scores' = <<>>

\* One touch of an enrollment: dev_extract_print, then dev_append_print.
Enroll(n) ==
    /\ Idle /\ ~foreign
    /\ Len(template.entries) < MaxSamples
    /\ IF TooFew(n)
       THEN verdict' = "retry" /\ UNCHANGED template
       ELSE /\ verdict' = "none"
            /\ template' = [type |-> "aay", entries |-> Append(template.entries, Extract(n))]
    /\ NoScores
    /\ UNCHANGED <<foreign, probe>>

\* The client loads a template from its storage.
Load ==
    /\ Idle /\ ~foreign
    /\ template' \in Stored
    /\ foreign' = TRUE
    /\ verdict' = "none"
    /\ NoScores
    /\ UNCHANGED probe

\* A verification extracts the scan, and dev_match_print starts if the
\* template has the type of a gallery (print_get_data).
Scan(n) ==
    /\ Idle /\ template.type # "null"
    /\ IF TooFew(n) THEN verdict' = "retry" /\ UNCHANGED probe
       ELSE IF template.type # "aay" THEN verdict' = "error" /\ UNCHANGED probe
       ELSE verdict' = "none" /\ probe' = <<Extract(n)>>
    /\ UNCHANGED <<template, foreign>>

Verify(n) == Scan(n) /\ NoScores

Entry == template.entries[Len(scores) + 1]

Comparing == ~Idle /\ Len(scores) < Len(template.entries)

\* Mutant: an entry that does not decode is passed over.
CompareBroken_Skips ==
    /\ Comparing
    /\ ~(Decodes(Entry) /\ Decodes(probe[1]))
    /\ scores' = Append(scores, Score([matches |-> 0, fitted |-> FALSE, inliers |-> 0,
                                       scale |-> 0, coverage |-> 0]))
    /\ UNCHANGED <<template, foreign, probe, accepted, best_inliers, verdict>>

\* A print that does not decode ends the verification with an error, whatever
\* was accepted before it.
CompareBroken ==
    /\ Comparing
    /\ ~(Decodes(Entry) /\ Decodes(probe[1]))
    /\ verdict' = "error"
    /\ probe' = <<>>
    /\ UNCHANGED <<template, foreign, accepted, best_inliers, scores>>

\* Mutant: the fit compared last is taken for the best one.
Best_Last(score) == score.inliers

Best(score) == IF score.inliers > best_inliers THEN score.inliers ELSE best_inliers

Compare(f) ==
    /\ Comparing
    /\ Decodes(Entry) /\ Decodes(probe[1])
    /\ LET score == Score(f)
       IN  /\ scores' = Append(scores, score)
           /\ accepted' = IF score.accepted THEN accepted + 1 ELSE accepted
           /\ best_inliers' = Best(score)
    /\ UNCHANGED <<template, foreign, probe, verdict>>

Enough == accepted > 0 /\ (best_inliers >= StrongInliers \/ accepted >= 2)

Decide ==
    /\ ~Idle /\ Len(scores) = Len(template.entries)
    /\ verdict' = IF Enough THEN "match" ELSE "noMatch"
    /\ probe' = <<>>
    /\ UNCHANGED <<template, foreign, accepted, best_inliers, scores>>

Next ==
    \/ \E n \in Keypoints : Enroll(n) \/ Verify(n)
    \/ Load
    \/ \E f \in Fits : Compare(f)
    \/ CompareBroken \/ Decide

Spec == Init /\ [][Next]_vars
=============================================================================
