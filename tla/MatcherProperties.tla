------------------------- MODULE MatcherProperties -------------------------
(***************************************************************************)
(* What the matcher must guarantee, stated over the state of Matcher.      *)
(***************************************************************************)
EXTENDS Matcher

\* The variables have their types, and no more entries are accepted than were
\* compared.
TypeOK ==
    /\ template \in Templates
    /\ foreign \in BOOLEAN
    /\ probe = <<>> \/ (Len(probe) = 1 /\ probe[1] \in Prints)
    /\ scores \in Seq(Scores)
    /\ accepted \in 0 .. Len(scores) /\ best_inliers \in Nat
    /\ verdict \in Verdicts

\* What the extraction writes, the comparison reads: a gallery that this
\* driver enrolled itself never makes a verification fail with an error
\* (syna0082_matcher_extract truncates what decode_features would refuse).
OwnPrintsDecode == verdict = "error" => foreign

\* A set of scores that decides for a match.
Suffices(S) ==
    /\ \E i \in S : scores[i].accepted
    /\ \/ \E i \in S : scores[i].inliers >= StrongInliers
       \/ \E i, j \in S : i # j /\ scores[i].accepted /\ scores[j].accepted

\* The loop of dev_match_print decides on all comparisons, in no particular
\* order: a match has evidence for it, and after a non-match no part of the
\* gallery, in whatever order, would have matched.  More prints never hurt.
VerdictWeighsAllEntries ==
    /\ verdict = "match" => Suffices(DOMAIN scores)
    /\ verdict = "noMatch" => \A S \in SUBSET DOMAIN scores : ~Suffices(S)

\* A gallery with a print that cannot be read decides nothing: neither an
\* earlier accepted entry nor the lack of one turns into a verdict.
DamagedGalleryDecidesNothing ==
    verdict \in {"match", "noMatch"} => \A i \in DOMAIN template.entries : Decodes(template.entries[i])

\* The reference implementation (tools/syna0082_matcher.py) is the stricter one:
\* it never matches a scan that the driver, with the same scores, refuses.
PythonMatchesOnlyWithDriver == verdict = "noMatch" => ~PythonMatched(scores)

(***************************************************************************)
(* What the documentation and the comments say and the code does not do.   *)
(***************************************************************************)
Strong(score) == score.accepted /\ score.inliers >= StrongInliers

ConsensusOfTwo ==
    \E i, j \in DOMAIN scores : i # j /\ scores[i].accepted /\ scores[j].accepted

\* "Reject insufficient, inconsistent, degenerate, or implausibly scaled
\* fits" and "Accept one strong gallery fit or consensus from two moderate
\* fits" (docs/matcher.md): a match rests on a strong fit that was not
\* rejected, or on two accepted ones.
MatchNeedsStrongFitOrConsensus ==
    verdict = "match" => (\E i \in DOMAIN scores : Strong(scores[i])) \/ ConsensusOfTwo
=============================================================================
