----------------------------- MODULE MCMatcher -----------------------------
(***************************************************************************)
(* Small sets for the model checker: images and fits on both sides of      *)
(* every threshold, and the templates a storage may return.                *)
(***************************************************************************)
EXTENDS MatcherProperties

MCKeypoints == {7, 8, 700, 701}

Fit(m, i, s, c) == [matches |-> m, fitted |-> TRUE, inliers |-> i, scale |-> s, coverage |-> c]

MCFits ==
    { [matches |-> 2, fitted |-> FALSE, inliers |-> 0, scale |-> 0, coverage |-> 0],
      Fit(5, 5, 100, 20),       \* too few inliers
      Fit(9, 6, 70, 15),        \* moderate
      Fit(10, 7, 135, 20),      \* moderate
      Fit(10, 8, 100, 15),      \* strong
      Fit(13, 8, 100, 20),      \* inliers too small a share of the matches
      Fit(10, 9, 136, 20),      \* implausible scale
      Fit(10, 9, 100, 14) }     \* degenerate

Sound == Encode(8)
Damaged == [Sound EXCEPT !.rows = 7]

MCStored ==
    { [type |-> "ay", entries |-> <<>>],
      [type |-> "aay", entries |-> <<>>],
      [type |-> "aay", entries |-> <<Sound, Damaged>>],
      [type |-> "aay", entries |-> <<Sound, Sound, Sound>>],
      [type |-> "aay", entries |-> <<[Sound EXCEPT !.magic = FALSE], Sound>>],
      [type |-> "aay", entries |-> <<[Sound EXCEPT !.count = 701, !.rows = 701]>>],
      [type |-> "aay", entries |-> <<Sound, [Sound EXCEPT !.finite = FALSE]>>] }
=============================================================================
