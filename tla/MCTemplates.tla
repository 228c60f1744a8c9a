---------------------------- MODULE MCTemplates ----------------------------
(***************************************************************************)
(* Images and templates with every defect, and fits on both sides of the   *)
(* decision.                                                               *)
(***************************************************************************)
EXTENDS TemplateProperties

CONSTANTS first, second

MCProcesses == {first, second}

Good == [readable |-> TRUE, shape |-> "native", deviation |-> 3, keypoints |-> 8]
Double == [Good EXCEPT !.shape = "double", !.keypoints = 9]
Defects ==
    { [Good EXCEPT !.readable = FALSE], [Good EXCEPT !.shape = "other"],
      [Good EXCEPT !.deviation = 2], [Good EXCEPT !.keypoints = 7] }

Line(command, background, images) ==
    [command |-> command, background |-> background, images |-> images]

MCRequests ==
    { Line("enroll", <<>>, <<Good, Double, Good>>),
      Line("enroll", <<Good>>, <<Double, Double, Good>>),
      Line("enroll", <<>>, <<Good, Good>>),
      Line("verify", <<Good>>, <<Double>>),
      Line("evaluate", <<>>, <<Double, Good>>) }
    \cup {Line("enroll", <<>>, <<Good, Good, d>>) : d \in Defects}
    \cup {Line("verify", <<>>, <<d>>) : d \in Defects}
    \cup {Line("verify", <<d>>, <<Good>>) : d \in Defects}

Fit(m, f, i, s, c) == [matches |-> m, fitted |-> f, inliers |-> i, scale |-> s, coverage |-> c]

MCFits ==
    { Fit(2, FALSE, 0, 0, 0), Fit(9, TRUE, 6, 100, 15), Fit(10, TRUE, 8, 100, 20),
      Fit(10, TRUE, 7, 136, 20), Fit(10, TRUE, 9, 136, 20) }

Whole(n) ==
    [status |-> "whole", format |-> TRUE, version |-> 1, count |-> n,
     samples |-> [i \in 1 .. n |-> Sample(Good)]]

MCForeign ==
    { Whole(1), Whole(0), [status |-> "partial"],
      [Whole(2) EXCEPT !.format = FALSE], [Whole(2) EXCEPT !.version = 2],
      [Whole(2) EXCEPT !.count = 3], [Whole(2) EXCEPT !.count = 1],
      [Whole(2) EXCEPT !.samples[2].points = 7] }
=============================================================================
