---------------------------- MODULE MCCaptures ----------------------------
(***************************************************************************)
(* Lines of both directions, in several spellings, with and without frame  *)
(* numbers, for every record and response the tools tell apart.            *)
(***************************************************************************)
EXTENDS CaptureProperties

Config == Message("06", 10501, "0602000001", 0)
Matrix(mode) == Message("02", 18869, "0298000000", mode)
Image(n) ==
    [Message("", 64, "", 0) EXCEPT
        !.image = [status |-> 0, declared |-> 58, width |-> 23 * n, height |-> 2]]
Status == Message("", 4, "", 0)
Nothing == Message("", 0, "", 0)

MCPayloads == Generated \cup {Config, Matrix(2), Matrix(35), Image(1), Image(2), Status, Nothing}

Line(frame, endpoint, payload) ==
    [shape |-> "record", frame |-> frame, endpoint |-> endpoint, control |-> FALSE,
     hex |-> "plain", payload |-> payload]

\* One message stands for the generated ones: the one a tool looks for.
Observed39 == CHOOSE p \in Generate("39", "none") : TRUE

MCLines ==
    { Line(1, <<1>>, CHOOSE p \in Generate("19", "none") : TRUE),
      Line(1, <<1>>, Config), Line(1, <<1>>, Matrix(2)), Line(2, <<1>>, Matrix(35)),
      Line(2, <<1>>, Observed39), Line(3, <<1, 1>>, Matrix(2)),
      Line(0, <<129>>, Image(1)), Line(2, <<129>>, Image(2)),
      Line(2, <<131>>, Status),
      [Line(2, <<>>, Status) EXCEPT !.control = TRUE],
      [Line(2, <<129>>, Status) EXCEPT !.control = TRUE],
      [Line(2, <<1>>, Config) EXCEPT !.hex = "colons"],
      [Line(2, <<1>>, Config) EXCEPT !.hex = "broken"],
      [Line(0, <<1>>, Nothing) EXCEPT !.shape = "blank"] }
=============================================================================
