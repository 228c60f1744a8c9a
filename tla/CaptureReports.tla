-------------------------- MODULE CaptureReports --------------------------
(***************************************************************************)
(* What tools/syna0082_protocol.py reports of the transactions (validate,  *)
(* diff, coverage).                                                        *)
(***************************************************************************)
EXTENDS CaptureTools

CommandLines == {tx.at : tx \in {t \in result : t.kind = "command"}}
OfLine(l) == file[l].payload
OfResponses(l) == (CHOOSE tx \in result : tx.kind = "command" /\ tx.at = l).responses

Observed == {OfLine(l).opcode : l \in CommandLines}

\* validate_capture: a wrong length is an error, all else a warning.
Errors ==
    {l \in CommandLines : /\ OfLine(l).opcode \in DOMAIN Schema
                          /\ OfLine(l).length # Schema[OfLine(l).opcode].length}

\* The elements of a sequence that are in S.
Chosen(s, S) ==
    LET chosen[i \in 0 .. Len(s)] ==
            IF i = 0 THEN <<>>
            ELSE IF s[i] \in S THEN Append(chosen[i - 1], s[i]) ELSE chosen[i - 1]
    IN  chosen[Len(s)]

\* Responses are compared in the order of the frames.
ResponseLengths(l) ==
    LET inOrder == Chosen(records, OfResponses(l))
    IN  [i \in DOMAIN inOrder |-> OfLine(inOrder[i]).length]

\* Mutant: only their number is compared.
Unexpected_Number(l) ==
    /\ Schema[OfLine(l).opcode].responses # <<>>
    /\ Cardinality(OfResponses(l)) # Len(Schema[OfLine(l).opcode].responses)

Unexpected(l) ==
    /\ Schema[OfLine(l).opcode].responses # <<>>
    /\ ResponseLengths(l) # Schema[OfLine(l).opcode].responses

Warnings ==
    {l \in CommandLines : OfLine(l).opcode \notin DOMAIN Schema \/ Unexpected(l)}

\* main: 0, 1 for an invalid capture, 2 for an error.
ValidateExit == IF phase = "failed" THEN 2 ELSE IF Errors = {} THEN 0 ELSE 1

\* diff_captures: commands of one opcode and length, the first of them the
\* baseline.  The fields of a payload stand for the offsets they cover.
Fields == {"prefix", "mode", "image"}

Groups == {[opcode |-> OfLine(l).opcode, length |-> OfLine(l).length] : l \in CommandLines}

Members(g) ==
    Chosen(records,
           {l \in CommandLines : OfLine(l).opcode = g.opcode /\ OfLine(l).length = g.length})

Variants(g) == {OfLine(Members(g)[i]) : i \in DOMAIN Members(g)}

\* Mutant: neighbours are compared, and the first with itself.
Differing_Neighbour(g) ==
    {field \in Fields : \E i \in 3 .. Len(Members(g)) :
        OfLine(Members(g)[i])[field] # OfLine(Members(g)[i - 1])[field]}

Differing(g) ==
    {field \in Fields : \E i \in 2 .. Len(Members(g)) :
        OfLine(Members(g)[i])[field] # OfLine(Members(g)[1])[field]}

\* coverage: the observed opcodes whose commands can be generated.
GeneratorCoverage == {op \in Observed \cap DOMAIN Schema : Schema[op].generator}
=============================================================================
