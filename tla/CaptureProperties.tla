------------------------ MODULE CaptureProperties ------------------------
(***************************************************************************)
(* What the capture tools must guarantee, beside PairingIsTrue (Decoder).  *)
(***************************************************************************)
EXTENDS CaptureReports

\* The two readings of a capture agree: what provisioning and extraction
\* select is what the decoder shows as commands of a single occurrence, no more
\* and no less, and they accept no capture that the decoder refuses
\* (capture_candidates, load_candidates, read_capture).
ReadersAgree ==
    "candidates" \notin failures =>
        /\ phase # "failed"
        /\ phase = "done" => \A name \in Records :
              candidates[name] = {OfLine(l) : l \in
                  {c \in CommandLines : Len(file[c].endpoint) = 1 /\ IsRecord(OfLine(c), name)}}

\* The generator, the schema and the extraction know the same messages: a
\* generated command that is sent and captured validates, counts as generated
\* coverage, and, for 0x39, is the record the extraction looks for; and what
\* counts as generated coverage can be generated.
GeneratedIsKnown ==
    phase = "done" =>
        /\ \A l \in CommandLines : OfLine(l) \in Generated =>
              /\ l \notin Errors /\ OfLine(l).opcode \in GeneratorCoverage
              /\ OfLine(l).opcode = "39" => IsRecord(OfLine(l), "config-39.bin")
        /\ \A op \in GeneratorCoverage : \E p \in Generated : p.opcode = op

\* The tools that read captures, and those that make messages, understand one
\* another.
ToolsAgree == ReadersAgree /\ GeneratedIsKnown

Own(f) == directory[f].status # "absent" /\ directory[f] # Old

\* However a run ends, the files it leaves are a beginning of what it would
\* have written, all but the last whole: image i is the i-th of the capture,
\* the manifest is there only with the three records it lists, each the only
\* candidate; after a success all are there (main of both tools).
OutputsAreABeginning ==
    /\ \A i \in 1 .. MaxImages : Own(ImageFile(i)) =>
          /\ i <= Len(images)
          /\ \A j \in 1 .. i - 1 : directory[ImageFile(j)] = Complete(images[j])
          /\ directory[ImageFile(i)] \in {Partial, Complete(images[i])}
    /\ \A i \in 1 .. 4 : Own(ExtractOrder[i]) =>
          \A j \in 1 .. i - 1 :
             \E p \in candidates[ExtractOrder[j][1]] :
                /\ candidates[ExtractOrder[j][1]] = {p}
                /\ directory[ExtractOrder[j]] = Complete(p)
    /\ writers["extract"].step = "success" => directory[Manifest] = Complete(candidates)
    /\ writers["summary"].step = "success" =>
          \A i \in DOMAIN images : directory[ImageFile(i)] = Complete(images[i])

\* Nothing taken from a capture is written into a Git worktree, and nothing at
\* all into this repository (find_git_worktree, write_generated).
OutsideWorktrees ==
    /\ location # "outside" => \A f \in Outputs \ {GeneratedFile} : ~Own(f)
    /\ location = "repository" => ~Own(GeneratedFile)

\* What the tools leave on the disk is what it claims to be, where it may be.
OutputsAreSound == OutputsAreABeginning /\ OutsideWorktrees

\* A whole file is never written again, by no tool (write_pgm,
\* write_generated, the extraction).
WholeFilesStay ==
    [][\A f \in Outputs : directory[f].status \in {"complete", "old"} => directory'[f] = directory[f]]_vars

\* The offsets diff reports are those at which any two captured commands of
\* a group differ, although it compares each with the first only; and it
\* reports some where, and only where, it counts several variants.
DiffIsTrue ==
    phase = "done" => \A g \in Groups :
        /\ Differing(g) = {field \in Fields : \E p, q \in Variants(g) : p[field] # q[field]}
        /\ Differing(g) = {} <=> Cardinality(Variants(g)) = 1

\* A capture validates without a warning exactly when, said of its lines alone,
\* every command is known, has a length it may have, and owns the responses
\* listed for it, in frame order, whatever lies between them
\* (validate_capture).
AsListed(c) ==
    LET listed == Schema[OfLine(c).opcode].responses
    IN  \/ listed = <<>>
        \/ /\ Cardinality(Owned(c)) = Len(listed)
           /\ \A l \in Owned(c) :
                 OfLine(l).length = listed[Cardinality({m \in Owned(c) : ~Before(l, m)})]

ValidationIsTrue ==
    phase \in {"done", "failed"} =>
        (ValidateExit = 0 /\ Warnings = {}
           <=> /\ \A l \in DOMAIN file : ~Invalid(file[l])
               /\ \A c \in Used : Endpoint(c) = CommandOut =>
                     /\ OfLine(c).opcode \in DOMAIN Schema
                     /\ OfLine(c).length = Schema[OfLine(c).opcode].length
                     /\ AsListed(c))

\* What the decoder reports of a capture is what the capture holds.
ReportsAreTrue == DiffIsTrue /\ ValidationIsTrue
=============================================================================
