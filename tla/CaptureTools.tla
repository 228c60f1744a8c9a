--------------------------- MODULE CaptureTools ---------------------------
(***************************************************************************)
(* The tools that read one normalized capture, each in its own way: the    *)
(* decoder, the provisioning tool (capture_candidates), the extraction of  *)
(* initialization records (syna0082-extract-init.py) and the image summary *)
(* (syna0082-image-summary.py).  The last two, and the decoder's command   *)
(* generator, also write into a directory, file by file, where an earlier  *)
(* run may have left some.                                                 *)
(***************************************************************************)
EXTENDS Decoder, Commands, FiniteSets

CONSTANT MaxImages    \* bound: images of a capture

ASSUME CaptureToolsAssumption ==
    /\ Payloads \subseteq MessageType
    /\ MaxImages \in Nat

VARIABLES
    candidates,  \* capture_candidates and load_candidates: name -> payloads
    images,      \* load_images: lines
    failures,    \* the readers that gave up on an invalid line
    writers,     \* the writing tools: their progress and exit status
    directory,   \* file name -> what it holds
    location     \* where the directory is: in a Git worktree, in this one?

toolVars == <<candidates, images, failures, writers, directory, location>>
vars == <<decoderVars, toolVars>>

(***************************************************************************)
(* Reading.                                                                *)
(***************************************************************************)
\* bytes.fromhex: no colons, and json.loads: no blank lines.
Strict(line) == line.shape = "record" /\ (line.hex = "plain" \/ line.payload.length = 0)

\* Mutant: whatever is not a response counts as a command.
FromHost_Loose(line) == line.endpoint # <<ResponseIn>>

\* The text is compared: one occurrence, and "0x01" exactly.
FromHost(line) == line.endpoint = <<CommandOut>>

FromDevice(line) == line.endpoint = <<ResponseIn>>

\* load_images looks at the hexadecimal text of responses only.
Collect(line) ==
    /\ failures' = failures
          \cup {reader \in {"candidates"} : ~Strict(line)}
          \cup {reader \in {"images"} : line.shape # "record" \/ (FromDevice(line) /\ ~Strict(line))}
    /\ candidates' = [name \in Records |-> candidates[name] \cup
          {p \in {line.payload} : Strict(line) /\ FromHost(line) /\ IsRecord(p, name)}]
    /\ images' = IF Strict(line) /\ FromDevice(line) /\ IsImage(line.payload)
                 THEN Append(images, Len(file) + 1) ELSE images

(***************************************************************************)
(* Writing.  Only the image summary looks for a file just before writing   *)
(* it; the extraction looks for all of them first.                         *)
(***************************************************************************)
Absent == [status |-> "absent"]
Partial == [status |-> "partial"]
Complete(v) == [status |-> "complete", content |-> v]
Old == [status |-> "old"]

Tools == {"extract", "summary", "generate"}

\* A file is a name and a number, 0 where the name is enough.
ImageFile(i) == <<"image", i>>
ExtractOrder ==
    <<<<"config-39.bin", 0>>, <<"config-06.bin", 0>>, <<"scan-matrix-02.bin", 0>>, <<"manifest.json", 0>>>>
Manifest == ExtractOrder[4]
GeneratedFile == <<"generated", 0>>
Outputs ==
    {ExtractOrder[i] : i \in 1 .. 4} \cup {GeneratedFile} \cup {ImageFile(i) : i \in 1 .. MaxImages}

\* How many files a tool writes, the next one, and what goes into it.
Files(tool) ==
    CASE tool = "extract" -> 4 [] tool = "summary" -> Len(images) [] tool = "generate" -> 1

Target(tool) ==
    CASE tool = "extract" -> ExtractOrder[writers[tool].file]
      [] tool = "summary" -> ImageFile(writers[tool].file)
      [] tool = "generate" -> GeneratedFile

Contents(tool) ==
    CASE tool = "extract" /\ Target(tool) = Manifest -> {candidates}
      [] tool = "extract" /\ Target(tool) # Manifest -> candidates[Target(tool)[1]]
      [] tool = "summary" -> {images[writers[tool].file]}
      [] tool = "generate" -> Generated

Init ==
    /\ DecoderInit
    /\ candidates = [name \in Records |-> {}]
    /\ images = <<>>
    /\ failures = {}
    /\ writers = [tool \in Tools |-> [step |-> "load", file |-> 1]]
    /\ directory = [f \in Outputs |-> Absent]
    /\ location = "outside"

Finish(tool, status) == writers' = [writers EXCEPT ![tool].step = status]

\* Every file is looked for, the manifest too, before the first is written.
Existing == \E i \in DOMAIN ExtractOrder : directory[ExtractOrder[i]] # Absent

\* Mutant: only this repository is refused.
Refused_Repository(tool) ==
    \/ location = "repository"
    \/ tool = "extract" /\ ("candidates" \in failures \/ Existing)
    \/ tool = "extract" /\ \E name \in Records : Cardinality(candidates[name]) # 1
    \/ tool = "summary" /\ "images" \in failures

\* The private outputs of a capture stay out of every worktree
\* (find_git_worktree), a generated command only out of this repository.
Refused(tool) ==
    \/ location = "repository" \/ (location = "worktree" /\ tool # "generate")
    \/ tool = "extract" /\ ("candidates" \in failures \/ Existing)
    \/ tool = "extract" /\ \E name \in Records : Cardinality(candidates[name]) # 1
    \/ tool = "summary" /\ "images" \in failures

\* The tools are run one after the other.  The generator reads no capture: it
\* is explored beside the empty one.
Start(tool) ==
    /\ writers[tool].step = "load" /\ phase \in {"done", "failed"}
    /\ \A other \in Tools : writers[other].step \in {"load", "error", "success"}
    /\ tool = "generate" => file = <<>>
    /\ Finish(tool, IF Refused(tool) THEN "error" ELSE "open")
    /\ UNCHANGED <<decoderVars, candidates, images, failures, directory, location>>

\* Mutant: an image replaces whatever has its name.
Blocked_NoImage(tool) == tool = "generate" /\ directory[Target(tool)] # Absent

\* write_pgm and write_generated look for their file just before they open it.
Blocked(tool) == tool \in {"summary", "generate"} /\ directory[Target(tool)] # Absent

OpenOutput(tool) ==
    /\ writers[tool].step = "open" /\ writers[tool].file <= Files(tool)
    /\ IF Blocked(tool)
       THEN Finish(tool, "error") /\ UNCHANGED directory
       ELSE /\ Finish(tool, "write")
            /\ directory' = [directory EXCEPT ![Target(tool)] = Partial]
    /\ UNCHANGED <<decoderVars, candidates, images, failures, location>>

WriteOutput(tool) ==
    /\ writers[tool].step = "write"
    /\ \E v \in Contents(tool) : directory' = [directory EXCEPT ![Target(tool)] = Complete(v)]
    /\ writers' = [writers EXCEPT ![tool] = [step |-> "open", file |-> @.file + 1]]
    /\ UNCHANGED <<decoderVars, candidates, images, failures, location>>

\* Mutant: the error is passed over.
FailOutput_GoesOn(tool) ==
    /\ writers[tool].step = "write"
    /\ writers' = [writers EXCEPT ![tool] = [step |-> "open", file |-> @.file + 1]]
    /\ UNCHANGED <<decoderVars, candidates, images, failures, directory, location>>

\* A full disk, a signal: nothing is undone.
FailOutput(tool) ==
    /\ writers[tool].step = "write"
    /\ Finish(tool, "error")
    /\ UNCHANGED <<decoderVars, candidates, images, failures, directory, location>>

ExitOutput(tool) ==
    /\ writers[tool].step = "open" /\ writers[tool].file > Files(tool)
    /\ Finish(tool, "success")
    /\ UNCHANGED <<decoderVars, candidates, images, failures, directory, location>>

\* Bound: a line that some reader refuses is the last one explored.
Reading ==
    \E line \in Lines :
        /\ failures = {}
        /\ Len(images) < MaxImages \/ ~IsImage(line.payload)
        /\ ReadLine(line) /\ Collect(line)
        /\ UNCHANGED <<writers, directory, location>>

Deciding == (EndOfFile \/ Pairing) /\ UNCHANGED toolVars

\* The directory is in a worktree, or holds a file of an earlier run; explored
\* where there is something to write.
ChooseDirectory ==
    /\ phase \in {"done", "failed"} /\ \A tool \in Tools : writers[tool].step = "load"
    /\ location = "outside" /\ \A f \in Outputs : directory[f] = Absent
    /\ file = <<>> \/ images # <<>> \/ \A name \in Records : candidates[name] # {}
    /\ \/ location' \in {"worktree", "repository"} /\ UNCHANGED directory
       \/ /\ \E f \in Outputs : directory' = [directory EXCEPT ![f] = Old]
          /\ UNCHANGED location
    /\ UNCHANGED <<decoderVars, candidates, images, failures, writers>>

Writing(tool) ==
    \/ Start(tool) \/ OpenOutput(tool) \/ WriteOutput(tool)
    \/ FailOutput(tool) \/ ExitOutput(tool)

Next == Reading \/ Deciding \/ ChooseDirectory \/ \E tool \in Tools : Writing(tool)

Spec == Init /\ [][Next]_vars
=============================================================================
