----------------------------- MODULE Provision -----------------------------
(***************************************************************************)
(* The two private records between the tool that writes them and the       *)
(* driver that loads them: tools/syna0082_provision.py selects them from a *)
(* capture (and a vendor DLL) and writes them and a manifest, one file     *)
(* after the other; dev_open loads them from the same directory            *)
(* (LIBFPRINT_SYNA0082_BLOB_DIR).  The tool may fail or be killed at any   *)
(* write, and the driver may open in the middle of one.                    *)
(***************************************************************************)
EXTENDS Naturals

CONSTANTS
    Captures,    \* normalized captures the user may pass
    Versions,    \* contents of a record
    Configs,     \* Captures -> the protected configurations a capture holds
    Matrices,    \* Captures -> the acquisition-mode scan matrices it holds
    MaxRuns      \* bound: runs of the tool

ASSUME ProvisionAssumption ==
    /\ Configs \in [Captures -> SUBSET Versions]
    /\ Matrices \in [Captures -> SUBSET Versions]
    /\ MaxRuns \in Nat

\* A file is absent, cut short, or complete.
Absent == [status |-> "absent"]
Partial == [status |-> "partial"]
Complete(v) == [status |-> "complete", content |-> v]

Records == {"config", "matrix"}
Files == Records \cup {"manifest"}

\* config and matrix first, in the order of "outputs", then the manifest.
WriteOrder == <<"config", "matrix", "manifest">>

VARIABLES
    directory,   \* Files -> contents
    tool,        \* the running tool: its selected records, the file it writes
    runs,        \* runs of the tool so far
    driver       \* dev_open: its progress and the records loaded

vars == <<directory, tool, runs, driver>>

NoTool == [writing |-> 0, open |-> FALSE]
Closed == [next |-> "config"]

Init ==
    /\ directory = [f \in Files |-> Absent]
    /\ tool = NoTool
    /\ runs = 0
    /\ driver = Closed

Running == tool.writing > 0

(***************************************************************************)
(* provision.                                                              *)
(***************************************************************************)
\* Mutant: only the manifest is looked for.
Existing_ManifestOnly == directory["manifest"] # Absent

Existing == \E f \in Files : directory[f] # Absent

\* The configuration of the capture, or the one of the DLL if the capture
\* holds no other.
SelectedConfigs(capture, dll) ==
    IF dll = {} THEN Configs[capture]
    ELSE IF Configs[capture] \subseteq dll THEN dll ELSE {}

\* Everything is checked before the first write; whatever is not exactly one
\* record, and every existing output, is an error.  Runs follow one another.
StartTool(capture, dll) ==
    /\ ~Running /\ runs < MaxRuns
    /\ ~Existing
    /\ \E config, matrix \in Versions :
          /\ SelectedConfigs(capture, dll) = {config}
          /\ Matrices[capture] = {matrix}
          /\ tool' = [writing |-> 1, open |-> FALSE, config |-> config, matrix |-> matrix]
    /\ runs' = runs + 1
    /\ UNCHANGED <<directory, driver>>

\* Mutant: the manifest is written first.
FileToWrite_ManifestFirst == <<"manifest", "config", "matrix">>[tool.writing]

FileToWrite == WriteOrder[tool.writing]

\* The manifest lists the digests of both records, from memory.
Content == [config |-> tool.config, matrix |-> tool.matrix,
            manifest |-> <<tool.config, tool.matrix>>]

\* Opening the file truncates it.
OpenFile ==
    /\ Running /\ ~tool.open
    /\ directory' = [directory EXCEPT ![FileToWrite] = Partial]
    /\ tool' = [tool EXCEPT !.open = TRUE]
    /\ UNCHANGED <<runs, driver>>

WriteFile ==
    /\ Running /\ tool.open
    /\ directory' = [directory EXCEPT ![FileToWrite] = Complete(Content[FileToWrite])]
    /\ tool' = IF tool.writing = 3 THEN NoTool
               ELSE [tool EXCEPT !.open = FALSE, !.writing = @ + 1]
    /\ UNCHANGED <<runs, driver>>

\* A full disk, a signal: nothing is undone.
Abort ==
    /\ Running
    /\ tool' = NoTool
    /\ UNCHANGED <<directory, runs, driver>>

\* The user removes an output, since the tool will not; not in the instant
\* between the two reads of a dev_open.
Remove ==
    /\ ~Running /\ Existing /\ driver.next # "matrix"
    /\ directory' = [f \in Files |-> Absent]
    /\ UNCHANGED <<tool, runs, driver>>

(***************************************************************************)
(* dev_open: load_blob of the one record, then of the other.               *)
(***************************************************************************)
Loadable(record) == directory[record].status = "complete"

LoadConfig ==
    /\ driver.next = "config"
    /\ Loadable("config")
    /\ driver' = [next |-> "matrix", config |-> directory["config"]]
    /\ UNCHANGED <<directory, tool, runs>>

\* A failure keeps config_06; the next dev_open loads it anew.
LoadMatrix ==
    /\ driver.next = "matrix"
    /\ driver' = IF Loadable("matrix")
                 THEN [next |-> "close", config |-> driver.config, matrix |-> directory["matrix"]]
                 ELSE Closed
    /\ UNCHANGED <<directory, tool, runs>>

Close ==
    /\ driver.next = "close"
    /\ driver' = Closed
    /\ UNCHANGED <<directory, tool, runs>>

Next ==
    \/ \E capture \in Captures : \E dll \in {{}} \cup {{v} : v \in Versions} :
          StartTool(capture, dll)
    \/ OpenFile \/ WriteFile \/ Abort \/ Remove
    \/ LoadConfig \/ LoadMatrix \/ Close

Spec == Init /\ [][Next]_vars
=============================================================================
