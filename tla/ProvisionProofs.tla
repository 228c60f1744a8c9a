--------------------------- MODULE ProvisionProofs ---------------------------
(***************************************************************************)
(* Provisioning for every set of captures, every content and any number of *)
(* runs: what the driver loads is whole and of one run, and the manifest   *)
(* vouches for it.                                                         *)
(*                                                                         *)
(* The argument: the tool starts in an empty directory and writes in one   *)
(* order, so the files before the one it writes hold its own records, and  *)
(* those after it are absent (Progress).  Whatever run is interrupted, the *)
(* complete records that remain are of one selection (Leftovers).          *)
(***************************************************************************)
EXTENDS ProvisionProperties, TLAPS

Dlls == {{}} \cup {{v} : v \in Versions}

\* The two records are selected together by some run.
OnePair(config, matrix) ==
    \E capture \in Captures : \E dll \in Dlls :
        /\ SelectedConfigs(capture, dll) = {config}
        /\ Matrices[capture] = {matrix}

IsComplete(f) == directory[f].status = "complete"

ToolOK ==
    \/ tool = NoTool
    \/ /\ tool \in [writing : 1 .. 3, open : BOOLEAN, config : Versions, matrix : Versions]
       /\ OnePair(tool.config, tool.matrix)

DirectoryOK == DOMAIN directory = Files

\* The files before the one being written hold this run's records, the one
\* being written is cut short if it is open, the others do not exist.
Progress ==
    Running =>
        /\ tool.writing > 1 => directory["config"] = Complete(tool.config)
        /\ tool.writing > 2 => directory["matrix"] = Complete(tool.matrix)
        /\ directory[FileToWrite] = IF tool.open THEN Partial ELSE Absent
        /\ tool.writing < 2 => directory["matrix"] = Absent
        /\ tool.writing < 3 => directory["manifest"] = Absent

\* Complete records, whichever run left them, are of one selection.
Leftovers ==
    /\ IsComplete("matrix") => IsComplete("config")
    /\ IsComplete("config") =>
          \E config, matrix \in Versions :
              /\ OnePair(config, matrix)
              /\ directory["config"] = Complete(config)
              /\ IsComplete("matrix") => directory["matrix"] = Complete(matrix)

\* The first record the driver loaded stays in the directory until it has
\* loaded the second.
DriverOK ==
    /\ driver.next = "matrix" => driver.config = directory["config"] /\ IsComplete("config")
    /\ Opened => \E config, matrix \in Versions :
                    /\ OnePair(config, matrix)
                    /\ driver.config = Complete(config)
                    /\ driver.matrix = Complete(matrix)

IInv ==
    /\ DirectoryOK /\ ToolOK /\ Progress
    /\ Leftovers /\ ManifestVouchesForRecords /\ DriverOK

\* A record that is complete is neither absent nor cut short.
LEMMA Statuses ==
    /\ Absent.status # "complete" /\ Partial.status # "complete" /\ Absent # Partial
    /\ \A v : Complete(v).status = "complete" /\ Complete(v).content = v
    /\ \A v : Complete(v) # Absent /\ Complete(v) # Partial
  BY DEF Absent, Partial, Complete

LEMMA InitOK == Init => IInv
  BY Statuses DEF Init, IInv, DirectoryOK, ToolOK, Progress, Leftovers, DriverOK, Running,
     NoTool, Closed, Opened, IsComplete, ManifestVouchesForRecords, Files, Records

\* Where the tool writes.
LEMMA Writing ==
    ASSUME ToolOK, Running
    PROVE  /\ tool.writing \in 1 .. 3
           /\ tool \in [writing : 1 .. 3, open : BOOLEAN, config : Versions, matrix : Versions]
           /\ tool.writing = 1 => FileToWrite = "config"
           /\ tool.writing = 2 => FileToWrite = "matrix"
           /\ tool.writing = 3 => FileToWrite = "manifest"
           /\ OnePair(tool.config, tool.matrix)
  BY DEF ToolOK, Running, NoTool, FileToWrite, WriteOrder

LEMMA StartToolOK ==
    ASSUME IInv, NEW capture \in Captures, NEW dll \in Dlls, StartTool(capture, dll)
    PROVE  IInv'
<1>1. PICK config, matrix \in Versions :
          /\ SelectedConfigs(capture, dll) = {config}
          /\ Matrices[capture] = {matrix}
          /\ tool' = [writing |-> 1, open |-> FALSE, config |-> config, matrix |-> matrix]
  BY DEF StartTool
<1>2. directory["config"] = Absent /\ directory["matrix"] = Absent /\ directory["manifest"] = Absent
  BY DEF StartTool, Existing, Files, Records
<1>3. ToolOK'
  BY <1>1 DEF ToolOK, OnePair, SelectedConfigs
<1>4. Progress'
  BY <1>1, <1>2 DEF Progress, FileToWrite, WriteOrder, StartTool
<1>5. (DirectoryOK /\ Leftovers /\ ManifestVouchesForRecords /\ DriverOK)'
  BY DEF IInv, StartTool, DirectoryOK, Leftovers, ManifestVouchesForRecords, DriverOK, Opened,
     IsComplete, OnePair, SelectedConfigs, WriteOrder
<1> QED
  BY <1>3, <1>4, <1>5 DEF IInv

LEMMA OpenFileOK == IInv /\ OpenFile => IInv'
<1> SUFFICES ASSUME IInv, OpenFile PROVE IInv'
  OBVIOUS
<1>1. ToolOK /\ Running /\ ~tool.open
  BY DEF IInv, OpenFile
<1>2. directory[FileToWrite] = Absent
  BY <1>1 DEF IInv, Progress
<1>3. FileToWrite \in Files
  BY <1>1, Writing DEF Files, Records
<1>4. /\ directory'[FileToWrite] = Partial
      /\ \A f \in Files : f # FileToWrite => directory'[f] = directory[f]
      /\ DirectoryOK'
  BY <1>3 DEF IInv, OpenFile, DirectoryOK
<1>5. /\ tool'.writing = tool.writing /\ tool'.open
      /\ tool'.config = tool.config /\ tool'.matrix = tool.matrix
      /\ tool' \in [writing : 1 .. 3, open : BOOLEAN, config : Versions, matrix : Versions]
  BY <1>1, Writing DEF OpenFile
<1>6. ToolOK'
  BY <1>1, <1>5, Writing DEF ToolOK, OnePair, SelectedConfigs
<1>7. FileToWrite' = FileToWrite
  BY <1>5 DEF FileToWrite
<1>8. Progress'
  BY <1>1, <1>4, <1>5, <1>7, Writing DEF IInv, Progress, Running, Files, Records
<1>9. \A f \in Files : IsComplete(f)' = IsComplete(f)
  BY <1>2, <1>4, Statuses DEF IsComplete
<1>10. \A f \in Files : IsComplete(f) => directory'[f] = directory[f]
  BY <1>2, <1>4, Statuses DEF IsComplete
<1>11. Leftovers'
  BY <1>9, <1>10 DEF IInv, Leftovers, IsComplete, Files, Records, OnePair, SelectedConfigs
<1>12. ManifestVouchesForRecords'
  BY <1>1, <1>2, <1>4, Writing, Statuses DEF IInv, Progress, ManifestVouchesForRecords, Files, Records
<1>13. DriverOK'
  BY <1>9, <1>10 DEF IInv, DriverOK, Opened, OpenFile, IsComplete, Files, Records, OnePair, SelectedConfigs
<1> QED
  BY <1>4, <1>6, <1>8, <1>11, <1>12, <1>13 DEF IInv

LEMMA WriteFileOK == IInv /\ WriteFile => IInv'
<1> SUFFICES ASSUME IInv, WriteFile PROVE IInv'
  OBVIOUS
<1>1. ToolOK /\ Running /\ tool.open
  BY DEF IInv, WriteFile
<1>2. directory[FileToWrite] = Partial
  BY <1>1 DEF IInv, Progress
<1>3. FileToWrite \in Files
  BY <1>1, Writing DEF Files, Records
<1>4. /\ directory'[FileToWrite] = Complete(Content[FileToWrite])
      /\ \A f \in Files : f # FileToWrite => directory'[f] = directory[f]
      /\ DirectoryOK'
  BY <1>3 DEF IInv, WriteFile, DirectoryOK
<1>5. /\ tool.writing = 3 => tool' = NoTool
      /\ tool.writing # 3 =>
            /\ tool'.writing = tool.writing + 1 /\ ~tool'.open
            /\ tool'.config = tool.config /\ tool'.matrix = tool.matrix
            /\ tool' \in [writing : 1 .. 3, open : BOOLEAN, config : Versions, matrix : Versions]
  <2>1. CASE tool.writing = 3
    BY <2>1 DEF WriteFile
  <2>2. CASE tool.writing # 3
    <3>1. tool' = [tool EXCEPT !.open = FALSE, !.writing = @ + 1]
      BY <2>2 DEF WriteFile
    <3>2. tool.writing + 1 \in 1 .. 3
      BY <1>1, <2>2, Writing
    <3> QED
      BY <1>1, <2>2, <3>1, <3>2, Writing
  <2> QED
    BY <2>1, <2>2
<1>6. ToolOK'
  BY <1>1, <1>5, Writing DEF ToolOK, OnePair, SelectedConfigs
<1>7. /\ Content["config"] = tool.config /\ Content["matrix"] = tool.matrix
      /\ Content["manifest"] = <<tool.config, tool.matrix>>
  BY DEF Content
<1>8. CASE tool.writing = 1
  <2>1. /\ directory'["config"] = Complete(tool.config)
        /\ directory'["matrix"] = Absent /\ directory'["manifest"] = Absent
    BY <1>1, <1>4, <1>7, <1>8, Writing DEF IInv, Progress, Files, Records
  <2>2. Progress'
    BY <1>5, <1>8, <2>1 DEF Progress, FileToWrite, WriteOrder
  <2>3. Leftovers'
    BY <1>1, <2>1, Writing, Statuses DEF Leftovers, IsComplete, OnePair, SelectedConfigs
  <2>4. ManifestVouchesForRecords'
    BY <2>1, Statuses DEF ManifestVouchesForRecords
  <2>5. ~IsComplete("config")
    BY <1>1, <1>2, <1>8, Writing, Statuses DEF IsComplete
  <2>6. DriverOK'
    BY <2>5 DEF IInv, DriverOK, Opened, WriteFile, OnePair, SelectedConfigs
  <2> QED
    BY <1>4, <1>6, <2>2, <2>3, <2>4, <2>6 DEF IInv
<1>9. CASE tool.writing = 2
  <2>1. /\ directory'["config"] = Complete(tool.config)
        /\ directory["config"] = Complete(tool.config)
        /\ directory'["matrix"] = Complete(tool.matrix)
        /\ directory'["manifest"] = Absent
    BY <1>1, <1>4, <1>7, <1>9, Writing DEF IInv, Progress, Files, Records
  <2>2. Progress'
    BY <1>5, <1>9, <2>1 DEF Progress, FileToWrite, WriteOrder
  <2>3. Leftovers'
    BY <1>1, <2>1, Writing, Statuses DEF Leftovers, IsComplete, OnePair, SelectedConfigs
  <2>4. ManifestVouchesForRecords'
    BY <2>1, Statuses DEF ManifestVouchesForRecords
  <2>5. DriverOK'
    BY <2>1, Statuses DEF IInv, DriverOK, Opened, WriteFile, IsComplete, OnePair, SelectedConfigs
  <2> QED
    BY <1>4, <1>6, <2>2, <2>3, <2>4, <2>5 DEF IInv
<1>10. CASE tool.writing = 3
  <2>1. /\ directory'["config"] = Complete(tool.config)
        /\ directory["config"] = Complete(tool.config)
        /\ directory'["matrix"] = Complete(tool.matrix)
        /\ directory'["manifest"] = Complete(<<tool.config, tool.matrix>>)
    BY <1>1, <1>4, <1>7, <1>10, Writing DEF IInv, Progress, Files, Records
  <2>2. Progress'
    BY <1>5, <1>10 DEF Progress, Running, NoTool
  <2>3. Leftovers'
    BY <1>1, <2>1, Writing, Statuses DEF Leftovers, IsComplete, OnePair, SelectedConfigs
  <2>4. ManifestVouchesForRecords'
    <3> SUFFICES ASSUME NEW i \in 1 .. 2
                 PROVE  directory'[WriteOrder[i]] = Complete(directory'["manifest"].content[i])
      BY DEF ManifestVouchesForRecords, WriteOrder
    <3>1. directory'["manifest"].content = <<tool.config, tool.matrix>>
      BY <2>1, Statuses
    <3> QED
      BY <2>1, <3>1 DEF WriteOrder
  <2>5. DriverOK'
    BY <2>1, Statuses DEF IInv, DriverOK, Opened, WriteFile, IsComplete, OnePair, SelectedConfigs
  <2> QED
    BY <1>4, <1>6, <2>2, <2>3, <2>4, <2>5 DEF IInv
<1> QED
  BY <1>1, <1>8, <1>9, <1>10, Writing

LEMMA AbortOK == IInv /\ Abort => IInv'
  BY DEF IInv, Abort, DirectoryOK, ToolOK, Progress, Leftovers, DriverOK, Running, NoTool, Opened,
     IsComplete, ManifestVouchesForRecords, OnePair, SelectedConfigs, WriteOrder

LEMMA RemoveOK == IInv /\ Remove => IInv'
<1> SUFFICES ASSUME IInv, Remove PROVE IInv'
  OBVIOUS
<1>1. \A f \in Files : directory'[f] = Absent
  BY DEF Remove
<1>2. DirectoryOK' /\ ToolOK' /\ Progress'
  BY DEF IInv, Remove, DirectoryOK, ToolOK, Progress, Running, OnePair, SelectedConfigs
<1>3. (Leftovers /\ ManifestVouchesForRecords)'
  BY <1>1, Statuses DEF Leftovers, ManifestVouchesForRecords, IsComplete, Files, Records
<1>4. DriverOK'
  BY DEF IInv, Remove, DriverOK, Opened, OnePair, SelectedConfigs
<1> QED
  BY <1>2, <1>3, <1>4 DEF IInv

\* The driver's steps leave the tool and the directory alone.
LEMMA DriverOnly ==
    ASSUME IInv, UNCHANGED <<directory, tool, runs>>
    PROVE  (DirectoryOK /\ ToolOK /\ Progress /\ Leftovers /\ ManifestVouchesForRecords)'
  BY DEF IInv, DirectoryOK, ToolOK, Progress, Leftovers, Running, FileToWrite, IsComplete,
     ManifestVouchesForRecords, OnePair, SelectedConfigs, WriteOrder

LEMMA DriverOpens == IInv /\ (LoadConfig \/ LoadMatrix \/ Close) => IInv'
<1> SUFFICES ASSUME IInv, LoadConfig \/ LoadMatrix \/ Close PROVE DriverOK'
  BY DriverOnly DEF IInv, LoadConfig, LoadMatrix, Close
<1>1. CASE LoadConfig
  BY <1>1 DEF LoadConfig, Loadable, DriverOK, Opened, IsComplete
<1>2. CASE LoadMatrix
  <2>1. CASE Loadable("matrix")
    <3>1. IsComplete("matrix") /\ IsComplete("config") /\ driver.config = directory["config"]
      BY <1>2, <2>1 DEF IInv, LoadMatrix, Loadable, IsComplete, DriverOK
    <3>2. PICK config, matrix \in Versions :
              /\ OnePair(config, matrix)
              /\ directory["config"] = Complete(config)
              /\ directory["matrix"] = Complete(matrix)
      BY <3>1 DEF IInv, Leftovers
    <3>3. /\ driver'.next = "close" /\ driver'.config = Complete(config)
          /\ driver'.matrix = Complete(matrix)
      BY <1>2, <2>1, <3>1, <3>2 DEF LoadMatrix
    <3> QED
      BY <3>2, <3>3 DEF DriverOK, Opened, OnePair, SelectedConfigs
  <2>2. CASE ~Loadable("matrix")
    BY <1>2, <2>2 DEF LoadMatrix, Closed, DriverOK, Opened
  <2> QED
    BY <2>1, <2>2
<1>3. CASE Close
  BY <1>3 DEF Close, Closed, DriverOK, Opened
<1> QED
  BY <1>1, <1>2, <1>3

\* The inductive invariant holds of every behaviour, for every set of captures
\* and any number of runs, interruptions and removals.
THEOREM Invariance == Spec => []IInv
<1>1. IInv /\ [Next]_vars => IInv'
  <2> SUFFICES ASSUME IInv, [Next]_vars PROVE IInv'
    OBVIOUS
  <2>1. CASE \E capture \in Captures : \E dll \in Dlls : StartTool(capture, dll)
    BY <2>1, StartToolOK
  <2>2. CASE OpenFile \/ WriteFile \/ Abort \/ Remove
    BY <2>2, OpenFileOK, WriteFileOK, AbortOK, RemoveOK
  <2>3. CASE LoadConfig \/ LoadMatrix \/ Close
    BY <2>3, DriverOpens
  <2>4. CASE UNCHANGED vars
    <3>1. UNCHANGED <<directory, tool, runs>> /\ driver' = driver
      BY <2>4 DEF vars
    <3>2. DriverOK'
      BY <3>1 DEF IInv, DriverOK, Opened, IsComplete, OnePair, SelectedConfigs
    <3> QED
      BY <3>1, <3>2, DriverOnly DEF IInv
  <2> QED
    BY <2>1, <2>2, <2>3, <2>4 DEF Next, Dlls
<1> QED
  BY InitOK, <1>1, PTL DEF Spec

\* dev_open never takes a record that is being written, or was left cut short,
\* for a whole one.
THEOREM WholeRecords == Spec => []DriverLoadsWholeRecords
<1>1. IInv => DriverLoadsWholeRecords
  BY Statuses DEF IInv, DriverOK, DriverLoadsWholeRecords
<1> QED
  BY Invariance, <1>1, PTL

\* An open driver holds two records that one run of the tool selected together.
THEOREM OnePairLoaded == Spec => []DriverLoadsOnePair
<1>1. IInv => DriverLoadsOnePair
  BY Statuses DEF IInv, DriverOK, DriverLoadsOnePair, OnePair, Dlls
<1> QED
  BY Invariance, <1>1, PTL

\* A complete manifest lists the digests of the two records beside it.
THEOREM ManifestIsCommitRecord == Spec => []ManifestVouchesForRecords
<1>1. IInv => ManifestVouchesForRecords
  BY DEF IInv
<1> QED
  BY Invariance, <1>1, PTL
=============================================================================
