--------------------------- MODULE TemplateStore ---------------------------
(***************************************************************************)
(* The commands of the reference matcher (tools/syna0082_matcher.py) on    *)
(* one template file: enrollments that create it and verifications and     *)
(* evaluations that read it, each a process of its own.  Any step of a     *)
(* process may fail, and any process may be killed.                        *)
(*                                                                         *)
(* A new template is written under a temporary name and then renamed, so   *)
(* the name of the template leads to the file of some process.             *)
(***************************************************************************)
EXTENDS Decision

CONSTANTS
    Processes,
    Requests,    \* command lines: command, background, images
    Fits,        \* what OpenCV may answer to a comparison
    Foreign      \* what a file not written by these processes may hold

MinimumSamples == 3
MinimumKeypoints == 8

NoFile == [status |-> "none"]

Commands == {"enroll", "verify", "evaluate"}
ShapeKinds == {"native", "double", "other"}

ImageType ==
    [readable : BOOLEAN, shape : ShapeKinds, deviation : Nat, keypoints : Nat]

SampleType == [points : Nat, descriptors : Nat]

FileType ==
    [status : {"partial"}]
    \cup [status : {"whole"}, format : BOOLEAN, version : Nat, count : Nat,
          samples : Seq(SampleType)]

ASSUME TemplateStoreAssumption ==
    /\ "none" \notin Processes /\ "foreign" \notin Processes
    /\ Requests \subseteq
          [command : Commands, background : Seq(ImageType), images : Seq(ImageType)]
    /\ \A r \in Requests :
          /\ Len(r.background) <= 1 /\ Len(r.images) > 0
          /\ r.command = "verify" => Len(r.images) = 1
    /\ Foreign \subseteq FileType
    /\ Fits \subseteq FitType

VARIABLES
    template,     \* whose file has the template's name: "none", "foreign", a process
    temporaries,  \* the processes whose temporary name exists
    content,      \* file -> what it holds
    processes     \* the processes, their locals and exit statuses

vars == <<template, temporaries, content, processes>>

\* "step" is where a process is, or where it stopped; "exit" is -1 while it
\* runs, 1 for a traceback and 9 for a signal.
NotStarted ==
    [request |-> <<>>, step |-> "start", samples |-> <<>>, held |-> "none",
     image |-> 1, scores |-> <<>>, exit |-> -1]

Init ==
    /\ template \in {"none", "foreign"}
    /\ temporaries = {}
    /\ content \in [Processes -> {NoFile}] \X Foreign
    /\ processes = [p \in Processes |-> NotStarted]

File(f) == IF f = "foreign" THEN content[2] ELSE content[1][f]

Write(p, c) == content' = [content EXCEPT ![1][p] = c]

At(p, step) == processes[p].step = step /\ processes[p].exit = -1

Go(p, step) == processes' = [processes EXCEPT ![p].step = step]

Exit(p, status) == processes' = [processes EXCEPT ![p].exit = status]

(***************************************************************************)
(* Images.                                                                 *)
(***************************************************************************)
\* load_image: a standard deviation of three at least, after a picture of
\* double size has been reduced.
Loads(image) == image.readable /\ image.shape \in {"native", "double"} /\ image.deviation >= 3

\* extract.
Extracts(image) == Loads(image) /\ image.keypoints >= MinimumKeypoints

Sample(image) == [points |-> image.keypoints, descriptors |-> image.keypoints]

Request(p) == processes[p].request
Image(p) == Request(p).images[processes[p].image]

\* main: the background is loaded first by every command.
Start(p) ==
    /\ At(p, "start")
    /\ \E r \in Requests :
          processes' = [processes EXCEPT ![p].request = r,
              ![p].step = IF r.command = "enroll" THEN "extract" ELSE "open",
              ![p].exit = IF \A i \in DOMAIN r.background : Loads(r.background[i]) THEN -1 ELSE 1]
    /\ UNCHANGED <<template, temporaries, content>>

\* Every image of an enrollment must be good.
ExtractSample(p) ==
    /\ At(p, "extract")
    /\ IF Extracts(Image(p))
       THEN processes' = [processes EXCEPT
                ![p].samples = Append(@, Sample(Image(p))),
                ![p].image = @ + 1,
                ![p].step = IF processes[p].image = Len(Request(p).images) THEN "check" ELSE @]
       ELSE Exit(p, 1)
    /\ UNCHANGED <<template, temporaries, content>>

(***************************************************************************)
(* save_template.                                                          *)
(***************************************************************************)
\* Mutant: only the number of samples is looked at.
Savable_AnyPath(p) == Len(processes[p].samples) >= MinimumSamples

Savable(p) == Len(processes[p].samples) >= MinimumSamples /\ template = "none"

CheckPath(p) ==
    /\ At(p, "check")
    /\ IF Savable(p) THEN Go(p, "create") ELSE Exit(p, 1)
    /\ UNCHANGED <<template, temporaries, content>>

\* Mutant: the template is written under its own name.
CreateTemporary_InPlace(p) ==
    /\ At(p, "create")
    /\ Go(p, "write")
    /\ template' = p
    /\ Write(p, [status |-> "partial"])
    /\ UNCHANGED temporaries

\* No two temporary names are the same.
CreateTemporary(p) ==
    /\ At(p, "create")
    /\ \/ /\ Go(p, "write")
          /\ temporaries' = temporaries \cup {p}
          /\ Write(p, [status |-> "partial"])
       \/ Exit(p, 1) /\ UNCHANGED <<temporaries, content>>
    /\ UNCHANGED template

WriteTemporary(p) ==
    /\ At(p, "write")
    /\ \/ /\ Go(p, "replace")
          /\ Write(p, [status |-> "whole", format |-> TRUE, version |-> 1,
                       count |-> Len(processes[p].samples), samples |-> processes[p].samples])
       \/ Go(p, "unlink") /\ UNCHANGED content
    /\ UNCHANGED <<template, temporaries>>

\* Mutant: a failed rename is reported and nothing else.
Replace_NoUnlink(p) ==
    /\ At(p, "replace")
    /\ \/ /\ template' = p
          /\ temporaries' = temporaries \ {p}
          /\ Exit(p, 0)
       \/ Exit(p, 1) /\ UNCHANGED <<template, temporaries>>
    /\ UNCHANGED content

\* os.chmod and os.replace, which takes the name whoever has it by now.
Replace(p) ==
    /\ At(p, "replace")
    /\ \/ /\ template' = p
          /\ temporaries' = temporaries \ {p}
          /\ Exit(p, 0)
       \/ Go(p, "unlink") /\ UNCHANGED <<template, temporaries>>
    /\ UNCHANGED content

\* finally: the error goes on.
Unlink(p) ==
    /\ At(p, "unlink")
    /\ temporaries' = temporaries \ {p}
    /\ Exit(p, 1)
    /\ UNCHANGED <<template, content>>

(***************************************************************************)
(* load_template, verify.                                                  *)
(***************************************************************************)
OpenTemplate(p) ==
    /\ At(p, "open")
    /\ IF template = "none" THEN Exit(p, 1)
       ELSE processes' = [processes EXCEPT ![p].step = "load", ![p].held = template]
    /\ UNCHANGED <<template, temporaries, content>>

\* More samples than the metadata counts are passed over.
Supported(c) ==
    /\ c.status = "whole" /\ c.format /\ c.version = 1
    /\ c.count <= Len(c.samples)
    /\ \A i \in 1 .. c.count : c.samples[i].points = c.samples[i].descriptors

LoadTemplate(p) ==
    /\ At(p, "load")
    /\ LET c == File(processes[p].held)
       IN  IF Supported(c)
           THEN processes' = [processes EXCEPT ![p].step = "compare",
                    ![p].samples = SubSeq(c.samples, 1, c.count)]
           ELSE Exit(p, 1)
    /\ UNCHANGED <<template, temporaries, content>>

\* extract, then verify for all samples of the template, then the next image
\* of an evaluation, whose status tells nothing of the decisions.
Compare(p) ==
    /\ At(p, "compare")
    /\ IF ~Extracts(Image(p)) \/ processes[p].samples = <<>>
       THEN Exit(p, 1)
       ELSE \E fits \in [DOMAIN processes[p].samples -> Fits] :
               LET scores == [i \in DOMAIN fits |-> PythonScore(fits[i])]
                   last == processes[p].image = Len(Request(p).images)
               IN  processes' = [processes EXCEPT
                       ![p].scores = scores,
                       ![p].image = IF last THEN @ ELSE @ + 1,
                       ![p].exit =
                          IF ~last THEN -1
                          ELSE IF Request(p).command = "evaluate" \/ PythonMatched(scores) THEN 0
                          ELSE 3]
    /\ UNCHANGED <<template, temporaries, content>>

\* A signal that leaves no time for "finally".
Kill(p) ==
    /\ processes[p].exit = -1 /\ processes[p].step # "start"
    /\ Exit(p, 9)
    /\ UNCHANGED <<template, temporaries, content>>

Next ==
    \E p \in Processes :
        \/ Start(p) \/ ExtractSample(p) \/ CheckPath(p)
        \/ CreateTemporary(p) \/ WriteTemporary(p) \/ Replace(p) \/ Unlink(p)
        \/ OpenTemplate(p) \/ LoadTemplate(p) \/ Compare(p)
        \/ Kill(p)

Spec == Init /\ [][Next]_vars
=============================================================================
