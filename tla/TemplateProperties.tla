------------------------- MODULE TemplateProperties -------------------------
(***************************************************************************)
(* What the template file must guarantee to those who use it.              *)
(***************************************************************************)
EXTENDS TemplateStore

\* A reader meets a whole enrollment: what it holds is every sample of one
\* process's images, three at least, whatever enrollments run, fail or are
\* killed meanwhile; and no file of these processes is ever refused
\* (save_template, load_template).
ReadersSeeOneEnrollment ==
    \A p \in Processes :
        processes[p].held \in Processes =>
            LET writer == processes[p].held
            IN  /\ processes[p].step = "load" => processes[p].exit # 1
                /\ processes[p].step = "compare" =>
                      /\ Len(processes[p].samples) = Len(Request(writer).images)
                      /\ Len(processes[p].samples) >= MinimumSamples
                      /\ \A i \in DOMAIN processes[p].samples :
                            /\ Extracts(Request(writer).images[i])
                            /\ processes[p].samples[i] = Sample(Request(writer).images[i])

\* A temporary file is left behind only by a process that was killed: every
\* error removes it (save_template).
OnlyTheKilledLitter ==
    \A p \in temporaries : processes[p].exit \in {-1, 9}

\* An enrollment that begins when there is a template never takes its name,
\* and fails (save_template refuses to overwrite).  Of two that have both seen
\* no template the later rename wins.
LateEnrollmentFails ==
    \A p \in Processes :
        [](template # "none" /\ processes[p].step \in {"start", "extract"}
             => [](template # p /\ ~(processes[p].exit = 0 /\ Request(p).command = "enroll")))

\* The exit status of a verification tells its decision (command_verify), and
\* only after all samples of the template were compared.  0 says that a score no
\* other ranks above was accepted, and has eight inliers or is not the only one
\* accepted; 3 says that there are neither eight inliers nor two accepted, or
\* that a rejected score ranks as high as every accepted one.
StatusTellsDecision ==
    \A p \in Processes :
        LET s == processes[p].scores
            accepted == {i \in DOMAIN s : s[i].accepted}
        IN  processes[p].exit \in {0, 3} /\ Request(p).command = "verify" =>
                /\ s # <<>> /\ Len(s) = Len(processes[p].samples)
                /\ processes[p].exit = 0 =>
                      \E i \in accepted :
                          /\ \A j \in DOMAIN s : ~RanksAbove(s[j], s[i])
                          /\ s[i].inliers >= 8 \/ Cardinality(accepted) >= 2
                /\ processes[p].exit = 3 =>
                      \/ Cardinality(accepted) <= 1 /\ \A i \in accepted : s[i].inliers < 8
                      \/ \E i \in DOMAIN s \ accepted : \A j \in accepted : ~RanksAbove(s[j], s[i])
=============================================================================
