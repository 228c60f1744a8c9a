--------------------------- MODULE TemplateProofs ---------------------------
(***************************************************************************)
(* Proofs about the template file, for every number of processes, every    *)
(* command line and every file found at the template's name.               *)
(*                                                                         *)
(* The argument: only a process that has ended with success can own the    *)
(* template's name, and such a process never writes again; so whatever a   *)
(* reader holds is what its writer made of all of its images.              *)
(***************************************************************************)
EXTENDS TemplateProperties, SequenceTheorems, FiniteSetTheorems, WellFoundedInduction, TLAPS

Saving == {"create", "write", "replace", "unlink"}
Enrolling == {"extract", "check"} \cup Saving
Comparing == {"open", "load", "compare"}

Steps == {"start"} \cup Enrolling \cup Comparing
Exits == {-1, 0, 1, 3, 9}

ProcessType ==
    [request : Requests \cup {<<>>}, step : Steps, samples : Seq(SampleType),
     held : {"none", "foreign"} \cup Processes, image : Nat,
     scores : Seq({PythonScore(f) : f \in Fits}), exit : Exits]

Types ==
    /\ template \in {"none", "foreign"} \cup Processes
    /\ temporaries \in SUBSET Processes
    /\ content \in [Processes -> {NoFile} \cup FileType] \X Foreign
    /\ processes \in [Processes -> ProcessType]

\* The samples of the first n images of a command line.
FirstSamples(r, n, s) ==
    /\ Len(s) = n
    /\ \A i \in 1 .. n : Extracts(r.images[i]) /\ s[i] = Sample(r.images[i])

\* The template a command line enrolls.
Enrolled(r, s) ==
    /\ Len(r.images) >= MinimumSamples
    /\ FirstSamples(r, Len(r.images), s)

\* A process r whose own file is c.
Own(r, c) ==
    /\ r.step # "start" => r.request \in Requests
    /\ r.step \in Enrolling => r.request.command = "enroll"
    /\ r.step \in Comparing => r.request.command # "enroll"
    /\ r.step = "extract" =>
          r.image \in 1 .. Len(r.request.images) /\ FirstSamples(r.request, r.image - 1, r.samples)
    /\ r.step = "check" => FirstSamples(r.request, Len(r.request.images), r.samples)
    /\ r.step \in Saving => Enrolled(r.request, r.samples)
    /\ r.step \in Enrolling /\ r.exit = 0 => r.step = "replace"
    /\ r.step = "replace" =>
          /\ c.status = "whole" /\ c.format /\ c.version = 1
          /\ c.count = Len(r.samples) /\ c.samples = r.samples
    /\ r.step = "load" => r.held # "none"
    /\ r.step = "start" =>
          r.exit = -1 /\ r.image = 1 /\ r.samples = <<>> /\ r.held = "none"

\* A process that has given the template its name: it never acts again.
Published(p) == processes[p].step = "replace" /\ processes[p].exit = 0

\* What process r holds, if it is the file of one of the processes.
Holding(r) ==
    r.held \in Processes =>
        /\ Published(r.held)
        /\ r.step \in {"load", "compare"}
        /\ r.step = "load" => r.exit # 1
        /\ r.step = "compare" => r.samples = processes[r.held].samples

IInv ==
    /\ Types
    /\ \A p \in Processes : Own(processes[p], content[1][p])
    /\ \A p \in Processes : Holding(processes[p])
    /\ template \in Processes => Published(template)
    /\ \A p \in temporaries :
          processes[p].step \in {"write", "replace", "unlink"} /\ processes[p].exit \in {-1, 9}

LEMMA Start0 == Init => IInv
<1> SUFFICES ASSUME Init PROVE IInv
  OBVIOUS
<1>1. NotStarted \in ProcessType
  BY DEF NotStarted, ProcessType, Steps, Exits
<1>2. /\ content \in [Processes -> {NoFile}] \X Foreign
      /\ content[1] \in [Processes -> {NoFile}] /\ content[2] \in Foreign
  BY DEF Init
<1>3. Types
  BY <1>1, <1>2 DEF Init, Types
<1>4. \A p \in Processes : Own(processes[p], content[1][p])
  BY DEF Init, NotStarted, Own, Enrolling, Comparing, Saving
<1>5. \A p \in Processes : Holding(processes[p])
  BY TemplateStoreAssumption DEF Init, NotStarted, Holding
<1> QED
  BY <1>3, <1>4, <1>5, TemplateStoreAssumption DEF Init, IInv

\* What a step of process p must show: its own new state r is sound, what it
\* holds is what it held or what had the name, and the name and the
\* temporary files change only for a process that may.
LEMMA Acts ==
    ASSUME IInv, NEW p \in Processes, processes[p].exit = -1, NEW r \in ProcessType,
           processes' = [processes EXCEPT ![p] = r],
           content' \in [Processes -> {NoFile} \cup FileType] \X Foreign,
           content'[2] = content[2],
           \A q \in Processes \ {p} : content'[1][q] = content[1][q],
           Own(r, content'[1][p]), Holding(r),
           template' = template \/ (template' = p /\ r.step = "replace" /\ r.exit = 0),
           temporaries' \subseteq temporaries \cup {p},
           p \in temporaries' => r.step \in {"write", "replace", "unlink"} /\ r.exit \in {-1, 9}
    PROVE  IInv'
<1>1. /\ processes'[p] = r
      /\ \A q \in Processes \ {p} : processes'[q] = processes[q]
      /\ processes' \in [Processes -> ProcessType]
  BY DEF IInv, Types
<1>2. ~Published(p) /\ \A q \in Processes : Published(q) => q # p /\ Published(q)'
  BY <1>1 DEF Published
<1>3. Types'
  BY <1>1 DEF IInv, Types
<1>4. \A q \in Processes : Own(processes[q], content[1][q])'
  BY <1>1 DEF IInv
<1>5. \A q \in Processes : Holding(processes[q])'
  <2> TAKE q \in Processes
  <2>1. Holding(processes'[q])
    BY <1>1 DEF IInv
  <2> QED
    BY <2>1, <1>1, <1>2 DEF Holding
<1>6. (template \in Processes => Published(template))'
  BY <1>1, <1>2 DEF IInv, Published
<1>7. \A q \in temporaries' :
         processes'[q].step \in {"write", "replace", "unlink"} /\ processes'[q].exit \in {-1, 9}
  BY <1>1 DEF IInv, Types
<1> QED
  BY <1>3, <1>4, <1>5, <1>6, <1>7 DEF IInv

\* A process that is about to act is typed, and the template's name is not its.
LEMMA Acting ==
    ASSUME IInv, NEW p \in Processes, NEW step, At(p, step)
    PROVE  /\ processes[p] \in ProcessType /\ processes[p].exit = -1 /\ processes[p].step = step
           /\ Own(processes[p], content[1][p]) /\ Holding(processes[p])
           /\ content \in [Processes -> {NoFile} \cup FileType] \X Foreign
           /\ p \in temporaries => processes[p].step \in {"write", "replace", "unlink"}
BY DEF IInv, Types, At

\* A process that goes on, or ends.
LEMMA Moves ==
    ASSUME NEW r \in ProcessType, NEW step \in Steps, NEW t, t = [r EXCEPT !.step = step]
    PROVE  /\ t \in ProcessType /\ t.step = step /\ t.exit = r.exit
           /\ t.request = r.request /\ t.samples = r.samples /\ t.held = r.held
           /\ t.image = r.image
BY DEF ProcessType

LEMMA Ends ==
    ASSUME NEW r \in ProcessType, NEW exit \in Exits, NEW t, t = [r EXCEPT !.exit = exit]
    PROVE  /\ t \in ProcessType /\ t.step = r.step /\ t.exit = exit
           /\ t.request = r.request /\ t.samples = r.samples /\ t.held = r.held
           /\ t.image = r.image
BY DEF ProcessType

\* A process that ends with an error, or is killed, whatever becomes of its
\* temporary file.
LEMMA ExitKeeps ==
    ASSUME IInv, NEW p \in Processes, processes[p].exit = -1, processes[p].step # "start",
           NEW exit \in {1, 9}, Exit(p, exit), UNCHANGED <<template, content>>,
           temporaries' = temporaries \ {p} \/ (temporaries' = temporaries /\ (exit = 9 \/ p \notin temporaries)),
           exit = 1 => processes[p].step # "load" \/ processes[p].held \notin Processes
    PROVE  IInv'
<1> DEFINE r == [processes[p] EXCEPT !.exit = exit]
<1>1. processes' = [processes EXCEPT ![p] = r]
  BY DEF Exit
<1>2. processes[p] \in ProcessType /\ Own(processes[p], content[1][p]) /\ Holding(processes[p])
  BY DEF IInv, Types
<1>3. /\ r \in ProcessType /\ r.step = processes[p].step /\ r.exit = exit
      /\ r.request = processes[p].request /\ r.samples = processes[p].samples
      /\ r.held = processes[p].held /\ r.image = processes[p].image
  BY <1>2, Ends DEF Exits
<1> HIDE DEF r
<1>4. Own(r, content'[1][p])
  BY <1>2, <1>3 DEF Own
<1>5. Holding(r)
  BY <1>2, <1>3 DEF Holding
<1>6. content' \in [Processes -> {NoFile} \cup FileType] \X Foreign
  BY DEF IInv, Types
<1>7. p \in temporaries' => r.step \in {"write", "replace", "unlink"} /\ r.exit \in {-1, 9}
  BY <1>3 DEF IInv
<1> QED
  BY <1>1, <1>3, <1>4, <1>5, <1>6, <1>7, Acts

\* A process that goes on without touching the template's name or a file.
LEMMA GoKeeps ==
    ASSUME IInv, NEW p \in Processes, processes[p].exit = -1,
           NEW t \in ProcessType, processes' = [processes EXCEPT ![p] = t],
           UNCHANGED <<template, temporaries, content>>, p \notin temporaries,
           Own(t, content[1][p]), Holding(t)
    PROVE  IInv'
<1>1. content' \in [Processes -> {NoFile} \cup FileType] \X Foreign
  BY DEF IInv, Types
<1> QED
  BY <1>1, Acts

(***************************************************************************)
(* The steps of an enrollment.                                             *)
(***************************************************************************)
LEMMA StartKeeps == ASSUME IInv, NEW p \in Processes, Start(p) PROVE IInv'
<1>1. PICK q \in Requests :
        processes' = [processes EXCEPT ![p].request = q,
            ![p].step = IF q.command = "enroll" THEN "extract" ELSE "open",
            ![p].exit = IF \A i \in DOMAIN q.background : Loads(q.background[i]) THEN -1 ELSE 1]
  BY DEF Start
<1> DEFINE step == IF q.command = "enroll" THEN "extract" ELSE "open"
           exit == IF \A i \in DOMAIN q.background : Loads(q.background[i]) THEN -1 ELSE 1
           t == [processes[p] EXCEPT !.request = q, !.step = step, !.exit = exit]
<1>2. At(p, "start") /\ UNCHANGED <<template, temporaries, content>>
  BY DEF Start
<1>3. step \in {"extract", "open"} /\ exit \in {-1, 1} /\ (step = "extract" <=> q.command = "enroll")
  OBVIOUS
<1>4. processes' = [processes EXCEPT ![p] = t]
  BY <1>1
<1> HIDE DEF step, exit
<1>5. /\ t \in ProcessType /\ t.request = q /\ t.step = step /\ t.exit = exit
      /\ t.held = processes[p].held /\ t.image = processes[p].image /\ t.samples = processes[p].samples
  BY <1>2, <1>3, Acting DEF ProcessType, Steps, Exits, Enrolling, Comparing
<1> HIDE DEF t
<1>6. q \in Requests /\ q.images \in Seq(ImageType) /\ Len(q.images) > 0
  BY TemplateStoreAssumption
<1>7. Own(t, content[1][p])
  BY <1>2, <1>3, <1>5, <1>6, Acting DEF Own, Enrolling, Comparing, Saving, FirstSamples
<1>8. Holding(t)
  BY <1>2, <1>5, Acting DEF Holding
<1>9. processes[p].exit = -1 /\ p \notin temporaries
  BY <1>2, Acting
<1> QED
  BY <1>2, <1>4, <1>5, <1>7, <1>8, <1>9, GoKeeps

\* One sample more.
LEMMA OneMore ==
    ASSUME NEW q \in Requests, NEW s \in Seq(SampleType), NEW n \in 1 .. Len(q.images),
           FirstSamples(q, n - 1, s), Extracts(q.images[n])
    PROVE  /\ Append(s, Sample(q.images[n])) \in Seq(SampleType)
           /\ FirstSamples(q, n, Append(s, Sample(q.images[n])))
<1>1. q.images \in Seq(ImageType)
  BY TemplateStoreAssumption
<1>2. q.images[n] \in ImageType
  BY <1>1
<1>3. Sample(q.images[n]) \in SampleType
  BY <1>2 DEF ImageType, Sample, SampleType
<1> DEFINE x == Sample(q.images[n])
<1> HIDE DEF x
<1>4. x \in SampleType
  BY <1>3 DEF x
<1>5. /\ Append(s, x) \in Seq(SampleType) /\ Len(s) = n - 1 /\ n \in Nat
      /\ Len(Append(s, x)) = n /\ Append(s, x)[n] = x
      /\ \A i \in 1 .. n - 1 : Append(s, x)[i] = s[i]
  BY <1>1, <1>4 DEF FirstSamples
<1>6. FirstSamples(q, n, Append(s, x))
  BY <1>5 DEF FirstSamples, x
<1> QED
  BY <1>5, <1>6 DEF x

LEMMA ExtractSampleKeeps == ASSUME IInv, NEW p \in Processes, ExtractSample(p) PROVE IInv'
<1>1. /\ At(p, "extract") /\ UNCHANGED <<template, temporaries, content>>
  BY DEF ExtractSample
<1>2. /\ processes[p] \in ProcessType /\ processes[p].exit = -1 /\ processes[p].step = "extract"
      /\ Own(processes[p], content[1][p]) /\ Holding(processes[p]) /\ p \notin temporaries
  BY <1>1, Acting
<1> DEFINE q == Request(p)
           n == processes[p].image
<1>3. /\ q \in Requests /\ q.command = "enroll" /\ n \in 1 .. Len(q.images)
      /\ FirstSamples(q, n - 1, processes[p].samples) /\ processes[p].samples \in Seq(SampleType)
      /\ q = processes[p].request
  BY <1>2 DEF Own, Enrolling, Request, ProcessType
<1>4. CASE Extracts(Image(p))
  <2> DEFINE s == Append(processes[p].samples, Sample(Image(p)))
             step == IF n = Len(q.images) THEN "check" ELSE "extract"
             t == [processes[p] EXCEPT !.samples = s, !.image = n + 1, !.step = step]
  <2>1. processes' = [processes EXCEPT ![p] = t]
    BY <1>2, <1>4 DEF ExtractSample
  <2>2. s \in Seq(SampleType) /\ FirstSamples(q, n, s)
    BY <1>3, <1>4, OneMore DEF Image, Request
  <2> HIDE DEF s
  <2>0. step \in Steps /\ n + 1 \in Nat
    BY <1>2 DEF Steps, Enrolling, ProcessType
  <2> HIDE DEF step
  <2>3. /\ t \in ProcessType /\ t.samples = s /\ t.image = n + 1 /\ t.step = step
        /\ t.request = q /\ t.exit = -1 /\ t.held = processes[p].held
    BY <1>2, <1>3, <2>0, <2>2 DEF ProcessType
  <2> HIDE DEF t
  <2>4. q.images \in Seq(ImageType) /\ n \in Nat
    BY <1>2, <1>3, TemplateStoreAssumption DEF ProcessType
  <2>5. Own(t, content[1][p])
    <3>1. CASE n = Len(q.images)
      BY <1>3, <2>2, <2>3, <2>4, <3>1 DEF Own, Enrolling, Comparing, Saving, step
    <3>2. CASE n # Len(q.images)
      <4>1. n + 1 \in 1 .. Len(q.images) /\ n + 1 - 1 = n
        BY <1>3, <2>4, <3>2
      <4> QED
        BY <1>3, <2>2, <2>3, <3>2, <4>1 DEF Own, Enrolling, Comparing, Saving, step
    <3> QED
      BY <3>1, <3>2
  <2>6. Holding(t)
    BY <1>2, <2>3 DEF Holding
  <2> QED
    BY <1>1, <1>2, <2>1, <2>3, <2>5, <2>6, GoKeeps
<1>5. CASE ~Extracts(Image(p))
  <2>1. Exit(p, 1)
    BY <1>5 DEF ExtractSample
  <2> QED
    BY <1>1, <1>2, <2>1, ExitKeeps
<1> QED
  BY <1>4, <1>5

LEMMA CheckPathKeeps == ASSUME IInv, NEW p \in Processes, CheckPath(p) PROVE IInv'
<1>1. At(p, "check") /\ UNCHANGED <<template, temporaries, content>>
  BY DEF CheckPath
<1>2. /\ processes[p] \in ProcessType /\ processes[p].exit = -1 /\ processes[p].step = "check"
      /\ Own(processes[p], content[1][p]) /\ Holding(processes[p]) /\ p \notin temporaries
  BY <1>1, Acting
<1>3. CASE Savable(p)
  <2> DEFINE t == [processes[p] EXCEPT !.step = "create"]
  <2>1. processes' = [processes EXCEPT ![p] = t]
    BY <1>3 DEF CheckPath, Go
  <2>2. /\ t \in ProcessType /\ t.step = "create" /\ t.exit = -1
        /\ t.request = processes[p].request /\ t.samples = processes[p].samples
        /\ t.held = processes[p].held
    BY <1>2, Moves DEF Steps, Enrolling, Saving
  <2> HIDE DEF t
  <2>3. Len(processes[p].samples) >= MinimumSamples
    BY <1>3 DEF Savable
  <2>4. Own(t, content[1][p])
    BY <1>2, <2>2, <2>3 DEF Own, Enrolling, Comparing, Saving, Enrolled, FirstSamples
  <2>5. Holding(t)
    BY <1>2, <2>2 DEF Holding
  <2> QED
    BY <1>1, <1>2, <2>1, <2>2, <2>4, <2>5, GoKeeps
<1>4. CASE ~Savable(p)
  BY <1>1, <1>2, <1>4, ExitKeeps DEF CheckPath
<1> QED
  BY <1>3, <1>4

\* What a file holds after it is written.
LEMMA Writes ==
    ASSUME IInv, NEW p \in Processes, NEW c \in FileType, Write(p, c)
    PROVE  /\ content' \in [Processes -> {NoFile} \cup FileType] \X Foreign
           /\ content'[2] = content[2]
           /\ \A q \in Processes \ {p} : content'[1][q] = content[1][q]
           /\ content'[1][p] = c
BY DEF IInv, Types, Write

LEMMA Kept ==
    ASSUME IInv, UNCHANGED content
    PROVE  /\ content' \in [Processes -> {NoFile} \cup FileType] \X Foreign
           /\ content'[2] = content[2]
           /\ \A q \in Processes : content'[1][q] = content[1][q]
BY DEF IInv, Types

\* A process that saves: it goes on to another step, writes its own file, and
\* may take the template's name.
LEMMA SaveKeeps ==
    ASSUME IInv, NEW p \in Processes, processes[p].exit = -1, processes[p].step \in Saving,
           NEW t \in ProcessType, processes' = [processes EXCEPT ![p] = t],
           t.request = processes[p].request, t.samples = processes[p].samples,
           t.held = processes[p].held, t.step \in Saving, t.exit = 0 => t.step = "replace",
           content' \in [Processes -> {NoFile} \cup FileType] \X Foreign,
           content'[2] = content[2],
           \A q \in Processes \ {p} : content'[1][q] = content[1][q],
           t.step = "replace" =>
              /\ content'[1][p].status = "whole" /\ content'[1][p].format
              /\ content'[1][p].version = 1 /\ content'[1][p].count = Len(t.samples)
              /\ content'[1][p].samples = t.samples,
           template' = template \/ (template' = p /\ t.step = "replace" /\ t.exit = 0),
           temporaries' \subseteq temporaries \cup {p},
           p \in temporaries' => t.step \in {"write", "replace", "unlink"} /\ t.exit \in {-1, 9}
    PROVE  IInv'
<1>1. Own(processes[p], content[1][p]) /\ Holding(processes[p])
  BY DEF IInv
<1>2. Own(t, content'[1][p])
  BY <1>1 DEF Own, Enrolling, Comparing, Saving
<1>3. Holding(t)
  BY <1>1 DEF Holding, Saving
<1> QED
  BY <1>2, <1>3, Acts

LEMMA CreateTemporaryKeeps == ASSUME IInv, NEW p \in Processes, CreateTemporary(p) PROVE IInv'
<1>1. At(p, "create") /\ UNCHANGED template
  BY DEF CreateTemporary
<1>2. /\ processes[p] \in ProcessType /\ processes[p].exit = -1 /\ processes[p].step = "create"
      /\ Own(processes[p], content[1][p]) /\ Holding(processes[p]) /\ p \notin temporaries
  BY <1>1, Acting
<1>3. CASE /\ Go(p, "write") /\ temporaries' = temporaries \cup {p}
           /\ Write(p, [status |-> "partial"])
  <2> DEFINE t == [processes[p] EXCEPT !.step = "write"]
  <2>1. processes' = [processes EXCEPT ![p] = t]
    BY <1>3 DEF Go
  <2>2. /\ t \in ProcessType /\ t.step = "write" /\ t.exit = -1
        /\ t.request = processes[p].request /\ t.samples = processes[p].samples
        /\ t.held = processes[p].held
    BY <1>2, Moves DEF Steps, Enrolling, Saving
  <2>3. [status |-> "partial"] \in FileType
    BY DEF FileType
  <2>4. /\ content' \in [Processes -> {NoFile} \cup FileType] \X Foreign
        /\ content'[2] = content[2]
        /\ \A q \in Processes \ {p} : content'[1][q] = content[1][q]
    BY <1>3, <2>3, Writes
  <2> HIDE DEF t
  <2>5. /\ processes[p].step \in Saving /\ t.step \in Saving /\ t.step # "replace"
        /\ t.exit # 0 /\ t.exit \in {-1, 9} /\ t.step \in {"write", "replace", "unlink"}
        /\ temporaries' \subseteq temporaries \cup {p}
    BY <1>2, <1>3, <2>2 DEF Saving
  <2> QED
    BY <1>1, <1>2, <2>1, <2>2, <2>4, <2>5, SaveKeeps
<1>4. CASE Exit(p, 1) /\ UNCHANGED <<temporaries, content>>
  BY <1>1, <1>2, <1>4, ExitKeeps
<1> QED
  BY <1>3, <1>4 DEF CreateTemporary

LEMMA WriteTemporaryKeeps == ASSUME IInv, NEW p \in Processes, WriteTemporary(p) PROVE IInv'
<1>1. At(p, "write") /\ UNCHANGED <<template, temporaries>>
  BY DEF WriteTemporary
<1>2. /\ processes[p] \in ProcessType /\ processes[p].exit = -1 /\ processes[p].step = "write"
  BY <1>1, Acting
<1> DEFINE c == [status |-> "whole", format |-> TRUE, version |-> 1,
                 count |-> Len(processes[p].samples), samples |-> processes[p].samples]
<1>3. CASE Go(p, "replace") /\ Write(p, c)
  <2> DEFINE t == [processes[p] EXCEPT !.step = "replace"]
  <2>1. processes' = [processes EXCEPT ![p] = t]
    BY <1>3 DEF Go
  <2>2. /\ t \in ProcessType /\ t.step = "replace" /\ t.exit = -1
        /\ t.request = processes[p].request /\ t.samples = processes[p].samples
        /\ t.held = processes[p].held
    BY <1>2, Moves DEF Steps, Enrolling, Saving
  <2>3. c \in FileType
    BY <1>2 DEF FileType, ProcessType
  <2>4. /\ content' \in [Processes -> {NoFile} \cup FileType] \X Foreign
        /\ content'[2] = content[2]
        /\ \A q \in Processes \ {p} : content'[1][q] = content[1][q]
        /\ content'[1][p] = c
    BY <1>3, <2>3, Writes
  <2> HIDE DEF t
  <2>5. /\ processes[p].step \in Saving /\ t.step \in Saving
        /\ t.exit # 0 /\ t.exit \in {-1, 9} /\ t.step \in {"write", "replace", "unlink"}
        /\ temporaries' \subseteq temporaries \cup {p}
    BY <1>1, <1>2, <2>2 DEF Saving
  <2>6. /\ content'[1][p].status = "whole" /\ content'[1][p].format
        /\ content'[1][p].version = 1 /\ content'[1][p].count = Len(t.samples)
        /\ content'[1][p].samples = t.samples
    BY <2>2, <2>4
  <2> QED
    BY <1>1, <1>2, <2>1, <2>2, <2>4, <2>5, <2>6, SaveKeeps
<1>4. CASE Go(p, "unlink") /\ UNCHANGED content
  <2> DEFINE t == [processes[p] EXCEPT !.step = "unlink"]
  <2>1. processes' = [processes EXCEPT ![p] = t]
    BY <1>4 DEF Go
  <2>2. /\ t \in ProcessType /\ t.step = "unlink" /\ t.exit = -1
        /\ t.request = processes[p].request /\ t.samples = processes[p].samples
        /\ t.held = processes[p].held
    BY <1>2, Moves DEF Steps, Enrolling, Saving
  <2> HIDE DEF t
  <2>3. /\ content' \in [Processes -> {NoFile} \cup FileType] \X Foreign
        /\ content'[2] = content[2]
        /\ \A q \in Processes : content'[1][q] = content[1][q]
    BY <1>4, Kept
  <2>4. /\ processes[p].step \in Saving /\ t.step \in Saving
        /\ t.step # "replace" /\ t.step \in {"write", "replace", "unlink"} /\ t.exit # 0 /\ t.exit \in {-1, 9}
        /\ temporaries' \subseteq temporaries \cup {p}
    BY <1>1, <1>2, <1>4, <2>2 DEF Saving
  <2> QED
    BY <1>1, <1>2, <1>4, <2>1, <2>2, <2>3, <2>4, SaveKeeps
<1> QED
  BY <1>3, <1>4 DEF WriteTemporary

LEMMA ReplaceKeeps == ASSUME IInv, NEW p \in Processes, Replace(p) PROVE IInv'
<1>1. At(p, "replace") /\ UNCHANGED content
  BY DEF Replace
<1>2. /\ processes[p] \in ProcessType /\ processes[p].exit = -1 /\ processes[p].step = "replace"
      /\ Own(processes[p], content[1][p])
  BY <1>1, Acting
<1>3. CASE template' = p /\ temporaries' = temporaries \ {p} /\ Exit(p, 0)
  <2> DEFINE t == [processes[p] EXCEPT !.exit = 0]
  <2>1. processes' = [processes EXCEPT ![p] = t]
    BY <1>3 DEF Exit
  <2>2. /\ t \in ProcessType /\ t.step = "replace" /\ t.exit = 0
        /\ t.request = processes[p].request /\ t.samples = processes[p].samples
        /\ t.held = processes[p].held
    BY <1>2, Ends DEF Exits
  <2> HIDE DEF t
  <2>3. /\ content' \in [Processes -> {NoFile} \cup FileType] \X Foreign
        /\ content'[2] = content[2]
        /\ \A q \in Processes : content'[1][q] = content[1][q]
    BY <1>1, Kept
  <2>4. /\ processes[p].step \in Saving /\ t.step \in Saving
        /\ t.step = "replace" /\ p \notin temporaries'
        /\ temporaries' \subseteq temporaries \cup {p}
    BY <1>1, <1>2, <1>3, <2>2 DEF Saving
  <2>5. /\ content'[1][p].status = "whole" /\ content'[1][p].format
        /\ content'[1][p].version = 1 /\ content'[1][p].count = Len(t.samples)
        /\ content'[1][p].samples = t.samples
    BY <1>2, <2>2, <2>3 DEF Own
  <2> QED
    BY <1>2, <1>3, <2>1, <2>2, <2>3, <2>4, <2>5, SaveKeeps
<1>4. CASE Go(p, "unlink") /\ UNCHANGED <<template, temporaries>>
  <2> DEFINE t == [processes[p] EXCEPT !.step = "unlink"]
  <2>1. processes' = [processes EXCEPT ![p] = t]
    BY <1>4 DEF Go
  <2>2. /\ t \in ProcessType /\ t.step = "unlink" /\ t.exit = -1
        /\ t.request = processes[p].request /\ t.samples = processes[p].samples
        /\ t.held = processes[p].held
    BY <1>2, Moves DEF Steps, Enrolling, Saving
  <2> HIDE DEF t
  <2>3. /\ content' \in [Processes -> {NoFile} \cup FileType] \X Foreign
        /\ content'[2] = content[2]
        /\ \A q \in Processes : content'[1][q] = content[1][q]
    BY <1>1, Kept
  <2>4. /\ processes[p].step \in Saving /\ t.step \in Saving
        /\ t.step # "replace" /\ t.step \in {"write", "replace", "unlink"} /\ t.exit # 0 /\ t.exit \in {-1, 9}
        /\ temporaries' \subseteq temporaries \cup {p}
    BY <1>1, <1>2, <1>4, <2>2 DEF Saving
  <2> QED
    BY <1>1, <1>2, <1>4, <2>1, <2>2, <2>3, <2>4, SaveKeeps
<1> QED
  BY <1>3, <1>4 DEF Replace

LEMMA UnlinkKeeps == ASSUME IInv, NEW p \in Processes, Unlink(p) PROVE IInv'
<1>1. processes[p].exit = -1 /\ processes[p].step = "unlink"
  BY Acting DEF Unlink
<1> QED
  BY <1>1, ExitKeeps DEF Unlink

(***************************************************************************)
(* The steps of a verification or an evaluation.                           *)
(***************************************************************************)
LEMMA OpenTemplateKeeps == ASSUME IInv, NEW p \in Processes, OpenTemplate(p) PROVE IInv'
<1>1. At(p, "open") /\ UNCHANGED <<template, temporaries, content>>
  BY DEF OpenTemplate
<1>2. /\ processes[p] \in ProcessType /\ processes[p].exit = -1 /\ processes[p].step = "open"
      /\ Own(processes[p], content[1][p]) /\ Holding(processes[p]) /\ p \notin temporaries
  BY <1>1, Acting
<1>3. CASE template = "none"
  <2>1. Exit(p, 1)
    BY <1>3 DEF OpenTemplate
  <2> QED
    BY <1>1, <1>2, <2>1, ExitKeeps
<1>4. CASE template # "none"
  <2> DEFINE t == [processes[p] EXCEPT !.step = "load", !.held = template]
  <2>1. processes' = [processes EXCEPT ![p] = t]
    BY <1>4 DEF OpenTemplate
  <2>2. template \in {"none", "foreign"} \cup Processes /\ (template \in Processes => Published(template))
    BY DEF IInv, Types
  <2>3. /\ t \in ProcessType /\ t.step = "load" /\ t.exit = -1 /\ t.held = template
        /\ t.request = processes[p].request
    BY <1>2, <2>2 DEF ProcessType, Steps, Comparing
  <2> HIDE DEF t
  <2>4. Own(t, content[1][p])
    BY <1>2, <1>4, <2>3 DEF Own, Enrolling, Comparing, Saving
  <2>5. Holding(t)
    BY <2>2, <2>3 DEF Holding
  <2> QED
    BY <1>1, <1>2, <2>1, <2>3, <2>4, <2>5, GoKeeps
<1> QED
  BY <1>3, <1>4

\* The file of a process that published it is read as it was written.
LEMMA PublishedIsRead ==
    ASSUME IInv, NEW w \in Processes, Published(w)
    PROVE  /\ File(w).count = Len(processes[w].samples)
           /\ File(w).samples = processes[w].samples
           /\ Supported(File(w))
           /\ SubSeq(File(w).samples, 1, File(w).count) = processes[w].samples
<1>1. /\ w # "foreign" /\ File(w) = content[1][w]
  BY TemplateStoreAssumption DEF File
<1>2. /\ processes[w] \in ProcessType /\ processes[w].step = "replace"
      /\ Own(processes[w], content[1][w])
  BY DEF IInv, Types, Published
<1> DEFINE s == processes[w].samples
           r == processes[w].request
<1>3. s \in Seq(SampleType) /\ Enrolled(r, s)
  BY <1>2 DEF Own, Saving, ProcessType
<1>4. /\ File(w).status = "whole" /\ File(w).format /\ File(w).version = 1
      /\ File(w).count = Len(s) /\ File(w).samples = s
  BY <1>1, <1>2 DEF Own
<1>5. \A i \in 1 .. Len(s) : s[i].points = s[i].descriptors
  <2>1. \A i \in 1 .. Len(s) : s[i] = Sample(r.images[i])
    BY <1>3 DEF Enrolled, FirstSamples
  <2>2. \A image : Sample(image).points = Sample(image).descriptors
    BY DEF Sample
  <2> QED
    BY <2>1, <2>2
<1>6. Supported(File(w))
  BY <1>3, <1>4, <1>5 DEF Supported
<1>7. SubSeq(s, 1, Len(s)) = s
  BY <1>3
<1> QED
  BY <1>4, <1>6, <1>7

LEMMA LoadTemplateKeeps == ASSUME IInv, NEW p \in Processes, LoadTemplate(p) PROVE IInv'
<1>1. At(p, "load") /\ UNCHANGED <<template, temporaries, content>>
  BY DEF LoadTemplate
<1>2. /\ processes[p] \in ProcessType /\ processes[p].exit = -1 /\ processes[p].step = "load"
      /\ Own(processes[p], content[1][p]) /\ Holding(processes[p]) /\ p \notin temporaries
  BY <1>1, Acting
<1> DEFINE h == processes[p].held
           c == File(h)
<1>3. h \in Processes => Supported(c) /\ SubSeq(c.samples, 1, c.count) = processes[h].samples
  BY <1>2, PublishedIsRead DEF Holding
<1>4. CASE Supported(c)
  <2> DEFINE s == SubSeq(c.samples, 1, c.count)
             t == [processes[p] EXCEPT !.step = "compare", !.samples = s]
  <2>1. processes' = [processes EXCEPT ![p] = t]
    BY <1>4 DEF LoadTemplate
  <2>2. c \in {NoFile} \cup FileType
    <3>1. h \in {"foreign"} \cup Processes
      BY <1>2 DEF Own, ProcessType
    <3>2. content[1][h] \in {NoFile} \cup FileType \/ h = "foreign"
      BY <3>1 DEF IInv, Types
    <3>3. content[2] \in FileType
      BY TemplateStoreAssumption DEF IInv, Types
    <3> QED
      BY <3>2, <3>3 DEF File
  <2>3. c.samples \in Seq(SampleType) /\ c.count \in Nat /\ c.count <= Len(c.samples)
    BY <1>4, <2>2 DEF Supported, NoFile, FileType
  <2>4. s \in Seq(SampleType)
    BY <2>3
  <2> HIDE DEF s
  <2>5. /\ t \in ProcessType /\ t.step = "compare" /\ t.exit = -1 /\ t.held = h
        /\ t.request = processes[p].request /\ t.samples = s
    BY <1>2, <2>4 DEF ProcessType, Steps, Comparing
  <2> HIDE DEF t
  <2>6. Own(t, content[1][p])
    BY <1>2, <2>5 DEF Own, Enrolling, Comparing, Saving
  <2>7. Holding(t)
    BY <1>2, <1>3, <2>5 DEF Holding, s
  <2> QED
    BY <1>1, <1>2, <2>1, <2>5, <2>6, <2>7, GoKeeps
<1>5. CASE ~Supported(c)
  <2>1. Exit(p, 1)
    BY <1>5 DEF LoadTemplate
  <2> QED
    BY <1>1, <1>2, <1>3, <1>5, <2>1, ExitKeeps
<1> QED
  BY <1>4, <1>5

LEMMA CompareKeeps == ASSUME IInv, NEW p \in Processes, Compare(p) PROVE IInv'
<1>1. At(p, "compare") /\ UNCHANGED <<template, temporaries, content>>
  BY DEF Compare
<1>2. /\ processes[p] \in ProcessType /\ processes[p].exit = -1 /\ processes[p].step = "compare"
      /\ Own(processes[p], content[1][p]) /\ Holding(processes[p]) /\ p \notin temporaries
  BY <1>1, Acting
<1>3. CASE ~Extracts(Image(p)) \/ processes[p].samples = <<>>
  <2>1. Exit(p, 1)
    BY <1>3 DEF Compare
  <2> QED
    BY <1>1, <1>2, <2>1, ExitKeeps
<1>4. CASE ~(~Extracts(Image(p)) \/ processes[p].samples = <<>>)
  <2> DEFINE n == Len(processes[p].samples)
             Scores(fits) == [i \in DOMAIN fits |-> PythonScore(fits[i])]
             last == processes[p].image = Len(Request(p).images)
             image == IF last THEN processes[p].image ELSE processes[p].image + 1
             Exit0(s) == IF ~last THEN -1
                         ELSE IF Request(p).command = "evaluate" \/ PythonMatched(s) THEN 0 ELSE 3
  <2>1. PICK fits \in [DOMAIN processes[p].samples -> Fits] :
           processes' = [processes EXCEPT ![p].scores = Scores(fits), ![p].image = image,
                                          ![p].exit = Exit0(Scores(fits))]
    BY <1>4, Zenon DEF Compare
  <2> DEFINE s == Scores(fits)
             exit == Exit0(s)
             t == [processes[p] EXCEPT !.scores = s, !.image = image, !.exit = exit]
  <2>2. processes' = [processes EXCEPT ![p] = t]
    BY <2>1
  <2>3. DOMAIN processes[p].samples = 1 .. n /\ n \in Nat
    BY <1>2 DEF ProcessType
  <2>4. s \in [1 .. n -> {PythonScore(f) : f \in Fits}]
    BY <2>1, <2>3
  <2>5. s \in Seq({PythonScore(f) : f \in Fits})
    BY <2>3, <2>4
  <2>6. image \in Nat /\ exit \in {-1, 0, 3}
    BY <1>2 DEF ProcessType
  <2> HIDE DEF s, image, exit
  <2>7. /\ t \in ProcessType /\ t.step = "compare" /\ t.exit = exit /\ t.held = processes[p].held
        /\ t.request = processes[p].request /\ t.samples = processes[p].samples
    BY <1>2, <2>5, <2>6 DEF ProcessType, Exits
  <2> HIDE DEF t
  <2>8. Own(t, content[1][p])
    BY <1>2, <2>7 DEF Own, Enrolling, Comparing, Saving
  <2>9. Holding(t)
    BY <1>2, <2>7 DEF Holding
  <2> QED
    BY <1>1, <1>2, <2>2, <2>7, <2>8, <2>9, GoKeeps
<1> QED
  BY <1>3, <1>4

LEMMA KillKeeps == ASSUME IInv, NEW p \in Processes, Kill(p) PROVE IInv'
<1>1. processes[p].exit = -1 /\ processes[p].step # "start" /\ Exit(p, 9)
      /\ UNCHANGED <<template, temporaries, content>>
  BY DEF Kill
<1> QED
  BY <1>1, ExitKeeps

(***************************************************************************)
(* The theorems.                                                           *)
(***************************************************************************)
\* No step of any process breaks the invariant.
LEMMA Steps0 == IInv /\ [Next]_vars => IInv'
<1> SUFFICES ASSUME IInv, [Next]_vars PROVE IInv'
  OBVIOUS
<1>1. CASE UNCHANGED vars
  BY <1>1 DEF vars, IInv, Types, Own, Holding, Published
<1>2. CASE Next
  <2>1. PICK p \in Processes :
           \/ Start(p) \/ ExtractSample(p) \/ CheckPath(p)
           \/ CreateTemporary(p) \/ WriteTemporary(p) \/ Replace(p) \/ Unlink(p)
           \/ OpenTemplate(p) \/ LoadTemplate(p) \/ Compare(p)
           \/ Kill(p)
    BY <1>2 DEF Next
  <2> QED
    BY <2>1, StartKeeps, ExtractSampleKeeps, CheckPathKeeps, CreateTemporaryKeeps,
       WriteTemporaryKeeps, ReplaceKeeps, UnlinkKeeps, OpenTemplateKeeps,
       LoadTemplateKeeps, CompareKeeps, KillKeeps
<1> QED
  BY <1>1, <1>2

\* Only a process that ended with success has ever given the template its
\* name, and its file is what it made of all of its images.
THEOREM Invariance == Spec => []IInv
BY Start0, Steps0, PTL DEF Spec

\* Whatever a reader holds of these processes is a whole enrollment, and it is
\* never refused.
THEOREM WholeEnrollments == Spec => []ReadersSeeOneEnrollment
<1>1. ASSUME IInv PROVE ReadersSeeOneEnrollment
  <2> SUFFICES ASSUME NEW p \in Processes, processes[p].held \in Processes
               PROVE  LET writer == processes[p].held
                      IN  /\ processes[p].step = "load" => processes[p].exit # 1
                          /\ processes[p].step = "compare" =>
                                /\ Len(processes[p].samples) = Len(Request(writer).images)
                                /\ Len(processes[p].samples) >= MinimumSamples
                                /\ \A i \in DOMAIN processes[p].samples :
                                      /\ Extracts(Request(writer).images[i])
                                      /\ processes[p].samples[i] = Sample(Request(writer).images[i])
    BY DEF ReadersSeeOneEnrollment
  <2> DEFINE w == processes[p].held
  <2>1. /\ Published(w) /\ (processes[p].step = "load" => processes[p].exit # 1)
        /\ (processes[p].step = "compare" => processes[p].samples = processes[w].samples)
    BY <1>1 DEF IInv, Holding
  <2>2. Enrolled(processes[w].request, processes[w].samples) /\ processes[w].samples \in Seq(SampleType)
    BY <1>1, <2>1 DEF IInv, Types, ProcessType, Published, Own, Saving
  <2>3. DOMAIN processes[w].samples = 1 .. Len(processes[w].samples)
    BY <2>2
  <2> QED
    BY <2>1, <2>2, <2>3 DEF Enrolled, FirstSamples, Request
<1> QED
  BY <1>1, Invariance, PTL

\* Only a killed process leaves a temporary file behind.
THEOREM NoLitter == Spec => []OnlyTheKilledLitter
<1>1. IInv => OnlyTheKilledLitter
  BY DEF IInv, OnlyTheKilledLitter
<1> QED
  BY <1>1, Invariance, PTL

\* A process that has not begun to save when the template has a name.
Late(p) == template # "none" /\ processes[p].step \notin Saving

LEMMA LateStays ==
    ASSUME NEW p \in Processes, IInv, Late(p), [Next]_vars
    PROVE  Late(p)'
<1>1. CASE UNCHANGED vars
  BY <1>1 DEF vars, Late
<1>2. CASE Next
  <2>1. PICK q \in Processes :
           \/ Start(q) \/ ExtractSample(q) \/ CheckPath(q)
           \/ CreateTemporary(q) \/ WriteTemporary(q) \/ Replace(q) \/ Unlink(q)
           \/ OpenTemplate(q) \/ LoadTemplate(q) \/ Compare(q)
           \/ Kill(q)
    BY <1>2 DEF Next
  <2>2. template' = template \/ template' = q
    BY <2>1 DEF Start, ExtractSample, CheckPath, CreateTemporary, WriteTemporary, Replace,
                Unlink, OpenTemplate, LoadTemplate, Compare, Kill
  <2>3. template' # "none"
    BY <2>2, TemplateStoreAssumption DEF Late
  <2>4. processes \in [Processes -> ProcessType]
    BY DEF IInv, Types
  <2>5. CASE q # p
    <3>1. \A t : processes' = [processes EXCEPT ![q] = t] => processes'[p] = processes[p]
      BY <2>5
    <3>2. processes'[p] = processes[p]
      BY <2>1, <2>4, <2>5 DEF Start, ExtractSample, CheckPath, CreateTemporary, WriteTemporary,
            Replace, Unlink, OpenTemplate, LoadTemplate, Compare, Kill, Go, Exit
    <3> QED
      BY <2>3, <3>2 DEF Late
  <2>6. CASE q = p
    <3>1. processes[p].step \notin Saving /\ template # "none"
      BY DEF Late
    <3>2. \A step \in Saving : ~At(p, step)
      BY <3>1 DEF At
    <3>3. \/ Start(p) \/ ExtractSample(p) \/ CheckPath(p)
          \/ OpenTemplate(p) \/ LoadTemplate(p) \/ Compare(p) \/ Kill(p)
      BY <2>1, <2>6, <3>2 DEF CreateTemporary, WriteTemporary, Replace, Unlink, Saving
    <3>4. processes'[p].step \notin Saving
      <4>1. CASE Start(p)
        BY <2>4, <4>1 DEF Start, ProcessType, Saving
      <4>2. CASE ExtractSample(p)
        <5>1. CASE Extracts(Image(p))
          <6>1. PICK s, i, step :
                   /\ processes' = [processes EXCEPT ![p].samples = s, ![p].image = i, ![p].step = step]
                   /\ step \in {"check", processes[p].step}
            BY <4>2, <5>1, Zenon DEF ExtractSample
          <6> QED
            BY <2>4, <3>1, <6>1 DEF ProcessType, Saving
        <5>2. CASE ~Extracts(Image(p))
          BY <2>4, <3>1, <4>2, <5>2 DEF ExtractSample, ProcessType, Exit
        <5> QED
          BY <5>1, <5>2
      <4>3. CASE CheckPath(p)
        BY <2>4, <3>1, <4>3 DEF CheckPath, Savable, ProcessType, Exit
      <4>4. CASE OpenTemplate(p)
        <5>1. processes' = [processes EXCEPT ![p].step = "load", ![p].held = template]
          BY <3>1, <4>4 DEF OpenTemplate
        <5> QED
          BY <2>4, <5>1 DEF ProcessType, Saving
      <4>5. CASE LoadTemplate(p)
        <5>1. \/ \E s : processes' = [processes EXCEPT ![p].step = "compare", ![p].samples = s]
              \/ Exit(p, 1)
          BY <4>5 DEF LoadTemplate
        <5>2. ASSUME NEW s, processes' = [processes EXCEPT ![p].step = "compare", ![p].samples = s]
              PROVE  processes'[p].step \notin Saving
          <6>1. processes'[p] = [processes[p] EXCEPT !.step = "compare", !.samples = s]
            BY <2>4, <5>2
          <6> QED
            BY <2>4, <6>1 DEF ProcessType, Saving
        <5>3. Exit(p, 1) => processes'[p].step \notin Saving
          BY <2>4, <3>1 DEF ProcessType, Exit
        <5> QED
          BY <5>1, <5>2, <5>3
      <4>6. CASE Compare(p)
        <5>1. CASE ~Extracts(Image(p)) \/ processes[p].samples = <<>>
          BY <2>4, <3>1, <4>6, <5>1 DEF Compare, ProcessType, Exit
        <5>2. CASE ~(~Extracts(Image(p)) \/ processes[p].samples = <<>>)
          <6>1. PICK fits \in [DOMAIN processes[p].samples -> Fits] :
                   LET scores == [i \in DOMAIN fits |-> PythonScore(fits[i])]
                       last == processes[p].image = Len(Request(p).images)
                   IN  processes' = [processes EXCEPT
                           ![p].scores = scores,
                           ![p].image = IF last THEN @ ELSE @ + 1,
                           ![p].exit =
                              IF ~last THEN -1
                              ELSE IF Request(p).command = "evaluate" \/ PythonMatched(scores) THEN 0
                              ELSE 3]
            BY <4>6, <5>2, Zenon DEF Compare
          <6>2. \A s, i, x : processes' = [processes EXCEPT ![p].scores = s, ![p].image = i, ![p].exit = x]
                               => processes'[p].step = processes[p].step
            BY <2>4 DEF ProcessType
          <6> QED
            BY <3>1, <6>1, <6>2, Zenon
        <5> QED
          BY <5>1, <5>2
      <4>7. CASE Kill(p)
        BY <2>4, <3>1, <4>7 DEF Kill, ProcessType, Exit
      <4> QED
        BY <3>3, <4>1, <4>2, <4>3, <4>4, <4>5, <4>6, <4>7
    <3> QED
      BY <2>3, <3>4 DEF Late
  <2> QED
    BY <2>5, <2>6
<1> QED
  BY <1>1, <1>2

\* An enrollment that begins when there is a template fails and never takes
\* its name.
THEOREM FirstComesFirst == Spec => LateEnrollmentFails
<1> SUFFICES ASSUME NEW p \in Processes
             PROVE  Spec => [](template # "none" /\ processes[p].step \in {"start", "extract"}
                        => [](template # p /\ ~(processes[p].exit = 0 /\ Request(p).command = "enroll")))
  BY DEF LateEnrollmentFails
<1>1. template # "none" /\ processes[p].step \in {"start", "extract"} => Late(p)
  BY DEF Late, Saving
<1>2. IInv /\ Late(p) => template # p /\ ~(processes[p].exit = 0 /\ Request(p).command = "enroll")
  <2> SUFFICES ASSUME IInv, Late(p)
               PROVE  template # p /\ ~(processes[p].exit = 0 /\ Request(p).command = "enroll")
    OBVIOUS
  <2>1. template # p
    BY DEF IInv, Published, Late, Saving
  <2>2. Own(processes[p], content[1][p]) /\ processes[p].step \in Steps
    BY DEF IInv, Types, ProcessType
  <2> QED
    BY <2>1, <2>2 DEF Own, Late, Steps, Enrolling, Comparing, Saving, Request
<1>3. IInv /\ Late(p) /\ [Next]_vars => Late(p)'
  BY LateStays
<1> QED
  BY <1>1, <1>2, <1>3, Invariance, PTL DEF Spec

(***************************************************************************)
(* The exit status of a verification.                                      *)
(***************************************************************************)
ScoreType ==
    [matches : Nat, inliers : Nat, scale : Nat, coverage : Nat, accepted : BOOLEAN]

LEMMA ScoresTyped == ASSUME NEW f \in Fits PROVE PythonScore(f) \in ScoreType
<1>1. f \in FitType
  BY TemplateStoreAssumption
<1>2. PythonAccepted(f) \in BOOLEAN
  BY DEF PythonAccepted
<1> QED
  BY <1>1, <1>2 DEF PythonScore, NoScore, ScoreType, FitType

\* The least-number principle.
LEMMA Least ==
    ASSUME NEW T, T \subseteq Nat, T # {}
    PROVE  \E n \in T : \A m \in T : n <= m
<1> DEFINE R == OpToRel(<, Nat)
<1>1. \A m, n \in Nat : m < n => <<m, n>> \in R
  BY Zenon DEF OpToRel
<1>2. IsWellFoundedOn(R, Nat)
  BY NatLessThanWellFounded
<1> HIDE DEF R
<1>3. PICK n \in T : \A m \in T : ~(<<m, n>> \in R)
  BY <1>2, WFMin
<1>4. ASSUME NEW m \in T PROVE n <= m
  <2>1. m \in Nat /\ n \in Nat /\ ~(<<m, n>> \in R)
    BY <1>3
  <2>2. ~(m < n)
    BY <1>1, <2>1
  <2> QED
    BY <2>1, <2>2
<1> QED
  BY <1>4

LEMMA Greatest ==
    ASSUME NEW T, T \subseteq Nat, T # {}, NEW b \in Nat, \A m \in T : m <= b
    PROVE  \E n \in T : \A m \in T : m <= n
<1> DEFINE U == {b - m : m \in T}
<1>1. U \subseteq Nat /\ U # {}
  <2>1. \A m \in T : b - m \in Nat
    OBVIOUS
  <2> QED
    BY <2>1
<1>2. PICK u \in U : \A v \in U : u <= v
  BY <1>1, Least
<1>3. PICK n \in T : u = b - n
  OBVIOUS
<1>4. ASSUME NEW m \in T PROVE m <= n
  <2>1. b - m \in U
    OBVIOUS
  <2>2. b - n <= b - m
    BY <1>2, <1>3, <2>1
  <2> QED
    BY <2>2
<1> QED
  BY <1>4

\* The numbers of a sequence have a bound: the first n of them have one, for the
\* least n that had none would be the one after an n that has.
LEMMA Bounded ==
    ASSUME NEW k \in Nat, NEW v \in [1 .. k -> Nat]
    PROVE  \E b \in Nat : \A i \in 1 .. k : v[i] <= b
<1> DEFINE T == {n \in 0 .. k : ~ \E b \in Nat : \A i \in 1 .. n : v[i] <= b}
<1>1. CASE T = {}
  <2>1. k \in 0 .. k
    OBVIOUS
  <2> QED
    BY <1>1, <2>1
<1>2. CASE T # {}
  <2>1. T \subseteq Nat
    OBVIOUS
  <2>2. PICK n \in T : \A m \in T : n <= m
    BY <1>2, <2>1, Least
  <2>3. n \in 1 .. k
    OBVIOUS
  <2>4. n - 1 \notin T
    <3>1. ~(n <= n - 1)
      BY <2>3
    <3> QED
      BY <2>2, <3>1
  <2>5. PICK b \in Nat : \A i \in 1 .. n - 1 : v[i] <= b
    BY <2>3, <2>4
  <2> DEFINE c == b + v[n]
  <2>6. c \in Nat /\ \A i \in 1 .. n : v[i] <= c
    BY <2>3, <2>5
  <2> QED
    BY <2>6
<1> QED
  BY <1>1, <1>2

\* Of the scores of a verification one is the best: most inliers, then fewest
\* matches for them, then most coverage, then the first.
LEMMA OneIsBest ==
    ASSUME NEW s \in Seq(ScoreType), s # <<>>
    PROVE  \E i \in DOMAIN s : IsBest(s, i)
<1> DEFINE k == Len(s)
<1>1. /\ k \in Nat \ {0} /\ DOMAIN s = 1 .. k
      /\ \A i \in 1 .. k : /\ s[i].inliers \in Nat /\ s[i].matches \in Nat
                           /\ s[i].coverage \in Nat
  <2>1. k \in Nat /\ DOMAIN s = 1 .. k /\ s \in [1 .. k -> ScoreType] /\ k # 0
    BY EmptySeq
  <2> HIDE DEF k
  <2> QED
    BY <2>1 DEF ScoreType
<1> DEFINE inliers == [i \in 1 .. k |-> s[i].inliers]
           coverage == [i \in 1 .. k |-> s[i].coverage]
<1>2. PICK b \in Nat : \A i \in 1 .. k : inliers[i] <= b
  BY <1>1, Bounded
<1>3. PICK c \in Nat : \A i \in 1 .. k : coverage[i] <= c
  BY <1>1, Bounded
<1> DEFINE I == {s[i].inliers : i \in 1 .. k}
<1>4. PICK m \in I : \A n \in I : n <= m
  <2>1. I \subseteq Nat /\ I # {}
    BY <1>1
  <2>2. \A n \in I : n <= b
    BY <1>2
  <2> QED
    BY <2>1, <2>2, Greatest
<1> DEFINE A == {i \in 1 .. k : s[i].inliers = m}
           cost == [i \in 1 .. k |-> m * s[i].matches]
           M == {cost[i] : i \in A}
<1>5. m \in Nat /\ A # {} /\ \A i \in 1 .. k : s[i].inliers <= m
  BY <1>1, <1>4
<1>6. \A i \in 1 .. k : cost[i] \in Nat
  BY <1>1, <1>5
<1> HIDE DEF cost
<1>7. PICK w \in M : \A n \in M : w <= n
  <2>1. M \subseteq Nat /\ M # {}
    BY <1>5, <1>6
  <2> QED
    BY <2>1, Least
<1> DEFINE B == {i \in A : cost[i] = w}
           C == {s[i].coverage : i \in B}
<1>8. w \in Nat /\ B # {} /\ \A i \in A : w <= cost[i]
  BY <1>6, <1>7
<1>9. PICK g \in C : \A n \in C : n <= g
  <2>1. C \subseteq Nat /\ C # {}
    BY <1>1, <1>8
  <2>2. \A n \in C : n <= c
    BY <1>3
  <2> QED
    BY <2>1, <2>2, Greatest
<1> DEFINE D == {i \in B : s[i].coverage = g}
<1>10. g \in Nat /\ D # {} /\ \A i \in B : s[i].coverage <= g
  BY <1>1, <1>9
<1>11. PICK i \in D : \A j \in D : i <= j
  <2>1. D \subseteq Nat
    OBVIOUS
  <2> HIDE DEF D
  <2> QED
    BY <1>10, <2>1, Least
<1>12. /\ i \in 1 .. k /\ s[i].inliers = m /\ cost[i] = w /\ s[i].coverage = g
  OBVIOUS
<1>13. \A j \in 1 .. k :
          \/ s[j].inliers < m
          \/ s[j].inliers = m /\ w < cost[j]
          \/ s[j].inliers = m /\ w = cost[j] /\ s[j].coverage < g
          \/ s[j].inliers = m /\ w = cost[j] /\ s[j].coverage = g /\ i <= j
  <2> TAKE j \in 1 .. k
  <2>1. s[j].inliers \in Nat /\ s[j].coverage \in Nat /\ cost[j] \in Nat /\ s[j].inliers <= m
    BY <1>1, <1>5, <1>6
  <2>2. CASE j \notin A
    BY <2>1, <2>2, <1>5
  <2>3. CASE j \in A \ B
    BY <2>1, <2>3, <1>8
  <2>4. CASE j \in B \ D
    BY <2>1, <2>4, <1>10
  <2>5. CASE j \in D
    BY <2>5, <1>11
  <2> QED
    BY <2>2, <2>3, <2>4, <2>5
<1> HIDE DEF I, A, M, B, C, D
<1>14. ASSUME NEW j \in 1 .. k
       PROVE  ~RanksAbove(s[j], s[i]) /\ (j < i => RanksAbove(s[i], s[j]))
  <2>1. CASE s[j].inliers < m
    BY <1>1, <1>5, <1>12, <2>1 DEF RanksAbove
  <2>2. CASE s[j].inliers = m
    <3>1. cost[j] = s[i].inliers * s[j].matches /\ cost[i] = s[j].inliers * s[i].matches
      BY <1>12, <2>2 DEF cost
    <3>2. cost[j] \in Nat /\ cost[i] \in Nat /\ cost[i] = w /\ w \in Nat
          /\ s[j].coverage \in Nat /\ g \in Nat
      BY <1>1, <1>6, <1>8, <1>10, <1>12
    <3> QED
      BY <1>5, <1>12, <1>13, <2>2, <3>1, <3>2 DEF RanksAbove
  <2> QED
    BY <1>13, <2>1, <2>2
<1> QED
  BY <1>1, <1>12, <1>14 DEF IsBest

\* A verdict says what the scores say: the best one counts only if it was
\* accepted.
LEMMA VerdictSpeaks ==
    ASSUME NEW s \in Seq(ScoreType), s # <<>>
    PROVE  LET accepted == {i \in DOMAIN s : s[i].accepted}
           IN  /\ PythonMatched(s) =>
                     \E i \in accepted :
                         /\ \A j \in DOMAIN s : ~RanksAbove(s[j], s[i])
                         /\ s[i].inliers >= 8 \/ Cardinality(accepted) >= 2
               /\ ~PythonMatched(s) =>
                     \/ Cardinality(accepted) <= 1 /\ \A i \in accepted : s[i].inliers < 8
                     \/ \E i \in DOMAIN s \ accepted : \A j \in accepted : ~RanksAbove(s[j], s[i])
<1> DEFINE accepted == {i \in DOMAIN s : s[i].accepted}
<1>1. PythonMatched(s) =>
         \E i \in accepted :
             /\ \A j \in DOMAIN s : ~RanksAbove(s[j], s[i])
             /\ s[i].inliers >= 8 \/ Cardinality(accepted) >= 2
  BY DEF PythonMatched, IsBest
<1>2. ASSUME ~PythonMatched(s)
      PROVE  \/ Cardinality(accepted) <= 1 /\ \A i \in accepted : s[i].inliers < 8
             \/ \E i \in DOMAIN s \ accepted : \A j \in accepted : ~RanksAbove(s[j], s[i])
  <2>1. PICK i \in DOMAIN s : IsBest(s, i)
    BY OneIsBest
  <2>2. /\ Cardinality(accepted) \in Nat
        /\ \A j \in DOMAIN s : s[j].inliers \in Nat
    <3>1. DOMAIN s = 1 .. Len(s) /\ Len(s) \in Nat /\ s \in [1 .. Len(s) -> ScoreType]
      OBVIOUS
    <3>2. IsFiniteSet(accepted)
      <4>1. IsFiniteSet(1 .. Len(s)) /\ accepted \in SUBSET (1 .. Len(s))
        BY <3>1, FS_Interval
      <4> QED
        BY <4>1, FS_Subset
    <3> QED
      BY <3>1, <3>2, FS_CardinalityType DEF ScoreType
  <2>3. CASE s[i].accepted
    <3>1. ~(s[i].inliers >= 8) /\ ~(Cardinality(accepted) >= 2)
      BY <1>2, <2>1, <2>3, Zenon DEF PythonMatched
    <3>2. \A j \in accepted : s[j].inliers < 8
      <4> TAKE j \in accepted
      <4>1. ~RanksAbove(s[j], s[i])
        BY <2>1 DEF IsBest
      <4>2. s[i].inliers \in Nat /\ s[j].inliers \in Nat /\ s[i].inliers < 8
        BY <2>2, <3>1
      <4> QED
        BY <4>1, <4>2 DEF RanksAbove
    <3> HIDE DEF accepted
    <3> QED
      BY <2>2, <3>1, <3>2
  <2>4. CASE ~s[i].accepted
    <3>1. i \in DOMAIN s \ accepted /\ \A j \in accepted : ~RanksAbove(s[j], s[i])
      BY <2>1, <2>4 DEF IsBest
    <3> QED
      BY <3>1
  <2> QED
    BY <2>3, <2>4
<1> QED
  BY <1>1, <1>2

\* A process that has ended with a decision has compared every sample, and its
\* status is the verdict over those scores.
Told(r) ==
    r.exit \in {0, 3} /\ r.request.command = "verify" =>
        /\ r.scores \in Seq(ScoreType) /\ r.scores # <<>> /\ Len(r.scores) = Len(r.samples)
        /\ r.exit = 0 <=> PythonMatched(r.scores)

AllTold == \A p \in Processes : Told(processes[p])

\* Only one process acts.
LEMMA OnlyOne ==
    ASSUME IInv, AllTold, NEW p \in Processes, NEW r \in ProcessType,
           processes' = [processes EXCEPT ![p] = r], Told(r)
    PROVE  AllTold'
<1>1. /\ processes'[p] = r
      /\ \A q \in Processes \ {p} : processes'[q] = processes[q]
  BY DEF IInv, Types
<1> QED
  BY <1>1 DEF AllTold

\* A step that leaves a process running, or ends it with a traceback or a signal.
LEMMA NotDecided ==
    ASSUME IInv, AllTold, NEW p \in Processes, NEW r,
           processes' = [processes EXCEPT ![p] = r], r.exit \notin {0, 3}
    PROVE  AllTold'
<1>1. /\ processes'[p] = r
      /\ \A q \in Processes \ {p} : processes'[q] = processes[q]
  BY DEF IInv, Types
<1> QED
  BY <1>1 DEF AllTold, Told

LEMMA CompareTells == ASSUME IInv, AllTold, NEW p \in Processes, Compare(p) PROVE AllTold'
<1>1. /\ At(p, "compare") /\ processes[p] \in ProcessType /\ processes[p].exit = -1
  BY Acting DEF Compare
<1>2. CASE ~Extracts(Image(p)) \/ processes[p].samples = <<>>
  <2> DEFINE r == [processes[p] EXCEPT !.exit = 1]
  <2>1. processes' = [processes EXCEPT ![p] = r]
    BY <1>2 DEF Compare, Exit
  <2>2. r.exit \notin {0, 3}
    BY <1>1 DEF ProcessType
  <2> HIDE DEF r
  <2> QED
    BY <2>1, <2>2, NotDecided
<1>3. CASE ~(~Extracts(Image(p)) \/ processes[p].samples = <<>>)
  <2> DEFINE n == Len(processes[p].samples)
             Scores(fits) == [i \in DOMAIN fits |-> PythonScore(fits[i])]
             last == processes[p].image = Len(Request(p).images)
             image == IF last THEN processes[p].image ELSE processes[p].image + 1
             Exit0(s) == IF ~last THEN -1
                         ELSE IF Request(p).command = "evaluate" \/ PythonMatched(s) THEN 0 ELSE 3
  <2>1. PICK fits \in [DOMAIN processes[p].samples -> Fits] :
           processes' = [processes EXCEPT ![p].scores = Scores(fits), ![p].image = image,
                                          ![p].exit = Exit0(Scores(fits))]
    BY <1>3, Zenon DEF Compare
  <2> DEFINE s == Scores(fits)
             exit == Exit0(s)
             r == [processes[p] EXCEPT !.scores = s, !.image = image, !.exit = exit]
  <2>2. processes' = [processes EXCEPT ![p] = r]
    BY <2>1
  <2>3. n \in Nat \ {0} /\ DOMAIN processes[p].samples = 1 .. n
    BY <1>1, <1>3, EmptySeq DEF ProcessType
  <2>4. s \in [1 .. n -> {PythonScore(f) : f \in Fits}]
    BY <2>1, <2>3
  <2>5. s \in Seq({PythonScore(f) : f \in Fits}) /\ s \in Seq(ScoreType) /\ Len(s) = n
    <3>1. s \in [1 .. n -> ScoreType]
      BY <2>4, ScoresTyped
    <3> HIDE DEF s
    <3> QED
      BY <2>3, <2>4, <3>1
  <2>6. s # <<>>
    BY <2>3, <2>5
  <2>7. exit \in {-1, 0, 3} /\ image \in Nat
    BY <1>1 DEF ProcessType
  <2>8. Request(p).command = "verify" /\ exit # -1 => (exit = 0 <=> PythonMatched(s))
    OBVIOUS
  <2> HIDE DEF s, image, exit
  <2>9. /\ r \in ProcessType /\ r.scores = s /\ r.exit = exit
        /\ r.request = processes[p].request /\ r.samples = processes[p].samples
    BY <1>1, <2>5, <2>7 DEF ProcessType, Exits
  <2> HIDE DEF r
  <2>10. Told(r)
    BY <2>5, <2>6, <2>8, <2>9 DEF Told, Request
  <2> QED
    BY <2>2, <2>9, <2>10, OnlyOne
<1> QED
  BY <1>2, <1>3

LEMMA StepTells == IInv /\ AllTold /\ [Next]_vars => AllTold'
<1> SUFFICES ASSUME IInv, AllTold, [Next]_vars PROVE AllTold'
  OBVIOUS
<1>1. CASE UNCHANGED vars
  BY <1>1 DEF vars, AllTold
<1>2. CASE Next
  <2>1. PICK p \in Processes :
           \/ Start(p) \/ ExtractSample(p) \/ CheckPath(p)
           \/ CreateTemporary(p) \/ WriteTemporary(p) \/ Replace(p) \/ Unlink(p)
           \/ OpenTemplate(p) \/ LoadTemplate(p) \/ Compare(p)
           \/ Kill(p)
    BY <1>2 DEF Next
  <2>2. processes[p] \in ProcessType /\ Own(processes[p], content[1][p])
    BY DEF IInv, Types
  <2>3. ASSUME NEW step, processes[p].exit = -1, Go(p, step) PROVE AllTold'
    <3> DEFINE r == [processes[p] EXCEPT !.step = step]
    <3>1. processes' = [processes EXCEPT ![p] = r]
      BY <2>3 DEF Go
    <3>2. r.exit \notin {0, 3}
      BY <2>2, <2>3 DEF ProcessType
    <3> HIDE DEF r
    <3> QED
      BY <3>1, <3>2, NotDecided
  <2>4. ASSUME NEW exit \in {1, 9}, Exit(p, exit) PROVE AllTold'
    <3> DEFINE r == [processes[p] EXCEPT !.exit = exit]
    <3>1. processes' = [processes EXCEPT ![p] = r]
      BY <2>4 DEF Exit
    <3>2. r.exit \notin {0, 3}
      BY <2>2 DEF ProcessType
    <3> HIDE DEF r
    <3> QED
      BY <3>1, <3>2, NotDecided
  <2>5. CASE Start(p)
    <3>1. PICK q \in Requests : \E x \in {-1, 1}, t \in {"extract", "open"} :
             processes' = [processes EXCEPT ![p].request = q, ![p].step = t, ![p].exit = x]
      BY <2>5 DEF Start
    <3>2. PICK x \in {-1, 1}, t \in {"extract", "open"} :
             processes' = [processes EXCEPT ![p].request = q, ![p].step = t, ![p].exit = x]
      BY <3>1
    <3> DEFINE r == [processes[p] EXCEPT !.request = q, !.step = t, !.exit = x]
    <3>3. processes' = [processes EXCEPT ![p] = r]
      BY <3>2
    <3>4. r.exit \notin {0, 3}
      BY <2>2 DEF ProcessType
    <3> HIDE DEF r
    <3> QED
      BY <3>2, <3>3, <3>4, NotDecided
  <2>6. CASE ExtractSample(p)
    <3>1. processes[p].exit = -1
      BY <2>6 DEF ExtractSample, At
    <3>2. CASE Extracts(Image(p))
      <4> DEFINE r == [processes[p] EXCEPT
                         !.samples = Append(@, Sample(Image(p))), !.image = @ + 1,
                         !.step = IF processes[p].image = Len(Request(p).images)
                                  THEN "check" ELSE @]
      <4>1. processes' = [processes EXCEPT ![p] = r]
        BY <2>6, <3>2 DEF ExtractSample
      <4>2. r.exit \notin {0, 3}
        BY <2>2, <3>1 DEF ProcessType
      <4> HIDE DEF r
      <4> QED
        BY <4>1, <4>2, NotDecided
    <3>3. CASE ~Extracts(Image(p))
      BY <2>4, <2>6, <3>3 DEF ExtractSample
    <3> QED
      BY <3>2, <3>3
  <2>7. CASE CheckPath(p) \/ CreateTemporary(p) \/ WriteTemporary(p)
    BY <2>3, <2>4, <2>7 DEF CheckPath, CreateTemporary, WriteTemporary, At
  <2>8. CASE Replace(p)
    <3>1. processes[p].step = "replace" /\ processes[p].exit = -1
      BY <2>8 DEF Replace, At
    <3>2. CASE Exit(p, 0)
      <4> DEFINE r == [processes[p] EXCEPT !.exit = 0]
      <4>1. processes' = [processes EXCEPT ![p] = r]
        BY <3>2 DEF Exit
      <4>2. r.request.command = "enroll"
        BY <2>2, <3>1 DEF ProcessType, Own, Enrolling, Saving
      <4>3. r \in ProcessType
        BY <2>2 DEF ProcessType, Exits
      <4> HIDE DEF r
      <4> QED
        BY <4>1, <4>2, <4>3, OnlyOne DEF Told
    <3> QED
      BY <2>3, <2>8, <3>1, <3>2 DEF Replace
  <2>9. CASE Unlink(p) \/ Kill(p)
    BY <2>4, <2>9 DEF Unlink, Kill
  <2>10. CASE OpenTemplate(p)
    <3>1. processes[p].exit = -1
      BY <2>10 DEF OpenTemplate, At
    <3>2. CASE template = "none"
      BY <2>4, <2>10, <3>2 DEF OpenTemplate
    <3>3. CASE template # "none"
      <4> DEFINE r == [processes[p] EXCEPT !.step = "load", !.held = template]
      <4>1. processes' = [processes EXCEPT ![p] = r]
        BY <2>10, <3>3 DEF OpenTemplate
      <4>2. r.exit \notin {0, 3}
        BY <2>2, <3>1 DEF ProcessType
      <4> HIDE DEF r
      <4> QED
        BY <4>1, <4>2, NotDecided
    <3> QED
      BY <3>2, <3>3
  <2>11. CASE LoadTemplate(p)
    <3> DEFINE c == File(processes[p].held)
    <3>1. processes[p].exit = -1
      BY <2>11 DEF LoadTemplate, At
    <3>2. CASE ~Supported(c)
      BY <2>4, <2>11, <3>2 DEF LoadTemplate
    <3>3. CASE Supported(c)
      <4> DEFINE r == [processes[p] EXCEPT !.step = "compare",
                                           !.samples = SubSeq(c.samples, 1, c.count)]
      <4>1. processes' = [processes EXCEPT ![p] = r]
        BY <2>11, <3>3 DEF LoadTemplate
      <4>2. r.exit \notin {0, 3}
        BY <2>2, <3>1 DEF ProcessType
      <4> HIDE DEF r
      <4> QED
        BY <4>1, <4>2, NotDecided
    <3> QED
      BY <3>2, <3>3
  <2>12. CASE Compare(p)
    BY <2>12, CompareTells
  <2> QED
    BY <2>1, <2>5, <2>6, <2>7, <2>8, <2>9, <2>10, <2>11, <2>12
<1> QED
  BY <1>1, <1>2

\* The exit status of a verification tells its decision, for every number of
\* samples and every answer of OpenCV.
THEOREM StatusIsDecision == Spec => []StatusTellsDecision
<1>1. Init => AllTold
  BY DEF Init, NotStarted, AllTold, Told
<1>2. AllTold => StatusTellsDecision
  <2> SUFFICES ASSUME AllTold, NEW p \in Processes,
                      processes[p].exit \in {0, 3}, Request(p).command = "verify"
               PROVE  LET s == processes[p].scores
                          accepted == {i \in DOMAIN s : s[i].accepted}
                      IN  /\ s # <<>> /\ Len(s) = Len(processes[p].samples)
                          /\ processes[p].exit = 0 =>
                                \E i \in accepted :
                                    /\ \A j \in DOMAIN s : ~RanksAbove(s[j], s[i])
                                    /\ s[i].inliers >= 8 \/ Cardinality(accepted) >= 2
                          /\ processes[p].exit = 3 =>
                                \/ Cardinality(accepted) <= 1 /\ \A i \in accepted : s[i].inliers < 8
                                \/ \E i \in DOMAIN s \ accepted :
                                       \A j \in accepted : ~RanksAbove(s[j], s[i])
    BY DEF StatusTellsDecision
  <2> DEFINE s == processes[p].scores
  <2>1. /\ s \in Seq(ScoreType) /\ s # <<>> /\ Len(s) = Len(processes[p].samples)
        /\ processes[p].exit = 0 <=> PythonMatched(s)
    BY DEF AllTold, Told, Request
  <2> HIDE DEF s
  <2>2. /\ processes[p].exit = 0 => PythonMatched(s)
        /\ processes[p].exit = 3 => ~PythonMatched(s)
    BY <2>1
  <2> QED
    BY <2>1, <2>2, VerdictSpeaks, Zenon DEF s
<1> QED
  BY <1>1, <1>2, StepTells, Invariance, PTL DEF Spec
=============================================================================
