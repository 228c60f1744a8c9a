---------------------------- MODULE ProbesProofs ----------------------------
(***************************************************************************)
(* Proofs about the two probes on one reader, for every number of          *)
(* attempts, every length of an answer and every declared partition count. *)
(*                                                                         *)
(* ScanInv says what the acquisition probe holds and has done at each of   *)
(* its stages, QueryInv the same of the query probe, and OneClaim what     *)
(* they share.  A step of one leaves the variables of the other alone.     *)
(***************************************************************************)
EXTENDS Probes, TLAPS

Early == {"parse", "load", "prepare", "init"}
Reading == {"command", "events", "cancel", "cancelWait"}
Freeing == {"freeFailed", "freeCaptured"}
Acquiring == {"alloc", "submit"} \cup Reading \cup Freeing \cup {"image", "write"}
Conversing == {"control", "exchange", "wait"} \cup Acquiring

ScanTypes ==
    /\ options \in [valid : BOOLEAN, experiment : Experiments, stop : Stops]
    /\ pc \in Labels
    /\ step \in 1 .. 7
    /\ held \in SUBSET Resources
    /\ read \in [allocated : BOOLEAN, bus : {"idle", "inFlight", "returned"},
                 ok : BOOLEAN, done : BOOLEAN, refused : BOOLEAN]
    /\ device \in SUBSET {Requests[i] : i \in 1 .. 7}
    /\ output \in {"absent", "other", "partial", "complete"}
    /\ exit_code \in {0, 1, 2}

\* What the program holds: nothing before libusb and after the way out, all of
\* it while it converses with the reader.
HeldByStage ==
    /\ pc \in Early \cup {"exited"} => held = {}
    /\ pc = "open" => held = {"context"}
    /\ pc = "claim" => held = {"context", "handle"}
    /\ pc \in Conversing => held = Resources

\* The transfer: allocated from its allocation to its release, in flight only
\* where the program waits for it, unless libusb refused to cancel it.
TransferByStage ==
    /\ read.done => read.bus = "idle"
    /\ pc \notin {"submit"} \cup Reading \cup Freeing => ~read.allocated
    /\ pc \in {"submit"} \cup Reading \cup Freeing => read.allocated
    /\ pc \in Reading => ~read.refused
    /\ pc \notin Reading => read.bus = "idle" \/ read.refused
    /\ pc \in {"submit", "alloc"} \/ pc \in Early \cup {"open", "claim", "control", "exchange", "wait"}
         => ~read.done /\ read.bus = "idle" /\ ~read.refused

\* What the device has accepted, and what is left of the options.
ProgressByStage ==
    /\ "scan02" \in device => "config06" \in device
    /\ pc \in Early \cup {"open", "claim", "control"} => step = 1
    /\ pc = "exchange" /\ step = 7 => options.stop # "config"
    /\ pc \in {"wait"} \cup Acquiring => options.stop = "none" /\ "scan02" \in device
    /\ pc \notin {"cleanup", "exited"} => output \in {"absent", "other"} /\ exit_code = 1

Succeeded ==
    CASE options.stop = "config" -> output \in {"absent", "other"}
      [] options.stop = "matrix" ->
           {"config06", "scan02"} \subseteq device /\ output \in {"absent", "other"}
      [] OTHER -> {"config06", "scan02"} \subseteq device /\ output = "complete"

ScanInv ==
    /\ ScanTypes /\ HeldByStage /\ TransferByStage /\ ProgressByStage
    /\ exit_code = 0 => Succeeded

Asked(n) ==
    CASE n = 1 -> {} [] n = 2 -> {"information"} [] n = 3 -> {"information", "status"}

QueryInv ==
    /\ query_pc \in Query!Labels
    /\ query_step \in 1 .. 3
    /\ query_pc \in {"parse", "init", "exited"} => query_held = {}
    /\ query_pc = "query" => "claim" \in query_held
    /\ query_pc \notin {"cleanup", "exited"} => query_exit_code = 1
    /\ Asked(query_step) \subseteq query_sent
    /\ query_sent \subseteq {"information", "status", "flash"}
    /\ PartitionsInsideResponse
    /\ query_exit_code = 0 =>
          query_sent = {"information", "status", "flash"} /\ query_printed # {}

OneClaim == ~("claim" \in held /\ "claim" \in query_held)

IInv == ScanInv /\ QueryInv /\ OneClaim

(***************************************************************************)
(* The acquisition probe.                                                  *)
(***************************************************************************)
\* Nothing is held, asked or written yet.
LEMMA ScanStart == Init => ScanInv
BY DEF Init, ScanInv, ScanTypes, HeldByStage, TransferByStage, ProgressByStage, NoRead,
       Labels, Early, Reading, Freeing, Acquiring, Conversing, Experiments, Stops

\* Before the transfer: options, records, libusb, the control request and
\* the wait for a touch.
LEMMA BeforeTransfer ==
    ASSUME ScanInv,
           ParseOptions \/ LoadBlobs \/ PrepareConfig \/ LibusbInit \/ OpenDevice
             \/ ClaimInterface \/ OperationControl \/ WaitForCaptureEvent
    PROVE  ScanInv'
<1> USE DEF ScanInv, ScanTypes, HeldByStage, TransferByStage, ProgressByStage, Succeeded,
            Labels, Early, Reading, Freeing, Acquiring, Conversing, At, Go, Resources
<1>1. CASE ParseOptions \/ LoadBlobs \/ PrepareConfig
  BY <1>1 DEF ParseOptions, LoadBlobs, PrepareConfig
<1>2. CASE LibusbInit \/ OpenDevice \/ ClaimInterface
  BY <1>2 DEF LibusbInit, OpenDevice, ClaimInterface, Acquire
<1>3. CASE OperationControl
  BY <1>3 DEF OperationControl
<1>4. CASE WaitForCaptureEvent
  BY <1>4 DEF WaitForCaptureEvent
<1> QED
  BY <1>1, <1>2, <1>3, <1>4

\* The reader accepts the scan matrix only with a configuration, and the
\* program goes on only with an answer.
LEMMA ExchangeKeeps == ASSUME ScanInv, Exchange PROVE ScanInv'
<1> USE DEF ScanInv, ScanTypes, HeldByStage, TransferByStage, ProgressByStage,
            Labels, Early, Reading, Freeing, Acquiring, Conversing, At, Go
<1> DEFINE request == Requests[step]
<1>1. /\ request \in {Requests[i] : i \in 1 .. 7}
      /\ step = 7 <=> request = "scan02"
      /\ step = 6 <=> request = "config06"
  BY DEF Requests
<1>2. /\ pc = "exchange"
      /\ UNCHANGED <<options, blobs, attempts, held, read, output>>
  BY DEF Exchange
<1>3. /\ device' \in {device, device \cup {request}}
      /\ request = "scan02" /\ "scan02" \in device' => "config06" \in device
      /\ "scan02" \in device' => "config06" \in device'
  BY <1>1 DEF Exchange, Omitted, Answers
<1>4. \/ Continue(request) /\ (request = "scan02" => "scan02" \in device')
      \/ Go("cleanup") /\ UNCHANGED <<step, exit_code>>
  BY <1>1 DEF Exchange, Omitted, Answers, Answered
<1>5. CASE Go("cleanup") /\ UNCHANGED <<step, exit_code>>
  BY <1>1, <1>2, <1>3, <1>5
<1>6. CASE Continue(request) /\ (request = "scan02" => "scan02" \in device')
  <2>1. CASE request = "config06" /\ options.stop = "config"
    BY <1>1, <1>2, <1>3, <1>6, <2>1 DEF Continue, Succeeded
  <2>2. CASE request = "scan02"
    BY <1>1, <1>2, <1>3, <1>6, <2>2 DEF Continue, Succeeded, Stops
  <2>3. CASE request # "scan02" /\ ~(request = "config06" /\ options.stop = "config")
    BY <1>1, <1>2, <1>3, <1>6, <2>3 DEF Continue
  <2> QED
    BY <2>1, <2>2, <2>3
<1> QED
  BY <1>4, <1>5, <1>6

\* The transfer, whatever ends it and whenever its callback runs.
LEMMA TransferKeeps ==
    ASSUME ScanInv,
           AllocTransfer \/ SubmitTransfer \/ WriteCommand \/ HandleEventsFail
             \/ InspectFrame \/ CancelTransfer \/ CancelWait \/ FreeTransfer
             \/ BusCompletes \/ BulkReadCallback
    PROVE  ScanInv'
<1> USE DEF ScanInv, ScanTypes, HeldByStage, TransferByStage, ProgressByStage, Succeeded,
            Labels, Early, Reading, Freeing, Acquiring, Conversing, At, Go, Rest
<1>1. CASE AllocTransfer
  BY <1>1 DEF AllocTransfer
<1>8. CASE SubmitTransfer
  BY <1>8 DEF SubmitTransfer
<1>2. CASE WriteCommand \/ HandleEventsFail \/ InspectFrame
  BY <1>2 DEF WriteCommand, HandleEventsFail, InspectFrame
<1>3. CASE CancelTransfer
  <2>1. pc = "cancel" /\ UNCHANGED Rest
    BY <1>3 DEF CancelTransfer
  <2>2. CASE Go("freeFailed") /\ UNCHANGED read /\ read.done
    BY <2>1, <2>2
  <2>3. CASE Go("cancelWait") /\ UNCHANGED read
    BY <2>1, <2>3
  <2>4. CASE Go("freeFailed") /\ read' = [read EXCEPT !.refused = TRUE]
    BY <2>1, <2>4
  <2> QED
    BY <1>3, <2>2, <2>3, <2>4 DEF CancelTransfer
<1>4. CASE CancelWait
  BY <1>4 DEF CancelWait
<1>5. CASE FreeTransfer
  BY <1>5 DEF FreeTransfer
<1>6. CASE BusCompletes
  <2>1. /\ ~read.done /\ read.bus = "inFlight" /\ UNCHANGED pc /\ UNCHANGED Rest
        /\ \E ok \in BOOLEAN : read' = [read EXCEPT !.bus = "returned", !.ok = ok]
    BY <1>6 DEF BusCompletes
  <2>2. UNCHANGED <<pc, options, blobs, step, attempts, held, device, output, exit_code>>
    BY <2>1
  <2>3. read'.done = read.done /\ read'.allocated = read.allocated
        /\ read'.refused = read.refused /\ read'.bus = "returned"
    BY <2>1
  <2>4. TransferByStage'
    BY <2>1, <2>2, <2>3
  <2>5. read' \in [allocated : BOOLEAN, bus : {"idle", "inFlight", "returned"},
                   ok : BOOLEAN, done : BOOLEAN, refused : BOOLEAN]
    BY <2>1
  <2> QED
    BY <2>2, <2>4, <2>5
<1>7. CASE BulkReadCallback
  BY <1>7 DEF BulkReadCallback, Delivered
<1> QED
  BY <1>1, <1>2, <1>3, <1>4, <1>5, <1>6, <1>7, <1>8

\* The image, its file and the way out.
LEMMA AfterTransfer ==
    ASSUME ScanInv, ParseImage \/ WritePgm \/ Cleanup PROVE ScanInv'
<1> USE DEF ScanInv, ScanTypes, HeldByStage, TransferByStage, ProgressByStage, Succeeded,
            Labels, Early, Reading, Freeing, Acquiring, Conversing, At, Go, Rest
<1>1. CASE ParseImage
  BY <1>1 DEF ParseImage
<1>2. CASE WritePgm
  BY <1>2 DEF WritePgm, Creatable
<1>3. CASE Cleanup
  BY <1>3 DEF Cleanup
<1> QED
  BY <1>1, <1>2, <1>3

LEMMA ScanKeeps == ASSUME ScanInv, Next \/ UNCHANGED vars PROVE ScanInv'
<1>1. CASE UNCHANGED vars
  BY <1>1 DEF vars, ScanInv, ScanTypes, HeldByStage, TransferByStage, ProgressByStage, Succeeded
<1>2. CASE Next
  BY <1>2, BeforeTransfer, ExchangeKeeps, TransferKeeps, AfterTransfer DEF Next, Program
<1> QED
  BY <1>1, <1>2

\* What the invariant says at the end, and of a transfer in flight.
LEMMA ScanSafe == ScanInv => FreedAfterCallback /\ CleanExit /\ SuccessIsTrue
BY DEF ScanInv, ScanTypes, HeldByStage, TransferByStage, Succeeded, FreedAfterCallback,
       CleanExit, SuccessIsTrue, At, Reading, Freeing, Acquiring, Conversing, Resources, Early

(***************************************************************************)
(* The query probe.                                                        *)
(***************************************************************************)
\* A response whose declared partitions fit is read inside its length.
LEMMA FittingResponse ==
    ASSUME NEW response \in Query!Responses, Query!FlashFits(response)
    PROVE  16 + 12 * response.partitions <= response.length
<1>1. response.length \in Nat /\ response.partitions \in Nat
  <2>1. response.length \in Lengths /\ response.partitions \in Partitions
    BY DEF Query!Responses
  <2>2. Lengths \subseteq Nat /\ Partitions \subseteq Nat
    BY QueryAssumption
  <2> QED
    BY <2>1, <2>2
<1>2. response.length >= 16 /\ response.partitions <= (response.length - 16) \div 12
  BY DEF Query!FlashFits
<1> QED
  BY <1>1, <1>2

LEMMA QueryStart == Query!Init => QueryInv
BY DEF Query!Init, QueryInv, Query!Labels, Asked, PartitionsInsideResponse

LEMMA QueryKeeps == ASSUME QueryInv, Query!Next \/ UNCHANGED queryVars PROVE QueryInv'
<1> USE DEF QueryInv, Query!Labels, Query!At, Query!Go
<1>1. CASE UNCHANGED queryVars
  BY <1>1 DEF queryVars, PartitionsInsideResponse
<1>2. CASE Query!ParseArguments
  BY <1>2 DEF Query!ParseArguments, PartitionsInsideResponse, Asked
<1>5. CASE Query!Cleanup
  BY <1>5 DEF Query!Cleanup, PartitionsInsideResponse
<1>3. CASE Query!LibusbInit \/ Query!OpenDevice \/ Query!ClaimInterface
  BY <1>3 DEF Query!LibusbInit, Query!OpenDevice, Query!ClaimInterface, Query!Acquire,
              PartitionsInsideResponse
<1>4. CASE Query!RunQuery
  <2> DEFINE query == Query!Queries[query_step]
  <2>1. /\ query_pc = "query" /\ UNCHANGED query_held
        /\ query_step = 1 => query = "information"
        /\ query_step = 2 => query = "status"
        /\ query_step = 3 => query = "flash"
    BY <1>4 DEF Query!RunQuery, Query!Queries
  <2>2. CASE /\ query_pc' = "cleanup" /\ query_sent' \in {query_sent, query_sent \cup {query}}
             /\ UNCHANGED <<query_step, query_printed, query_exit_code>>
    BY <2>1, <2>2 DEF Asked, PartitionsInsideResponse
  <2>3. CASE /\ query_sent' = query_sent \cup {query}
             /\ \E response \in Query!Responses :
                   /\ Query!WellFormed(query, response)
                   /\ query_printed' = IF query = "flash" THEN {response} ELSE query_printed
                   /\ IF query_step = 3
                      THEN query_pc' = "cleanup" /\ query_exit_code' = 0 /\ UNCHANGED query_step
                      ELSE query_step' = query_step + 1 /\ UNCHANGED <<query_pc, query_exit_code>>
    <3>1. PartitionsInsideResponse'
      BY <2>1, <2>3, FittingResponse DEF Query!WellFormed, PartitionsInsideResponse
    <3> QED
      BY <2>1, <2>3, <3>1 DEF Asked
  <2> QED
    BY <1>4, <2>2, <2>3 DEF Query!RunQuery
<1> QED
  BY <1>1, <1>2, <1>3, <1>4, <1>5 DEF Query!Next

LEMMA QuerySafe == QueryInv => PartitionsInsideResponse /\ QueryExitIsTrue
BY DEF QueryInv, QueryExitIsTrue

(***************************************************************************)
(* Both.                                                                   *)
(***************************************************************************)
\* In every step one of the two acts alone, and at most one claims.
LEMMA OneActs ==
    ASSUME [ProbesNext]_<<vars, queryVars>>
    PROVE  /\ Next \/ UNCHANGED vars
           /\ Query!Next \/ UNCHANGED queryVars
           /\ OneClaim => OneClaim'
BY DEF ProbesNext, ScanProgram, ScanBus, ScanCallback, QueryProgram, Next, Exclusive, OneClaim,
       vars, queryVars, BusCompletes, BulkReadCallback, Rest

\* The two probes keep their stages, their resources and one claim.
THEOREM Invariance == ProbesSpec => []IInv
<1>1. ProbesInit => IInv
  BY ScanStart, QueryStart DEF ProbesInit, IInv, OneClaim, Init
<1>2. IInv /\ [ProbesNext]_<<vars, queryVars>> => IInv'
  BY OneActs, ScanKeeps, QueryKeeps DEF IInv
<1> QED
  BY <1>1, <1>2, PTL DEF ProbesSpec

\* The transfer is freed only after its callback (FreedAfterCallback).
THEOREM TransferOutlivesCallback == ProbesSpec => []FreedAfterCallback
BY Invariance, ScanSafe, PTL DEF IInv

\* Whatever fails, the acquisition probe exits with nothing held (CleanExit).
THEOREM NothingLeaks == ProbesSpec => []CleanExit
BY Invariance, ScanSafe, PTL DEF IInv

\* Exit status 0 of the acquisition probe is true (SuccessIsTrue).
THEOREM SuccessIsTruth == ProbesSpec => []SuccessIsTrue
BY Invariance, ScanSafe, PTL DEF IInv

\* Every partition printed lies inside its response
\* (PartitionsInsideResponse).
THEOREM ReadsInside == ProbesSpec => []PartitionsInsideResponse
BY Invariance, QuerySafe, PTL DEF IInv

\* Exit status 0 of the query probe means three answers (QueryExitIsTrue).
THEOREM QueryExits == ProbesSpec => []QueryExitIsTrue
BY Invariance, QuerySafe, PTL DEF IInv

\* No query reaches the reader during an acquisition
\* (NoQueryDuringAcquisition).
THEOREM Undisturbed == ProbesSpec => NoQueryDuringAcquisition
<1>1. IInv /\ [ProbesNext]_<<vars, queryVars>>
        => [query_sent' # query_sent => "claim" \notin held]_<<vars, queryVars>>
  <2> SUFFICES ASSUME IInv, ProbesNext, query_sent' # query_sent PROVE "claim" \notin held
    BY DEF ProbesNext
  <2>1. Query!RunQuery
    BY DEF ProbesNext, ScanProgram, ScanBus, ScanCallback, QueryProgram, queryVars, Query!Next,
           Query!ParseArguments, Query!LibusbInit, Query!OpenDevice, Query!ClaimInterface,
           Query!Acquire, Query!Cleanup
  <2> QED
    BY <2>1 DEF IInv, QueryInv, OneClaim, Query!RunQuery, Query!At
<1> QED
  BY <1>1, Invariance, PTL DEF ProbesSpec, NoQueryDuringAcquisition
=============================================================================
