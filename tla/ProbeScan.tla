----------------------------- MODULE ProbeScan -----------------------------
(***************************************************************************)
(* The single-frame acquisition probe (probe/syna0082-scan.c): one process *)
(* that loads the private records, opens the reader through libusb, sends  *)
(* the initialization exchanges, waits for a touch, reads one frame with   *)
(* an asynchronous transfer and writes it to a new file.                   *)
(*                                                                         *)
(* The process is sequential; what interleaves with it is the bus, which   *)
(* ends the frame's transfer at any moment, and libusb, which delivers the *)
(* callback in whatever call handles events, the command's synchronous     *)
(* write included.                                                         *)
(***************************************************************************)
EXTENDS Naturals, FiniteSets

CONSTANT Attempts    \* interrupt reads of wait_for_capture_event (20)

ASSUME AttemptsAssumption == Attempts \in Nat \ {0}

Experiments == {"none", "omit", "flip", "transplant", "alternate"}
Stops == {"none", "config", "matrix"}
Blobs == {"config", "alternate", "scan"}
Requests == <<"start", "info", "capabilities", "status", "config39", "config06", "scan02">>
Resources == {"context", "handle", "claim"}

VARIABLES
    options,      \* the command line
    blobs,        \* the records that are there with the right length and command
    pc,           \* where the program is
    step,         \* next element of Requests
    attempts,     \* interrupt reads left
    held,         \* libusb resources the program holds
    read,         \* the frame's transfer and its BulkRead
    device,       \* has the device accepted config06? scan02?
    output,       \* the output file
    exit_code

vars == <<options, blobs, pc, step, attempts, held, read, device, output, exit_code>>

NoRead == [allocated |-> FALSE, bus |-> "idle", ok |-> FALSE, done |-> FALSE,
           refused |-> FALSE]

Labels == {"parse", "load", "prepare", "init", "open", "claim", "control",
           "exchange", "wait", "alloc", "submit", "command", "events", "cancel",
           "cancelWait", "freeFailed", "freeCaptured", "image", "write",
           "cleanup", "exited"}

Init ==
    /\ options \in [valid : BOOLEAN, experiment : Experiments, stop : Stops]
    /\ blobs \in SUBSET Blobs
    /\ output \in {"absent", "other"}
    /\ pc = "parse"
    /\ step = 1
    /\ attempts = Attempts
    /\ held = {}
    /\ read = NoRead
    /\ device = {}
    /\ exit_code = 1

At(label) == pc = label
Go(label) == pc' = label

(***************************************************************************)
(* main before libusb: every failure returns at once.                      *)
(***************************************************************************)
\* A valid command line acknowledges the state change, names both paths and
\* selects at most one experiment.
ParseOptions ==
    /\ At("parse")
    /\ IF options.valid THEN Go("load") /\ UNCHANGED exit_code
       ELSE Go("exited") /\ exit_code' = 2
    /\ UNCHANGED <<options, blobs, step, attempts, held, read, device, output>>

NeededBlobs ==
    {"scan"} \cup (IF options.experiment = "omit" THEN {} ELSE {"config"})
             \cup (IF options.experiment \in {"transplant", "alternate"} THEN {"alternate"} ELSE {})

LoadBlobs ==
    /\ At("load")
    /\ Go(IF NeededBlobs \subseteq blobs THEN "prepare" ELSE "exited")
    /\ UNCHANGED <<options, blobs, step, attempts, held, read, device, output, exit_code>>

\* A transplant needs equal headers.
PrepareConfig ==
    /\ At("prepare")
    /\ \/ Go("init")
       \/ options.experiment = "transplant" /\ Go("exited")
    /\ UNCHANGED <<options, blobs, step, attempts, held, read, device, output, exit_code>>

(***************************************************************************)
(* Opening the reader, the control request and the exchanges.              *)
(***************************************************************************)
Acquire(label, resource, next) ==
    /\ At(label)
    /\ \/ held' = held \cup {resource} /\ Go(next)
       \/ UNCHANGED held /\ Go("cleanup")
    /\ UNCHANGED <<options, blobs, step, attempts, read, device, output, exit_code>>

LibusbInit == Acquire("init", "context", "open")
OpenDevice == Acquire("open", "handle", "claim")
\* An active kernel driver is not detached.
ClaimInterface == Acquire("claim", "claim", "control")

OperationControl ==
    /\ At("control")
    /\ Go("exchange") \/ Go("cleanup")
    /\ UNCHANGED <<options, blobs, step, attempts, held, read, device, output, exit_code>>

\* The device refuses with a two-byte status; the scan matrix it always
\* refuses while it has no configuration.
Answers(request) ==
    IF request = "scan02" /\ "config06" \notin device THEN {"refused", "failed"}
    ELSE {"accepted", "refused", "failed"}

\* An exchange checks the length of the response and not its status: it takes
\* a refusal for the answer where the answer has two bytes.
Answered(request, answer) ==
    \/ answer = "accepted"
    \/ answer = "refused" /\ request \in {"start", "config39", "config06"}

Omitted(request) == request = "config06" /\ options.experiment = "omit"

\* After the exchange, or the omission, of a request.
Continue(request) ==
    IF request = "config06" /\ options.stop = "config"
    THEN Go("cleanup") /\ exit_code' = 0 /\ UNCHANGED step
    ELSE IF request = "scan02"
    THEN IF options.stop = "matrix"
         THEN Go("cleanup") /\ exit_code' = 0 /\ UNCHANGED step
         ELSE Go("wait") /\ UNCHANGED <<step, exit_code>>
    ELSE step' = step + 1 /\ UNCHANGED <<pc, exit_code>>

Exchange ==
    /\ At("exchange")
    /\ LET request == Requests[step]
       IN  IF Omitted(request) THEN Continue(request) /\ UNCHANGED device
           ELSE \E answer \in Answers(request) :
                  /\ device' = IF answer = "accepted" THEN device \cup {request} ELSE device
                  /\ IF Answered(request, answer) THEN Continue(request)
                     ELSE Go("cleanup") /\ UNCHANGED <<step, exit_code>>
    /\ UNCHANGED <<options, blobs, attempts, held, read, output>>

(***************************************************************************)
(* wait_for_capture_event.                                                 *)
(***************************************************************************)
Exhausted == attempts = 0

\* A timeout and an event of another kind use up an attempt each; any other
\* error ends the wait.
WaitForCaptureEvent ==
    /\ At("wait")
    /\ IF Exhausted THEN Go("cleanup") /\ UNCHANGED attempts
       ELSE \/ attempts' = attempts - 1 /\ UNCHANGED pc
            \/ Go("alloc") /\ UNCHANGED attempts
            \/ Go("cleanup") /\ UNCHANGED attempts
    /\ UNCHANGED <<options, blobs, step, held, read, device, output, exit_code>>

(***************************************************************************)
(* capture_image.                                                          *)
(***************************************************************************)
Rest == <<options, blobs, step, attempts, held, device, output, exit_code>>

AllocTransfer ==
    /\ At("alloc")
    /\ \/ Go("submit") /\ read' = [read EXCEPT !.allocated = TRUE]
       \/ Go("cleanup") /\ UNCHANGED read
    /\ UNCHANGED Rest

SubmitTransfer ==
    /\ At("submit")
    /\ \/ Go("command") /\ read' = [read EXCEPT !.bus = "inFlight"]
       \/ Go("freeFailed") /\ UNCHANGED read
    /\ UNCHANGED Rest

\* The bus ends the transfer: with the frame, or by a timeout, a fault, a
\* short frame or the cancellation.
BusCompletes ==
    /\ read.bus = "inFlight"
    /\ \E ok \in BOOLEAN : read' = [read EXCEPT !.bus = "returned", !.ok = ok]
    /\ UNCHANGED pc /\ UNCHANGED Rest

Delivered == [read EXCEPT !.bus = "idle", !.done = TRUE]

\* bulk_read_callback, in any call that handles libusb's events.
BulkReadCallback ==
    /\ At("command") \/ At("events") \/ At("cancelWait")
    /\ read.bus = "returned"
    /\ read' = Delivered
    /\ UNCHANGED pc /\ UNCHANGED Rest

WriteCommand ==
    /\ At("command")
    /\ Go("events") \/ Go("cancel")
    /\ UNCHANGED read /\ UNCHANGED Rest

\* Handling events may fail as long as the callback has not run.
HandleEventsFail ==
    /\ At("events") /\ ~read.done
    /\ Go("cancel")
    /\ UNCHANGED read /\ UNCHANGED Rest

\* Mutant: a frame of the wrong length returns without freeing the transfer.
InspectFrame_Leaks ==
    /\ At("events") /\ read.done
    /\ Go(IF read.ok THEN "freeCaptured" ELSE "cleanup")
    /\ UNCHANGED read /\ UNCHANGED Rest

InspectFrame ==
    /\ At("events") /\ read.done
    /\ Go(IF read.ok THEN "freeCaptured" ELSE "freeFailed")
    /\ UNCHANGED read /\ UNCHANGED Rest

\* Mutant: the cancelled transfer is freed without waiting for its callback.
CancelTransfer_NoWait ==
    /\ At("cancel")
    /\ Go("freeFailed")
    /\ UNCHANGED read /\ UNCHANGED Rest

\* libusb may refuse to cancel.
CancelTransfer ==
    /\ At("cancel")
    /\ IF read.done THEN Go("freeFailed") /\ UNCHANGED read
       ELSE \/ Go("cancelWait") /\ UNCHANGED read
            \/ Go("freeFailed") /\ read' = [read EXCEPT !.refused = TRUE]
    /\ UNCHANGED Rest

\* Mutant: the wait is for a frame, which a cancelled transfer never brings.
CancelWait_ForFrame ==
    /\ At("cancelWait") /\ read.done /\ read.ok
    /\ Go("freeFailed")
    /\ UNCHANGED read /\ UNCHANGED Rest

\* Errors of the event handling are ignored here.
CancelWait ==
    /\ At("cancelWait") /\ read.done
    /\ Go("freeFailed")
    /\ UNCHANGED read /\ UNCHANGED Rest

FreeTransfer ==
    /\ At("freeFailed") \/ At("freeCaptured")
    /\ read' = [read EXCEPT !.allocated = FALSE]
    /\ Go(IF At("freeCaptured") THEN "image" ELSE "cleanup")
    /\ UNCHANGED Rest

(***************************************************************************)
(* The image, its file, and the way out.                                   *)
(***************************************************************************)
ParseImage ==
    /\ At("image")
    /\ Go("write") \/ Go("cleanup")
    /\ UNCHANGED read /\ UNCHANGED Rest

Creatable == output = "absent"

\* Mutant: the result of fclose is ignored.
WritePgm_IgnoresClose ==
    /\ At("write")
    /\ Go("cleanup")
    /\ \/ UNCHANGED <<output, exit_code>>
       \/ Creatable /\ output' = "partial" /\ exit_code' = 0
       \/ Creatable /\ output' = "complete" /\ exit_code' = 0
    /\ UNCHANGED <<options, blobs, step, attempts, held, read, device>>

\* A file that cannot be written completely stays behind.
WritePgm ==
    /\ At("write")
    /\ Go("cleanup")
    /\ \/ UNCHANGED <<output, exit_code>>
       \/ Creatable /\ output' = "partial" /\ UNCHANGED exit_code
       \/ Creatable /\ output' = "complete" /\ exit_code' = 0
    /\ UNCHANGED <<options, blobs, step, attempts, held, read, device>>

Cleanup ==
    /\ At("cleanup")
    /\ held' = {}
    /\ Go("exited")
    /\ UNCHANGED <<options, blobs, step, attempts, read, device, output, exit_code>>

Program ==
    \/ ParseOptions \/ LoadBlobs \/ PrepareConfig
    \/ LibusbInit \/ OpenDevice \/ ClaimInterface \/ OperationControl \/ Exchange
    \/ WaitForCaptureEvent
    \/ AllocTransfer \/ SubmitTransfer \/ WriteCommand \/ HandleEventsFail
    \/ InspectFrame \/ CancelTransfer \/ CancelWait \/ FreeTransfer
    \/ ParseImage \/ WritePgm \/ Cleanup

Next == Program \/ BusCompletes \/ BulkReadCallback

Spec == Init /\ [][Next]_vars
=============================================================================
