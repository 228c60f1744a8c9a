------------------------------ MODULE Syna0082 ------------------------------
(***************************************************************************)
(* The libfprint image driver for the 06cb:0082 reader (syna0082.c), the   *)
(* image-device framework that drives it, and the USB transfers and timers *)
(* that call it back.                                                      *)
(*                                                                         *)
(* Everything runs on one main loop: a step of this specification is one   *)
(* callback of that loop, with every synchronous call it makes.  The       *)
(* driver calls the framework and the framework calls the driver back      *)
(* inside the same callback (image_captured -> extract_print ->            *)
(* report_finger_status -> change_state -> rearm ...), so the functions    *)
(* are operators from a device record to a device record, composed in the  *)
(* order of the calls; the action of a callback is dev' = Callback(dev).   *)
(*                                                                         *)
(* What interleaves is the loop's sources: completions of transfers that   *)
(* are in flight, timers, idle sources, the client and the finger.         *)
(***************************************************************************)
EXTENDS Naturals, FiniteSets

CONSTANTS
    ActionKinds,     \* the actions the client starts: subset of ImageActions
    NrEnrollStages,  \* fp_device_get_nr_enroll_stages
    Faults,          \* what may go wrong on the bus: subset of BusErrors
    EagerClient,     \* may an action start while an earlier transfer is in flight?
    MayCancel,       \* may the client cancel an action?
    MaxSessions,     \* bound: actions the client starts
    MaxRejects       \* bound: unusable images per action

ImageActions == {"enroll", "verify", "identify", "capture"}
BusErrors == {"noDevice", "timedOut", "io", "invalid"}

ASSUME ConstantsAssumption ==
    /\ ActionKinds \subseteq ImageActions
    /\ NrEnrollStages \in Nat \ {0}
    /\ Faults \subseteq BusErrors
    /\ EagerClient \in BOOLEAN
    /\ MayCancel \in BOOLEAN
    /\ MaxSessions \in Nat
    /\ MaxRejects \in Nat

(***************************************************************************)
(* Transfers.  "finger" and "release" are the two interrupt reads of       *)
(* start_interrupt: without a timeout, and with RELEASE_QUIET_MS.  A       *)
(* transfer is tagged by its cancellable: "own" belongs to the action in   *)
(* progress, "stale" to none that can still be cancelled, "doomed" to an   *)
(* action that has been cancelled.                                         *)
(***************************************************************************)
Kinds == {"control", "initWrite", "initRead", "finger", "release",
          "captureWrite", "captureRead", "rearmWrite", "rearmRead"}
Tags == {"own", "stale", "doomed"}
Transfers == Kinds \X Tags

FwStates == {"inactive", "activating", "idle", "awaitFingerOn", "capture",
             "awaitFingerOff", "deactivating"}

\* "none" is no error; "invalid" a malformed answer, or print data of the
\* wrong form; "wrongType" an enrollment print that already has another type.
Errors == BusErrors \cup {"none", "cancelled", "invalid", "retry", "busy", "wrongType"}
Warnings == {"notIdle", "inactiveError", "doubleCompletion", "criticalCall"}

\* What the image shows: enough features, too few, or features that the
\* stored gallery cannot be combined with.
Images == {"features", "noFeatures", "badGallery"}

VARIABLES
    dev,        \* framework and driver fields, transfers in flight, timers
    finger,     \* is a finger on the sensor?
    sessions    \* actions started so far

vars == <<dev, finger, sessions>>

DeviceType ==
    [ (* FpDevice *)
      open : BOOLEAN, action : ImageActions \cup {"none"},
      returning : BOOLEAN, result : Errors \cup {"ok", "unreported", "pending"},
      cancelled : BOOLEAN, cancel_idle : BOOLEAN, report : {"none", "result", "retry"},
      (* FpImageDevicePrivate *)
      state : FwStates, active : BOOLEAN, action_error : Errors,
      enroll_stage : Nat, enroll_await_on_pending : BOOLEAN,
      minutiae_scan_active : BOOLEAN,
      (* struct _FpiDeviceSyna0082 *)
      config_06 : BOOLEAN, scan_02 : {"null", "initial", "enroll"},
      init_stage : Nat, rearm_stage : Nat, capture_count : Nat,
      deactivating : BOOLEAN, awaiting_release : BOOLEAN,
      wake_retry_used : BOOLEAN,
      (* main loop *)
      flight : [Transfers -> Nat], wake_timers : Nat,
      (* history: is this touch already a stage, images rejected so far,     *)
      (* operation-control requests of this activation, init exchanges       *)
      (* answered since the last of them, warnings logged                    *)
      credited : BOOLEAN, rejects : Nat, controls : Nat, exchanges : Nat,
      warnings : SUBSET Warnings ]

Warn(s, w) == [s EXCEPT !.warnings = @ \cup {w}]

(***************************************************************************)
(* fpi_usb_transfer_submit with fpi_device_get_cancellable, and the        *)
(* removal of a completed transfer before its callback runs.               *)
(***************************************************************************)
SubmitTag(s) == IF s.action = "none" THEN "stale"
                ELSE IF s.cancelled THEN "doomed" ELSE "own"

Submit(s, kind) == [s EXCEPT !.flight[<<kind, SubmitTag(s)>>] = @ + 1]

Reap(s, kind, tag) == [s EXCEPT !.flight[<<kind, tag>>] = @ - 1]

\* Mutant: a callback may run again for a transfer it has consumed.
InFlight_CallbackTwice(kind) == {tag \in Tags : dev.flight[<<kind, tag>>] >= 0}

InFlight(kind) == {tag \in Tags : dev.flight[<<kind, tag>>] > 0}

Count(kind) ==
    dev.flight[<<kind, "own">>] + dev.flight[<<kind, "stale">>]
        + dev.flight[<<kind, "doomed">>]

Quiescent == /\ \A x \in Transfers : dev.flight[x] = 0
             /\ dev.wake_timers = 0

(***************************************************************************)
(* Framework: completion of an action.                                     *)
(***************************************************************************)
Complete(s, r) ==
    IF s.action = "none" \/ s.returning
    THEN Warn(s, "doubleCompletion")
    ELSE [s EXCEPT !.returning = TRUE, !.result = r, !.cancel_idle = FALSE]

\* Mutant: the latest outcome replaces the error kept so far.
FirstError_LastWins(s, e) == e

\* The first error is kept, unless it was only a retry.
FirstError(s, e) ==
    IF e # "none" /\ s.action_error \in {"none", "retry"} THEN e ELSE s.action_error

ActionResult(s, e) ==
    IF e # "none" THEN e
    ELSE IF s.cancelled THEN "cancelled"
    ELSE IF s.action \in {"verify", "identify"} /\ s.report # "result"
         THEN (IF s.report = "retry" THEN "retry" ELSE "unreported")
    ELSE "ok"

MaybeCompleteAction(s, e) ==
    LET err == FirstError(s, e)
    IN  IF s.state # "inactive" \/ s.minutiae_scan_active
        THEN [s EXCEPT !.action_error = err]
        ELSE Complete([s EXCEPT !.action_error = "none"], ActionResult(s, err))

DeactivateComplete(s) ==
    IF (s.active \/ s.state = "activating") /\ s.action # "none"
    THEN MaybeCompleteAction([s EXCEPT !.active = FALSE, !.state = "inactive"], "none")
    ELSE Warn(s, "criticalCall")

(***************************************************************************)
(* Driver: deactivation, interrupt reads, rearming.                        *)
(***************************************************************************)
CompleteDeactivation(s) ==
    IF s.deactivating
    THEN DeactivateComplete([s EXCEPT !.deactivating = FALSE])
    ELSE s

\* Mutant: deactivation waits for the outstanding interrupt read to end.
DevDeactivate_WaitForRead(s) == [s EXCEPT !.deactivating = TRUE]

DevDeactivate(s) == CompleteDeactivation([s EXCEPT !.deactivating = TRUE])

StartInterrupt(s) ==
    IF s.deactivating
    THEN CompleteDeactivation(s)
    ELSE Submit(s, IF s.awaiting_release THEN "release" ELSE "finger")

\* Stage 0 sends config_39, stage 1 scan_02 with its mode byte set to 0x23.
RearmSendStage(s) ==
    Submit(IF s.rearm_stage = 0 THEN s ELSE [s EXCEPT !.scan_02 = "enroll"], "rearmWrite")

DevChangeState(s, state) ==
    IF state # "awaitFingerOn" THEN s
    ELSE IF s.capture_count = 0 THEN StartInterrupt(s)
    ELSE RearmSendStage([s EXCEPT !.rearm_stage = 0])

StartCapture(s) == Submit(Submit(s, "captureRead"), "captureWrite")

SubmitOperationControl(s) ==
    Submit([s EXCEPT !.controls = @ + 1, !.exchanges = 0], "control")

InitSendStage(s) == Submit(s, "initWrite")

DevActivate(s) ==
    SubmitOperationControl(
        [s EXCEPT !.deactivating = FALSE, !.init_stage = 0, !.capture_count = 0,
                  !.awaiting_release = FALSE, !.wake_retry_used = FALSE,
                  !.controls = 0])

(***************************************************************************)
(* Framework: the state machine of an image device.                        *)
(***************************************************************************)
ChangeState(s, state) == DevChangeState([s EXCEPT !.state = state], state)

Deactivate(s, cancelling) ==
    IF ~s.active \/ s.state = "deactivating" THEN s
    ELSE LET logged == IF ~cancelling /\ s.state # "idle" THEN Warn(s, "notIdle") ELSE s
         IN  DevDeactivate([logged EXCEPT !.state = "deactivating"])

ActivateComplete(s, e) ==
    IF s.active \/ s.action = "none" THEN Warn(s, "criticalCall")
    ELSE IF e # "none" THEN Complete([s EXCEPT !.state = "inactive"], e)
    ELSE ChangeState(ChangeState([s EXCEPT !.active = TRUE], "idle"), "awaitFingerOn")

SessionError(s, e) ==
    IF s.active THEN Deactivate(MaybeCompleteAction(s, e), TRUE)
    ELSE IF s.action # "none" THEN ActivateComplete(Warn(s, "inactiveError"), e)
    ELSE MaybeCompleteAction(Warn(s, "inactiveError"), e)

EnrollMaybeAwaitFingerOn(s) ==
    IF s.enroll_await_on_pending
    THEN ChangeState([s EXCEPT !.enroll_await_on_pending = FALSE], "awaitFingerOn")
    ELSE [s EXCEPT !.enroll_await_on_pending = TRUE]

ReportFingerStatus(s, present) ==
    IF present /\ s.state = "awaitFingerOn" THEN ChangeState(s, "capture")
    ELSE IF ~present /\ s.state = "awaitFingerOff"
    THEN LET t == ChangeState(s, "idle")
         IN  IF s.action = "enroll" THEN EnrollMaybeAwaitFingerOn(t) ELSE Deactivate(t, FALSE)
    ELSE s

(***************************************************************************)
(* Framework and driver: an image, its print, and what becomes of it.      *)
(***************************************************************************)
\* Mutant: without patch 0007.
ExtractPrint_NoEarlyOff(s, image) == s

\* Mutant: finger-off is reported early at every stage.
ExtractPrint_AlwaysEarlyOff(s, image) ==
    IF image # "noFeatures" /\ s.action = "enroll" THEN ReportFingerStatus(s, FALSE) ELSE s

\* dev_extract_print reports finger-off early for what it takes to be the
\* final enrollment stage.
ExtractPrint(s, image) ==
    IF image # "noFeatures" /\ s.action = "enroll" /\ s.capture_count = NrEnrollStages
    THEN ReportFingerStatus(s, FALSE)
    ELSE s

\* dev_append_print adds the print to the gallery, or fails.
AppendPrint(s, image) ==
    IF image = "features"
    THEN [s EXCEPT !.enroll_stage = @ + 1, !.credited = TRUE]
    ELSE s

\* Mutant: the stage of the present touch is counted before it is appended.
EnrollmentFull_OneEarly(s) == s.enroll_stage + 1 >= NrEnrollStages

EnrollmentFull(s) == s.enroll_stage = NrEnrollStages

ProcessPrint(s, image) ==
    CASE s.action = "capture" ->
           MaybeCompleteAction(s, IF image = "noFeatures" THEN "retry" ELSE "none")
      [] s.action = "enroll" ->
           LET t == AppendPrint(s, image)
           IN  IF EnrollmentFull(t)
               THEN Deactivate(MaybeCompleteAction(t, "none"), FALSE)
               ELSE EnrollMaybeAwaitFingerOn(t)
      [] OTHER ->
           CASE image = "features" -> MaybeCompleteAction([s EXCEPT !.report = "result"], "none")
             [] image = "noFeatures" -> MaybeCompleteAction([s EXCEPT !.report = "retry"], "none")
             [] OTHER -> MaybeCompleteAction(s, "invalid")

Rejected(s, image) ==
    IF image = "features" THEN s ELSE [s EXCEPT !.rejects = @ + 1]

\* A capture action detects minutiae in a thread; every other action
\* extracts and processes the print before image_captured returns.
ImageCaptured(s, image) ==
    IF s.state # "capture" \/ s.action = "none" THEN Warn(s, "criticalCall")
    ELSE LET t == ChangeState([s EXCEPT !.minutiae_scan_active = TRUE], "awaitFingerOff")
         IN  IF s.action = "capture" THEN t
             ELSE ProcessPrint(
                    [ExtractPrint(Rejected(t, image), image)
                        EXCEPT !.minutiae_scan_active = FALSE],
                    image)

(***************************************************************************)
(* Driver: the callbacks.  e is the error of the transfer, "none" when it  *)
(* succeeded.                                                              *)
(***************************************************************************)
FailSessionOrDeactivate(s, e) ==
    IF s.deactivating THEN CompleteDeactivation(s) ELSE SessionError(s, e)

\* Mutant: finger-off is reported as soon as the image is there.
CaptureReadCb_FingerOffAtOnce(s, e, image) ==
    IF e # "none" THEN FailSessionOrDeactivate(s, e)
    ELSE ReportFingerStatus(ImageCaptured([s EXCEPT !.capture_count = @ + 1], image), FALSE)

\* "invalid": the frame or the image size is wrong.
CaptureReadCb(s, e, image) ==
    IF e # "none" THEN FailSessionOrDeactivate(s, e)
    ELSE LET t == ImageCaptured([s EXCEPT !.capture_count = @ + 1], image)
         IN  StartInterrupt([t EXCEPT !.awaiting_release = TRUE])

CaptureWriteCb(s, e) == IF e # "none" THEN FailSessionOrDeactivate(s, e) ELSE s

\* Mutant: the end of the quiet period is an error like any other.
InterruptErrorCb_QuietFails(s, e) ==
    IF e = "cancelled" THEN CompleteDeactivation(s) ELSE FailSessionOrDeactivate(s, e)

InterruptErrorCb(s, e) ==
    IF e = "cancelled" THEN CompleteDeactivation(s)
    ELSE IF s.awaiting_release /\ e = "timedOut"
    THEN ReportFingerStatus([s EXCEPT !.awaiting_release = FALSE], FALSE)
    ELSE FailSessionOrDeactivate(s, e)

InterruptFingerCb(s) ==
    IF s.awaiting_release THEN StartInterrupt(s)
    ELSE StartCapture(ReportFingerStatus(s, TRUE))

WakeRetryApplies(s, e) == ~s.wake_retry_used /\ e = "noDevice"

\* Mutant: the retry is claimed and its timer is not started.
WakeRetryOrFail_NoTimer(s, e) ==
    IF WakeRetryApplies(s, e) THEN [s EXCEPT !.wake_retry_used = TRUE]
    ELSE ActivateComplete(s, e)

WakeRetryOrFail(s, e) ==
    IF WakeRetryApplies(s, e)
    THEN [s EXCEPT !.wake_retry_used = TRUE, !.wake_timers = @ + 1]
    ELSE ActivateComplete(s, e)

\* Mutant: the retry goes on at the stage that was interrupted.
WakeRetryTimeoutCb_NoReset(s) ==
    LET t == [s EXCEPT !.wake_timers = @ - 1]
    IN  IF t.deactivating THEN t ELSE SubmitOperationControl(t)

WakeRetryTimeoutCb(s) ==
    LET t == [s EXCEPT !.wake_timers = @ - 1]
    IN  IF t.deactivating THEN t ELSE SubmitOperationControl([t EXCEPT !.init_stage = 0])

\* "invalid": the two-byte response is not 00 00.
OperationControlCb(s, e) ==
    CASE e = "none" -> InitSendStage(s)
      [] e = "invalid" -> ActivateComplete(s, e)
      [] OTHER -> WakeRetryOrFail(s, e)

\* Mutant: a disconnect in the write phase is not absorbed.
InitWriteCb_NoRetry(s, e) ==
    IF e # "none" THEN ActivateComplete(s, e) ELSE Submit(s, "initRead")

InitWriteCb(s, e) == IF e # "none" THEN WakeRetryOrFail(s, e) ELSE Submit(s, "initRead")

\* Mutant: the error branch does not return.
InitReadCb_FallsThrough(s, e) ==
    LET failed == IF e # "none" THEN WakeRetryOrFail(s, e) ELSE s
        t == [failed EXCEPT !.init_stage = @ + 1, !.exchanges = @ + 1]
    IN  IF t.init_stage = 7 THEN ActivateComplete(t, "none") ELSE InitSendStage(t)

InitReadCb(s, e) ==
    IF e # "none" THEN WakeRetryOrFail(s, e)
    ELSE LET t == [s EXCEPT !.init_stage = @ + 1, !.exchanges = @ + 1]
         IN  IF t.init_stage = 7 THEN ActivateComplete(t, "none") ELSE InitSendStage(t)

RearmWriteCb(s, e) ==
    IF e # "none" THEN FailSessionOrDeactivate(s, e) ELSE Submit(s, "rearmRead")

\* Mutant: the rearmed sensor is not listened to.
RearmReadCb_NoInterrupt(s, e) ==
    IF e # "none" THEN FailSessionOrDeactivate(s, e)
    ELSE LET t == [s EXCEPT !.rearm_stage = @ + 1]
         IN  IF t.rearm_stage = 2 THEN t ELSE RearmSendStage(t)

RearmReadCb(s, e) ==
    IF e # "none" THEN FailSessionOrDeactivate(s, e)
    ELSE LET t == [s EXCEPT !.rearm_stage = @ + 1]
         IN  IF t.rearm_stage = 2 THEN StartInterrupt(t) ELSE RearmSendStage(t)

(***************************************************************************)
(* Initial state: a device that has been enumerated and not opened.        *)
(***************************************************************************)
Init ==
    /\ dev = [open |-> FALSE, action |-> "none", returning |-> FALSE,
              result |-> "pending", cancelled |-> FALSE, cancel_idle |-> FALSE,
              report |-> "none", state |-> "inactive", active |-> FALSE,
              action_error |-> "none", enroll_stage |-> 0,
              enroll_await_on_pending |-> FALSE, minutiae_scan_active |-> FALSE,
              config_06 |-> FALSE, scan_02 |-> "null", init_stage |-> 0,
              rearm_stage |-> 0, capture_count |-> 0, deactivating |-> FALSE,
              awaiting_release |-> FALSE, wake_retry_used |-> FALSE,
              flight |-> [x \in Transfers |-> 0], wake_timers |-> 0,
              credited |-> FALSE, rejects |-> 0, controls |-> 0, exchanges |-> 0,
              warnings |-> {}]
    /\ finger = FALSE
    /\ sessions = 0

(***************************************************************************)
(* The outcomes of a transfer.  Data needs an open device.  Completions    *)
(* are delivered by tasks that check their cancellable, so once it is      *)
(* cancelled every outcome is "cancelled".                                 *)
(***************************************************************************)
Outcomes(tag) ==
    IF tag = "doomed" THEN {"cancelled"}
    ELSE (IF dev.open THEN {"none"} ELSE {"noDevice"}) \cup (Faults \ {"invalid"})

\* The reads whose content the driver checks.
CheckedOutcomes(tag) ==
    Outcomes(tag) \cup (IF tag # "doomed" /\ dev.open THEN Faults \cap {"invalid"} ELSE {})

AvailableImages ==
    IF dev.rejects < MaxRejects THEN Images ELSE {"features"}

OperationControl ==
    /\ \E tag \in InFlight("control") : \E e \in CheckedOutcomes(tag) :
          dev' = OperationControlCb(Reap(dev, "control", tag), e)
    /\ UNCHANGED <<finger, sessions>>

InitWrite ==
    /\ \E tag \in InFlight("initWrite") : \E e \in Outcomes(tag) :
          dev' = InitWriteCb(Reap(dev, "initWrite", tag), e)
    /\ UNCHANGED <<finger, sessions>>

InitRead ==
    /\ \E tag \in InFlight("initRead") : \E e \in Outcomes(tag) :
          dev' = InitReadCb(Reap(dev, "initRead", tag), e)
    /\ UNCHANGED <<finger, sessions>>

RearmWrite ==
    /\ \E tag \in InFlight("rearmWrite") : \E e \in Outcomes(tag) :
          dev' = RearmWriteCb(Reap(dev, "rearmWrite", tag), e)
    /\ UNCHANGED <<finger, sessions>>

RearmRead ==
    /\ \E tag \in InFlight("rearmRead") : \E e \in Outcomes(tag) :
          dev' = RearmReadCb(Reap(dev, "rearmRead", tag), e)
    /\ UNCHANGED <<finger, sessions>>

CaptureWrite ==
    /\ \E tag \in InFlight("captureWrite") : \E e \in Outcomes(tag) :
          dev' = CaptureWriteCb(Reap(dev, "captureWrite", tag), e)
    /\ UNCHANGED <<finger, sessions>>

\* The image read is submitted before its command is written, and answered
\* after it.
CaptureRead ==
    /\ \E tag \in InFlight("captureRead") : \E e \in CheckedOutcomes(tag) :
       \E image \in AvailableImages :
          /\ e = "none" => Count("captureWrite") < Count("captureRead")
          /\ dev' = CaptureReadCb(Reap(dev, "captureRead", tag), e, image)
    /\ UNCHANGED <<finger, sessions>>

WakeRetryTimeout ==
    /\ dev.wake_timers > 0
    /\ dev' = WakeRetryTimeoutCb(dev)
    /\ UNCHANGED <<finger, sessions>>

(***************************************************************************)
(* Interrupt reads.  The sensor repeats its finger event while a finger    *)
(* rests on it, so the quiet period of a release read passes only when no  *)
(* finger does.                                                            *)
(***************************************************************************)
InterruptKinds == {"finger", "release"}

InterruptFinger ==
    /\ dev.open /\ finger
    /\ \E kind \in InterruptKinds : \E tag \in InFlight(kind) \ {"doomed"} :
          dev' = InterruptFingerCb(Reap(dev, kind, tag))
    /\ UNCHANGED <<finger, sessions>>

\* Any other report of the interrupt endpoint: listen again.
InterruptOther ==
    /\ dev.open
    /\ \E kind \in InterruptKinds : \E tag \in InFlight(kind) \ {"doomed"} :
          dev' = StartInterrupt(Reap(dev, kind, tag))
    /\ UNCHANGED <<finger, sessions>>

ReleaseTimedOut ==
    /\ ~finger
    /\ \E tag \in InFlight("release") \ {"doomed"} :
          dev' = InterruptErrorCb(Reap(dev, "release", tag), "timedOut")
    /\ UNCHANGED <<finger, sessions>>

InterruptCancelled ==
    /\ \E kind \in InterruptKinds :
          /\ "doomed" \in InFlight(kind)
          /\ dev' = InterruptErrorCb(Reap(dev, kind, "doomed"), "cancelled")
    /\ UNCHANGED <<finger, sessions>>

InterruptFault ==
    /\ \E kind \in InterruptKinds : \E tag \in InFlight(kind) :
       \E e \in Outcomes(tag) \ {"none", "timedOut", "cancelled"} :
          dev' = InterruptErrorCb(Reap(dev, kind, tag), e)
    /\ UNCHANGED <<finger, sessions>>

(***************************************************************************)
(* Framework: the minutiae thread of a capture action, idle sources.       *)
(***************************************************************************)
MinutiaeDetected ==
    /\ dev.minutiae_scan_active
    /\ LET done == [dev EXCEPT !.minutiae_scan_active = FALSE]
       IN  \/ \E image \in AvailableImages \ {"badGallery"} :
                dev' = ProcessPrint(done, IF dev.action = "capture" THEN image ELSE "badGallery")
           \/ /\ dev.cancelled
              /\ dev' = Deactivate(MaybeCompleteAction(done, "cancelled"), TRUE)
    /\ UNCHANGED <<finger, sessions>>

CancelInIdle ==
    /\ dev.cancel_idle
    /\ dev' = Deactivate([dev EXCEPT !.cancel_idle = FALSE], TRUE)
    /\ UNCHANGED <<finger, sessions>>

\* The task returns to the client; nobody can cancel its transfers any more.
TaskReturn ==
    /\ dev.returning
    /\ dev' = [dev EXCEPT !.returning = FALSE, !.action = "none", !.cancelled = FALSE,
                  !.flight = [x \in Transfers |->
                     CASE x[2] = "own" -> 0
                       [] x[2] = "stale" -> dev.flight[x] + dev.flight[<<x[1], "own">>]
                       [] OTHER -> dev.flight[x]]]
    /\ UNCHANGED <<finger, sessions>>

(***************************************************************************)
(* Client and finger.                                                      *)
(***************************************************************************)
ClientMayProceed == dev.action = "none" /\ (EagerClient \/ Quiescent)

OpenOutcomes == {"ok", "resetFails", "badConfig", "badScan", "claimFails"}

\* dev_open returns at the first step that fails and undoes none of the
\* earlier ones.
Open ==
    /\ ~dev.open /\ ClientMayProceed
    /\ \E o \in OpenOutcomes :
          dev' = [dev EXCEPT
                    !.open = (o = "ok"),
                    !.config_06 = IF o = "resetFails" THEN @ ELSE o # "badConfig",
                    !.scan_02 = CASE o \in {"resetFails", "badConfig"} -> @
                                  [] o = "badScan" -> "null"
                                  [] OTHER -> "initial"]
    /\ UNCHANGED <<finger, sessions>>

Close ==
    /\ dev.open /\ ClientMayProceed
    /\ dev' = [dev EXCEPT !.open = FALSE, !.config_06 = FALSE, !.scan_02 = "null"]
    /\ UNCHANGED <<finger, sessions>>

\* An enrollment print of the wrong type, and a device that is not inactive
\* yet, fail the new action.
StartAction(action) ==
    /\ dev.open /\ ClientMayProceed
    /\ sessions < MaxSessions
    /\ sessions' = sessions + 1
    /\ LET asked == [dev EXCEPT !.action = action, !.result = "pending",
                        !.report = "none", !.credited = FALSE, !.rejects = 0]
           started == [asked EXCEPT !.enroll_stage = 0, !.enroll_await_on_pending = FALSE]
       IN  \/ action = "enroll" /\ dev' = Complete(asked, "wrongType")
           \/ dev' = IF dev.active \/ dev.state # "inactive"
                     THEN Complete(started, "busy")
                     ELSE DevActivate([started EXCEPT !.state = "activating"])
    /\ UNCHANGED finger

\* The cancellable is cancelled at once, the framework hears of it in idle.
Cancel ==
    /\ MayCancel
    /\ dev.action # "none" /\ ~dev.returning /\ ~dev.cancelled
    /\ dev' = [dev EXCEPT !.cancelled = TRUE, !.cancel_idle = TRUE,
                  !.flight = [x \in Transfers |->
                     CASE x[2] = "own" -> 0
                       [] x[2] = "doomed" -> dev.flight[x] + dev.flight[<<x[1], "own">>]
                       [] OTHER -> dev.flight[x]]]
    /\ UNCHANGED <<finger, sessions>>

FingerDown ==
    /\ ~finger
    /\ finger' = TRUE
    /\ dev' = [dev EXCEPT !.credited = FALSE]
    /\ UNCHANGED sessions

FingerUp ==
    /\ finger
    /\ finger' = FALSE
    /\ UNCHANGED <<dev, sessions>>

Callback ==
    \/ OperationControl \/ InitWrite \/ InitRead
    \/ RearmWrite \/ RearmRead \/ CaptureWrite \/ CaptureRead
    \/ WakeRetryTimeout \/ MinutiaeDetected \/ CancelInIdle \/ TaskReturn

Interrupt ==
    \/ InterruptFinger \/ InterruptOther \/ ReleaseTimedOut
    \/ InterruptCancelled \/ InterruptFault

Client == Open \/ Close \/ (\E a \in ActionKinds : StartAction(a)) \/ Cancel

Finger == FingerDown \/ FingerUp

Next == Callback \/ Interrupt \/ Client \/ Finger

Spec == Init /\ [][Next]_vars

(***************************************************************************)
(* Fairness.  The main loop dispatches every source that stays ready, and  *)
(* a transfer with a timeout always completes.  A read without a timeout   *)
(* completes only by a finger, a fault or a cancellation: nothing is       *)
(* assumed of it here beyond the cancellation.                             *)
(***************************************************************************)
LoopFairness ==
    /\ WF_vars(OperationControl) /\ WF_vars(InitWrite) /\ WF_vars(InitRead)
    /\ WF_vars(RearmWrite) /\ WF_vars(RearmRead)
    /\ WF_vars(CaptureWrite) /\ WF_vars(CaptureRead)
    /\ WF_vars(WakeRetryTimeout) /\ WF_vars(MinutiaeDetected)
    /\ WF_vars(CancelInIdle) /\ WF_vars(TaskReturn)
    /\ WF_vars(InterruptCancelled)

\* The user keeps touching the sensor and leaving it, now and then for long
\* enough to be noticed.
UserFairness ==
    /\ WF_vars(FingerDown) /\ WF_vars(FingerUp)
    /\ SF_vars(InterruptFinger) /\ SF_vars(ReleaseTimedOut)

LoopSpec == Spec /\ LoopFairness
LiveSpec == LoopSpec /\ UserFairness
=============================================================================
