------------------------- MODULE Syna0082Properties -------------------------
(***************************************************************************)
(* What the driver must guarantee, stated over the state of Syna0082.      *)
(***************************************************************************)
EXTENDS Syna0082

\* The variables have their types; sessions respects its bound.
TypeOK ==
    /\ dev \in DeviceType
    /\ finger \in BOOLEAN
    /\ sessions \in 0 .. MaxSessions

(***************************************************************************)
(* Conversations with the device.                                          *)
(***************************************************************************)
Activating == Count("control") + Count("initWrite") + Count("initRead") + dev.wake_timers
Listening == Count("finger") + Count("release")
Rearming == Count("rearmWrite") + Count("rearmRead")

\* The driver holds one conversation with the device: never two of the
\* activation handshake, the rearming, the interrupt read and the image read
\* at the same time, across a cancellation and the next action too.  Two of
\* them share init_stage, rearm_stage and awaiting_release
\* (init_send_stage, rearm_send_stage, start_interrupt).
SingleConversation ==
    Activating + Rearming + Listening + Count("captureRead") <= 1

\* While an action is not cancelled, whatever was cancelled before it, and every
\* image of it gave a print, the transfer in flight is the one the framework's
\* state calls for: exactly one step of the handshake while activating, one
\* rearming step or interrupt read while waiting for a finger, the image read
\* while capturing, the quiet read while waiting for the finger to leave; and
\* the device rests in no other active state.  (After an unusable image
\* dev_extract_print takes a stage for the last one and the driver rearms while
\* it waits for the finger to leave; see DeactivatesFromIdle.)
ConversationMatchesState ==
    ~dev.cancelled /\ dev.rejects = 0 =>
        /\ SingleConversation
        /\ dev.state \notin {"idle", "deactivating"}
        /\ dev.state = "activating" => Activating = 1
        /\ dev.state = "awaitFingerOn" => Rearming + Count("finger") = 1
        /\ dev.state = "capture" => Count("captureRead") = 1
        /\ dev.state = "awaitFingerOff" => Count("release") = 1

\* An active device always has something in flight that will call the driver
\* back, or an idle source that will deactivate it: no sequence of rejected
\* images, cancellations and late answers leaves it waiting for nothing.
NeverStranded ==
    \/ dev.cancel_idle
    \/ /\ dev.state = "activating" => Activating > 0
       /\ dev.state = "awaitFingerOn" => Rearming + Listening + Count("captureRead") > 0
       /\ dev.state = "capture" => Count("captureRead") > 0
       /\ dev.state = "awaitFingerOff" => Listening > 0

\* When the client holds no action the device is inactive and remembers no
\* error: what fp_image_device_close asserts, and what the next action needs.
IdleMeansInactive ==
    dev.action = "none" =>
        /\ ~dev.active /\ dev.state = "inactive"
        /\ dev.action_error = "none"

\* A transfer of a cancelled action is still in flight.
Doomed == \E k \in Kinds : dev.flight[<<k, "doomed">>] > 0

\* Without faults only a cancelled action makes the framework log a warning,
\* while it ends or by what it left in flight, or one that an unusable image
\* confused: no other deactivates a device that is not idle (which the
\* regression test makes fatal), or reports an error to an inactive device.
NoFrameworkWarnings ==
    [][\/ dev'.warnings \subseteq dev.warnings
       \/ dev.cancelled \/ Doomed \/ dev'.rejects > 0]_vars

(***************************************************************************)
(* Fingers and enrollment stages.                                          *)
(***************************************************************************)
\* A held finger cannot satisfy two enrollment stages (capture_read_cb,
\* interrupt_cb): a stage is counted only for a touch not counted before.
HeldFingerOnce ==
    [][dev'.enroll_stage > dev.enroll_stage => ~dev.credited]_vars

\* While the touch that has been counted lasts, no image is being read for a
\* stage and the driver still waits for the finger to leave: neither a late
\* answer, a rejected image nor the next activation forgets awaiting_release
\* under a resting finger.
CountedTouchWatched ==
    dev.credited => dev.state # "capture" /\ (finger => dev.awaiting_release)

\* No callback leaves a deactivation half done, and the framework's idle
\* source exists only for a cancelled action that has not finished yet.
SettledBetweenCallbacks ==
    /\ ~dev.deactivating
    /\ dev.cancel_idle => dev.cancelled /\ ~dev.returning

\* The step from an image to the next touch.
AwaitsNextTouch ==
    dev.state \in {"capture", "awaitFingerOff"} /\ dev'.state = "awaitFingerOn"

\* After an image the next touch is awaited only once the finger has left the
\* sensor (the quiet period of start_interrupt), as long as every image gave a
\* print: earlier stages keep the delayed finger-off that dev_extract_print
\* skips for the final one.
DelayedFingerOff ==
    [][AwaitsNextTouch => ~finger \/ dev'.rejects > 0]_vars

\* The step that completes the action.
Completes == ~dev.returning /\ dev'.returning

\* An enrollment succeeds only with a gallery of all its stages.
EnrollNeedsAllStages ==
    [][Completes /\ dev.action = "enroll" /\ dev'.result = "ok"
         => dev'.enroll_stage = NrEnrollStages]_vars

(***************************************************************************)
(* Activation and its one retry.                                           *)
(***************************************************************************)
\* An activation fails with NO_DEVICE only at its second attempt, whichever
\* transfer of the handshake met the disconnect.
NoDeviceRetriedFirst ==
    [][Completes /\ ~dev.active /\ dev.state = "activating" /\ dev'.result = "noDevice"
         => dev.controls = 2]_vars

\* A device that has dropped off the bus starts afresh, so an activation
\* succeeds only when all seven exchanges of the handshake were answered after
\* the last operation-control request.
ActiveAfterFullHandshake ==
    [][~dev.active /\ dev'.active => dev'.exchanges = 7]_vars

(***************************************************************************)
(* Outcomes.                                                               *)
(***************************************************************************)
\* An action whose images all gave a print fails with a bus error only when the
\* bus had one: the end of a quiet period never becomes the client's TIMED_OUT.
FaultsExplainErrors ==
    dev.rejects = 0 /\ dev.result \in BusErrors => dev.result \in Faults

\* Every action the client starts ends, if the user keeps touching the sensor.
EveryActionFinishes == dev.action # "none" ~> dev.action = "none"

\* A cancelled action ends whatever it was doing and without another touch.
CancelledActionEnds == dev.cancelled ~> dev.action = "none"

\* What the client sees is an action of ActionContract: progress by fresh
\* touches, one outcome, success only with the progress the action needs,
\* "cancelled" only when asked for.
NoAction == dev.action = "none"

Promise == INSTANCE ActionContract WITH
    Kinds <- ActionKinds,
    Needed <- [k \in ActionKinds |->
                 CASE k = "enroll" -> NrEnrollStages
                   [] k = "capture" -> 0
                   [] OTHER -> 1],
    phase <- IF NoAction THEN "idle" ELSE IF dev.returning THEN "finished" ELSE "running",
    kind <- dev.action,
    progress <- IF NoAction \/ dev.result = "wrongType" THEN 0
                ELSE IF dev.action = "enroll" THEN dev.enroll_stage
                ELSE IF dev.report = "result" THEN 1 ELSE 0,
    fresh <- NoAction \/ ~dev.credited,
    asked <- dev.cancelled,
    outcome <- IF NoAction \/ dev.result = "pending" THEN "none"
               ELSE IF dev.result \in {"ok", "cancelled"} THEN dev.result ELSE "error"

ImplementsContract == Promise!Contract

(***************************************************************************)
(* What comments, documents and tests of the repository say and the code   *)
(* does not do.  Each is checked by a run that finds it violated.          *)
(***************************************************************************)
\* "Report the finger as removed now so that deactivation happens from IDLE"
\* (dev_extract_print): an enrollment never deactivates a device that is not
\* idle.
DeactivatesFromIdle == "notIdle" \notin dev.warnings

\* The regression test verifies right after it enrolled, and expects a result:
\* a verification on a bus without faults does not fail with a bus error.
VerifyAfterEnroll ==
    [][Completes /\ dev.action = "verify" => dev'.result \notin BusErrors]_vars
=============================================================================
