-------------------------- MODULE ConversationProofs --------------------------
(***************************************************************************)
(* Proofs about the conversation of Syna0082 with the device, for a client *)
(* that starts an action once the transfers of the last one are over (a    *)
(* patient client; what an eager one meets is a finding of the runs), and  *)
(* for every value of the other constants.                                 *)
(*                                                                         *)
(* The invariant says in which of four phases the device is, and what each *)
(* phase leaves in flight: resting between actions, shaking hands while it *)
(* is activated, serving touches, and detecting minutiae after it has been *)
(* deactivated under a capture action.  One lemma per call gives the       *)
(* record it returns, one lemma per callback and phase the phase it leads  *)
(* to.  The last theorem is the refinement: what the client sees is an     *)
(* action of ActionContract.                                               *)
(***************************************************************************)
EXTENDS Syna0082Proofs

-----------------------------------------------------------------------------
(* What is in flight. *)

Pending(s) ==
    [k \in Kinds |-> s.flight[<<k, "own">>] + s.flight[<<k, "stale">>]
                        + s.flight[<<k, "doomed">>]]

Shakes(s) ==
    Pending(s)["control"] + Pending(s)["initWrite"] + Pending(s)["initRead"]
        + s.wake_timers
Rearms(s) == Pending(s)["rearmWrite"] + Pending(s)["rearmRead"]
Fingers(s) == Pending(s)["finger"]
Releases(s) == Pending(s)["release"]
Reads(s) == Pending(s)["captureRead"]
Writes(s) == Pending(s)["captureWrite"]
Talks(s) == Shakes(s) + Rearms(s) + Fingers(s) + Releases(s) + Reads(s)

\* Every transfer of the action in progress carries its cancellable; without
\* an action nothing can be cancelled any more.
Tagged(s) ==
    \A x \in Transfers : s.flight[x] > 0 =>
        IF s.action = "none" THEN x[2] # "own" ELSE x[2] = SubmitTag(s)

-----------------------------------------------------------------------------
(* The phases. *)

Running(s) == s.action # "none" /\ ~s.returning

\* What holds in every phase.
Sane(s) ==
    /\ s.init_stage = s.exchanges
    /\ s.action = "none" => ~s.returning /\ ~s.cancelled /\ ~s.cancel_idle
    /\ s.action # "none" => (s.returning <=> s.result # "pending")
    /\ s.action = "capture" => s.report = "none"
    /\ s.action_error # "wrongType"
    /\ s.action_error = "cancelled" => s.cancelled
    /\ ~s.open => s.action = "none" /\ Talks(s) + Writes(s) = 0
    /\ Tagged(s)

\* What holds as long as every image of the action has given a print: one
\* conversation, and no bus error without a fault of the bus.
Clean(s) ==
    s.rejects = 0 =>
        /\ Talks(s) <= 1
        /\ s.action_error \in BusErrors => s.action_error \in Faults
        /\ s.result \in BusErrors => s.result \in Faults

\* On a bus without faults a finished action leaves behind only what has been
\* cancelled and the read that waits for the finger to leave.
Leftover(s) ==
    Faults = {} /\ s.rejects = 0 =>
        \A x \in Transfers : s.flight[x] > 0 =>
            x[2] = "doomed" \/ (x[1] = "release" /\ s.awaiting_release)

Resting(s) ==
    /\ s.state = "inactive" /\ ~s.active /\ ~Running(s)
    /\ s.action_error = "none" /\ ~s.minutiae_scan_active /\ ~s.cancel_idle
    /\ Shakes(s) = 0
    /\ Leftover(s)

\* A capture action that failed or was cancelled while the minutiae thread ran.
Detecting(s) ==
    /\ s.state = "inactive" /\ ~s.active /\ Running(s)
    /\ s.action = "capture" /\ s.minutiae_scan_active
    /\ Shakes(s) + Rearms(s) + Fingers(s) + Reads(s) + Writes(s) = 0
    /\ s.cancelled \/ Releases(s) = 0

\* n steps of the handshake are under way: one between two callbacks.
Shaking(s, n) ==
    /\ s.state = "activating" /\ ~s.active /\ Running(s)
    /\ s.action_error = "none" /\ ~s.minutiae_scan_active
    /\ Shakes(s) = n
    /\ Rearms(s) + Fingers(s) + Releases(s) + Reads(s) + Writes(s) = 0
    /\ s.controls + s.wake_timers = IF s.wake_retry_used THEN 2 ELSE 1
    /\ s.capture_count = 0 /\ ~s.awaiting_release /\ s.report = "none"
    /\ s.action = "enroll" => s.enroll_stage = 0 /\ ~s.enroll_await_on_pending

ServingStates == {"awaitFingerOn", "capture", "awaitFingerOff"}

\* The state of the framework, the fields of the driver and the action agree.
Agrees(s) ==
    /\ s.state \in ServingStates /\ s.active /\ Running(s)
    /\ s.cancelled => s.cancel_idle
    /\ s.action = "enroll" =>
         /\ s.enroll_stage < NrEnrollStages
         /\ s.enroll_await_on_pending <=> s.state = "awaitFingerOff"
         /\ s.action_error = "none"
         /\ s.rejects = 0 => s.capture_count = s.enroll_stage
    /\ s.minutiae_scan_active => s.action = "capture" /\ s.state = "awaitFingerOff"
    /\ s.state # "awaitFingerOff" =>
         s.action_error = "none" /\ (s.action # "enroll" => s.report = "none")
    /\ s.state = "capture" => ~s.awaiting_release
    /\ s.state = "awaitFingerOff" => s.awaiting_release /\ s.capture_count > 0

\* What may be in flight in each state.
Idles(s) ==
    /\ Shakes(s) = 0
    /\ s.state = "awaitFingerOn" => Reads(s) + Writes(s) = 0
    /\ s.state = "capture" => Rearms(s) + Fingers(s) + Releases(s) = 0
    /\ s.state = "awaitFingerOff" => Rearms(s) + Fingers(s) + Reads(s) + Writes(s) = 0

\* What is in flight while the action has not been cancelled.  The driver that
\* took a touch for the last one rearms while the release read of that touch
\* is in flight.
Listening1(s) ==
    IF s.awaiting_release
    THEN /\ Rearms(s) + Releases(s) = 2 /\ Releases(s) > 0 /\ Fingers(s) = 0
         /\ s.rejects > 0
    ELSE /\ Rearms(s) + Fingers(s) + Releases(s) = 1
         /\ s.rejects = 0 => Releases(s) = 0

Attended(s) ==
    /\ s.state = "awaitFingerOn" => Listening1(s)
    /\ s.state = "capture" => Reads(s) = 1
    /\ s.state = "awaitFingerOff" => Releases(s) = 1

Serving(s) == Agrees(s) /\ Idles(s) /\ (~s.cancelled => Attended(s))

Phase(s) == Resting(s) \/ Detecting(s) \/ Shaking(s, 1) \/ Serving(s)

PInv(s) == Sane(s) /\ Clean(s) /\ Phase(s)

-----------------------------------------------------------------------------
(* Which fields a call leaves alone. *)

SameData(s, t) ==
    /\ t.open = s.open /\ t.action = s.action /\ t.cancelled = s.cancelled
    /\ t.report = s.report /\ t.enroll_stage = s.enroll_stage
    /\ t.enroll_await_on_pending = s.enroll_await_on_pending
    /\ t.minutiae_scan_active = s.minutiae_scan_active
    /\ t.init_stage = s.init_stage /\ t.capture_count = s.capture_count
    /\ t.deactivating = s.deactivating /\ t.awaiting_release = s.awaiting_release
    /\ t.wake_retry_used = s.wake_retry_used /\ t.credited = s.credited
    /\ t.rejects = s.rejects /\ t.controls = s.controls /\ t.exchanges = s.exchanges

SameStatus(s, t) ==
    /\ t.state = s.state /\ t.active = s.active /\ t.returning = s.returning
    /\ t.result = s.result /\ t.action_error = s.action_error
    /\ t.cancel_idle = s.cancel_idle

SameBus(s, t) == t.flight = s.flight /\ t.wake_timers = s.wake_timers

Alike(s, t) == SameData(s, t) /\ SameStatus(s, t) /\ t.warnings = s.warnings

-----------------------------------------------------------------------------
(* Counting transfers. *)

LEMMA PendingType ==
  ASSUME NEW s \in DeviceType
  PROVE  /\ Pending(s) \in [Kinds -> Nat]
         /\ s.wake_timers \in Nat
<1>1. s.flight \in [Transfers -> Nat] /\ s.wake_timers \in Nat
  BY DEF DeviceType
<1>2. \A k \in Kinds : \A tag \in Tags : s.flight[<<k, tag>>] \in Nat
  BY <1>1 DEF Transfers
<1> QED
  BY <1>1, <1>2 DEF Pending, Tags

LEMMA CountsType ==
  ASSUME NEW s \in DeviceType
  PROVE  /\ Shakes(s) \in Nat /\ Rearms(s) \in Nat /\ Fingers(s) \in Nat
         /\ Releases(s) \in Nat /\ Reads(s) \in Nat /\ Writes(s) \in Nat
         /\ Talks(s) \in Nat
  BY PendingType DEF Kinds, Shakes, Rearms, Fingers, Releases, Reads, Writes, Talks

\* t is s with one more transfer of this kind in flight.
Posted(s, t, kind) ==
    /\ t \in DeviceType /\ Alike(s, t) /\ t.wake_timers = s.wake_timers
    /\ Pending(t) = [Pending(s) EXCEPT ![kind] = @ + 1]
    /\ Tagged(s) => Tagged(t)
    /\ \A x \in Transfers : t.flight[x] > 0 => s.flight[x] > 0 \/ x[1] = kind

LEMMA SubmitPosted ==
  ASSUME NEW s \in DeviceType, NEW kind \in Kinds
  PROVE  Posted(s, Submit(s, kind), kind)
<1> DEFINE t == Submit(s, kind)
           tag == SubmitTag(s)
<1>1. tag \in Tags /\ <<kind, tag>> \in Transfers
  BY DEF Transfers, Tags, SubmitTag
<1>2. s.flight \in [Transfers -> Nat]
  BY DEF DeviceType
<1>3. t \in DeviceType
  BY <1>1 DEF Submit, DeviceType
<1>4. /\ t.flight = [s.flight EXCEPT ![<<kind, tag>>] = @ + 1]
      /\ t.wake_timers = s.wake_timers /\ Alike(s, t)
  BY DEF Submit, DeviceType, Alike, SameData, SameStatus
<1> HIDE DEF t, tag
<1>5. \A x \in Transfers : t.flight[x] = IF x = <<kind, tag>> THEN s.flight[x] + 1 ELSE s.flight[x]
  BY <1>1, <1>2, <1>4
<1>6. \A k \in Kinds : \A g \in Tags :
         t.flight[<<k, g>>] = IF k = kind /\ g = tag THEN s.flight[<<k, g>>] + 1
                              ELSE s.flight[<<k, g>>]
  BY <1>5 DEF Transfers
<1>7. \A k \in Kinds : \A g \in Tags : s.flight[<<k, g>>] \in Nat
  BY <1>2 DEF Transfers
<1>8. \A k \in Kinds : Pending(t)[k] = IF k = kind THEN Pending(s)[k] + 1 ELSE Pending(s)[k]
  <2>1. TAKE k \in Kinds
  <2>2. CASE k # kind
    BY <2>2, <1>6 DEF Pending, Tags
  <2>3. CASE k = kind
    <3>1. /\ t.flight[<<k, "own">>] = IF tag = "own" THEN s.flight[<<k, "own">>] + 1
                                     ELSE s.flight[<<k, "own">>]
          /\ t.flight[<<k, "stale">>] = IF tag = "stale" THEN s.flight[<<k, "stale">>] + 1
                                       ELSE s.flight[<<k, "stale">>]
          /\ t.flight[<<k, "doomed">>] = IF tag = "doomed" THEN s.flight[<<k, "doomed">>] + 1
                                        ELSE s.flight[<<k, "doomed">>]
      BY <2>3, <1>6 DEF Tags
    <3>2. tag = "own" \/ tag = "stale" \/ tag = "doomed"
      BY <1>1 DEF Tags
    <3>3. /\ s.flight[<<k, "own">>] \in Nat /\ s.flight[<<k, "stale">>] \in Nat
          /\ s.flight[<<k, "doomed">>] \in Nat
      BY <1>7 DEF Tags
    <3> QED
      BY <2>3, <3>1, <3>2, <3>3 DEF Pending
  <2> QED
    BY <2>2, <2>3
<1>9. Pending(t) = [Pending(s) EXCEPT ![kind] = @ + 1]
  BY <1>8 DEF Pending
<1>10. SubmitTag(t) = SubmitTag(s) /\ t.action = s.action
  BY <1>4 DEF SubmitTag, Alike, SameData
<1>11. Tagged(s) => Tagged(t)
  BY <1>5, <1>10, <1>2 DEF Tagged, SubmitTag, tag
<1>12. \A x \in Transfers : t.flight[x] > 0 => s.flight[x] > 0 \/ x[1] = kind
  BY <1>5
<1> QED
  BY <1>3, <1>4, <1>9, <1>11, <1>12 DEF Posted, t

\* t is s without the transfer that has completed.
Reaped(s, t, kind) ==
    /\ t \in DeviceType /\ Alike(s, t) /\ t.wake_timers = s.wake_timers
    /\ Pending(s)[kind] > 0
    /\ Pending(t) = [Pending(s) EXCEPT ![kind] = @ - 1]
    /\ Tagged(s) => Tagged(t)
    /\ \A x \in Transfers : t.flight[x] > 0 => s.flight[x] > 0

LEMMA ReapReaped ==
  ASSUME NEW s \in DeviceType, NEW kind \in Kinds, NEW tag \in Tags,
         s.flight[<<kind, tag>>] > 0
  PROVE  Reaped(s, Reap(s, kind, tag), kind)
<1> DEFINE t == Reap(s, kind, tag)
<1>1. <<kind, tag>> \in Transfers
  BY DEF Transfers
<1>2. s.flight \in [Transfers -> Nat]
  BY DEF DeviceType
<1>3. t \in DeviceType
  BY <1>1 DEF Reap, DeviceType
<1>4. /\ t.flight = [s.flight EXCEPT ![<<kind, tag>>] = @ - 1]
      /\ t.wake_timers = s.wake_timers /\ Alike(s, t)
  BY DEF Reap, DeviceType, Alike, SameData, SameStatus
<1> HIDE DEF t
<1>5. \A x \in Transfers : t.flight[x] = IF x = <<kind, tag>> THEN s.flight[x] - 1 ELSE s.flight[x]
  BY <1>1, <1>2, <1>4
<1>6. \A k \in Kinds : \A g \in Tags :
         t.flight[<<k, g>>] = IF k = kind /\ g = tag THEN s.flight[<<k, g>>] - 1
                              ELSE s.flight[<<k, g>>]
  BY <1>5 DEF Transfers
<1>7. \A k \in Kinds : \A g \in Tags : s.flight[<<k, g>>] \in Nat
  BY <1>2 DEF Transfers
<1>8. \A k \in Kinds : Pending(t)[k] = IF k = kind THEN Pending(s)[k] - 1 ELSE Pending(s)[k]
  <2>1. TAKE k \in Kinds
  <2>2. CASE k # kind
    BY <2>2, <1>6 DEF Pending, Tags
  <2>3. CASE k = kind
    <3>1. /\ t.flight[<<k, "own">>] = IF tag = "own" THEN s.flight[<<k, "own">>] - 1
                                     ELSE s.flight[<<k, "own">>]
          /\ t.flight[<<k, "stale">>] = IF tag = "stale" THEN s.flight[<<k, "stale">>] - 1
                                       ELSE s.flight[<<k, "stale">>]
          /\ t.flight[<<k, "doomed">>] = IF tag = "doomed" THEN s.flight[<<k, "doomed">>] - 1
                                        ELSE s.flight[<<k, "doomed">>]
      BY <2>3, <1>6 DEF Tags
    <3>2. tag = "own" \/ tag = "stale" \/ tag = "doomed"
      BY DEF Tags
    <3>3. /\ s.flight[<<k, "own">>] \in Nat /\ s.flight[<<k, "stale">>] \in Nat
          /\ s.flight[<<k, "doomed">>] \in Nat
      BY <1>7 DEF Tags
    <3> QED
      BY <2>3, <3>1, <3>2, <3>3 DEF Pending
  <2> QED
    BY <2>2, <2>3
<1>9. Pending(t) = [Pending(s) EXCEPT ![kind] = @ - 1]
  BY <1>8 DEF Pending
<1>10. Pending(s)[kind] > 0
  BY <1>7 DEF Pending, Tags
<1>11. SubmitTag(t) = SubmitTag(s) /\ t.action = s.action
  BY <1>4 DEF SubmitTag, Alike, SameData
<1>12. \A x \in Transfers : t.flight[x] > 0 => s.flight[x] > 0
  BY <1>2, <1>5
<1>13. Tagged(s) => Tagged(t)
  BY <1>11, <1>12 DEF Tagged
<1> QED
  BY <1>3, <1>4, <1>9, <1>10, <1>12, <1>13 DEF Reaped, t

-----------------------------------------------------------------------------
(* What the calls return, for a device record between two calls. *)

\* The interrupt read, or the rearming, that a call starts.
ListenKind(s) == IF s.awaiting_release THEN "release" ELSE "finger"

LEMMA AlikePosted ==
  ASSUME NEW s, NEW u, NEW t, NEW kind, Alike(s, u), SameBus(s, u), Posted(u, t, kind)
  PROVE  Posted(s, t, kind)
<1>1. Pending(u) = Pending(s)
  BY DEF SameBus, Pending
<1>2. Alike(s, t)
  BY DEF Posted, Alike, SameData, SameStatus
<1>3. Tagged(s) => Tagged(u)
  BY DEF Alike, SameData, SameBus, Tagged, SubmitTag
<1> QED
  BY <1>1, <1>2, <1>3 DEF Posted, SameBus

LEMMA StartInterruptPosted ==
  ASSUME NEW s, Settled(s)
  PROVE  Posted(s, StartInterrupt(s), ListenKind(s))
<1>1. StartInterrupt(s) = Submit(s, ListenKind(s))
  BY DEF StartInterrupt, ListenKind, Settled
<1> QED
  BY <1>1, SubmitPosted DEF Settled, ListenKind, Kinds

LEMMA RearmSendStagePosted ==
  ASSUME NEW s, Settled(s)
  PROVE  Posted(s, RearmSendStage(s), "rearmWrite")
<1> DEFINE u == IF s.rearm_stage = 0 THEN s ELSE [s EXCEPT !.scan_02 = "enroll"]
<1>1. u \in DeviceType
  BY DEF Settled, DeviceType
<1>2. Alike(s, u) /\ SameBus(s, u)
  BY DEF Settled, DeviceType, Alike, SameData, SameStatus, SameBus
<1>3. RearmSendStage(s) = Submit(u, "rearmWrite")
  BY DEF RearmSendStage
<1> HIDE DEF u
<1>4. Posted(u, Submit(u, "rearmWrite"), "rearmWrite")
  BY <1>1, SubmitPosted DEF Kinds
<1> QED
  BY <1>2, <1>3, <1>4, AlikePosted

\* Only the state of the framework has changed.
Turned(s, t, state) ==
    /\ t \in DeviceType /\ SameData(s, t) /\ SameBus(s, t)
    /\ t.state = state /\ t.active = s.active /\ t.returning = s.returning
    /\ t.result = s.result /\ t.action_error = s.action_error
    /\ t.cancel_idle = s.cancel_idle /\ t.warnings = s.warnings

LEMMA SetStateTurned ==
  ASSUME NEW s \in DeviceType, NEW state \in FwStates
  PROVE  Turned(s, [s EXCEPT !.state = state], state)
<1>1. [s EXCEPT !.state = state] \in DeviceType
  BY DEF DeviceType
<1> QED
  BY <1>1 DEF DeviceType, Turned, SameData, SameBus

LEMMA ChangeStateTurned ==
  ASSUME NEW s \in DeviceType, NEW state \in FwStates \ {"awaitFingerOn"}
  PROVE  Turned(s, ChangeState(s, state), state)
<1>1. ChangeState(s, state) = [s EXCEPT !.state = state]
  BY DEF ChangeState, DevChangeState
<1> QED
  BY <1>1, SetStateTurned

\* Waiting for a finger starts an interrupt read, or the rearming before it.
LEMMA AwaitFingerOn ==
  ASSUME NEW s, Settled(s)
  PROVE  \E u : /\ Turned(s, u, "awaitFingerOn")
                /\ Posted(u, ChangeState(s, "awaitFingerOn"),
                          IF s.capture_count = 0 THEN ListenKind(s) ELSE "rearmWrite")
<1> DEFINE u == [s EXCEPT !.state = "awaitFingerOn"]
           w == [u EXCEPT !.rearm_stage = 0]
<1>1. Turned(s, u, "awaitFingerOn")
  BY SetStateTurned DEF Settled, FwStates
<1>2. Settled(u)
  BY <1>1 DEF Settled, Turned, SameData
<1>3. ChangeState(s, "awaitFingerOn") =
        IF u.capture_count = 0 THEN StartInterrupt(u) ELSE RearmSendStage(w)
  BY DEF ChangeState, DevChangeState
<1> HIDE DEF u
<1>4. w \in DeviceType
  BY <1>2 DEF Settled, DeviceType
<1>5. Alike(u, w) /\ SameBus(u, w)
  BY <1>2 DEF Settled, DeviceType, Alike, SameData, SameStatus, SameBus
<1>6. Settled(w)
  BY <1>2, <1>4, <1>5 DEF Settled, Alike, SameData
<1> HIDE DEF w
<1>7. Posted(u, RearmSendStage(w), "rearmWrite")
  BY <1>5, <1>6, RearmSendStagePosted, AlikePosted
<1>8. Posted(u, StartInterrupt(u), ListenKind(s))
  BY <1>1, <1>2, StartInterruptPosted DEF ListenKind, Turned, SameData
<1>9. u.capture_count = s.capture_count
  BY <1>1 DEF Turned, SameData
<1> QED
  BY <1>1, <1>3, <1>7, <1>8, <1>9

\* The device has been deactivated and the action goes on, with this error.
Halted(s, t, err) ==
    /\ t \in DeviceType /\ SameData(s, t) /\ SameBus(s, t)
    /\ t.state = "inactive" /\ ~t.active /\ t.returning = s.returning
    /\ t.result = s.result /\ t.action_error = err /\ t.cancel_idle = s.cancel_idle

\* The action has finished with this result, and the device is inactive.
Ended(s, t, r) ==
    /\ t \in DeviceType /\ SameData(s, t) /\ SameBus(s, t)
    /\ t.state = "inactive" /\ ~t.active /\ t.returning
    /\ t.result = r /\ t.action_error = "none" /\ ~t.cancel_idle

LEMMA CompleteEnds ==
  ASSUME NEW s \in DeviceType, Running(s), NEW r \in Results,
         s.state = "inactive", ~s.active, s.action_error = "none"
  PROVE  Ended(s, Complete(s, r), r) /\ Complete(s, r).warnings = s.warnings
<1> DEFINE t == [s EXCEPT !.returning = TRUE, !.result = r, !.cancel_idle = FALSE]
<1>1. Complete(s, r) = t
  BY DEF Complete, Running
<1>2. t \in DeviceType
  BY DEF DeviceType, Results
<1> QED
  BY <1>1, <1>2 DEF DeviceType, Ended, SameData, SameBus

LEMMA FirstErrorNone ==
  ASSUME NEW s PROVE FirstError(s, "none") = s.action_error
  BY DEF FirstError

\* Completing the action of a device that is not inactive, or whose minutiae
\* thread runs, only remembers the error.
LEMMA MaybeCompleteKept ==
  ASSUME NEW s \in DeviceType, NEW e \in Errors, s.state # "inactive" \/ s.minutiae_scan_active
  PROVE  LET t == MaybeCompleteAction(s, e)
         IN  /\ t \in DeviceType /\ SameData(s, t) /\ SameBus(s, t)
             /\ t.state = s.state /\ t.active = s.active /\ t.returning = s.returning
             /\ t.result = s.result /\ t.cancel_idle = s.cancel_idle
             /\ t.warnings = s.warnings
             /\ t.action_error = FirstError(s, e)
<1> DEFINE err == FirstError(s, e)
           t == [s EXCEPT !.action_error = err]
<1>1. err \in Errors
  BY FirstErrorType
<1>2. MaybeCompleteAction(s, e) = t
  BY DEF MaybeCompleteAction
<1> HIDE DEF err
<1>3. t \in DeviceType
  BY <1>1 DEF DeviceType
<1>4. /\ SameData(s, t) /\ SameBus(s, t)
      /\ t.state = s.state /\ t.active = s.active /\ t.returning = s.returning
      /\ t.result = s.result /\ t.cancel_idle = s.cancel_idle
      /\ t.warnings = s.warnings /\ t.action_error = err
  BY DEF DeviceType, SameData, SameBus
<1> QED
  BY <1>2, <1>3, <1>4 DEF err

LEMMA MaybeCompleteEnds ==
  ASSUME NEW s \in DeviceType, NEW e \in Errors, Running(s),
         s.state = "inactive", ~s.active, ~s.minutiae_scan_active
  PROVE  LET t == MaybeCompleteAction(s, e)
         IN  /\ Ended(s, t, ActionResult(s, FirstError(s, e)))
             /\ t.warnings = s.warnings
<1> DEFINE err == FirstError(s, e)
           u == [s EXCEPT !.action_error = "none"]
           r == ActionResult(s, err)
<1>1. err \in Errors
  BY FirstErrorType
<1>2. r \in Results
  BY <1>1, ActionResultType
<1>3. MaybeCompleteAction(s, e) = Complete(u, r)
  BY DEF MaybeCompleteAction
<1> HIDE DEF r
<1>4. u \in DeviceType
  BY DEF DeviceType, Errors
<1>5. /\ SameData(s, u) /\ SameBus(s, u) /\ u.warnings = s.warnings
      /\ u.state = s.state /\ u.active = s.active /\ u.returning = s.returning
      /\ u.action_error = "none"
  BY DEF DeviceType, SameData, SameBus
<1> HIDE DEF u
<1>6. Running(u)
  BY <1>5 DEF Running, SameData
<1>7. Ended(u, Complete(u, r), r) /\ Complete(u, r).warnings = u.warnings
  BY <1>2, <1>4, <1>5, <1>6, CompleteEnds
<1>8. Ended(s, Complete(u, r), r)
  BY <1>5, <1>7 DEF Ended, SameData, SameBus
<1> QED
  BY <1>3, <1>5, <1>7, <1>8 DEF r

\* How the deactivation of an active device leaves the record.
Stopped(s, t, err) ==
    IF s.minutiae_scan_active THEN Halted(s, t, err) ELSE Ended(s, t, ActionResult(s, err))

LEMMA DeactivateStops ==
  ASSUME NEW s, Settled(s), s.active, s.state # "deactivating", Running(s),
         NEW cancelling \in BOOLEAN
  PROVE  LET t == Deactivate(s, cancelling)
         IN  /\ Stopped(s, t, s.action_error)
             /\ cancelling \/ s.state = "idle" => t.warnings = s.warnings
<1> DEFINE logged == IF ~cancelling /\ s.state # "idle" THEN Warn(s, "notIdle") ELSE s
           u == [logged EXCEPT !.state = "deactivating"]
           v == [u EXCEPT !.deactivating = TRUE]
           w == [v EXCEPT !.deactivating = FALSE]
           x == [w EXCEPT !.active = FALSE, !.state = "inactive"]
<1>1. s \in DeviceType /\ ~s.deactivating
  BY DEF Settled
<1>2. Deactivate(s, cancelling) = DevDeactivate(u)
  BY DEF Deactivate
<1>3. logged \in DeviceType
  BY <1>1 DEF DeviceType, Warn, Warnings
<1>4. /\ SameData(s, logged) /\ SameBus(s, logged) /\ SameStatus(s, logged)
      /\ cancelling \/ s.state = "idle" => logged.warnings = s.warnings
  BY <1>1 DEF DeviceType, Warn, SameData, SameBus, SameStatus
<1> HIDE DEF logged
<1>5. x = [logged EXCEPT !.active = FALSE, !.state = "inactive"]
  BY ZenonT(60), <1>1, <1>3, <1>4 DEF DeviceType, SameData
<1>6. v.deactivating /\ w.active /\ w.action # "none"
  BY <1>3, <1>4 DEF DeviceType, SameData, SameStatus, Running
<1>7. DevDeactivate(u) = MaybeCompleteAction(x, "none")
  BY <1>6 DEF DevDeactivate, CompleteDeactivation, DeactivateComplete
<1>8. x \in DeviceType
  BY <1>3, <1>5 DEF DeviceType, FwStates
<1>9. /\ SameData(logged, x) /\ SameBus(logged, x) /\ x.warnings = logged.warnings
      /\ x.state = "inactive" /\ ~x.active /\ x.returning = logged.returning
      /\ x.result = logged.result /\ x.action_error = logged.action_error
      /\ x.cancel_idle = logged.cancel_idle
  BY <1>3, <1>5 DEF DeviceType, SameData, SameBus
<1> HIDE DEF x
<1>10. /\ SameData(s, x) /\ SameBus(s, x) /\ x.warnings = logged.warnings
       /\ x.state = "inactive" /\ ~x.active /\ x.returning = s.returning
       /\ x.result = s.result /\ x.action_error = s.action_error
       /\ x.cancel_idle = s.cancel_idle
  BY <1>4, <1>9 DEF SameData, SameBus, SameStatus
<1> DEFINE t == MaybeCompleteAction(x, "none")
<1>11. "none" \in Errors /\ Running(x)
  BY <1>10 DEF Errors, Running, SameData
<1>12. CASE s.minutiae_scan_active
  <2>1. x.minutiae_scan_active
    BY <1>10, <1>12 DEF SameData
  <2>2. /\ t \in DeviceType /\ SameData(x, t) /\ SameBus(x, t)
        /\ t.state = x.state /\ t.active = x.active /\ t.returning = x.returning
        /\ t.result = x.result /\ t.cancel_idle = x.cancel_idle
        /\ t.warnings = x.warnings /\ t.action_error = x.action_error
    BY <1>8, <1>11, <2>1, MaybeCompleteKept, FirstErrorNone
  <2>3. Halted(s, t, s.action_error) /\ t.warnings = logged.warnings
    BY <2>2, <1>10 DEF Halted, SameData, SameBus
  <2> QED
    BY <1>2, <1>4, <1>7, <1>12, <2>3 DEF Stopped
<1>13. CASE ~s.minutiae_scan_active
  <2>1. ~x.minutiae_scan_active
    BY <1>10, <1>13 DEF SameData
  <2>2. /\ Ended(x, t, ActionResult(x, x.action_error)) /\ t.warnings = x.warnings
    BY <1>8, <1>10, <1>11, <2>1, MaybeCompleteEnds, FirstErrorNone
  <2>3. ActionResult(x, x.action_error) = ActionResult(s, s.action_error)
    BY <1>10 DEF ActionResult, SameData
  <2>4. Ended(s, t, ActionResult(s, s.action_error)) /\ t.warnings = logged.warnings
    BY <2>2, <2>3, <1>10 DEF Ended, SameData, SameBus
  <2> QED
    BY <1>2, <1>4, <1>7, <1>13, <2>4 DEF Stopped
<1> QED
  BY <1>12, <1>13

\* A transfer that fails while the device is active ends the action.
LEMMA FailStops ==
  ASSUME NEW s, Settled(s), s.active, s.state \notin {"inactive", "deactivating"}, Running(s),
         NEW e \in Errors
  PROVE  LET t == FailSessionOrDeactivate(s, e)
         IN  Stopped(s, t, FirstError(s, e)) /\ t.warnings = s.warnings
<1> DEFINE u == MaybeCompleteAction(s, e)
           t == Deactivate(u, TRUE)
<1>1. FailSessionOrDeactivate(s, e) = t
  BY DEF FailSessionOrDeactivate, SessionError, Settled
<1>2. /\ u \in DeviceType /\ SameData(s, u) /\ SameBus(s, u)
      /\ u.state = s.state /\ u.active = s.active /\ u.returning = s.returning
      /\ u.result = s.result /\ u.cancel_idle = s.cancel_idle
      /\ u.warnings = s.warnings
      /\ u.action_error = FirstError(s, e)
  BY MaybeCompleteKept DEF Settled
<1> HIDE DEF u
<1>3. Settled(u) /\ Running(u)
  BY <1>2 DEF Settled, SameData, Running
<1>4. Stopped(u, t, u.action_error) /\ t.warnings = u.warnings
  BY <1>2, <1>3, DeactivateStops
<1>5. ActionResult(u, u.action_error) = ActionResult(s, FirstError(s, e))
  BY <1>2 DEF ActionResult, SameData
<1> HIDE DEF t
<1>6. Stopped(s, t, FirstError(s, e))
  <2>1. u.minutiae_scan_active = s.minutiae_scan_active
    BY <1>2 DEF SameData
  <2>2. Halted(u, t, u.action_error) => Halted(s, t, FirstError(s, e))
    BY <1>2 DEF Halted, SameData, SameBus
  <2>3. ASSUME NEW r, Ended(u, t, r) PROVE Ended(s, t, r)
    BY <1>2, <2>3 DEF Ended, SameData, SameBus
  <2> QED
    BY <1>4, <1>5, <2>1, <2>2, <2>3 DEF Stopped
<1> QED
  BY <1>1, <1>2, <1>4, <1>6 DEF t

-----------------------------------------------------------------------------
(* What a step owes, besides the invariant. *)

\* Progress of the action: none, a stage for a fresh touch, or its one result.
Advances(s, t) ==
    \/ /\ t.enroll_stage = s.enroll_stage /\ t.credited = s.credited
       /\ t.report = "result" <=> s.report = "result"
    \/ /\ s.action = "enroll" /\ s.enroll_stage < NrEnrollStages
       /\ ~s.credited /\ t.credited /\ t.enroll_stage = s.enroll_stage + 1
    \/ /\ s.action \in {"verify", "identify"} /\ s.report # "result" /\ t.report = "result"
       /\ t.enroll_stage = s.enroll_stage /\ t.credited = s.credited

\* An outcome is one the client may see.
Outcome(s, t) ==
    t.returning =>
        /\ t.result \notin {"pending", "wrongType"}
        /\ t.result = "cancelled" => s.cancelled
        /\ t.result = "ok" /\ s.action \in {"verify", "identify"} => t.report = "result"
        /\ t.result = "noDevice" /\ s.state = "activating" => s.controls = 2

Lawful(s, t, f) ==
    /\ t.open = s.open /\ t.action = s.action /\ t.cancelled = s.cancelled
    /\ Running(s) => Advances(s, t) /\ Outcome(s, t)
    /\ ~Running(s) =>
         /\ t.returning = s.returning /\ t.result = s.result
         /\ t.enroll_stage = s.enroll_stage /\ t.credited = s.credited /\ t.report = s.report
         /\ t.rejects = s.rejects
    /\ ~s.active /\ t.active => t.exchanges = 7
    /\ s.state \in {"capture", "awaitFingerOff"} /\ t.state = "awaitFingerOn"
         => ~f \/ t.rejects > 0

\* No warning, unless the action is cancelled, an image gave no print or the
\* bus has faults.
Quiet(s, t) == t.warnings = s.warnings \/ s.cancelled \/ t.rejects > 0 \/ Faults # {}

-----------------------------------------------------------------------------
(* Counts before and after. *)

In(kind, S) == IF kind \in S THEN 1 ELSE 0

ShakeKinds == {"control", "initWrite", "initRead"}
RearmKinds == {"rearmWrite", "rearmRead"}
TalkKinds == Kinds \ {"captureWrite"}

LEMMA PostedCounts ==
  ASSUME NEW s \in DeviceType, NEW kind \in Kinds, NEW t, Posted(s, t, kind)
  PROVE  /\ Shakes(t) = Shakes(s) + In(kind, ShakeKinds)
         /\ Rearms(t) = Rearms(s) + In(kind, RearmKinds)
         /\ Fingers(t) = Fingers(s) + In(kind, {"finger"})
         /\ Releases(t) = Releases(s) + In(kind, {"release"})
         /\ Reads(t) = Reads(s) + In(kind, {"captureRead"})
         /\ Writes(t) = Writes(s) + In(kind, {"captureWrite"})
         /\ Talks(t) = Talks(s) + In(kind, TalkKinds)
<1>1. Pending(s) \in [Kinds -> Nat] /\ s.wake_timers \in Nat
  BY PendingType
<1>2. /\ Pending(t) = [Pending(s) EXCEPT ![kind] = @ + 1]
      /\ t.wake_timers = s.wake_timers
  BY DEF Posted
<1>3. \A k \in Kinds : Pending(t)[k] = Pending(s)[k] + In(kind, {k})
  BY <1>1, <1>2 DEF In
<1>4. \A k \in Kinds : Pending(s)[k] \in Nat
  BY <1>1
<1>5. /\ Pending(t)["control"] = Pending(s)["control"] + In(kind, {"control"})
      /\ Pending(t)["initWrite"] = Pending(s)["initWrite"] + In(kind, {"initWrite"})
      /\ Pending(t)["initRead"] = Pending(s)["initRead"] + In(kind, {"initRead"})
      /\ Pending(t)["rearmWrite"] = Pending(s)["rearmWrite"] + In(kind, {"rearmWrite"})
      /\ Pending(t)["rearmRead"] = Pending(s)["rearmRead"] + In(kind, {"rearmRead"})
      /\ Pending(t)["finger"] = Pending(s)["finger"] + In(kind, {"finger"})
      /\ Pending(t)["release"] = Pending(s)["release"] + In(kind, {"release"})
      /\ Pending(t)["captureRead"] = Pending(s)["captureRead"] + In(kind, {"captureRead"})
      /\ Pending(t)["captureWrite"] = Pending(s)["captureWrite"] + In(kind, {"captureWrite"})
  BY <1>3 DEF Kinds
<1>6. /\ Pending(s)["control"] \in Nat
      /\ Pending(s)["initWrite"] \in Nat
      /\ Pending(s)["initRead"] \in Nat
      /\ Pending(s)["rearmWrite"] \in Nat
      /\ Pending(s)["rearmRead"] \in Nat
      /\ Pending(s)["finger"] \in Nat
      /\ Pending(s)["release"] \in Nat
      /\ Pending(s)["captureRead"] \in Nat
      /\ Pending(s)["captureWrite"] \in Nat
  BY <1>4 DEF Kinds
<1>7. /\ In(kind, ShakeKinds) = In(kind, {"control"}) + In(kind, {"initWrite"})
                                   + In(kind, {"initRead"})
      /\ In(kind, RearmKinds) = In(kind, {"rearmWrite"}) + In(kind, {"rearmRead"})
      /\ In(kind, TalkKinds) =
            In(kind, ShakeKinds) + In(kind, RearmKinds) + In(kind, {"finger"})
              + In(kind, {"release"}) + In(kind, {"captureRead"})
  BY DEF Kinds, In, ShakeKinds, RearmKinds, TalkKinds
<1>8. /\ In(kind, {"control"}) \in Nat /\ In(kind, {"initWrite"}) \in Nat
      /\ In(kind, {"initRead"}) \in Nat /\ In(kind, {"rearmWrite"}) \in Nat
      /\ In(kind, {"rearmRead"}) \in Nat /\ In(kind, {"finger"}) \in Nat
      /\ In(kind, {"release"}) \in Nat /\ In(kind, {"captureRead"}) \in Nat
  BY DEF In
<1>9. Shakes(t) = Shakes(s) + In(kind, ShakeKinds) /\ Shakes(s) \in Nat
  <2>1. s.wake_timers \in Nat /\ t.wake_timers = s.wake_timers
    BY <1>1, <1>2
  <2> DEFINE c == Pending(s)["control"] w == Pending(s)["initWrite"]
             r == Pending(s)["initRead"] n == s.wake_timers
             cc == Pending(t)["control"] ww == Pending(t)["initWrite"]
             rr == Pending(t)["initRead"] nn == t.wake_timers
  <2>2. Shakes(s) = c + w + r + n /\ Shakes(t) = cc + ww + rr + nn
    BY DEF Shakes
  <2>3. /\ cc = c + In(kind, {"control"}) /\ ww = w + In(kind, {"initWrite"})
        /\ rr = r + In(kind, {"initRead"})
    BY <1>5
  <2>4. c \in Nat /\ w \in Nat /\ r \in Nat /\ n \in Nat /\ nn = n
    BY <2>1, <1>6
  <2> HIDE DEF c, w, r, n, cc, ww, rr, nn
  <2> QED
    BY <2>2, <2>3, <2>4, <1>7, <1>8
<1>10. Rearms(t) = Rearms(s) + In(kind, RearmKinds) /\ Rearms(s) \in Nat
  BY <1>5, <1>6, <1>7, <1>8 DEF Rearms
<1>11. /\ Fingers(t) = Fingers(s) + In(kind, {"finger"}) /\ Fingers(s) \in Nat
       /\ Releases(t) = Releases(s) + In(kind, {"release"}) /\ Releases(s) \in Nat
       /\ Reads(t) = Reads(s) + In(kind, {"captureRead"}) /\ Reads(s) \in Nat
       /\ Writes(t) = Writes(s) + In(kind, {"captureWrite"})
  BY <1>5, <1>6 DEF Fingers, Releases, Reads, Writes
<1>12. In(kind, ShakeKinds) \in Nat /\ In(kind, RearmKinds) \in Nat
  BY DEF In
<1>13. Talks(t) = Talks(s) + In(kind, TalkKinds)
  BY <1>7, <1>8, <1>9, <1>10, <1>11, <1>12 DEF Talks
<1> QED
  BY <1>9, <1>10, <1>11, <1>13

LEMMA ReapedCounts ==
  ASSUME NEW s \in DeviceType, NEW kind \in Kinds, NEW t, Reaped(s, t, kind)
  PROVE  /\ Shakes(s) = Shakes(t) + In(kind, ShakeKinds)
         /\ Rearms(s) = Rearms(t) + In(kind, RearmKinds)
         /\ Fingers(s) = Fingers(t) + In(kind, {"finger"})
         /\ Releases(s) = Releases(t) + In(kind, {"release"})
         /\ Reads(s) = Reads(t) + In(kind, {"captureRead"})
         /\ Writes(s) = Writes(t) + In(kind, {"captureWrite"})
         /\ Talks(s) = Talks(t) + In(kind, TalkKinds)
<1>1. Pending(s) \in [Kinds -> Nat] /\ s.wake_timers \in Nat
  BY PendingType
<1>2. /\ Pending(t) = [Pending(s) EXCEPT ![kind] = @ - 1]
      /\ t.wake_timers = s.wake_timers
  BY DEF Reaped
<1>3. \A k \in Kinds : Pending(s)[k] = Pending(t)[k] + In(kind, {k})
  BY <1>1, <1>2 DEF In
<1>4. Pending(t) \in [Kinds -> Nat]
  BY PendingType DEF Reaped
<1>5. /\ Pending(s)["control"] = Pending(t)["control"] + In(kind, {"control"})
      /\ Pending(s)["initWrite"] = Pending(t)["initWrite"] + In(kind, {"initWrite"})
      /\ Pending(s)["initRead"] = Pending(t)["initRead"] + In(kind, {"initRead"})
      /\ Pending(s)["rearmWrite"] = Pending(t)["rearmWrite"] + In(kind, {"rearmWrite"})
      /\ Pending(s)["rearmRead"] = Pending(t)["rearmRead"] + In(kind, {"rearmRead"})
      /\ Pending(s)["finger"] = Pending(t)["finger"] + In(kind, {"finger"})
      /\ Pending(s)["release"] = Pending(t)["release"] + In(kind, {"release"})
      /\ Pending(s)["captureRead"] = Pending(t)["captureRead"] + In(kind, {"captureRead"})
      /\ Pending(s)["captureWrite"] = Pending(t)["captureWrite"] + In(kind, {"captureWrite"})
  BY <1>3 DEF Kinds
<1>6. /\ Pending(t)["control"] \in Nat
      /\ Pending(t)["initWrite"] \in Nat
      /\ Pending(t)["initRead"] \in Nat
      /\ Pending(t)["rearmWrite"] \in Nat
      /\ Pending(t)["rearmRead"] \in Nat
      /\ Pending(t)["finger"] \in Nat
      /\ Pending(t)["release"] \in Nat
      /\ Pending(t)["captureRead"] \in Nat
      /\ Pending(t)["captureWrite"] \in Nat
  BY <1>4 DEF Kinds
<1>7. /\ In(kind, ShakeKinds) = In(kind, {"control"}) + In(kind, {"initWrite"})
                                   + In(kind, {"initRead"})
      /\ In(kind, RearmKinds) = In(kind, {"rearmWrite"}) + In(kind, {"rearmRead"})
      /\ In(kind, TalkKinds) =
            In(kind, ShakeKinds) + In(kind, RearmKinds) + In(kind, {"finger"})
              + In(kind, {"release"}) + In(kind, {"captureRead"})
  BY DEF Kinds, In, ShakeKinds, RearmKinds, TalkKinds
<1>8. /\ In(kind, {"control"}) \in Nat /\ In(kind, {"initWrite"}) \in Nat
      /\ In(kind, {"initRead"}) \in Nat /\ In(kind, {"rearmWrite"}) \in Nat
      /\ In(kind, {"rearmRead"}) \in Nat /\ In(kind, {"finger"}) \in Nat
      /\ In(kind, {"release"}) \in Nat /\ In(kind, {"captureRead"}) \in Nat
  BY DEF In
<1>9. Shakes(s) = Shakes(t) + In(kind, ShakeKinds) /\ Shakes(t) \in Nat
  <2>1. s.wake_timers \in Nat /\ t.wake_timers = s.wake_timers
    BY <1>1, <1>2
  <2> DEFINE c == Pending(s)["control"] w == Pending(s)["initWrite"]
             r == Pending(s)["initRead"] n == s.wake_timers
             cc == Pending(t)["control"] ww == Pending(t)["initWrite"]
             rr == Pending(t)["initRead"] nn == t.wake_timers
  <2>2. Shakes(s) = c + w + r + n /\ Shakes(t) = cc + ww + rr + nn
    BY DEF Shakes
  <2>3. /\ c = cc + In(kind, {"control"}) /\ w = ww + In(kind, {"initWrite"})
        /\ r = rr + In(kind, {"initRead"})
    BY <1>5
  <2>4. cc \in Nat /\ ww \in Nat /\ rr \in Nat /\ nn \in Nat /\ nn = n
    BY <2>1, <1>6
  <2> HIDE DEF c, w, r, n, cc, ww, rr, nn
  <2> QED
    BY <2>2, <2>3, <2>4, <1>7, <1>8
<1>10. Rearms(s) = Rearms(t) + In(kind, RearmKinds) /\ Rearms(t) \in Nat
  BY <1>5, <1>6, <1>7, <1>8 DEF Rearms
<1>11. /\ Fingers(s) = Fingers(t) + In(kind, {"finger"}) /\ Fingers(t) \in Nat
       /\ Releases(s) = Releases(t) + In(kind, {"release"}) /\ Releases(t) \in Nat
       /\ Reads(s) = Reads(t) + In(kind, {"captureRead"}) /\ Reads(t) \in Nat
       /\ Writes(s) = Writes(t) + In(kind, {"captureWrite"})
  BY <1>5, <1>6 DEF Fingers, Releases, Reads, Writes
<1>12. In(kind, ShakeKinds) \in Nat /\ In(kind, RearmKinds) \in Nat
  BY DEF In
<1>13. Talks(s) = Talks(t) + In(kind, TalkKinds)
  BY <1>7, <1>8, <1>9, <1>10, <1>11, <1>12 DEF Talks
<1> QED
  BY <1>9, <1>10, <1>11, <1>13

LEMMA SameBusCounts ==
  ASSUME NEW s, NEW t, SameBus(s, t)
  PROVE  /\ Shakes(t) = Shakes(s) /\ Rearms(t) = Rearms(s) /\ Fingers(t) = Fingers(s)
         /\ Releases(t) = Releases(s) /\ Reads(t) = Reads(s) /\ Writes(t) = Writes(s)
         /\ Talks(t) = Talks(s)
  BY DEF SameBus, Pending, Shakes, Rearms, Fingers, Releases, Reads, Writes, Talks

LEMMA SameBusTagged ==
  ASSUME NEW s, NEW t, SameBus(s, t), t.action = s.action, t.cancelled = s.cancelled
  PROVE  Tagged(s) => Tagged(t)
  BY DEF SameBus, Tagged, SubmitTag

LEMMA NoSum3 ==
  \A a, b, c \in Nat : a + b + c = 0 => a = 0 /\ b = 0 /\ c = 0
  OBVIOUS

LEMMA NoneInFlight ==
  ASSUME NEW s \in DeviceType, NEW k \in Kinds, Pending(s)[k] = 0, NEW x \in Transfers, x[1] = k
  PROVE  ~(s.flight[x] > 0)
<1>1. \A g \in Tags : s.flight[<<k, g>>] \in Nat
  BY DEF DeviceType, Transfers
<1>2. s.flight[<<k, "own">>] + s.flight[<<k, "stale">>] + s.flight[<<k, "doomed">>] = 0
  BY DEF Pending
<1>3. \A g \in Tags : s.flight[<<k, g>>] = 0
  <2>1. /\ s.flight[<<k, "own">>] \in Nat /\ s.flight[<<k, "stale">>] \in Nat
        /\ s.flight[<<k, "doomed">>] \in Nat
    BY <1>1 DEF Tags
  <2>2. /\ s.flight[<<k, "own">>] = 0 /\ s.flight[<<k, "stale">>] = 0
        /\ s.flight[<<k, "doomed">>] = 0
    BY <1>2, <2>1, 0 \in Nat, NoSum3
  <2> QED
    BY <2>2 DEF Tags
<1>4. PICK g \in Tags : x = <<k, g>>
  BY DEF Transfers
<1> QED
  BY <1>3, <1>4

\* Nothing in flight, or only release reads.
LEMMA OnlyReleases ==
  ASSUME NEW s \in DeviceType, Shakes(s) = 0,
         Rearms(s) + Fingers(s) + Reads(s) + Writes(s) = 0,
         NEW x \in Transfers, s.flight[x] > 0
  PROVE  x[1] = "release" /\ Releases(s) > 0
<1>1. Pending(s) \in [Kinds -> Nat] /\ s.wake_timers \in Nat
  BY PendingType
<1>2. \A k \in Kinds : Pending(s)[k] \in Nat
  BY <1>1
<1>3. \A k \in Kinds \ {"release"} : Pending(s)[k] = 0
  <2>1. s.wake_timers \in Nat
    BY <1>1
  <2>2. /\ Pending(s)["control"] \in Nat /\ Pending(s)["initWrite"] \in Nat
        /\ Pending(s)["initRead"] \in Nat /\ Pending(s)["rearmWrite"] \in Nat
        /\ Pending(s)["rearmRead"] \in Nat /\ Pending(s)["finger"] \in Nat
        /\ Pending(s)["captureRead"] \in Nat /\ Pending(s)["captureWrite"] \in Nat
    BY <1>2 DEF Kinds
  <2> DEFINE c == Pending(s)["control"] w == Pending(s)["initWrite"]
             r == Pending(s)["initRead"] n == s.wake_timers
             rw == Pending(s)["rearmWrite"] rr == Pending(s)["rearmRead"]
             f == Pending(s)["finger"]
             cr == Pending(s)["captureRead"] cw == Pending(s)["captureWrite"]
  <2>3. c + w + r + n = 0 /\ rw + rr + f + cr + cw = 0
    BY DEF Shakes, Rearms, Fingers, Reads, Writes
  <2>4. /\ c \in Nat /\ w \in Nat /\ r \in Nat /\ n \in Nat /\ rw \in Nat
        /\ rr \in Nat /\ f \in Nat /\ cr \in Nat /\ cw \in Nat
    BY <2>1, <2>2
  <2> HIDE DEF c, w, r, n, rw, rr, f, cr, cw
  <2>5. /\ c = 0 /\ w = 0 /\ r = 0 /\ rw = 0 /\ rr = 0 /\ f = 0 /\ cr = 0 /\ cw = 0
    BY <2>3, <2>4
  <2> QED
    BY <2>5 DEF Kinds, c, w, r, rw, rr, f, cr, cw
<1>4. x[1] \in Kinds
  BY DEF Transfers
<1>5. x[1] = "release"
  BY <1>3, <1>4, NoneInFlight
<1>6. Pending(s)["release"] # 0
  BY <1>4, <1>5, NoneInFlight
<1> QED
  BY <1>2, <1>4, <1>5, <1>6 DEF Releases

-----------------------------------------------------------------------------
(* The end of an action. *)

LEMMA ActionResultFacts ==
  ASSUME NEW s \in DeviceType, NEW e \in Errors \ {"wrongType"}, Sane(s),
         e = "cancelled" => s.cancelled
  PROVE  LET r == ActionResult(s, e)
         IN  /\ r \in Results \ {"pending", "wrongType"}
             /\ r \in BusErrors => e = r
             /\ r = "cancelled" => s.cancelled
             /\ r = "ok" /\ s.action \in {"verify", "identify"} => s.report = "result"
             /\ s.cancelled => r # "ok"
<1>1. CASE e # "none"
  BY <1>1 DEF ActionResult, Results, Errors, BusErrors
<1>2. CASE e = "none" /\ s.cancelled
  BY <1>2 DEF ActionResult, Results, Errors, BusErrors
<1>3. CASE e = "none" /\ ~s.cancelled
  <2>1. ActionResult(s, e) \in {"retry", "unreported", "ok"}
    BY <1>3 DEF ActionResult
  <2>2. ActionResult(s, e) = "ok" /\ s.action \in {"verify", "identify"} => s.report = "result"
    BY <1>3 DEF ActionResult
  <2> QED
    BY <1>3, <2>1, <2>2 DEF Results, Errors, BusErrors
<1> QED
  BY <1>1, <1>2, <1>3

LEMMA LeftoverKept ==
  ASSUME NEW s, NEW t, SameBus(s, t), t.rejects = s.rejects,
         s.awaiting_release => t.awaiting_release
  PROVE  Leftover(s) => Leftover(t)
  BY DEF SameBus, Leftover

\* A finished action leaves the device at rest.
LEMMA EndedRests ==
  ASSUME NEW s \in DeviceType, NEW t, NEW r \in Results \ {"pending", "wrongType"},
         Sane(s), s.open, Running(s), ~s.minutiae_scan_active, Shakes(s) = 0, Leftover(s),
         s.rejects = 0 => Talks(s) <= 1 /\ (r \in BusErrors => r \in Faults),
         Ended(s, t, r)
  PROVE  PInv(t) /\ Resting(t)
<1>1. SameBus(s, t) /\ SameData(s, t)
  BY DEF Ended
<1>2. Shakes(t) = 0 /\ Talks(t) = Talks(s)
  BY <1>1, SameBusCounts
<1>3. Tagged(t)
  BY <1>1, SameBusTagged DEF SameData, Sane
<1>4. Leftover(t)
  BY <1>1, LeftoverKept DEF SameData
<1>5. t.action # "none" /\ t.open /\ t.returning
  BY <1>1 DEF SameData, Running, Ended
<1>6. Sane(t)
  BY <1>1, <1>3, <1>5 DEF Sane, SameData, Ended
<1>7. Clean(t)
  BY <1>1, <1>2 DEF Clean, SameData, Ended, BusErrors
<1>8. Resting(t)
  BY <1>1, <1>2, <1>4, <1>5 DEF Resting, SameData, Ended, Running
<1> QED
  BY <1>6, <1>7, <1>8 DEF PInv, Phase

LEMMA EndedLawful ==
  ASSUME NEW s \in DeviceType, NEW t, NEW r, NEW f, Ended(s, t, r), Running(s),
         r \notin {"pending", "wrongType"}, r = "cancelled" => s.cancelled,
         r = "ok" /\ s.action \in {"verify", "identify"} => s.report = "result",
         r = "noDevice" /\ s.state = "activating" => s.controls = 2
  PROVE  Lawful(s, t, f)
  BY DEF Ended, SameData, Lawful, Advances, Outcome

-----------------------------------------------------------------------------
(* At rest: callbacks of what a finished action has left in flight. *)

\* The fields that the callbacks of a resting device leave alone.
Dozes(s, t) ==
    /\ t \in DeviceType /\ SameStatus(s, t) /\ t.wake_timers = s.wake_timers
    /\ t.open = s.open /\ t.action = s.action /\ t.cancelled = s.cancelled
    /\ t.report = s.report /\ t.enroll_stage = s.enroll_stage
    /\ t.minutiae_scan_active = s.minutiae_scan_active
    /\ t.init_stage = s.init_stage /\ t.deactivating = s.deactivating
    /\ t.credited = s.credited /\ t.rejects = s.rejects /\ t.exchanges = s.exchanges

AtRest(s) == Settled(s) /\ Sane(s) /\ Clean(s) /\ s.open /\ Resting(s)

LEMMA AlikeDozes ==
  ASSUME NEW s, NEW t \in DeviceType, SameData(s, t), SameStatus(s, t),
         t.wake_timers = s.wake_timers
  PROVE  Dozes(s, t)
  BY DEF SameData, Dozes

LEMMA PostedDozes ==
  ASSUME NEW s, NEW t, NEW u, NEW kind, Dozes(s, t), Posted(t, u, kind)
  PROVE  Dozes(s, u)
  BY DEF Dozes, Posted, Alike, SameData, SameStatus

LEMMA RestGoesOn ==
  ASSUME NEW s, NEW t, NEW f, AtRest(s), Dozes(s, t),
         Shakes(t) = 0, Tagged(t), Leftover(t), s.rejects = 0 => Talks(t) <= 1
  PROVE  PInv(t) /\ Lawful(s, t, f)
<1>1. Sane(t)
  BY DEF AtRest, Dozes, SameStatus, Sane
<1>2. Clean(t)
  BY DEF AtRest, Dozes, SameStatus, Clean
<1>3. Resting(t)
  BY DEF AtRest, Dozes, SameStatus, Resting, Running
<1>4. Lawful(s, t, f)
  BY DEF AtRest, Dozes, SameStatus, Resting, Lawful
<1> QED
  BY <1>1, <1>2, <1>3, <1>4 DEF PInv, Phase

\* Nothing new in flight.
LEMMA RestKept ==
  ASSUME NEW s, NEW t, NEW f, AtRest(s), Dozes(s, t), SameBus(s, t), Leftover(t)
  PROVE  PInv(t) /\ Lawful(s, t, f)
<1>1. Shakes(t) = 0 /\ Talks(t) = Talks(s)
  BY SameBusCounts DEF AtRest, Resting
<1>2. Tagged(t)
  BY SameBusTagged DEF AtRest, Sane, Dozes
<1> QED
  BY <1>1, <1>2, RestGoesOn DEF AtRest, Clean

\* A transfer that fails at rest is only warned about.
LEMMA RestFail ==
  ASSUME NEW s, NEW f, AtRest(s), NEW e \in Errors \ {"none"}
  PROVE  LET t == FailSessionOrDeactivate(s, e)
         IN  PInv(t) /\ Lawful(s, t, f)
<1> DEFINE t == FailSessionOrDeactivate(s, e)
           w == Warn(s, "inactiveError")
           v == [w EXCEPT !.state = "inactive"]
           z == [w EXCEPT !.action_error = "none"]
           u == Warn(w, "doubleCompletion")
<1>1. /\ s \in DeviceType /\ ~s.deactivating /\ ~s.active /\ s.state = "inactive"
      /\ s.action_error = "none" /\ ~s.minutiae_scan_active
      /\ s.action = "none" \/ s.returning
  BY DEF AtRest, Settled, Resting, Running
<1>2. w \in DeviceType
  BY <1>1 DEF Warn, DeviceType, Warnings
<1>3. /\ w.state = "inactive" /\ w.action_error = "none" /\ ~w.active
      /\ w.action = s.action /\ w.returning = s.returning /\ ~w.minutiae_scan_active
      /\ SameData(s, w) /\ SameStatus(s, w) /\ SameBus(s, w)
  BY <1>1 DEF Warn, DeviceType, SameData, SameStatus, SameBus
<1> HIDE DEF w
<1>4. v = w /\ z = w
  BY <1>2, <1>3 DEF DeviceType
<1>5. t = SessionError(s, e)
  BY <1>1 DEF FailSessionOrDeactivate
<1>6. t = u
  <2>1. CASE s.action # "none"
    <3>1. t = Complete(v, e)
      BY <1>1, <1>3, <1>5, <2>1 DEF SessionError, ActivateComplete, w
    <3> QED
      BY <1>1, <1>3, <1>4, <2>1, <3>1 DEF Complete
  <2>2. CASE s.action = "none"
    <3>1. t = Complete(z, ActionResult(w, FirstError(w, e)))
      BY <1>1, <1>3, <1>5, <2>2 DEF SessionError, MaybeCompleteAction, w
    <3> QED
      BY <1>3, <1>4, <2>2, <3>1 DEF Complete
  <2> QED
    BY <2>1, <2>2
<1>7. u \in DeviceType /\ SameData(w, u) /\ SameStatus(w, u) /\ SameBus(w, u)
  BY <1>2 DEF Warn, DeviceType, Warnings, SameData, SameStatus, SameBus
<1> HIDE DEF u
<1>8. SameData(s, u) /\ SameStatus(s, u) /\ SameBus(s, u)
  BY <1>3, <1>7 DEF SameData, SameStatus, SameBus
<1>9. Dozes(s, u)
  BY <1>7, <1>8, AlikeDozes DEF SameBus
<1>10. Leftover(u)
  BY <1>8, LeftoverKept DEF AtRest, Resting, SameData
<1> HIDE DEF t
<1> QED
  BY <1>6, <1>8, <1>9, <1>10, RestKept DEF t

\* A transfer in place of the one that has completed.
LEMMA RestPost ==
  ASSUME NEW s, NEW u, NEW t, NEW f, AtRest(s), s.rejects = 0 => Talks(s) = 0,
         Dozes(s, u), SameBus(s, u), s.awaiting_release => u.awaiting_release,
         NEW kind \in Kinds \ ShakeKinds, Posted(u, t, kind),
         Faults = {} /\ s.rejects = 0 => kind = "release" /\ u.awaiting_release
  PROVE  PInv(t) /\ Lawful(s, t, f)
<1>1. u \in DeviceType
  BY DEF Dozes
<1>2. Shakes(u) = 0 /\ Talks(u) = Talks(s)
  BY SameBusCounts DEF AtRest, Resting
<1>3. Shakes(t) = 0 /\ (s.rejects = 0 => Talks(t) <= 1)
  BY <1>1, <1>2, PostedCounts DEF In
<1>4. Tagged(t)
  BY SameBusTagged DEF AtRest, Sane, Dozes, Posted
<1>5. Dozes(s, t)
  BY PostedDozes
<1>6. Leftover(t)
  <2>1. Leftover(u)
    BY LeftoverKept DEF AtRest, Resting, Dozes
  <2>2. t.awaiting_release = u.awaiting_release /\ t.rejects = u.rejects
    BY DEF Posted, Alike, SameData
  <2>3. \A x \in Transfers : t.flight[x] > 0 => u.flight[x] > 0 \/ x[1] = kind
    BY DEF Posted
  <2> QED
    BY <2>1, <2>2, <2>3 DEF Leftover, Dozes
<1> QED
  BY <1>3, <1>4, <1>5, <1>6, RestGoesOn

\* Once the release read has ended nothing is left of it.
LEMMA ReleaseOver ==
  ASSUME NEW s, NEW t, AtRest(s), s.rejects = 0 => Talks(s) = 0, t.rejects = s.rejects,
         SameBus(s, t)
  PROVE  Leftover(t)
<1>1. SUFFICES ASSUME Faults = {}, s.rejects = 0, NEW x \in Transfers, s.flight[x] > 0
               PROVE  x[2] = "doomed"
  BY DEF Leftover, SameBus
<1>2. s \in DeviceType /\ Talks(s) = 0
  BY <1>1 DEF AtRest, Settled
<1>3. Releases(s) = 0
  BY <1>2, CountsType DEF Talks
<1>4. "release" \in Kinds
  BY DEF Kinds
<1>5. x[1] # "release"
  BY <1>1, <1>2, <1>3, <1>4, NoneInFlight DEF Releases
<1> QED
  BY <1>1, <1>5 DEF AtRest, Resting, Leftover

LEMMA AtRestKinds ==
  ASSUME NEW s, AtRest(s)
  PROVE  /\ Settled(s) /\ s \in DeviceType /\ ~s.deactivating /\ s.state = "inactive"
         /\ SameBus(s, s) /\ Dozes(s, s) /\ Leftover(s)
  BY DEF AtRest, Settled, Resting, SameBus, Dozes, SameStatus

LEMMA RestCaptureWrite ==
  ASSUME NEW s, NEW f, AtRest(s), NEW e \in Errors
  PROVE  PInv(CaptureWriteCb(s, e)) /\ Lawful(s, CaptureWriteCb(s, e), f)
<1>1. CASE e = "none"
  BY <1>1, AtRestKinds, RestKept DEF CaptureWriteCb
<1>2. CASE e # "none"
  BY <1>2, RestFail DEF CaptureWriteCb
<1> QED
  BY <1>1, <1>2

LEMMA RestRearmWrite ==
  ASSUME NEW s, NEW f, AtRest(s), NEW e \in Errors, s.rejects = 0 => Talks(s) = 0,
         e = "none" => Faults # {} \/ s.rejects # 0
  PROVE  PInv(RearmWriteCb(s, e)) /\ Lawful(s, RearmWriteCb(s, e), f)
<1>1. CASE e = "none"
  <2> DEFINE t == Submit(s, "rearmRead")
  <2>1. Posted(s, t, "rearmRead")
    BY AtRestKinds, SubmitPosted DEF Kinds
  <2> HIDE DEF t
  <2>2. PInv(t) /\ Lawful(s, t, f)
    BY <1>1, <2>1, AtRestKinds, RestPost DEF Kinds, ShakeKinds
  <2> QED
    BY <1>1, <2>2 DEF RearmWriteCb, t
<1>2. CASE e # "none"
  BY <1>2, RestFail DEF RearmWriteCb
<1> QED
  BY <1>1, <1>2

LEMMA RestRearmRead ==
  ASSUME NEW s, NEW f, AtRest(s), NEW e \in Errors, s.rejects = 0 => Talks(s) = 0,
         e = "none" => Faults # {} \/ s.rejects # 0
  PROVE  PInv(RearmReadCb(s, e)) /\ Lawful(s, RearmReadCb(s, e), f)
<1>1. CASE e = "none"
  <2> DEFINE u == [s EXCEPT !.rearm_stage = @ + 1]
             t == RearmReadCb(s, e)
  <2>1. s \in DeviceType /\ ~s.deactivating
    BY AtRestKinds
  <2>2. u \in DeviceType
    BY <2>1 DEF DeviceType
  <2>3. SameData(s, u) /\ SameStatus(s, u) /\ SameBus(s, u)
    BY <2>1 DEF DeviceType, SameData, SameStatus, SameBus
  <2>4. t = IF u.rearm_stage = 2 THEN StartInterrupt(u) ELSE RearmSendStage(u)
    BY <1>1 DEF RearmReadCb
  <2> HIDE DEF u, t
  <2>5. Settled(u)
    BY <2>1, <2>2, <2>3 DEF Settled, SameData
  <2>6. PICK kind \in {ListenKind(u), "rearmWrite"} : Posted(u, t, kind)
    BY <2>4, <2>5, StartInterruptPosted, RearmSendStagePosted
  <2>7. kind \in Kinds \ ShakeKinds
    BY <2>6 DEF ListenKind, Kinds, ShakeKinds
  <2>8. Dozes(s, u)
    BY <2>2, <2>3, AlikeDozes DEF SameBus
  <2>9. PInv(t) /\ Lawful(s, t, f)
    BY <1>1, <2>3, <2>6, <2>7, <2>8, RestPost DEF SameData
  <2> QED
    BY <2>9 DEF t
<1>2. CASE e # "none"
  BY <1>2, RestFail DEF RearmReadCb
<1> QED
  BY <1>1, <1>2

LEMMA RestCaptureRead ==
  ASSUME NEW s, NEW f, AtRest(s), NEW e \in Errors, NEW image, s.rejects = 0 => Talks(s) = 0,
         e = "none" => Faults # {} \/ s.rejects # 0
  PROVE  PInv(CaptureReadCb(s, e, image)) /\ Lawful(s, CaptureReadCb(s, e, image), f)
<1>1. CASE e = "none"
  <2> DEFINE a == [s EXCEPT !.capture_count = @ + 1]
             b == Warn(a, "criticalCall")
             u == [b EXCEPT !.awaiting_release = TRUE]
             t == StartInterrupt(u)
  <2>1. s \in DeviceType /\ ~s.deactivating /\ s.state = "inactive"
    BY AtRestKinds
  <2>2. a \in DeviceType /\ Dozes(s, a) /\ SameBus(s, a) /\ a.state = "inactive"
    BY <2>1 DEF DeviceType, Dozes, SameStatus, SameBus
  <2>4. CaptureReadCb(s, e, image) = t
    BY <1>1, <2>2 DEF CaptureReadCb, ImageCaptured
  <2> HIDE DEF a
  <2>10. b \in DeviceType /\ Dozes(a, b) /\ SameBus(a, b)
    BY <2>2 DEF DeviceType, Warn, Warnings, Dozes, SameStatus, SameBus
  <2>3. b \in DeviceType /\ Dozes(s, b) /\ SameBus(s, b)
    BY <2>2, <2>10 DEF Dozes, SameStatus, SameBus
  <2> HIDE DEF b
  <2>5. u \in DeviceType /\ Dozes(b, u) /\ SameBus(b, u) /\ u.awaiting_release
    BY <2>3 DEF DeviceType, Dozes, SameStatus, SameBus
  <2> HIDE DEF u
  <2>6. Dozes(s, u) /\ SameBus(s, u)
    BY <2>3, <2>5 DEF Dozes, SameStatus, SameBus
  <2>7. Posted(u, t, ListenKind(u))
    BY <2>1, <2>5, <2>6, StartInterruptPosted DEF Settled, Dozes
  <2>8. ListenKind(u) \in Kinds \ ShakeKinds
    BY DEF ListenKind, Kinds, ShakeKinds
  <2> HIDE DEF t
  <2>9. PInv(t) /\ Lawful(s, t, f)
    BY <1>1, <2>5, <2>6, <2>7, <2>8, RestPost
  <2> QED
    BY <2>4, <2>9
<1>2. CASE e # "none"
  BY <1>2, RestFail DEF CaptureReadCb
<1> QED
  BY <1>1, <1>2

LEMMA RestListen ==
  ASSUME NEW s, NEW f, AtRest(s), s.rejects = 0 => Talks(s) = 0,
         Faults = {} /\ s.rejects = 0 => s.awaiting_release
  PROVE  /\ PInv(StartInterrupt(s)) /\ Lawful(s, StartInterrupt(s), f)
         /\ StartInterrupt(s).warnings = s.warnings
<1> DEFINE t == StartInterrupt(s)
<1>1. Posted(s, t, ListenKind(s))
  BY AtRestKinds, StartInterruptPosted
<1>2. ListenKind(s) \in Kinds \ ShakeKinds
  BY DEF ListenKind, Kinds, ShakeKinds
<1> HIDE DEF t
<1>3. PInv(t) /\ Lawful(s, t, f)
  BY <1>1, <1>2, AtRestKinds, RestPost DEF ListenKind
<1> QED
  BY <1>1, <1>3 DEF Posted, Alike, t

LEMMA RestFinger ==
  ASSUME NEW s, NEW f, AtRest(s), s.rejects = 0 => Talks(s) = 0,
         Faults = {} /\ s.rejects = 0 => s.awaiting_release
  PROVE  /\ PInv(InterruptFingerCb(s)) /\ Lawful(s, InterruptFingerCb(s), f)
         /\ Quiet(s, InterruptFingerCb(s))
<1>1. CASE s.awaiting_release
  BY <1>1, RestListen DEF InterruptFingerCb, Quiet
<1>2. CASE ~s.awaiting_release
  <2> DEFINE u == Submit(s, "captureRead")
             t == Submit(u, "captureWrite")
  <2>1. InterruptFingerCb(s) = t
    BY <1>2, AtRestKinds DEF InterruptFingerCb, ReportFingerStatus, StartCapture
  <2>2. Posted(s, u, "captureRead")
    BY AtRestKinds, SubmitPosted DEF Kinds
  <2> HIDE DEF u
  <2>3. Posted(u, t, "captureWrite")
    BY <2>2, SubmitPosted DEF Posted, Kinds
  <2> HIDE DEF t
  <2>4. Dozes(s, t)
    BY <2>2, <2>3, AtRestKinds, PostedDozes
  <2>5. /\ Shakes(u) = Shakes(s) /\ Talks(u) = Talks(s) + 1
        /\ Shakes(t) = Shakes(u) /\ Talks(t) = Talks(u)
    <3>1. "captureRead" \in Kinds /\ "captureWrite" \in Kinds
      BY DEF Kinds
    <3>2. u \in DeviceType /\ t \in DeviceType /\ s \in DeviceType
      BY <2>2, <2>3, AtRestKinds DEF Posted
    <3>3. /\ Shakes(u) = Shakes(s) + In("captureRead", ShakeKinds)
          /\ Talks(u) = Talks(s) + In("captureRead", TalkKinds)
      BY <2>2, <3>1, <3>2, PostedCounts
    <3>4. /\ Shakes(t) = Shakes(u) + In("captureWrite", ShakeKinds)
          /\ Talks(t) = Talks(u) + In("captureWrite", TalkKinds)
      BY <2>3, <3>1, <3>2, PostedCounts
    <3>5. /\ In("captureRead", ShakeKinds) = 0 /\ In("captureRead", TalkKinds) = 1
          /\ In("captureWrite", ShakeKinds) = 0 /\ In("captureWrite", TalkKinds) = 0
      BY DEF In, ShakeKinds, TalkKinds, Kinds
    <3> QED
      BY <3>2, <3>3, <3>4, <3>5, CountsType
  <2>6. Tagged(t)
    BY <2>2, <2>3 DEF Posted, AtRest, Sane
  <2>7. Faults # {} \/ t.rejects # 0
    BY <1>2, <2>4 DEF Dozes
  <2>8. Leftover(t)
    BY <2>7 DEF Leftover
  <2>9. Shakes(t) = 0 /\ (s.rejects = 0 => Talks(t) <= 1)
    BY <2>5, AtRestKinds, CountsType DEF AtRest, Resting
  <2>10. PInv(t) /\ Lawful(s, t, f)
    BY <2>4, <2>6, <2>8, <2>9, RestGoesOn
  <2>11. Quiet(s, t)
    BY <2>2, <2>3 DEF Quiet, Posted, Alike
  <2> QED
    BY <2>1, <2>10, <2>11
<1> QED
  BY <1>1, <1>2

LEMMA RestInterruptError ==
  ASSUME NEW s, NEW f, AtRest(s), NEW e \in Errors \ {"none"}, s.rejects = 0 => Talks(s) = 0
  PROVE  /\ PInv(InterruptErrorCb(s, e)) /\ Lawful(s, InterruptErrorCb(s, e), f)
         /\ e = "timedOut" /\ s.awaiting_release => InterruptErrorCb(s, e).warnings = s.warnings
<1>1. CASE e = "cancelled"
  BY <1>1, AtRestKinds, RestKept DEF InterruptErrorCb, CompleteDeactivation
<1>2. CASE e = "timedOut" /\ s.awaiting_release
  <2> DEFINE t == [s EXCEPT !.awaiting_release = FALSE]
  <2>1. s \in DeviceType /\ s.state = "inactive"
    BY AtRestKinds
  <2>2. Dozes(s, t) /\ SameBus(s, t) /\ t.state = "inactive" /\ t.warnings = s.warnings
    BY <2>1 DEF DeviceType, Dozes, SameStatus, SameBus
  <2>3. InterruptErrorCb(s, e) = t
    BY <1>2, <2>2 DEF InterruptErrorCb, ReportFingerStatus
  <2> HIDE DEF t
  <2>4. Leftover(t)
    BY <2>2, ReleaseOver DEF Dozes
  <2> QED
    BY <2>2, <2>3, <2>4, RestKept
<1>3. CASE e # "cancelled" /\ ~(s.awaiting_release /\ e = "timedOut")
  BY <1>3, RestFail DEF InterruptErrorCb
<1> QED
  BY <1>1, <1>2, <1>3

-----------------------------------------------------------------------------
(* While the device is activated. *)

\* An error that a transfer of this action may end with.
Blamed(s, e) ==
    \/ e \in BusErrors /\ (s.rejects = 0 => e \in Faults)
    \/ e = "cancelled" /\ s.cancelled

Others(s) == Rearms(s) + Fingers(s) + Releases(s) + Reads(s) + Writes(s)

Sound0(s) == Settled(s) /\ Sane(s) /\ Clean(s) /\ s.open

\* The fields that the handshake leaves alone.
Greets(s, t) ==
    /\ t \in DeviceType /\ SameStatus(s, t) /\ t.warnings = s.warnings
    /\ t.open = s.open /\ t.action = s.action /\ t.cancelled = s.cancelled
    /\ t.report = s.report /\ t.enroll_stage = s.enroll_stage
    /\ t.enroll_await_on_pending = s.enroll_await_on_pending
    /\ t.minutiae_scan_active = s.minutiae_scan_active
    /\ t.capture_count = s.capture_count /\ t.deactivating = s.deactivating
    /\ t.awaiting_release = s.awaiting_release
    /\ t.credited = s.credited /\ t.rejects = s.rejects

LEMMA OthersNone ==
  ASSUME NEW s \in DeviceType, Others(s) = 0
  PROVE  Rearms(s) = 0 /\ Fingers(s) = 0 /\ Releases(s) = 0 /\ Reads(s) = 0 /\ Writes(s) = 0
<1> DEFINE a == Rearms(s) b == Fingers(s) c == Releases(s) d == Reads(s) e == Writes(s)
<1>1. a \in Nat /\ b \in Nat /\ c \in Nat /\ d \in Nat /\ e \in Nat
  BY CountsType
<1>2. a + b + c + d + e = 0
  BY DEF Others
<1> HIDE DEF a, b, c, d, e
<1>3. a = 0 /\ b = 0 /\ c = 0 /\ d = 0 /\ e = 0
  BY <1>1, <1>2
<1> QED
  BY <1>3 DEF a, b, c, d, e

LEMMA ShakesOn ==
  ASSUME NEW s, NEW t, NEW f, NEW n, Sound0(s), Shaking(s, n), Greets(s, t),
         t.init_stage = t.exchanges, Tagged(t), Shakes(t) = 1, Others(t) = 0,
         t.controls + t.wake_timers = IF t.wake_retry_used THEN 2 ELSE 1
  PROVE  PInv(t) /\ Lawful(s, t, f) /\ Quiet(s, t)
<1>1. t \in DeviceType
  BY DEF Greets
<1>2. /\ Rearms(t) = 0 /\ Fingers(t) = 0 /\ Releases(t) = 0 /\ Reads(t) = 0 /\ Writes(t) = 0
  BY <1>1, OthersNone
<1>3. Talks(t) = 1
  BY <1>2 DEF Talks
<1>4. t.action # "none" /\ ~t.returning /\ t.open
  BY DEF Sound0, Shaking, Running, Greets, SameStatus
<1>5. Sane(t)
  BY <1>4 DEF Sound0, Sane, Greets, SameStatus
<1>6. Clean(t)
  BY <1>3 DEF Sound0, Clean, Greets, SameStatus
<1>7. Shaking(t, 1)
  BY <1>4 DEF Shaking, Greets, SameStatus, Running, Others
<1>8. Lawful(s, t, f)
  BY <1>4 DEF Lawful, Advances, Outcome, Greets, SameStatus, Running, Shaking
<1> QED
  BY <1>5, <1>6, <1>7, <1>8 DEF PInv, Phase, Quiet, Greets

LEMMA ShakePost ==
  ASSUME NEW s, NEW u, NEW t, NEW f, Sound0(s), Shaking(s, 0), Greets(s, u), SameBus(s, u),
         u.init_stage = u.exchanges,
         u.controls + u.wake_timers = IF u.wake_retry_used THEN 2 ELSE 1,
         NEW kind \in ShakeKinds, Posted(u, t, kind)
  PROVE  PInv(t) /\ Lawful(s, t, f) /\ Quiet(s, t)
<1>1. u \in DeviceType /\ t \in DeviceType /\ kind \in Kinds
  BY DEF Greets, Posted, ShakeKinds, Kinds
<1>2. Shakes(u) = 0 /\ Others(u) = 0
  BY SameBusCounts DEF Shaking, Others
<1>3. Shakes(t) = 1 /\ Others(t) = 0
  <2>1. /\ Rearms(u) = 0 /\ Fingers(u) = 0 /\ Releases(u) = 0 /\ Reads(u) = 0 /\ Writes(u) = 0
    BY <1>1, <1>2, OthersNone
  <2>2. /\ In(kind, ShakeKinds) = 1 /\ In(kind, RearmKinds) = 0 /\ In(kind, {"finger"}) = 0
        /\ In(kind, {"release"}) = 0 /\ In(kind, {"captureRead"}) = 0
        /\ In(kind, {"captureWrite"}) = 0
    BY DEF In, ShakeKinds, RearmKinds
  <2>3. /\ Shakes(t) = 1 /\ Rearms(t) = 0 /\ Fingers(t) = 0 /\ Releases(t) = 0
        /\ Reads(t) = 0 /\ Writes(t) = 0
    BY <1>1, <1>2, <2>1, <2>2, PostedCounts
  <2> QED
    BY <2>3 DEF Others
<1>4. Greets(s, t)
  BY DEF Greets, Posted, Alike, SameData, SameStatus
<1>5. Tagged(t)
  BY SameBusTagged DEF Sound0, Sane, Greets, Posted
<1>6. /\ t.init_stage = t.exchanges
      /\ t.controls + t.wake_timers = IF t.wake_retry_used THEN 2 ELSE 1
  BY DEF Posted, Alike, SameData
<1> QED
  BY <1>3, <1>4, <1>5, <1>6, ShakesOn

LEMMA ShakingStill ==
  ASSUME NEW s, Sound0(s), Shaking(s, 0)
  PROVE  /\ s \in DeviceType /\ ~s.deactivating /\ Greets(s, s) /\ SameBus(s, s)
         /\ s.init_stage = s.exchanges
         /\ s.controls + s.wake_timers = IF s.wake_retry_used THEN 2 ELSE 1
  BY DEF Sound0, Settled, Sane, Shaking, Greets, SameStatus, SameBus

LEMMA OperationControlPosted ==
  ASSUME NEW s, Settled(s)
  PROVE  LET u == [s EXCEPT !.controls = @ + 1, !.exchanges = 0]
         IN  /\ u \in DeviceType /\ Greets(s, u) /\ SameBus(s, u)
             /\ u.controls = s.controls + 1 /\ u.exchanges = 0 /\ u.init_stage = s.init_stage
             /\ u.wake_retry_used = s.wake_retry_used
             /\ Posted(u, SubmitOperationControl(s), "control")
<1> DEFINE u == [s EXCEPT !.controls = @ + 1, !.exchanges = 0]
<1>1. u \in DeviceType
  <2>1. s \in DeviceType /\ s.controls + 1 \in Nat
    BY DEF Settled, DeviceType
  <2> DEFINE n == s.controls + 1
  <2>2. u = [s EXCEPT !.controls = n, !.exchanges = 0] /\ n \in Nat
    BY <2>1
  <2> HIDE DEF n
  <2> QED
    BY <2>1, <2>2 DEF DeviceType
<1>2. /\ Greets(s, u) /\ SameBus(s, u)
      /\ u.controls = s.controls + 1 /\ u.exchanges = 0 /\ u.init_stage = s.init_stage
      /\ u.wake_retry_used = s.wake_retry_used
  BY <1>1 DEF Settled, DeviceType, Greets, SameStatus, SameBus
<1>3. SubmitOperationControl(s) = Submit(u, "control")
  BY DEF SubmitOperationControl
<1> HIDE DEF u
<1>4. Posted(u, Submit(u, "control"), "control")
  BY <1>1, SubmitPosted DEF Kinds
<1> QED
  BY <1>1, <1>2, <1>3, <1>4 DEF u

\* A handshake that fails ends the action.
LEMMA ShakeFail ==
  ASSUME NEW s, NEW f, Sound0(s), Shaking(s, 0), NEW e, Blamed(s, e),
         e = "noDevice" => s.wake_retry_used
  PROVE  LET t == ActivateComplete(s, e)
         IN  PInv(t) /\ Lawful(s, t, f) /\ Quiet(s, t)
<1> DEFINE u == [s EXCEPT !.state = "inactive"]
           t == Complete(u, e)
<1>1. s \in DeviceType /\ e \in Results \ {"pending", "wrongType"} /\ e # "none"
  BY DEF Sound0, Settled, Blamed, Results, Errors, BusErrors
<1>2. ActivateComplete(s, e) = t
  BY <1>1 DEF ActivateComplete, Shaking, Running
<1>3. Turned(s, u, "inactive")
  BY <1>1, SetStateTurned DEF FwStates
<1> HIDE DEF u
<1>4. u \in DeviceType /\ Running(u) /\ u.state = "inactive" /\ ~u.active /\ u.action_error = "none"
  BY <1>3 DEF Turned, Running, Shaking, SameData
<1>5. Ended(u, t, e) /\ t.warnings = u.warnings
  BY <1>1, <1>4, CompleteEnds
<1>6. Ended(s, t, e) /\ t.warnings = s.warnings
  BY <1>3, <1>5 DEF Ended, Turned, SameData, SameBus
<1>7. /\ Shakes(s) = 0 /\ Rearms(s) = 0 /\ Fingers(s) = 0 /\ Releases(s) = 0
      /\ Reads(s) = 0 /\ Writes(s) = 0
  BY <1>1, OthersNone DEF Shaking, Others
<1>8. Talks(s) = 0 /\ Rearms(s) + Fingers(s) + Reads(s) + Writes(s) = 0
  BY <1>7 DEF Talks
<1>9. Leftover(s)
  BY <1>1, <1>7, <1>8, OnlyReleases DEF Leftover
<1>10. e \in BusErrors => (s.rejects = 0 => e \in Faults)
  BY DEF Blamed, BusErrors
<1>11. e = "cancelled" => s.cancelled
  BY DEF Blamed, BusErrors
<1>12. e = "noDevice" => s.controls = 2
  <2>1. s.wake_timers = 0
    <3>1. Pending(s) \in [Kinds -> Nat] /\ s.wake_timers \in Nat
      BY <1>1, PendingType
    <3>2. /\ Pending(s)["control"] \in Nat /\ Pending(s)["initWrite"] \in Nat
          /\ Pending(s)["initRead"] \in Nat
      BY <3>1 DEF Kinds
    <3> DEFINE c == Pending(s)["control"] w == Pending(s)["initWrite"]
               r == Pending(s)["initRead"] n == s.wake_timers
    <3>3. c + w + r + n = 0 /\ c \in Nat /\ w \in Nat /\ r \in Nat /\ n \in Nat
      BY <1>7, <3>1, <3>2 DEF Shakes
    <3> HIDE DEF c, w, r, n
    <3>4. n = 0
      BY <3>3
    <3> QED
      BY <3>4 DEF n
  <2>2. s.controls \in Nat
    BY <1>1 DEF DeviceType
  <2> QED
    BY <2>1, <2>2 DEF Shaking
<1> HIDE DEF t
<1>13. PInv(t)
  BY <1>1, <1>6, <1>7, <1>8, <1>9, <1>10, EndedRests DEF Sound0, Shaking
<1>14. Lawful(s, t, f)
  <2>1. e # "ok"
    BY DEF Blamed, BusErrors
  <2> QED
    BY <1>1, <1>6, <1>11, <1>12, <2>1, EndedLawful DEF Shaking
<1> QED
  BY <1>2, <1>6, <1>13, <1>14 DEF Quiet

\* The one retry, or the failure.
LEMMA ShakeRetry ==
  ASSUME NEW s, NEW f, Sound0(s), Shaking(s, 0), NEW e, Blamed(s, e)
  PROVE  LET t == WakeRetryOrFail(s, e)
         IN  PInv(t) /\ Lawful(s, t, f) /\ Quiet(s, t)
<1>1. CASE WakeRetryApplies(s, e)
  <2> DEFINE t == [s EXCEPT !.wake_retry_used = TRUE, !.wake_timers = @ + 1]
  <2>1. s \in DeviceType /\ ~s.wake_retry_used
    BY <1>1 DEF Sound0, Settled, WakeRetryApplies
  <2>2. t \in DeviceType
    <3> DEFINE n == s.wake_timers + 1
    <3>1. t = [s EXCEPT !.wake_retry_used = TRUE, !.wake_timers = n] /\ n \in Nat
      BY <2>1 DEF DeviceType
    <3> HIDE DEF n
    <3> QED
      BY <2>1, <3>1 DEF DeviceType
  <2>3. /\ Greets(s, t) /\ t.flight = s.flight /\ t.wake_timers = s.wake_timers + 1
        /\ t.wake_retry_used /\ t.controls = s.controls
        /\ t.init_stage = s.init_stage /\ t.exchanges = s.exchanges
    BY <2>1, <2>2 DEF DeviceType, Greets, SameStatus
  <2>4. s.wake_timers \in Nat /\ s.controls \in Nat
    BY <2>1 DEF DeviceType
  <2> HIDE DEF t
  <2>5. Pending(t) = Pending(s)
    BY <2>3 DEF Pending
  <2>6. Others(t) = Others(s)
    BY <2>5 DEF Others, Rearms, Fingers, Releases, Reads, Writes
  <2>7. Shakes(t) = Shakes(s) + 1
    <3>1. Pending(s) \in [Kinds -> Nat]
      BY <2>1, PendingType
    <3>2. /\ Pending(s)["control"] \in Nat /\ Pending(s)["initWrite"] \in Nat
          /\ Pending(s)["initRead"] \in Nat
      BY <3>1 DEF Kinds
    <3> DEFINE c == Pending(s)["control"] w == Pending(s)["initWrite"]
               r == Pending(s)["initRead"] n == s.wake_timers m == t.wake_timers
    <3>3. /\ Shakes(s) = c + w + r + n /\ Shakes(t) = c + w + r + m
          /\ m = n + 1
          /\ c \in Nat /\ w \in Nat /\ r \in Nat /\ n \in Nat
      BY <2>3, <2>4, <2>5, <3>2 DEF Shakes
    <3> HIDE DEF c, w, r, n, m
    <3> QED
      BY <3>3
  <2>8. Tagged(t)
    BY <2>3 DEF Sound0, Sane, Tagged, SubmitTag, Greets
  <2>9. /\ Shakes(t) = 1 /\ Others(t) = 0
        /\ t.controls + t.wake_timers = IF t.wake_retry_used THEN 2 ELSE 1
    BY <2>1, <2>3, <2>4, <2>6, <2>7 DEF Shaking, Others
  <2>10. t.init_stage = t.exchanges
    BY <2>3 DEF Sound0, Sane
  <2> QED
    BY <1>1, <2>3, <2>8, <2>9, <2>10, ShakesOn DEF WakeRetryOrFail, t
<1>2. CASE ~WakeRetryApplies(s, e)
  BY <1>2, ShakeFail DEF WakeRetryOrFail, WakeRetryApplies
<1> QED
  BY <1>1, <1>2

LEMMA ShakeOperationControl ==
  ASSUME NEW s, NEW f, Sound0(s), Shaking(s, 0), NEW e, e = "none" \/ Blamed(s, e)
  PROVE  LET t == OperationControlCb(s, e)
         IN  PInv(t) /\ Lawful(s, t, f) /\ Quiet(s, t)
<1>1. CASE e = "none"
  <2> DEFINE t == Submit(s, "initWrite")
  <2>1. Posted(s, t, "initWrite")
    BY ShakingStill, SubmitPosted DEF Kinds
  <2> HIDE DEF t
  <2>2. PInv(t) /\ Lawful(s, t, f) /\ Quiet(s, t)
    BY <2>1, ShakingStill, ShakePost DEF ShakeKinds
  <2> QED
    BY <1>1, <2>2 DEF OperationControlCb, InitSendStage, t
<1>2. CASE e = "invalid"
  <2>1. OperationControlCb(s, e) = ActivateComplete(s, e)
    BY <1>2 DEF OperationControlCb
  <2> QED
    BY <1>2, <2>1, ShakeFail
<1>3. CASE e \notin {"none", "invalid"}
  <2>1. OperationControlCb(s, e) = WakeRetryOrFail(s, e)
    BY <1>3 DEF OperationControlCb
  <2> QED
    BY <1>3, <2>1, ShakeRetry
<1> QED
  BY <1>1, <1>2, <1>3

LEMMA ShakeInitWrite ==
  ASSUME NEW s, NEW f, Sound0(s), Shaking(s, 0), NEW e, e = "none" \/ Blamed(s, e)
  PROVE  LET t == InitWriteCb(s, e)
         IN  PInv(t) /\ Lawful(s, t, f) /\ Quiet(s, t)
<1>1. CASE e = "none"
  <2> DEFINE t == Submit(s, "initRead")
  <2>1. Posted(s, t, "initRead")
    BY ShakingStill, SubmitPosted DEF Kinds
  <2> HIDE DEF t
  <2>2. PInv(t) /\ Lawful(s, t, f) /\ Quiet(s, t)
    BY <2>1, ShakingStill, ShakePost DEF ShakeKinds
  <2> QED
    BY <1>1, <2>2 DEF InitWriteCb, t
<1>2. CASE e # "none"
  BY <1>2, ShakeRetry DEF InitWriteCb
<1> QED
  BY <1>1, <1>2

\* The device is active once the handshake is complete, and listens.
LEMMA ShakeDone ==
  ASSUME NEW s, NEW u, NEW f, Sound0(s), Shaking(s, 0), ~s.cancelled,
         Greets(s, u), SameBus(s, u), u.init_stage = 7, u.exchanges = 7
  PROVE  LET t == ActivateComplete(u, "none")
         IN  PInv(t) /\ Lawful(s, t, f) /\ Quiet(s, t)
<1> DEFINE a == [u EXCEPT !.active = TRUE]
           b == ChangeState(a, "idle")
           t == ChangeState(b, "awaitFingerOn")
<1>1. /\ u \in DeviceType /\ ~u.deactivating /\ ~u.active /\ u.action # "none"
      /\ s \in DeviceType
  BY DEF Greets, Sound0, Settled, Shaking, Running, SameStatus
<1>2. ActivateComplete(u, "none") = t
  BY <1>1 DEF ActivateComplete
<1>3. a \in DeviceType
  BY <1>1 DEF DeviceType
<1>4. /\ SameData(u, a) /\ SameBus(u, a) /\ a.active /\ a.returning = u.returning
      /\ a.result = u.result /\ a.action_error = u.action_error
      /\ a.cancel_idle = u.cancel_idle /\ a.warnings = u.warnings
  BY <1>1 DEF DeviceType, SameData, SameBus
<1> HIDE DEF a
<1>5. Turned(a, b, "idle")
  BY <1>3, ChangeStateTurned DEF FwStates
<1> HIDE DEF b
<1>6. Settled(b) /\ b.capture_count = 0 /\ ~b.awaiting_release
  BY <1>1, <1>4, <1>5 DEF Turned, SameData, Settled, Shaking, Greets
<1>7. PICK v : Turned(b, v, "awaitFingerOn") /\ Posted(v, t, "finger")
  BY <1>6, AwaitFingerOn DEF ListenKind
<1> HIDE DEF t
<1>8. v \in DeviceType /\ t \in DeviceType
  BY <1>7 DEF Turned, Posted
<1>9. SameBus(s, v)
  BY <1>4, <1>5, <1>7 DEF Turned, SameBus
<1>10. /\ t.open = s.open /\ t.action = s.action /\ t.cancelled = s.cancelled
       /\ t.report = s.report /\ t.enroll_stage = s.enroll_stage
       /\ t.enroll_await_on_pending = s.enroll_await_on_pending
       /\ t.minutiae_scan_active = s.minutiae_scan_active
       /\ t.capture_count = s.capture_count /\ t.awaiting_release = s.awaiting_release
       /\ t.credited = s.credited /\ t.rejects = s.rejects
       /\ t.init_stage = 7 /\ t.exchanges = 7
  <2>1. /\ a.open = s.open /\ a.action = s.action /\ a.cancelled = s.cancelled
        /\ a.report = s.report /\ a.enroll_stage = s.enroll_stage
        /\ a.enroll_await_on_pending = s.enroll_await_on_pending
        /\ a.minutiae_scan_active = s.minutiae_scan_active
        /\ a.capture_count = s.capture_count /\ a.awaiting_release = s.awaiting_release
        /\ a.credited = s.credited /\ a.rejects = s.rejects
        /\ a.init_stage = 7 /\ a.exchanges = 7
    BY <1>4 DEF SameData, Greets
  <2> QED
    BY <2>1, <1>5, <1>7 DEF Turned, Posted, Alike, SameData
<1>11. /\ t.state = "awaitFingerOn" /\ t.active /\ t.returning = s.returning
       /\ t.result = s.result /\ t.action_error = s.action_error
       /\ t.cancel_idle = s.cancel_idle /\ t.warnings = s.warnings
  <2>1. /\ a.active /\ a.returning = s.returning
        /\ a.result = s.result /\ a.action_error = s.action_error
        /\ a.cancel_idle = s.cancel_idle /\ a.warnings = s.warnings
    BY <1>4 DEF Greets, SameStatus
  <2> QED
    BY <2>1, <1>5, <1>7 DEF Turned, Posted, Alike, SameStatus
<1>12. /\ Shakes(v) = 0 /\ Rearms(v) = 0 /\ Fingers(v) = 0 /\ Releases(v) = 0
       /\ Reads(v) = 0 /\ Writes(v) = 0
  <2>1. /\ Rearms(s) = 0 /\ Fingers(s) = 0 /\ Releases(s) = 0 /\ Reads(s) = 0 /\ Writes(s) = 0
    BY <1>1, OthersNone DEF Shaking, Others
  <2> QED
    BY <1>9, <2>1, SameBusCounts DEF Shaking
<1>13. /\ Shakes(t) = 0 /\ Rearms(t) = 0 /\ Fingers(t) = 1 /\ Releases(t) = 0
       /\ Reads(t) = 0 /\ Writes(t) = 0 /\ Talks(t) = 1
  <2>1. "finger" \in Kinds
    BY DEF Kinds
  <2>2. /\ In("finger", ShakeKinds) = 0 /\ In("finger", RearmKinds) = 0
        /\ In("finger", {"finger"}) = 1 /\ In("finger", {"release"}) = 0
        /\ In("finger", {"captureRead"}) = 0 /\ In("finger", {"captureWrite"}) = 0
    BY DEF In, ShakeKinds, RearmKinds
  <2>3. /\ Shakes(t) = 0 /\ Rearms(t) = 0 /\ Fingers(t) = 1 /\ Releases(t) = 0
        /\ Reads(t) = 0 /\ Writes(t) = 0
    BY <1>7, <1>8, <1>12, <2>1, <2>2, PostedCounts
  <2> QED
    BY <2>3 DEF Talks
<1>14. Tagged(t)
  <2>1. v.action = s.action /\ v.cancelled = s.cancelled
    BY <1>7, <1>10 DEF Posted, Alike, SameData
  <2> QED
    BY <1>7, <1>9, <2>1, SameBusTagged DEF Posted, Sound0, Sane
<1>15. Sane(t)
  BY <1>10, <1>11, <1>14 DEF Sound0, Sane
<1>16. Clean(t)
  BY <1>10, <1>11, <1>13 DEF Sound0, Clean
<1>17. Serving(t)
  <2>1. Agrees(t)
    BY <1>10, <1>11, ConstantsAssumption DEF Agrees, ServingStates, Shaking, Running
  <2>2. Idles(t)
    BY <1>11, <1>13 DEF Idles
  <2>3. Attended(t)
    BY <1>10, <1>11, <1>13 DEF Attended, Listening1, Shaking
  <2> QED
    BY <2>1, <2>2, <2>3 DEF Serving
<1>18. Lawful(s, t, f)
  BY <1>10, <1>11 DEF Lawful, Advances, Outcome, Shaking, Running
<1> QED
  BY <1>2, <1>11, <1>15, <1>16, <1>17, <1>18 DEF PInv, Phase, Quiet

LEMMA ShakeInitRead ==
  ASSUME NEW s, NEW f, Sound0(s), Shaking(s, 0), NEW e, e = "none" \/ Blamed(s, e),
         e = "none" => ~s.cancelled
  PROVE  LET t == InitReadCb(s, e)
         IN  PInv(t) /\ Lawful(s, t, f) /\ Quiet(s, t)
<1>1. CASE e = "none"
  <2> DEFINE n == s.init_stage + 1
             m == s.exchanges + 1
             u == [s EXCEPT !.init_stage = n, !.exchanges = m]
             t == Submit(u, "initWrite")
  <2>1. InitReadCb(s, e) = IF u.init_stage = 7 THEN ActivateComplete(u, "none") ELSE t
    BY <1>1 DEF InitReadCb, InitSendStage
  <2>2. s \in DeviceType /\ n \in Nat /\ m \in Nat /\ n = m
    BY DEF Sound0, Settled, Sane, DeviceType
  <2> HIDE DEF n, m
  <2>3. u \in DeviceType
    BY <2>2 DEF DeviceType
  <2>4. /\ Greets(s, u) /\ SameBus(s, u) /\ u.init_stage = n /\ u.exchanges = m
        /\ u.controls = s.controls /\ u.wake_retry_used = s.wake_retry_used
    BY <2>2, <2>3 DEF DeviceType, Greets, SameStatus, SameBus
  <2> HIDE DEF u
  <2>5. CASE u.init_stage = 7
    BY <1>1, <2>1, <2>2, <2>4, <2>5, ShakeDone
  <2>6. CASE u.init_stage # 7
    <3>1. Posted(u, t, "initWrite")
      BY <2>3, SubmitPosted DEF Kinds
    <3> HIDE DEF t
    <3>2. u.controls + u.wake_timers = IF u.wake_retry_used THEN 2 ELSE 1
      BY <2>4 DEF Shaking, SameBus
    <3>3. PInv(t) /\ Lawful(s, t, f) /\ Quiet(s, t)
      BY <2>2, <2>4, <3>1, <3>2, ShakePost DEF ShakeKinds
    <3> QED
      BY <2>1, <2>6, <3>3
  <2> QED
    BY <2>5, <2>6
<1>2. CASE e # "none"
  BY <1>2, ShakeRetry DEF InitReadCb
<1> QED
  BY <1>1, <1>2

LEMMA ShakeTimer ==
  ASSUME NEW s, NEW f, Sound0(s), Shaking(s, 1), s.wake_timers > 0
  PROVE  LET t == WakeRetryTimeoutCb(s)
         IN  PInv(t) /\ Lawful(s, t, f) /\ Quiet(s, t)
<1> DEFINE n == s.wake_timers - 1
           a == [s EXCEPT !.wake_timers = n]
           b == [a EXCEPT !.init_stage = 0]
           t == SubmitOperationControl(b)
<1>1. s \in DeviceType /\ ~s.deactivating /\ n \in Nat /\ s.wake_timers = n + 1
  BY DEF Sound0, Settled, DeviceType
<1>2. WakeRetryTimeoutCb(s) = t
  BY <1>1 DEF WakeRetryTimeoutCb, DeviceType
<1> HIDE DEF n
<1>3. b \in DeviceType
  BY <1>1 DEF DeviceType
<1>4. /\ Greets(s, b) /\ b.flight = s.flight /\ b.wake_timers = n
      /\ b.init_stage = 0 /\ b.controls = s.controls
      /\ b.wake_retry_used = s.wake_retry_used
  BY <1>1, <1>3 DEF DeviceType, Greets, SameStatus
<1> HIDE DEF b
<1>5. Settled(b)
  BY <1>1, <1>3, <1>4 DEF Settled, Greets
<1>6. PICK u : /\ u \in DeviceType /\ Greets(b, u) /\ SameBus(b, u)
               /\ u.controls = b.controls + 1 /\ u.exchanges = 0
               /\ u.init_stage = b.init_stage /\ u.wake_retry_used = b.wake_retry_used
               /\ Posted(u, t, "control")
  BY <1>5, OperationControlPosted
<1> HIDE DEF t
<1>7. t \in DeviceType
  BY <1>6 DEF Posted
<1>8. Greets(s, t)
  BY <1>4, <1>6, <1>7 DEF Greets, Posted, Alike, SameData, SameStatus
<1>9. Pending(u) = Pending(s) /\ u.wake_timers = n
  BY <1>4, <1>6 DEF SameBus, Pending
<1>10. Shakes(s) = Shakes(u) + 1 /\ Others(u) = 0
  <2>1. Pending(s) \in [Kinds -> Nat]
    BY <1>1, PendingType
  <2>2. /\ Pending(s)["control"] \in Nat /\ Pending(s)["initWrite"] \in Nat
        /\ Pending(s)["initRead"] \in Nat
    BY <2>1 DEF Kinds
  <2> DEFINE c == Pending(s)["control"] w == Pending(s)["initWrite"]
             r == Pending(s)["initRead"] m == s.wake_timers
  <2>3. /\ Shakes(s) = c + w + r + m /\ Shakes(u) = c + w + r + n /\ m = n + 1
        /\ c \in Nat /\ w \in Nat /\ r \in Nat
    BY <1>1, <1>9, <2>2 DEF Shakes
  <2> HIDE DEF c, w, r, m
  <2>4. Shakes(s) = Shakes(u) + 1
    BY <1>1, <2>3
  <2>5. Others(u) = Others(s)
    BY <1>9 DEF Others, Rearms, Fingers, Releases, Reads, Writes
  <2> QED
    BY <2>4, <2>5 DEF Shaking, Others
<1>11. Shakes(t) = 1 /\ Others(t) = 0
  <2>1. Shakes(u) = 0
    BY <1>6, <1>10, CountsType DEF Shaking
  <2>2. /\ Rearms(u) = 0 /\ Fingers(u) = 0 /\ Releases(u) = 0 /\ Reads(u) = 0 /\ Writes(u) = 0
    BY <1>6, <1>10, OthersNone
  <2>3. /\ In("control", ShakeKinds) = 1 /\ In("control", RearmKinds) = 0
        /\ In("control", {"finger"}) = 0 /\ In("control", {"release"}) = 0
        /\ In("control", {"captureRead"}) = 0 /\ In("control", {"captureWrite"}) = 0
    BY DEF In, ShakeKinds, RearmKinds
  <2>4. "control" \in Kinds
    BY DEF Kinds
  <2>5. /\ Shakes(t) = 1 /\ Rearms(t) = 0 /\ Fingers(t) = 0 /\ Releases(t) = 0
        /\ Reads(t) = 0 /\ Writes(t) = 0
    BY <1>6, <2>1, <2>2, <2>3, <2>4, PostedCounts
  <2> QED
    BY <2>5 DEF Others
<1>12. Tagged(t)
  <2>1. Tagged(u)
    BY <1>4, <1>6 DEF Sound0, Sane, Tagged, SubmitTag, Greets, SameBus
  <2> QED
    BY <1>6, <2>1 DEF Posted
<1>13. /\ t.init_stage = t.exchanges
       /\ t.controls + t.wake_timers = IF t.wake_retry_used THEN 2 ELSE 1
  <2>1. /\ t.init_stage = u.init_stage /\ t.exchanges = u.exchanges
        /\ t.controls = u.controls /\ t.wake_timers = u.wake_timers
        /\ t.wake_retry_used = u.wake_retry_used
    BY <1>6 DEF Posted, Alike, SameData
  <2>2. s.controls \in Nat
    BY <1>1 DEF DeviceType
  <2>3. t.controls = s.controls + 1 /\ t.wake_timers = n
    BY <1>4, <1>6, <1>9, <2>1
  <2>4. t.controls + t.wake_timers = s.controls + s.wake_timers
    BY <1>1, <2>2, <2>3
  <2> QED
    BY <1>4, <1>6, <2>1, <2>4 DEF Shaking
<1> QED
  BY <1>2, <1>8, <1>11, <1>12, <1>13, ShakesOn

-----------------------------------------------------------------------------
(* While touches are served. *)

OnDuty(s) == Sound0(s) /\ Agrees(s) /\ Idles(s)

\* An action may be stopped here: its minutiae thread, if it runs, is all that
\* is left of the conversation, up to what has been cancelled.
Stoppable(s) ==
    /\ Settled(s) /\ Sane(s) /\ Clean(s) /\ s.open
    /\ Running(s) /\ Shakes(s) = 0
    /\ s.minutiae_scan_active =>
         /\ s.action = "capture"
         /\ Rearms(s) + Fingers(s) + Reads(s) + Writes(s) = 0
         /\ s.cancelled \/ Releases(s) = 0

\* An error the action may end with.
Explained(s, err) ==
    /\ err \in Errors \ {"wrongType"}
    /\ err = "cancelled" => s.cancelled
    /\ s.rejects = 0 /\ err \in BusErrors => err \in Faults

LEMMA HaltedDetects ==
  ASSUME NEW s, NEW t, NEW err, NEW f, Stoppable(s), s.minutiae_scan_active,
         Explained(s, err), Halted(s, t, err)
  PROVE  PInv(t) /\ Lawful(s, t, f)
<1>1. SameBus(s, t) /\ SameData(s, t) /\ t \in DeviceType
  BY DEF Halted
<1>2. /\ Shakes(t) = Shakes(s) /\ Talks(t) = Talks(s) /\ Releases(t) = Releases(s)
      /\ Rearms(t) = Rearms(s) /\ Fingers(t) = Fingers(s) /\ Reads(t) = Reads(s)
      /\ Writes(t) = Writes(s)
  BY <1>1, SameBusCounts
<1>3. Tagged(t)
  BY <1>1, SameBusTagged DEF SameData, Stoppable, Sane
<1>4. t.action # "none" /\ t.open /\ ~t.returning
  BY <1>1 DEF SameData, Running, Halted, Stoppable
<1>5. Sane(t)
  BY <1>1, <1>3, <1>4 DEF Stoppable, Sane, SameData, Halted, Explained
<1>6. Clean(t)
  BY <1>1, <1>2 DEF Stoppable, Clean, SameData, Halted, Explained
<1>7. Detecting(t)
  <2>1. /\ t.action = "capture" /\ t.minutiae_scan_active /\ t.cancelled = s.cancelled
        /\ t.state = "inactive" /\ ~t.active
    BY <1>1 DEF Stoppable, SameData, Halted
  <2>2. /\ Shakes(s) = 0 /\ Rearms(s) + Fingers(s) + Reads(s) + Writes(s) = 0
        /\ s.cancelled \/ Releases(s) = 0
    BY DEF Stoppable
  <2>3. /\ Shakes(t) = 0 /\ Rearms(t) + Fingers(t) + Reads(t) + Writes(t) = 0
        /\ t.cancelled \/ Releases(t) = 0
    <3>1. Releases(s) = 0 => Releases(t) = 0
      BY <1>2
    <3>2. Rearms(t) + Fingers(t) + Reads(t) + Writes(t) = 0
      BY <1>2, <2>2
    <3> QED
      BY <1>2, <2>1, <2>2, <3>1, <3>2
  <2>4. Shakes(t) + Rearms(t) + Fingers(t) + Reads(t) + Writes(t) = 0
    BY <1>1, <2>3, CountsType
  <2> QED
    BY <1>4, <2>1, <2>3, <2>4 DEF Detecting, Running
<1>8. Lawful(s, t, f)
  BY <1>1, <1>4 DEF Lawful, Advances, Outcome, SameData, Halted, Running, Stoppable
<1> QED
  BY <1>5, <1>6, <1>7, <1>8 DEF PInv, Phase

LEMMA EndedRests2 ==
  ASSUME NEW s, NEW t, NEW err, NEW f, Stoppable(s), ~s.minutiae_scan_active,
         Explained(s, err), Leftover(s), s.state # "activating",
         Ended(s, t, ActionResult(s, err))
  PROVE  PInv(t) /\ Resting(t) /\ Lawful(s, t, f)
<1> DEFINE r == ActionResult(s, err)
<1>1. s \in DeviceType
  BY DEF Stoppable, Settled
<1>2. /\ r \in Results \ {"pending", "wrongType"}
      /\ r \in BusErrors => err = r
      /\ r = "cancelled" => s.cancelled
      /\ r = "ok" /\ s.action \in {"verify", "identify"} => s.report = "result"
  BY <1>1, ActionResultFacts DEF Stoppable, Explained
<1> HIDE DEF r
<1>3. s.rejects = 0 => Talks(s) <= 1 /\ (r \in BusErrors => r \in Faults)
  BY <1>2 DEF Stoppable, Clean, Explained
<1>4. PInv(t) /\ Resting(t)
  BY <1>1, <1>2, <1>3, EndedRests DEF Stoppable, r
<1>5. Lawful(s, t, f)
  <2>1. Ended(s, t, r) /\ Running(s)
    BY DEF Stoppable, r
  <2>2. r \notin {"pending", "wrongType"}
    BY <1>2
  <2> QED
    BY <1>1, <1>2, <2>1, <2>2, EndedLawful
<1> QED
  BY <1>4, <1>5

LEMMA StoppedRests ==
  ASSUME NEW s, NEW t, NEW err, NEW f, Stoppable(s), Explained(s, err), Leftover(s),
         s.state # "activating", Stopped(s, t, err)
  PROVE  PInv(t) /\ Lawful(s, t, f)
  BY HaltedDetects, EndedRests2 DEF Stopped

\* On duty, an action can be stopped once its release read is over.
LEMMA DutyStoppable ==
  ASSUME NEW s, OnDuty(s),
         s.minutiae_scan_active /\ ~s.cancelled => Releases(s) = 0
  PROVE  /\ Stoppable(s) /\ s \in DeviceType
         /\ s.active /\ s.state \notin {"inactive", "deactivating", "activating"}
  BY DEF OnDuty, Sound0, Settled, Stoppable, Agrees, Idles, ServingStates

LEMMA BlamedExplained ==
  ASSUME NEW s, Sound0(s), NEW e, e = "none" \/ Blamed(s, e)
  PROVE  Explained(s, FirstError(s, e)) /\ e \in Errors
<1>1. s.action_error \in Errors
  BY DEF Sound0, Settled, DeviceType
<1>2. e \in Errors \ {"wrongType"} /\ (e = "cancelled" => s.cancelled)
  BY DEF Blamed, Errors, BusErrors
<1> QED
  BY <1>1, <1>2 DEF Explained, FirstError, Sound0, Sane, Clean, Blamed, BusErrors

\* What a cancelled action leaves in flight is doomed.
LEMMA CancelledLeftover ==
  ASSUME NEW s, Sane(s), s.action # "none", s.cancelled
  PROVE  Leftover(s)
  BY DEF Sane, Tagged, SubmitTag, Leftover

LEMMA BlamedLeftover ==
  ASSUME NEW s, Sound0(s), Running(s), NEW e, Blamed(s, e)
  PROVE  Leftover(s)
<1>1. CASE s.cancelled
  BY <1>1, CancelledLeftover DEF Sound0, Running
<1>2. CASE ~s.cancelled
  BY <1>2 DEF Blamed, Leftover
<1> QED
  BY <1>1, <1>2

\* A transfer that fails ends the action.
LEMMA ServeFail ==
  ASSUME NEW s, NEW f, OnDuty(s), NEW e, Blamed(s, e),
         s.minutiae_scan_active /\ ~s.cancelled => Releases(s) = 0
  PROVE  LET t == FailSessionOrDeactivate(s, e)
         IN  PInv(t) /\ Lawful(s, t, f) /\ Quiet(s, t)
<1> DEFINE t == FailSessionOrDeactivate(s, e)
<1>1. /\ Stoppable(s) /\ s.active /\ s.state \notin {"inactive", "deactivating", "activating"}
  BY DutyStoppable
<1>2. Explained(s, FirstError(s, e)) /\ e \in Errors /\ Leftover(s)
  BY BlamedExplained, BlamedLeftover DEF OnDuty, Agrees
<1>3. Stopped(s, t, FirstError(s, e)) /\ t.warnings = s.warnings
  BY <1>1, <1>2, FailStops DEF Stoppable
<1> HIDE DEF t
<1>4. PInv(t) /\ Lawful(s, t, f)
  BY <1>1, <1>2, <1>3, StoppedRests
<1> QED
  BY <1>3, <1>4 DEF Quiet, t

\* Nothing to do.
LEMMA ServeStay ==
  ASSUME NEW s, NEW f, OnDuty(s), ~s.cancelled => Attended(s)
  PROVE  PInv(s) /\ Lawful(s, s, f) /\ Quiet(s, s)
<1>1. PInv(s)
  BY DEF OnDuty, Sound0, PInv, Phase, Serving
<1>2. Lawful(s, s, f)
  BY DEF OnDuty, Agrees, Lawful, Advances, Outcome, Running
<1> QED
  BY <1>1, <1>2 DEF Quiet

\* What is left in flight of an action that is not cancelled, once a transfer
\* of this kind has ended.
DueOn(s, kind) ==
    IF s.awaiting_release
    THEN /\ Rearms(s) + Releases(s) = 1 /\ Fingers(s) = 0 /\ s.rejects > 0
         /\ kind \in RearmKinds \cup {"release"}
         /\ kind \in RearmKinds => Releases(s) = 1
    ELSE /\ Rearms(s) = 0 /\ Fingers(s) = 0 /\ Releases(s) = 0
         /\ kind \in RearmKinds \cup {"finger", "release"}
         /\ s.rejects = 0 => kind # "release"

Due(s, kind) ==
    /\ s.rejects = 0 => Talks(s) = 0
    /\ s.state = "awaitFingerOn" => DueOn(s, kind)
    /\ s.state = "capture" => kind = "captureRead" /\ Reads(s) = 0
    /\ s.state = "awaitFingerOff" => kind = "release" /\ Releases(s) = 0

LEMMA ReapedDuty ==
  ASSUME NEW d, OnDuty(d), NEW kind \in Kinds, NEW s, Reaped(d, s, kind)
  PROVE  OnDuty(s)
<1>1. d \in DeviceType /\ s \in DeviceType /\ Alike(d, s)
  BY DEF OnDuty, Sound0, Settled, Reaped
<1>2. /\ Shakes(d) = Shakes(s) + In(kind, ShakeKinds)
      /\ Rearms(d) = Rearms(s) + In(kind, RearmKinds)
      /\ Fingers(d) = Fingers(s) + In(kind, {"finger"})
      /\ Releases(d) = Releases(s) + In(kind, {"release"})
      /\ Reads(d) = Reads(s) + In(kind, {"captureRead"})
      /\ Writes(d) = Writes(s) + In(kind, {"captureWrite"})
      /\ Talks(d) = Talks(s) + In(kind, TalkKinds)
  BY <1>1, ReapedCounts
<1>3. \A S : In(kind, S) \in {0, 1}
  BY DEF In
<1>4. /\ Shakes(s) \in Nat /\ Rearms(s) \in Nat /\ Fingers(s) \in Nat
      /\ Releases(s) \in Nat /\ Reads(s) \in Nat /\ Writes(s) \in Nat
      /\ Talks(s) \in Nat
  BY <1>1, CountsType
<1>5. Settled(s) /\ s.open
  BY <1>1 DEF OnDuty, Sound0, Settled, Alike, SameData
<1>6. Sane(s)
  <2>1. Tagged(s)
    BY DEF OnDuty, Sound0, Sane, Reaped
  <2> QED
    BY <1>1, <1>5, <2>1 DEF OnDuty, Sound0, Sane, Alike, SameData, SameStatus
<1>7. Clean(s)
  <2>1. Talks(d) <= 1 => Talks(s) <= 1
    BY <1>2, <1>3, <1>4
  <2> QED
    BY <1>1, <2>1 DEF OnDuty, Sound0, Clean, Alike, SameData, SameStatus
<1>8. Agrees(s)
  BY <1>1 DEF OnDuty, Agrees, Alike, SameData, SameStatus, Running
<1>9. Idles(s)
  <2>1. s.state = d.state
    BY <1>1 DEF Alike, SameStatus
  <2>2. Shakes(s) = 0
    BY <1>2, <1>3, <1>4 DEF OnDuty, Idles
  <2>3. d.state = "awaitFingerOn" => Reads(s) + Writes(s) = 0
    BY <1>2, <1>3, <1>4 DEF OnDuty, Idles
  <2>4. d.state = "capture" => Rearms(s) + Fingers(s) + Releases(s) = 0
    BY <1>2, <1>3, <1>4 DEF OnDuty, Idles
  <2>5. d.state = "awaitFingerOff" => Rearms(s) + Fingers(s) + Reads(s) + Writes(s) = 0
    BY <1>2, <1>3, <1>4 DEF OnDuty, Idles
  <2> QED
    BY <2>1, <2>2, <2>3, <2>4, <2>5 DEF Idles
<1> QED
  BY <1>5, <1>6, <1>7, <1>8, <1>9 DEF OnDuty, Sound0

LEMMA ReapedDue ==
  ASSUME NEW d, OnDuty(d), Attended(d), NEW kind \in Kinds \ {"captureWrite"},
         NEW s, Reaped(d, s, kind)
  PROVE  Due(s, kind)
<1>1. d \in DeviceType /\ s \in DeviceType /\ Alike(d, s)
  BY DEF OnDuty, Sound0, Settled, Reaped
<1>2. /\ Shakes(d) = Shakes(s) + In(kind, ShakeKinds)
      /\ Rearms(d) = Rearms(s) + In(kind, RearmKinds)
      /\ Fingers(d) = Fingers(s) + In(kind, {"finger"})
      /\ Releases(d) = Releases(s) + In(kind, {"release"})
      /\ Reads(d) = Reads(s) + In(kind, {"captureRead"})
      /\ Writes(d) = Writes(s) + In(kind, {"captureWrite"})
      /\ Talks(d) = Talks(s) + In(kind, TalkKinds)
  BY <1>1, ReapedCounts
<1>3. /\ Shakes(s) \in Nat /\ Rearms(s) \in Nat /\ Fingers(s) \in Nat
      /\ Releases(s) \in Nat /\ Reads(s) \in Nat /\ Writes(s) \in Nat
      /\ Talks(s) \in Nat
  BY <1>1, CountsType
<1>4. /\ s.state = d.state /\ s.rejects = d.rejects
      /\ s.awaiting_release = d.awaiting_release
  BY <1>1 DEF Alike, SameData, SameStatus
<1>5. In(kind, TalkKinds) = 1
  BY DEF In, TalkKinds
<1>6. s.rejects = 0 => Talks(s) = 0
  BY <1>2, <1>3, <1>4, <1>5 DEF OnDuty, Sound0, Clean
<1>7. kind \in ShakeKinds \cup RearmKinds \cup {"finger", "release", "captureRead"}
  BY DEF Kinds, ShakeKinds, RearmKinds
<1>8. kind \notin ShakeKinds
  <2>1. SUFFICES ASSUME kind \in ShakeKinds PROVE FALSE
    OBVIOUS
  <2>2. In(kind, ShakeKinds) = 1
    BY <2>1 DEF In
  <2> QED
    BY <1>2, <1>3, <2>2 DEF OnDuty, Idles
<1>9. /\ In(kind, RearmKinds) = 1 <=> kind \in RearmKinds
      /\ In(kind, {"finger"}) = 1 <=> kind = "finger"
      /\ In(kind, {"release"}) = 1 <=> kind = "release"
      /\ In(kind, {"captureRead"}) = 1 <=> kind = "captureRead"
      /\ In(kind, RearmKinds) \in {0, 1} /\ In(kind, {"finger"}) \in {0, 1}
      /\ In(kind, {"release"}) \in {0, 1} /\ In(kind, {"captureRead"}) \in {0, 1}
  BY DEF In
<1>10. "finger" \notin RearmKinds /\ "release" \notin RearmKinds /\ "captureRead" \notin RearmKinds
  BY DEF RearmKinds
<1>11. ASSUME s.state = "awaitFingerOn" PROVE DueOn(s, kind)
  <2>1. Reads(d) + Writes(d) = 0 /\ Listening1(d)
    BY <1>4, <1>11 DEF OnDuty, Idles, Attended
  <2>2. Reads(d) = 0 /\ kind # "captureRead"
    BY <1>1, <1>2, <1>3, <1>9, <2>1, CountsType
  <2>3. CASE s.awaiting_release
    <3>1. Rearms(d) + Releases(d) = 2 /\ Releases(d) > 0 /\ Fingers(d) = 0 /\ d.rejects > 0
      BY <1>4, <2>1, <2>3 DEF Listening1
    <3>2. kind # "finger" /\ Fingers(s) = 0
      BY <1>2, <1>3, <1>9, <3>1
    <3>3. kind \in RearmKinds \cup {"release"}
      BY <1>7, <1>8, <2>2, <3>2
    <3>4. Rearms(s) + Releases(s) = 1 /\ (kind \in RearmKinds => Releases(s) = 1)
      BY <1>2, <1>3, <1>9, <1>10, <3>1, <3>3
    <3> QED
      BY <1>4, <2>3, <3>1, <3>2, <3>3, <3>4 DEF DueOn
  <2>4. CASE ~s.awaiting_release
    <3>1. Rearms(d) + Fingers(d) + Releases(d) = 1 /\ (d.rejects = 0 => Releases(d) = 0)
      BY <1>4, <2>1, <2>4 DEF Listening1
    <3>2. kind \in RearmKinds \cup {"finger", "release"}
      BY <1>7, <1>8, <2>2
    <3>3. Rearms(s) = 0 /\ Fingers(s) = 0 /\ Releases(s) = 0
      <4> DEFINE a == Rearms(s) b == Fingers(s) c == Releases(s)
                 x == In(kind, RearmKinds) y == In(kind, {"finger"}) z == In(kind, {"release"})
      <4>1. /\ (a + x) + (b + y) + (c + z) = 1
            /\ a \in Nat /\ b \in Nat /\ c \in Nat
            /\ x \in {0, 1} /\ y \in {0, 1} /\ z \in {0, 1}
            /\ x = 1 \/ y = 1 \/ z = 1
        BY <1>2, <1>3, <1>9, <3>1, <3>2
      <4> HIDE DEF a, b, c, x, y, z
      <4>2. a = 0 /\ b = 0 /\ c = 0
        BY <4>1
      <4> QED
        BY <4>2 DEF a, b, c
    <3>4. s.rejects = 0 => kind # "release"
      BY <1>2, <1>3, <1>4, <1>9, <3>1
    <3> QED
      BY <2>4, <3>2, <3>3, <3>4 DEF DueOn
  <2> QED
    BY <2>3, <2>4
<1>12. ASSUME s.state = "capture" PROVE kind = "captureRead" /\ Reads(s) = 0
  <2>1. Rearms(d) + Fingers(d) + Releases(d) = 0 /\ Reads(d) = 1
    BY <1>4, <1>12 DEF OnDuty, Idles, Attended
  <2>2. Rearms(d) = 0 /\ Fingers(d) = 0 /\ Releases(d) = 0
    BY <1>1, <2>1, CountsType DEF OnDuty
  <2>3. kind = "captureRead"
    BY <1>2, <1>3, <1>7, <1>8, <1>9, <2>2
  <2>4. Reads(d) = Reads(s) + 1
    BY <1>2, <1>9, <2>3
  <2>5. Reads(s) = 0
    BY <1>3, <2>1, <2>4
  <2> QED
    BY <2>3, <2>5
<1>13. ASSUME s.state = "awaitFingerOff" PROVE kind = "release" /\ Releases(s) = 0
  <2>1. Rearms(d) + Fingers(d) + Reads(d) + Writes(d) = 0 /\ Releases(d) = 1
    BY <1>4, <1>13 DEF OnDuty, Idles, Attended
  <2>2. Rearms(d) = 0 /\ Fingers(d) = 0 /\ Reads(d) = 0
    BY <1>1, <2>1, CountsType
  <2>3. kind = "release"
    BY <1>2, <1>3, <1>7, <1>8, <1>9, <2>2
  <2> QED
    BY <1>2, <1>3, <1>9, <2>1, <2>3
<1> QED
  BY <1>6, <1>11, <1>12, <1>13 DEF Due

\* The conversation of an uncancelled action goes on with this transfer.
LEMMA DuePosted ==
  ASSUME NEW s, NEW f, OnDuty(s), ~s.cancelled, NEW due, Due(s, due), s.state # "capture",
         NEW kind \in RearmKinds \cup {ListenKind(s)},
         kind \in RearmKinds => due \in RearmKinds,
         NEW t, Posted(s, t, kind)
  PROVE  PInv(t) /\ Lawful(s, t, f) /\ Quiet(s, t)
<1>1. s \in DeviceType /\ t \in DeviceType /\ Alike(s, t)
  BY DEF OnDuty, Sound0, Settled, Posted
<1>2. kind \in Kinds
  BY DEF ListenKind, Kinds, RearmKinds
<1>3. /\ Shakes(t) = Shakes(s) + In(kind, ShakeKinds)
      /\ Rearms(t) = Rearms(s) + In(kind, RearmKinds)
      /\ Fingers(t) = Fingers(s) + In(kind, {"finger"})
      /\ Releases(t) = Releases(s) + In(kind, {"release"})
      /\ Reads(t) = Reads(s) + In(kind, {"captureRead"})
      /\ Writes(t) = Writes(s) + In(kind, {"captureWrite"})
      /\ Talks(t) = Talks(s) + In(kind, TalkKinds)
  BY <1>1, <1>2, PostedCounts
<1>4. /\ Shakes(s) \in Nat /\ Rearms(s) \in Nat /\ Fingers(s) \in Nat
      /\ Releases(s) \in Nat /\ Reads(s) \in Nat /\ Writes(s) \in Nat
      /\ Talks(s) \in Nat
  BY <1>1, CountsType
<1>5. /\ In(kind, ShakeKinds) = 0 /\ In(kind, {"captureRead"}) = 0
      /\ In(kind, {"captureWrite"}) = 0 /\ In(kind, TalkKinds) = 1
  BY DEF ListenKind, In, ShakeKinds, RearmKinds, TalkKinds, Kinds
<1>6. /\ kind \in RearmKinds => In(kind, RearmKinds) = 1 /\ In(kind, {"finger"}) = 0
                                  /\ In(kind, {"release"}) = 0
      /\ kind = "finger" => In(kind, RearmKinds) = 0 /\ In(kind, {"finger"}) = 1
                              /\ In(kind, {"release"}) = 0
      /\ kind = "release" => In(kind, RearmKinds) = 0 /\ In(kind, {"finger"}) = 0
                               /\ In(kind, {"release"}) = 1
  BY DEF In, RearmKinds
<1>7. /\ t.open = s.open /\ t.action = s.action /\ t.cancelled = s.cancelled
      /\ t.report = s.report /\ t.enroll_stage = s.enroll_stage
      /\ t.enroll_await_on_pending = s.enroll_await_on_pending
      /\ t.minutiae_scan_active = s.minutiae_scan_active
      /\ t.capture_count = s.capture_count /\ t.awaiting_release = s.awaiting_release
      /\ t.credited = s.credited /\ t.rejects = s.rejects
      /\ t.init_stage = s.init_stage /\ t.exchanges = s.exchanges
      /\ t.state = s.state /\ t.active = s.active /\ t.returning = s.returning
      /\ t.result = s.result /\ t.action_error = s.action_error
      /\ t.cancel_idle = s.cancel_idle /\ t.warnings = s.warnings
  BY <1>1 DEF Alike, SameData, SameStatus
<1>8. Tagged(t)
  BY DEF Posted, OnDuty, Sound0, Sane
<1>9. Sane(t)
  BY <1>7, <1>8 DEF OnDuty, Sound0, Sane
<1>10. s.rejects = 0 => Talks(t) <= 1
  BY <1>3, <1>4, <1>5 DEF Due
<1>11. Clean(t)
  BY <1>7, <1>10 DEF OnDuty, Sound0, Clean
<1>12. Agrees(t)
  BY <1>7 DEF OnDuty, Agrees, Running
<1>13. s.state \in {"awaitFingerOn", "awaitFingerOff"}
  BY DEF OnDuty, Agrees, ServingStates
<1>14. Shakes(t) = 0 /\ (s.state = "awaitFingerOn" => Reads(t) + Writes(t) = 0)
  BY <1>3, <1>4, <1>5 DEF OnDuty, Idles
<1>15. ASSUME s.state = "awaitFingerOff" PROVE Serving(t)
  <2>1. s.awaiting_release /\ due = "release" /\ Releases(s) = 0
    BY <1>15 DEF OnDuty, Agrees, Due
  <2>2. kind = "release"
    BY <2>1 DEF ListenKind, RearmKinds
  <2>3. Rearms(t) + Fingers(t) + Reads(t) + Writes(t) = 0 /\ Releases(t) = 1
    BY <1>3, <1>4, <1>5, <1>6, <1>15, <2>1, <2>2 DEF OnDuty, Idles
  <2>4. Idles(t) /\ Attended(t)
    BY <1>7, <1>14, <1>15, <2>3 DEF Idles, Attended
  <2> QED
    BY <1>12, <2>4 DEF Serving
<1>16. ASSUME s.state = "awaitFingerOn" PROVE Serving(t)
  <2>1. DueOn(s, due)
    BY <1>16 DEF Due
  <2>2. Listening1(t)
    <3>1. CASE s.awaiting_release
      <4>1. /\ Rearms(s) + Releases(s) = 1 /\ Fingers(s) = 0 /\ s.rejects > 0
            /\ due \in RearmKinds => Releases(s) = 1
        BY <2>1, <3>1 DEF DueOn
      <4>2. kind \in RearmKinds \cup {"release"}
        BY <3>1 DEF ListenKind
      <4>3. Rearms(t) + Releases(t) = 2 /\ Releases(t) > 0 /\ Fingers(t) = 0
        BY <1>3, <1>4, <1>6, <4>1, <4>2
      <4> QED
        BY <1>7, <3>1, <4>1, <4>3 DEF Listening1
    <3>2. CASE ~s.awaiting_release
      <4>1. Rearms(s) = 0 /\ Fingers(s) = 0 /\ Releases(s) = 0
        BY <2>1, <3>2 DEF DueOn
      <4>2. kind \in RearmKinds \cup {"finger"}
        BY <3>2 DEF ListenKind
      <4>3. Rearms(t) + Fingers(t) + Releases(t) = 1 /\ Releases(t) = 0
        BY <1>3, <1>4, <1>6, <4>1, <4>2
      <4> QED
        BY <1>7, <3>2, <4>3 DEF Listening1
    <3> QED
      BY <3>1, <3>2
  <2>3. Idles(t) /\ Attended(t)
    BY <1>7, <1>14, <1>16, <2>2 DEF Idles, Attended
  <2> QED
    BY <1>12, <2>3 DEF Serving
<1>17. Serving(t)
  BY <1>13, <1>15, <1>16
<1>18. Lawful(s, t, f)
  BY <1>7 DEF Lawful, Advances, Outcome, OnDuty, Agrees, Running
<1> QED
  BY <1>7, <1>9, <1>11, <1>17, <1>18 DEF PInv, Phase, Quiet

LEMMA DueFail ==
  ASSUME NEW s, NEW f, OnDuty(s), NEW kind, ~s.cancelled => Due(s, kind),
         NEW e, Blamed(s, e)
  PROVE  LET t == FailSessionOrDeactivate(s, e)
         IN  PInv(t) /\ Lawful(s, t, f) /\ Quiet(s, t)
<1>1. s.minutiae_scan_active /\ ~s.cancelled => Releases(s) = 0
  BY DEF OnDuty, Agrees, Due
<1> QED
  BY <1>1, ServeFail

LEMMA ServeRearmWrite ==
  ASSUME NEW s, NEW f, OnDuty(s), ~s.cancelled => Due(s, "rearmWrite"),
         NEW e, (e = "none" /\ ~s.cancelled) \/ Blamed(s, e)
  PROVE  LET t == RearmWriteCb(s, e)
         IN  PInv(t) /\ Lawful(s, t, f) /\ Quiet(s, t)
<1>1. CASE e = "none"
  <2> DEFINE t == Submit(s, "rearmRead")
  <2>1. ~s.cancelled /\ Due(s, "rearmWrite") /\ s.state # "capture"
    BY <1>1 DEF Blamed, BusErrors, Due
  <2>2. Posted(s, t, "rearmRead")
    BY SubmitPosted DEF Kinds, OnDuty, Sound0, Settled
  <2> HIDE DEF t
  <2>3. PInv(t) /\ Lawful(s, t, f) /\ Quiet(s, t)
    BY <2>1, <2>2, DuePosted DEF RearmKinds
  <2> QED
    BY <1>1, <2>3 DEF RearmWriteCb, t
<1>2. CASE e # "none"
  BY <1>2, DueFail DEF RearmWriteCb
<1> QED
  BY <1>1, <1>2

LEMMA ServeRearmRead ==
  ASSUME NEW s, NEW f, OnDuty(s), ~s.cancelled => Due(s, "rearmRead"),
         NEW e, (e = "none" /\ ~s.cancelled) \/ Blamed(s, e)
  PROVE  LET t == RearmReadCb(s, e)
         IN  PInv(t) /\ Lawful(s, t, f) /\ Quiet(s, t)
<1>1. CASE e = "none"
  <2> DEFINE n == s.rearm_stage + 1
             u == [s EXCEPT !.rearm_stage = n]
             t == RearmReadCb(s, e)
  <2>1. ~s.cancelled /\ Due(s, "rearmRead") /\ s.state # "capture"
    BY <1>1 DEF Blamed, BusErrors, Due
  <2>2. s \in DeviceType /\ ~s.deactivating /\ n \in Nat
    BY DEF OnDuty, Sound0, Settled, DeviceType
  <2>3. t = IF u.rearm_stage = 2 THEN StartInterrupt(u) ELSE RearmSendStage(u)
    BY <1>1, <2>2 DEF RearmReadCb
  <2> HIDE DEF n, t
  <2>4. u \in DeviceType
    BY <2>2 DEF DeviceType
  <2>5. Alike(s, u) /\ SameBus(s, u) /\ ListenKind(u) = ListenKind(s)
    BY <2>2 DEF DeviceType, Alike, SameData, SameStatus, SameBus, ListenKind
  <2> HIDE DEF u
  <2>6. Settled(u)
    BY <2>2, <2>4, <2>5 DEF Settled, Alike, SameData
  <2>7. PICK kind \in {ListenKind(s), "rearmWrite"} : Posted(u, t, kind)
    BY <2>3, <2>5, <2>6, StartInterruptPosted, RearmSendStagePosted
  <2>8. Posted(s, t, kind)
    BY <2>5, <2>7, AlikePosted
  <2>9. kind \in RearmKinds \cup {ListenKind(s)} /\ "rearmRead" \in RearmKinds
    BY <2>7 DEF RearmKinds
  <2>10. PInv(t) /\ Lawful(s, t, f) /\ Quiet(s, t)
    BY <2>1, <2>8, <2>9, DuePosted
  <2> QED
    BY <2>10 DEF t
<1>2. CASE e # "none"
  BY <1>2, DueFail DEF RearmReadCb
<1> QED
  BY <1>1, <1>2

\* An interrupt read goes on as another one.
LEMMA ServeListen ==
  ASSUME NEW s, NEW f, OnDuty(s), ~s.cancelled, NEW kind \in {"finger", "release"},
         Due(s, kind)
  PROVE  LET t == StartInterrupt(s)
         IN  PInv(t) /\ Lawful(s, t, f) /\ Quiet(s, t)
<1> DEFINE t == StartInterrupt(s)
<1>1. Posted(s, t, ListenKind(s))
  BY StartInterruptPosted DEF OnDuty, Sound0
<1>2. s.state # "capture" /\ ListenKind(s) \notin RearmKinds
  BY DEF Due, ListenKind, RearmKinds
<1> HIDE DEF t
<1>3. PInv(t) /\ Lawful(s, t, f) /\ Quiet(s, t)
  BY <1>1, <1>2, DuePosted
<1> QED
  BY <1>3 DEF t

LEMMA ServeInterruptError ==
  ASSUME NEW s, NEW f, OnDuty(s), NEW kind, ~s.cancelled => Due(s, kind),
         NEW e, Blamed(s, e), e # "timedOut"
  PROVE  LET t == InterruptErrorCb(s, e)
         IN  PInv(t) /\ Lawful(s, t, f) /\ Quiet(s, t)
<1>1. CASE e = "cancelled"
  <2>1. InterruptErrorCb(s, e) = s
    BY <1>1 DEF InterruptErrorCb, CompleteDeactivation, OnDuty, Sound0, Settled
  <2>2. s.cancelled
    BY <1>1 DEF Blamed, BusErrors
  <2> QED
    BY <2>1, <2>2, ServeStay
<1>2. CASE e # "cancelled"
  BY <1>2, DueFail DEF InterruptErrorCb
<1> QED
  BY <1>1, <1>2

\* A fresh touch: the image is asked for.
LEMMA ServeTouch ==
  ASSUME NEW s, NEW f, OnDuty(s), ~s.cancelled, NEW kind \in {"finger", "release"},
         Due(s, kind), ~s.awaiting_release
  PROVE  LET t == InterruptFingerCb(s)
         IN  PInv(t) /\ Lawful(s, t, f) /\ Quiet(s, t)
<1> DEFINE u == ChangeState(s, "capture")
           v == Submit(u, "captureRead")
           t == Submit(v, "captureWrite")
<1>1. s.state = "awaitFingerOn" /\ s \in DeviceType
  BY DEF OnDuty, Sound0, Settled, Agrees, ServingStates, Due
<1>2. InterruptFingerCb(s) = t
  BY <1>1 DEF InterruptFingerCb, ReportFingerStatus, StartCapture
<1>3. Turned(s, u, "capture")
  BY <1>1, ChangeStateTurned DEF FwStates
<1> HIDE DEF u
<1>4. Posted(u, v, "captureRead")
  BY <1>3, SubmitPosted DEF Turned, Kinds
<1> HIDE DEF v
<1>5. Posted(v, t, "captureWrite")
  BY <1>4, SubmitPosted DEF Posted, Kinds
<1> HIDE DEF t
<1>6. u \in DeviceType /\ v \in DeviceType /\ t \in DeviceType
  BY <1>3, <1>4, <1>5 DEF Turned, Posted
<1>7. /\ t.open = s.open /\ t.action = s.action /\ t.cancelled = s.cancelled
      /\ t.report = s.report /\ t.enroll_stage = s.enroll_stage
      /\ t.enroll_await_on_pending = s.enroll_await_on_pending
      /\ t.minutiae_scan_active = s.minutiae_scan_active
      /\ t.capture_count = s.capture_count /\ t.awaiting_release = s.awaiting_release
      /\ t.credited = s.credited /\ t.rejects = s.rejects
      /\ t.init_stage = s.init_stage /\ t.exchanges = s.exchanges
      /\ t.state = "capture" /\ t.active = s.active /\ t.returning = s.returning
      /\ t.result = s.result /\ t.action_error = s.action_error
      /\ t.cancel_idle = s.cancel_idle /\ t.warnings = s.warnings
  BY <1>3, <1>4, <1>5 DEF Turned, Posted, Alike, SameData, SameStatus
<1>8. /\ Shakes(s) = 0 /\ Reads(s) = 0 /\ Writes(s) = 0
      /\ Rearms(s) = 0 /\ Fingers(s) = 0 /\ Releases(s) = 0
  BY <1>1, CountsType DEF OnDuty, Idles, Due, DueOn
<1>9. /\ Shakes(u) = 0 /\ Reads(u) = 0 /\ Writes(u) = 0
      /\ Rearms(u) = 0 /\ Fingers(u) = 0 /\ Releases(u) = 0
  BY <1>3, <1>8, SameBusCounts DEF Turned
<1>10. /\ Shakes(v) = 0 /\ Reads(v) = 1 /\ Writes(v) = 0
       /\ Rearms(v) = 0 /\ Fingers(v) = 0 /\ Releases(v) = 0
  <2>1. "captureRead" \in Kinds
    BY DEF Kinds
  <2>2. /\ In("captureRead", ShakeKinds) = 0 /\ In("captureRead", RearmKinds) = 0
        /\ In("captureRead", {"finger"}) = 0 /\ In("captureRead", {"release"}) = 0
        /\ In("captureRead", {"captureRead"}) = 1 /\ In("captureRead", {"captureWrite"}) = 0
    BY DEF In, ShakeKinds, RearmKinds
  <2> QED
    BY <1>4, <1>6, <1>9, <2>1, <2>2, PostedCounts
<1>11. /\ Shakes(t) = 0 /\ Reads(t) = 1 /\ Writes(t) = 1
       /\ Rearms(t) = 0 /\ Fingers(t) = 0 /\ Releases(t) = 0
  <2>1. "captureWrite" \in Kinds
    BY DEF Kinds
  <2>2. /\ In("captureWrite", ShakeKinds) = 0 /\ In("captureWrite", RearmKinds) = 0
        /\ In("captureWrite", {"finger"}) = 0 /\ In("captureWrite", {"release"}) = 0
        /\ In("captureWrite", {"captureRead"}) = 0 /\ In("captureWrite", {"captureWrite"}) = 1
    BY DEF In, ShakeKinds, RearmKinds
  <2> QED
    BY <1>5, <1>6, <1>10, <2>1, <2>2, PostedCounts
<1>12. Talks(t) = 1
  BY <1>11 DEF Talks
<1>13. Tagged(t)
  <2>1. Tagged(u)
    BY <1>3, SameBusTagged DEF Turned, SameData, OnDuty, Sound0, Sane
  <2> QED
    BY <2>1, <1>4, <1>5 DEF Posted
<1>14. Sane(t)
  BY <1>7, <1>13 DEF OnDuty, Sound0, Sane
<1>15. Clean(t)
  BY <1>7, <1>12 DEF OnDuty, Sound0, Clean
<1>16. Agrees(t)
  BY <1>1, <1>7 DEF OnDuty, Agrees, Running, ServingStates
<1>17. Idles(t) /\ Attended(t)
  BY <1>7, <1>11 DEF Idles, Attended
<1>18. Lawful(s, t, f)
  BY <1>7 DEF Lawful, Advances, Outcome, OnDuty, Agrees, Running
<1> QED
  BY <1>2, <1>7, <1>14, <1>15, <1>16, <1>17, <1>18 DEF PInv, Phase, Serving, Quiet

LEMMA ServeFinger ==
  ASSUME NEW s, NEW f, OnDuty(s), ~s.cancelled, NEW kind \in {"finger", "release"},
         Due(s, kind)
  PROVE  LET t == InterruptFingerCb(s)
         IN  PInv(t) /\ Lawful(s, t, f) /\ Quiet(s, t)
<1>1. CASE s.awaiting_release
  BY <1>1, ServeListen DEF InterruptFingerCb
<1>2. CASE ~s.awaiting_release
  BY <1>2, ServeTouch
<1> QED
  BY <1>1, <1>2

\* A record on duty but for the state of the framework, in the middle of a
\* callback.
Between(s, w) ==
    /\ w \in DeviceType /\ SameBus(s, w)
    /\ w.open = s.open /\ w.action = s.action /\ w.cancelled = s.cancelled
    /\ w.report = s.report /\ w.enroll_stage = s.enroll_stage
    /\ w.minutiae_scan_active = s.minutiae_scan_active
    /\ w.init_stage = s.init_stage /\ w.exchanges = s.exchanges
    /\ w.capture_count = s.capture_count /\ w.deactivating = s.deactivating
    /\ w.credited = s.credited /\ w.rejects = s.rejects
    /\ w.active = s.active /\ w.returning = s.returning /\ w.result = s.result
    /\ w.action_error = s.action_error /\ w.cancel_idle = s.cancel_idle
    /\ w.warnings = s.warnings

LEMMA BetweenStoppable ==
  ASSUME NEW s, NEW w, Stoppable(s), Between(s, w)
  PROVE  Stoppable(w)
<1>1. /\ Shakes(w) = Shakes(s) /\ Rearms(w) = Rearms(s) /\ Fingers(w) = Fingers(s)
      /\ Releases(w) = Releases(s) /\ Reads(w) = Reads(s) /\ Writes(w) = Writes(s)
      /\ Talks(w) = Talks(s)
  BY SameBusCounts DEF Between
<1>2. Tagged(w)
  BY SameBusTagged DEF Between, Stoppable, Sane
<1>3. Sane(w) /\ Clean(w)
  BY <1>1, <1>2 DEF Between, Stoppable, Sane, Clean
<1>4. Settled(w) /\ w.open /\ Running(w)
  BY DEF Between, Stoppable, Settled, Running
<1>5. w.minutiae_scan_active =>
         /\ w.action = "capture"
         /\ Rearms(w) + Fingers(w) + Reads(w) + Writes(w) = 0
         /\ w.cancelled \/ Releases(w) = 0
  <2>1. w.minutiae_scan_active = s.minutiae_scan_active /\ w.action = s.action
        /\ w.cancelled = s.cancelled
    BY DEF Between
  <2> QED
    BY <1>1, <2>1 DEF Stoppable
<1> QED
  BY <1>1, <1>3, <1>4, <1>5 DEF Stoppable

LEMMA LawfulVia ==
  ASSUME NEW s, NEW w, NEW t, NEW f, Lawful(w, t, f), Running(s), Between(s, w),
         s.state # "activating", s.active, t.state = "inactive"
  PROVE  Lawful(s, t, f)
<1>1. Running(w)
  BY DEF Between, Running
<1>2. Advances(s, t)
  BY <1>1 DEF Lawful, Advances, Between
<1>3. Outcome(s, t)
  BY <1>1 DEF Lawful, Outcome, Between
<1> QED
  BY <1>2, <1>3 DEF Lawful, Between

\* Nothing in flight leaves nothing over.
LEMMA SilentLeftover ==
  ASSUME NEW s \in DeviceType, Talks(s) + Writes(s) = 0, NEW w, SameBus(s, w)
  PROVE  Leftover(w)
<1>1. SUFFICES ASSUME NEW x \in Transfers, s.flight[x] > 0 PROVE FALSE
  BY DEF Leftover, SameBus
<1>2. /\ Shakes(s) = 0 /\ Releases(s) = 0
      /\ Rearms(s) + Fingers(s) + Reads(s) + Writes(s) = 0
  <2> DEFINE a == Shakes(s) b == Rearms(s) c == Fingers(s) d == Releases(s)
             e == Reads(s) g == Writes(s)
  <2>1. /\ a \in Nat /\ b \in Nat /\ c \in Nat /\ d \in Nat /\ e \in Nat /\ g \in Nat
        /\ a + b + c + d + e + g = 0
    BY CountsType DEF Talks
  <2> HIDE DEF a, b, c, d, e, g
  <2>2. a = 0 /\ d = 0 /\ b + c + e + g = 0
    BY <2>1
  <2> QED
    BY <2>2 DEF a, b, c, d, e, g
<1>3. Releases(s) > 0
  BY <1>1, <1>2, OnlyReleases
<1> QED
  BY <1>2, <1>3

\* An image device that goes idle is deactivated, and the action is over but
\* for the minutiae thread.
LEMMA IdleStops ==
  ASSUME NEW s, NEW f, OnDuty(s), s.minutiae_scan_active /\ ~s.cancelled => Releases(s) = 0,
         NEW w, Between(s, w), Leftover(w), NEW cancelling \in BOOLEAN,
         w.state \notin {"deactivating", "activating"}, cancelling \/ w.state = "idle"
  PROVE  LET t == Deactivate(w, cancelling)
         IN  PInv(t) /\ Lawful(s, t, f) /\ t.warnings = s.warnings
<1> DEFINE t == Deactivate(w, cancelling)
<1>1. /\ Stoppable(s) /\ s \in DeviceType
      /\ s.active /\ s.state \notin {"inactive", "deactivating", "activating"}
  BY DutyStoppable
<1>2. Stoppable(w)
  BY <1>1, BetweenStoppable
<1>3. Explained(w, w.action_error)
  <2>1. w.action_error \in Errors /\ Sane(w) /\ Clean(w)
    BY <1>2 DEF Stoppable, Between, DeviceType
  <2> QED
    BY <2>1 DEF Explained, Sane, Clean
<1>4. Stopped(w, t, w.action_error) /\ t.warnings = w.warnings
  <2>1. Settled(w) /\ w.active /\ Running(w)
    BY <1>1, <1>2 DEF Stoppable, Between
  <2> QED
    BY <2>1, DeactivateStops
<1> HIDE DEF t
<1>5. PInv(t) /\ Lawful(w, t, f)
  BY <1>2, <1>3, <1>4, StoppedRests
<1>6. t.state = "inactive"
  BY <1>4 DEF Stopped, Halted, Ended
<1>7. Lawful(s, t, f)
  BY <1>1, <1>5, <1>6, LawfulVia DEF Stoppable
<1> QED
  BY <1>4, <1>5, <1>7 DEF Between, t

\* The quiet period ends while a finger is waited for: the driver goes on as it
\* was, but for the release it waited for.
LEMMA ServeQuietOn ==
  ASSUME NEW s, NEW f, OnDuty(s), ~s.cancelled, Due(s, "release"), s.awaiting_release,
         s.state = "awaitFingerOn"
  PROVE  LET v == [s EXCEPT !.awaiting_release = FALSE]
         IN  PInv(v) /\ Lawful(s, v, f) /\ v.warnings = s.warnings
<1> DEFINE v == [s EXCEPT !.awaiting_release = FALSE]
<1>1. s \in DeviceType
  BY DEF OnDuty, Sound0, Settled
<1>2. v \in DeviceType
  BY <1>1 DEF DeviceType
<1>3. Between(s, v) /\ v.state = s.state /\ ~v.awaiting_release
      /\ v.enroll_await_on_pending = s.enroll_await_on_pending
  BY <1>1, <1>2 DEF DeviceType, Between, SameBus
<1> HIDE DEF v
<1>4. /\ Shakes(v) = Shakes(s) /\ Rearms(v) = Rearms(s) /\ Fingers(v) = Fingers(s)
      /\ Releases(v) = Releases(s) /\ Reads(v) = Reads(s) /\ Writes(v) = Writes(s)
      /\ Talks(v) = Talks(s)
  BY <1>3, SameBusCounts DEF Between
<1>5. Tagged(v)
  BY <1>3, SameBusTagged DEF Between, OnDuty, Sound0, Sane
<1>6. Sane(v) /\ Clean(v)
  BY <1>3, <1>4, <1>5 DEF Between, OnDuty, Sound0, Sane, Clean
<1>7. Agrees(v)
  BY <1>3 DEF Between, OnDuty, Agrees, Running
<1>8. Idles(v)
  BY <1>3, <1>4 DEF OnDuty, Idles
<1>9. Attended(v)
  <2>1. Rearms(s) + Releases(s) = 1 /\ Fingers(s) = 0 /\ s.rejects > 0
    BY DEF Due, DueOn
  <2>2. Rearms(v) + Fingers(v) + Releases(v) = 1 /\ v.rejects > 0
    BY <1>1, <1>3, <1>4, <2>1, CountsType DEF Between
  <2>3. v.rejects # 0
    BY <1>2, <2>2 DEF DeviceType
  <2> QED
    BY <1>3, <2>2, <2>3 DEF Attended, Listening1
<1>10. Lawful(s, v, f)
  BY <1>3 DEF Between, Lawful, Advances, Outcome, OnDuty, Agrees, Running
<1> QED
  BY <1>3, <1>6, <1>7, <1>8, <1>9, <1>10 DEF PInv, Phase, Serving, Between, v

\* Going idle from the wait for the finger to leave.
LEMMA GoesIdle ==
  ASSUME NEW s, OnDuty(s)
  PROVE  LET v == [s EXCEPT !.awaiting_release = FALSE]
             w == ChangeState(v, "idle")
         IN  /\ Between(s, v) /\ ~v.awaiting_release /\ v.state = s.state
             /\ Between(s, w) /\ ~w.awaiting_release /\ w.state = "idle"
             /\ w.enroll_await_on_pending = s.enroll_await_on_pending
<1> DEFINE v == [s EXCEPT !.awaiting_release = FALSE]
           w == ChangeState(v, "idle")
<1>1. s \in DeviceType
  BY DEF OnDuty, Sound0, Settled
<1>2. v \in DeviceType
  BY <1>1 DEF DeviceType
<1>3. Between(s, v) /\ v.state = s.state /\ ~v.awaiting_release
      /\ v.enroll_await_on_pending = s.enroll_await_on_pending
  BY <1>1, <1>2 DEF DeviceType, Between, SameBus
<1> HIDE DEF v
<1>4. Turned(v, w, "idle")
  BY <1>2, ChangeStateTurned DEF FwStates
<1> HIDE DEF w
<1>5. Between(s, w) /\ ~w.awaiting_release /\ w.state = "idle"
      /\ w.enroll_await_on_pending = s.enroll_await_on_pending
  BY <1>3, <1>4 DEF Turned, Between, SameData, SameBus
<1> QED
  BY <1>3, <1>5 DEF v, w

\* The finger has left between two stages: the sensor is rearmed.
LEMMA NextTouchAwaited ==
  ASSUME NEW s, NEW f, OnDuty(s), ~s.cancelled, s.action = "enroll",
         s.state = "awaitFingerOff", Due(s, "release"), ~f,
         NEW w, Between(s, w), ~w.awaiting_release,
         w.enroll_await_on_pending = s.enroll_await_on_pending
  PROVE  LET t == EnrollMaybeAwaitFingerOn(w)
         IN  PInv(t) /\ Lawful(s, t, f) /\ Quiet(s, t)
<1> DEFINE x == [w EXCEPT !.enroll_await_on_pending = FALSE]
           t == ChangeState(x, "awaitFingerOn")
<1>1. /\ w \in DeviceType /\ w.enroll_await_on_pending /\ s.capture_count > 0
      /\ s \in DeviceType
  BY DEF Between, OnDuty, Agrees, Sound0, Settled
<1>2. EnrollMaybeAwaitFingerOn(w) = t
  BY <1>1 DEF EnrollMaybeAwaitFingerOn
<1>3. x \in DeviceType
  BY <1>1 DEF DeviceType
<1>4. Between(w, x) /\ ~x.enroll_await_on_pending /\ ~x.awaiting_release
  BY <1>1, <1>3 DEF DeviceType, Between, SameBus
<1> HIDE DEF x
<1>5. Between(s, x)
  BY <1>4 DEF Between, SameBus
<1>6. Settled(x) /\ x.capture_count # 0
  <2>1. s.capture_count # 0
    BY <1>1 DEF DeviceType
  <2> QED
    BY <1>3, <1>5, <2>1 DEF Settled, Between, OnDuty, Sound0
<1>7. PICK y : Turned(x, y, "awaitFingerOn") /\ Posted(y, t, "rearmWrite")
  BY <1>6, AwaitFingerOn
<1> HIDE DEF t
<1>8. y \in DeviceType /\ t \in DeviceType
  BY <1>7 DEF Turned, Posted
<1>9. /\ t.open = s.open /\ t.action = s.action /\ t.cancelled = s.cancelled
      /\ t.report = s.report /\ t.enroll_stage = s.enroll_stage
      /\ ~t.enroll_await_on_pending
      /\ t.minutiae_scan_active = s.minutiae_scan_active
      /\ t.capture_count = s.capture_count /\ ~t.awaiting_release
      /\ t.credited = s.credited /\ t.rejects = s.rejects
      /\ t.init_stage = s.init_stage /\ t.exchanges = s.exchanges
      /\ t.state = "awaitFingerOn" /\ t.active = s.active /\ t.returning = s.returning
      /\ t.result = s.result /\ t.action_error = s.action_error
      /\ t.cancel_idle = s.cancel_idle /\ t.warnings = s.warnings
  BY <1>4, <1>5, <1>7 DEF Between, Turned, Posted, Alike, SameData, SameStatus
<1>10. /\ Shakes(s) = 0 /\ Rearms(s) = 0 /\ Fingers(s) = 0 /\ Releases(s) = 0
       /\ Reads(s) = 0 /\ Writes(s) = 0
  <2> DEFINE b == Rearms(s) c == Fingers(s) d == Reads(s) g == Writes(s)
  <2>1. /\ b \in Nat /\ c \in Nat /\ d \in Nat /\ g \in Nat
        /\ b + c + d + g = 0
    BY <1>1, CountsType DEF OnDuty, Idles
  <2> HIDE DEF b, c, d, g
  <2>2. b = 0 /\ c = 0 /\ d = 0 /\ g = 0
    BY <2>1
  <2> QED
    BY <2>2 DEF b, c, d, g, OnDuty, Idles, Due
<1>11. SameBus(s, y)
  BY <1>5, <1>7 DEF Between, Turned, SameBus
<1>12. /\ Shakes(y) = 0 /\ Rearms(y) = 0 /\ Fingers(y) = 0 /\ Releases(y) = 0
       /\ Reads(y) = 0 /\ Writes(y) = 0
  BY <1>10, <1>11, SameBusCounts
<1>13. /\ Shakes(t) = 0 /\ Rearms(t) = 1 /\ Fingers(t) = 0 /\ Releases(t) = 0
       /\ Reads(t) = 0 /\ Writes(t) = 0
  <2>1. "rearmWrite" \in Kinds
    BY DEF Kinds
  <2>2. /\ In("rearmWrite", ShakeKinds) = 0 /\ In("rearmWrite", RearmKinds) = 1
        /\ In("rearmWrite", {"finger"}) = 0 /\ In("rearmWrite", {"release"}) = 0
        /\ In("rearmWrite", {"captureRead"}) = 0 /\ In("rearmWrite", {"captureWrite"}) = 0
    BY DEF In, ShakeKinds, RearmKinds
  <2> QED
    BY <1>7, <1>8, <1>12, <2>1, <2>2, PostedCounts
<1>14. Talks(t) = 1
  BY <1>13 DEF Talks
<1>15. Tagged(t)
  <2>1. y.action = s.action /\ y.cancelled = s.cancelled
    BY <1>5, <1>7 DEF Between, Turned, SameData
  <2> QED
    BY <1>7, <1>11, <2>1, SameBusTagged DEF Posted, OnDuty, Sound0, Sane
<1>16. Sane(t)
  BY <1>9, <1>15 DEF OnDuty, Sound0, Sane
<1>17. Clean(t)
  BY <1>9, <1>14 DEF OnDuty, Sound0, Clean
<1>18. Agrees(t)
  BY <1>9 DEF OnDuty, Agrees, Running, ServingStates
<1>19. Idles(t) /\ Attended(t)
  BY <1>9, <1>13 DEF Idles, Attended, Listening1
<1>20. Lawful(s, t, f)
  BY <1>9 DEF Lawful, Advances, Outcome, OnDuty, Agrees, Running
<1> QED
  BY <1>2, <1>9, <1>16, <1>17, <1>18, <1>19, <1>20 DEF PInv, Phase, Serving, Quiet

\* The finger has left.
LEMMA ServeQuiet ==
  ASSUME NEW s, NEW f, OnDuty(s), ~s.cancelled, Due(s, "release"), ~f
  PROVE  LET t == InterruptErrorCb(s, "timedOut")
         IN  PInv(t) /\ Lawful(s, t, f) /\ Quiet(s, t)
<1> DEFINE v == [s EXCEPT !.awaiting_release = FALSE]
           w == ChangeState(v, "idle")
           t == InterruptErrorCb(s, "timedOut")
<1>1. s \in DeviceType
  BY DEF OnDuty, Sound0, Settled
<1>2. s.state \in {"awaitFingerOn", "awaitFingerOff"}
  BY DEF OnDuty, Agrees, ServingStates, Due
<1>3. /\ Between(s, v) /\ ~v.awaiting_release /\ v.state = s.state
      /\ Between(s, w) /\ ~w.awaiting_release /\ w.state = "idle"
      /\ w.enroll_await_on_pending = s.enroll_await_on_pending
  BY GoesIdle
<1>4. CASE ~s.awaiting_release
  <2>1. s.state = "awaitFingerOn" /\ s.rejects # 0
    BY <1>2, <1>4 DEF OnDuty, Agrees, Due, DueOn, RearmKinds
  <2>2. Blamed(s, "timedOut")
    BY <2>1 DEF Blamed, BusErrors
  <2>3. t = FailSessionOrDeactivate(s, "timedOut")
    BY <1>4 DEF InterruptErrorCb
  <2> QED
    BY <2>2, <2>3, DueFail
<1>5. CASE s.awaiting_release /\ s.state = "awaitFingerOn"
  <2>1. t = v
    BY <1>3, <1>5 DEF InterruptErrorCb, ReportFingerStatus
  <2>2. PInv(v) /\ Lawful(s, v, f) /\ v.warnings = s.warnings
    BY <1>5, ServeQuietOn
  <2> QED
    BY <2>1, <2>2 DEF Quiet
<1>6. CASE s.awaiting_release /\ s.state = "awaitFingerOff" /\ s.action = "enroll"
  <2>1. w.action = "enroll"
    BY <1>3, <1>6 DEF Between
  <2>2. t = ReportFingerStatus(v, FALSE)
    BY <1>6 DEF InterruptErrorCb
  <2> HIDE DEF v, t
  <2>3. t = EnrollMaybeAwaitFingerOn(w)
    BY <1>3, <1>6, <2>1, <2>2 DEF ReportFingerStatus, Between
  <2> HIDE DEF w
  <2> QED
    BY <1>3, <1>6, <2>3, NextTouchAwaited DEF t
<1>7. CASE s.awaiting_release /\ s.state = "awaitFingerOff" /\ s.action # "enroll"
  <2> DEFINE z == Deactivate(w, FALSE)
  <2>1. w.action # "enroll"
    BY <1>3, <1>7 DEF Between
  <2>2. t = z
    BY <1>3, <1>7, <2>1 DEF InterruptErrorCb, ReportFingerStatus
  <2> HIDE DEF v, w
  <2>3. Releases(s) = 0
    BY <1>7 DEF Due
  <2>4. SameBus(s, w) /\ w.rejects = s.rejects
    BY <1>3 DEF Between
  <2>5. Leftover(w)
    <3>1. SUFFICES ASSUME s.rejects = 0 PROVE Leftover(w)
      BY <2>4 DEF Leftover
    <3>2. Talks(s) = 0 /\ Writes(s) = 0
      BY <1>1, <1>7, <3>1, CountsType DEF OnDuty, Idles, Due
    <3> QED
      BY <1>1, <2>4, <3>2, SilentLeftover
  <2> HIDE DEF z
  <2>6. PInv(z) /\ Lawful(s, z, f) /\ z.warnings = s.warnings
    BY <1>3, <2>3, <2>5, IdleStops DEF z
  <2> QED
    BY <2>2, <2>6 DEF Quiet
<1> QED
  BY <1>2, <1>4, <1>5, <1>6, <1>7

LEMMA ReapedWrite ==
  ASSUME NEW d, OnDuty(d), ~d.cancelled => Attended(d),
         NEW s, Reaped(d, s, "captureWrite")
  PROVE  s.state = "capture" /\ (~s.cancelled => Attended(s))
<1>1. d \in DeviceType /\ s \in DeviceType /\ Alike(d, s) /\ "captureWrite" \in Kinds
  BY DEF OnDuty, Sound0, Settled, Reaped, Kinds
<1>2. /\ In("captureWrite", RearmKinds) = 0 /\ In("captureWrite", {"finger"}) = 0
      /\ In("captureWrite", {"release"}) = 0 /\ In("captureWrite", {"captureRead"}) = 0
      /\ In("captureWrite", {"captureWrite"}) = 1
  BY DEF In, RearmKinds
<1>3. /\ Rearms(d) = Rearms(s) /\ Fingers(d) = Fingers(s) /\ Releases(d) = Releases(s)
      /\ Reads(d) = Reads(s) /\ Writes(d) = Writes(s) + 1
  <2>1. /\ Rearms(d) = Rearms(s) + 0 /\ Fingers(d) = Fingers(s) + 0
        /\ Releases(d) = Releases(s) + 0 /\ Reads(d) = Reads(s) + 0
        /\ Writes(d) = Writes(s) + 1
    BY <1>1, <1>2, ReapedCounts
  <2>2. /\ Rearms(s) \in Nat /\ Fingers(s) \in Nat /\ Releases(s) \in Nat /\ Reads(s) \in Nat
    BY <1>1, CountsType
  <2> QED
    BY <2>1, <2>2
<1>4. s.state = "capture"
  <2>1. Writes(d) > 0
    BY <1>1, <1>3, CountsType
  <2>2. /\ Rearms(d) \in Nat /\ Fingers(d) \in Nat /\ Reads(d) \in Nat /\ Writes(d) \in Nat
    BY <1>1, CountsType
  <2>3. d.state = "capture"
    BY <2>1, <2>2 DEF OnDuty, Agrees, Idles, ServingStates
  <2> QED
    BY <1>1, <2>3 DEF Alike, SameStatus
<1>5. s.cancelled = d.cancelled /\ s.state = d.state
  BY <1>1 DEF Alike, SameData, SameStatus
<1> QED
  BY <1>3, <1>4, <1>5 DEF Attended

LEMMA ServeCaptureWrite ==
  ASSUME NEW s, NEW f, OnDuty(s), s.state = "capture", ~s.cancelled => Attended(s),
         NEW e, e = "none" \/ Blamed(s, e)
  PROVE  LET t == CaptureWriteCb(s, e)
         IN  PInv(t) /\ Lawful(s, t, f) /\ Quiet(s, t)
<1>1. CASE e = "none"
  BY <1>1, ServeStay DEF CaptureWriteCb
<1>2. CASE e # "none"
  <2>1. ~s.minutiae_scan_active
    BY DEF OnDuty, Agrees
  <2> QED
    BY <1>2, <2>1, ServeFail DEF CaptureWriteCb
<1> QED
  BY <1>1, <1>2

-----------------------------------------------------------------------------
(* The image. *)

\* The image of an uncancelled action has been read.
Captures(s) ==
    /\ OnDuty(s) /\ ~s.cancelled /\ s.state = "capture" /\ ~s.credited
    /\ Due(s, "captureRead") /\ Writes(s) = 0

\* y is what becomes of s until the action is completed, if it is.
Caught(s, y, image) ==
    /\ y \in DeviceType /\ SameBus(s, y)
    /\ y.open = s.open /\ y.action = s.action /\ y.cancelled = s.cancelled
    /\ y.init_stage = s.init_stage /\ y.exchanges = s.exchanges
    /\ y.deactivating = s.deactivating /\ y.controls = s.controls
    /\ y.active = s.active /\ y.returning = s.returning /\ y.result = s.result
    /\ y.cancel_idle = s.cancel_idle /\ y.warnings = s.warnings
    /\ y.capture_count = s.capture_count + 1
    /\ y.rejects = IF image = "features" THEN s.rejects ELSE s.rejects + 1

\* The stages, the report and the flags of the framework are as before.
Untouched(s, y) ==
    /\ y.enroll_stage = s.enroll_stage /\ y.credited = s.credited
    /\ y.report = s.report /\ y.enroll_await_on_pending = s.enroll_await_on_pending
    /\ y.action_error = s.action_error

LEMMA CapturesSilent ==
  ASSUME NEW s, Captures(s)
  PROVE  /\ s \in DeviceType /\ ~s.deactivating /\ s.open /\ Running(s) /\ s.active
         /\ Shakes(s) = 0 /\ Rearms(s) = 0 /\ Fingers(s) = 0 /\ Releases(s) = 0
         /\ Reads(s) = 0 /\ Writes(s) = 0 /\ Talks(s) = 0
<1>1. s \in DeviceType
  BY DEF Captures, OnDuty, Sound0, Settled
<1>2. /\ Shakes(s) = 0 /\ Rearms(s) = 0 /\ Fingers(s) = 0 /\ Releases(s) = 0
      /\ Reads(s) = 0 /\ Writes(s) = 0
  <2>1. /\ Rearms(s) \in Nat /\ Fingers(s) \in Nat /\ Releases(s) \in Nat
    BY <1>1, CountsType
  <2>2. Rearms(s) + Fingers(s) + Releases(s) = 0
    BY DEF Captures, OnDuty, Idles
  <2>3. Rearms(s) = 0 /\ Fingers(s) = 0 /\ Releases(s) = 0
    BY <2>1, <2>2, NoSum3
  <2> QED
    BY <2>3 DEF Captures, OnDuty, Idles, Due
<1>3. Talks(s) = 0
  BY <1>2 DEF Talks
<1> QED
  BY <1>1, <1>2, <1>3 DEF Captures, OnDuty, Sound0, Settled, Agrees

LEMMA CaptureBegins ==
  ASSUME NEW s, Captures(s)
  PROVE  LET c == [s EXCEPT !.capture_count = @ + 1]
             y == ChangeState([c EXCEPT !.minutiae_scan_active = TRUE], "awaitFingerOff")
         IN  /\ c.state = "capture" /\ c.action = s.action /\ c.action # "none"
             /\ Caught(s, y, "features") /\ Untouched(s, y)
             /\ y.state = "awaitFingerOff" /\ y.minutiae_scan_active
<1> DEFINE n == s.capture_count + 1
           c == [s EXCEPT !.capture_count = n]
           d == [c EXCEPT !.minutiae_scan_active = TRUE]
           y == ChangeState(d, "awaitFingerOff")
<1>1. s \in DeviceType /\ s.action # "none" /\ s.state = "capture" /\ n \in Nat
  BY CapturesSilent DEF Captures, Running, DeviceType
<1>2. c = [s EXCEPT !.capture_count = @ + 1]
  BY <1>1 DEF DeviceType
<1>3. n = s.capture_count + 1
  OBVIOUS
<1> HIDE DEF n
<1>4. d \in DeviceType
  BY <1>1 DEF DeviceType
<1>5. c.state = "capture" /\ c.action = s.action
  BY <1>1 DEF DeviceType
<1>6. Caught(s, d, "features") /\ Untouched(s, d) /\ d.minutiae_scan_active
  BY <1>1, <1>3, <1>4 DEF DeviceType, Caught, Untouched, SameBus
<1> HIDE DEF d
<1>7. Turned(d, y, "awaitFingerOff")
  BY <1>4, ChangeStateTurned DEF FwStates
<1> HIDE DEF y
<1>8. /\ Caught(s, y, "features") /\ Untouched(s, y)
      /\ y.state = "awaitFingerOff" /\ y.minutiae_scan_active
  BY <1>6, <1>7 DEF Turned, Caught, Untouched, SameData, SameBus
<1> QED
  BY <1>1, <1>2, <1>5, <1>8 DEF y, d

LEMMA ReleaseCounts ==
  ASSUME NEW s, Captures(s), NEW u \in DeviceType, SameBus(s, u), NEW t,
         Posted(u, t, "release")
  PROVE  /\ t \in DeviceType /\ Shakes(t) = 0 /\ Rearms(t) = 0 /\ Fingers(t) = 0
         /\ Releases(t) = 1 /\ Reads(t) = 0 /\ Writes(t) = 0 /\ Talks(t) = 1
<1>1. /\ Shakes(u) = 0 /\ Rearms(u) = 0 /\ Fingers(u) = 0 /\ Releases(u) = 0
      /\ Reads(u) = 0 /\ Writes(u) = 0
  BY CapturesSilent, SameBusCounts
<1>2. "release" \in Kinds
  BY DEF Kinds
<1>3. /\ In("release", ShakeKinds) = 0 /\ In("release", RearmKinds) = 0
      /\ In("release", {"finger"}) = 0 /\ In("release", {"release"}) = 1
      /\ In("release", {"captureRead"}) = 0 /\ In("release", {"captureWrite"}) = 0
  BY DEF In, ShakeKinds, RearmKinds
<1>4. /\ Shakes(t) = 0 /\ Rearms(t) = 0 /\ Fingers(t) = 0
      /\ Releases(t) = 1 /\ Reads(t) = 0 /\ Writes(t) = 0
  BY <1>1, <1>2, <1>3, PostedCounts
<1> QED
  BY <1>4 DEF Posted, Talks

\* The action goes on, and the driver waits for the finger to leave.
LEMMA WaitsForRelease ==
  ASSUME NEW s, NEW f, Captures(s), NEW y, NEW image, Caught(s, y, image),
         y.state = "awaitFingerOff", Advances(s, y),
         y.minutiae_scan_active => y.action = "capture",
         y.action = "capture" => y.report = "none",
         y.action_error \notin {"wrongType", "cancelled"},
         y.rejects = 0 /\ y.action_error \in BusErrors => y.action_error \in Faults,
         y.action = "enroll" =>
            /\ y.enroll_stage < NrEnrollStages /\ y.enroll_await_on_pending
            /\ y.action_error = "none" /\ (y.rejects = 0 => y.capture_count = y.enroll_stage)
  PROVE  LET t == StartInterrupt([y EXCEPT !.awaiting_release = TRUE])
         IN  PInv(t) /\ Lawful(s, t, f) /\ Quiet(s, t)
<1> DEFINE u == [y EXCEPT !.awaiting_release = TRUE]
           t == StartInterrupt(u)
<1>1. s \in DeviceType /\ ~s.deactivating /\ s.open /\ Running(s) /\ s.active
  BY CapturesSilent
<1>2. y \in DeviceType
  BY DEF Caught
<1>3. u \in DeviceType
  BY <1>2 DEF DeviceType
<1>4. /\ SameBus(y, u) /\ u.awaiting_release
      /\ u.open = y.open /\ u.action = y.action /\ u.cancelled = y.cancelled
      /\ u.report = y.report /\ u.enroll_stage = y.enroll_stage
      /\ u.enroll_await_on_pending = y.enroll_await_on_pending
      /\ u.minutiae_scan_active = y.minutiae_scan_active
      /\ u.init_stage = y.init_stage /\ u.exchanges = y.exchanges
      /\ u.capture_count = y.capture_count /\ u.deactivating = y.deactivating
      /\ u.credited = y.credited /\ u.rejects = y.rejects
      /\ u.state = y.state /\ u.active = y.active /\ u.returning = y.returning
      /\ u.result = y.result /\ u.action_error = y.action_error
      /\ u.cancel_idle = y.cancel_idle /\ u.warnings = y.warnings
  BY <1>2 DEF DeviceType, SameBus
<1> HIDE DEF u
<1>5. Settled(u) /\ SameBus(s, u)
  BY <1>1, <1>3, <1>4 DEF Settled, Caught, SameBus
<1>6. Posted(u, t, "release")
  BY <1>4, <1>5, StartInterruptPosted DEF ListenKind
<1> HIDE DEF t
<1>7. /\ t \in DeviceType /\ Shakes(t) = 0 /\ Rearms(t) = 0 /\ Fingers(t) = 0
      /\ Releases(t) = 1 /\ Reads(t) = 0 /\ Writes(t) = 0 /\ Talks(t) = 1
  BY <1>3, <1>5, <1>6, ReleaseCounts
<1>8. /\ t.open = y.open /\ t.action = y.action /\ t.cancelled = y.cancelled
      /\ t.report = y.report /\ t.enroll_stage = y.enroll_stage
      /\ t.enroll_await_on_pending = y.enroll_await_on_pending
      /\ t.minutiae_scan_active = y.minutiae_scan_active
      /\ t.init_stage = y.init_stage /\ t.exchanges = y.exchanges
      /\ t.capture_count = y.capture_count /\ t.awaiting_release
      /\ t.credited = y.credited /\ t.rejects = y.rejects
      /\ t.state = y.state /\ t.active = y.active /\ t.returning = y.returning
      /\ t.result = y.result /\ t.action_error = y.action_error
      /\ t.cancel_idle = y.cancel_idle /\ t.warnings = y.warnings
  BY <1>4, <1>6 DEF Posted, Alike, SameData, SameStatus
<1>9. /\ t.open /\ t.action = s.action /\ t.cancelled = s.cancelled
      /\ t.init_stage = s.init_stage /\ t.exchanges = s.exchanges
      /\ t.capture_count = s.capture_count + 1
      /\ t.active /\ t.returning = s.returning /\ t.result = s.result
      /\ t.cancel_idle = s.cancel_idle /\ t.warnings = s.warnings
      /\ t.rejects = 0 => s.rejects = 0
      /\ t.action # "none" /\ ~t.returning
  <2>1. s.rejects + 1 # 0
    BY <1>1 DEF DeviceType
  <2> QED
    BY <1>1, <1>8, <2>1 DEF Caught, Running
<1>10. Tagged(t)
  <2>1. u.action = s.action /\ u.cancelled = s.cancelled
    BY <1>4 DEF Caught
  <2> QED
    BY <1>5, <1>6, <2>1, SameBusTagged DEF Posted, Captures, OnDuty, Sound0, Sane
<1>11. Sane(t)
  BY <1>8, <1>9, <1>10 DEF Captures, OnDuty, Sound0, Sane
<1>12. Clean(t)
  BY <1>7, <1>8, <1>9 DEF Captures, OnDuty, Sound0, Clean
<1>13. Agrees(t)
  <2>1. t.capture_count > 0
    BY <1>1, <1>9 DEF DeviceType
  <2>2. /\ t.state = "awaitFingerOff" /\ t.active /\ Running(t)
        /\ t.cancelled => t.cancel_idle
    BY <1>8, <1>9 DEF Running, Captures
  <2> QED
    BY <1>8, <1>9, <2>1, <2>2 DEF Agrees, ServingStates
<1>14. Idles(t) /\ Attended(t)
  BY <1>7, <1>8 DEF Idles, Attended
<1>15. Lawful(s, t, f)
  <2>1. Advances(s, t)
    BY <1>8 DEF Advances
  <2> QED
    BY <1>1, <1>8, <1>9, <2>1 DEF Lawful, Outcome
<1> QED
  BY <1>9, <1>11, <1>12, <1>13, <1>14, <1>15 DEF PInv, Phase, Serving, Quiet, t, u

\* The last stage: the enrollment ends, and the read that waits for the finger
\* to leave is all that is left of it.
LEMMA LastStage ==
  ASSUME NEW s, NEW f, Captures(s), NEW a, Caught(s, a, "features"),
         a.state \in {"idle", "awaitFingerOff"}, a.action = "enroll",
         ~a.minutiae_scan_active, a.action_error = "none", a.report = s.report,
         s.enroll_stage < NrEnrollStages, a.enroll_stage = s.enroll_stage + 1, a.credited,
         a.state = "idle" \/ a.rejects > 0
  PROVE  LET z == Deactivate(MaybeCompleteAction(a, "none"), FALSE)
             t == StartInterrupt([z EXCEPT !.awaiting_release = TRUE])
         IN  PInv(t) /\ Lawful(s, t, f) /\ Quiet(s, t)
<1> DEFINE k == MaybeCompleteAction(a, "none")
           z == Deactivate(k, FALSE)
           u == [z EXCEPT !.awaiting_release = TRUE]
           t == StartInterrupt(u)
           r == ActionResult(k, "none")
<1>1. /\ s \in DeviceType /\ ~s.deactivating /\ s.open /\ Running(s) /\ s.active
      /\ Talks(s) = 0 /\ Writes(s) = 0 /\ Shakes(s) = 0
  BY CapturesSilent
<1>2. a \in DeviceType /\ "none" \in Errors
  BY DEF Caught, Errors
<1>3. /\ k \in DeviceType /\ SameData(a, k) /\ SameBus(a, k)
      /\ k.state = a.state /\ k.active = a.active /\ k.returning = a.returning
      /\ k.result = a.result /\ k.cancel_idle = a.cancel_idle
      /\ k.warnings = a.warnings /\ k.action_error = "none"
  BY <1>2, MaybeCompleteKept, FirstErrorNone
<1> HIDE DEF k
<1>4. /\ k.open /\ k.action = "enroll" /\ ~k.cancelled /\ k.report = s.report
      /\ ~k.minutiae_scan_active /\ k.init_stage = s.init_stage
      /\ k.exchanges = s.exchanges /\ ~k.deactivating /\ k.controls = s.controls
      /\ k.enroll_stage = s.enroll_stage + 1 /\ k.credited
      /\ k.rejects = s.rejects /\ k.active /\ ~k.returning /\ k.result = s.result
      /\ k.cancel_idle = s.cancel_idle /\ k.warnings = s.warnings
      /\ s.action = "enroll" /\ k.cancelled = s.cancelled /\ k.returning = s.returning
  BY <1>1, <1>3 DEF SameData, Caught, Captures, Running
<1>5. SameBus(s, k)
  BY <1>3 DEF SameBus, Caught
<1>6. Shakes(k) = 0 /\ Talks(k) = 0
  BY <1>1, <1>5, SameBusCounts
<1>7. Stoppable(k)
  <2>1. Tagged(k)
    BY <1>4, <1>5, SameBusTagged DEF Captures, OnDuty, Sound0, Sane
  <2>2. Sane(k)
    BY <1>3, <1>4, <2>1 DEF Captures, OnDuty, Sound0, Sane
  <2>3. Clean(k)
    BY <1>3, <1>4, <1>6, 0 <= 1 DEF Captures, OnDuty, Sound0, Clean, BusErrors
  <2>4. Settled(k) /\ Running(k)
    BY <1>3, <1>4 DEF Settled, Running
  <2> QED
    BY <1>4, <1>6, <2>2, <2>3, <2>4 DEF Stoppable
<1>8. Stopped(k, z, "none") /\ (k.state = "idle" => z.warnings = k.warnings)
  <2>1. k.state # "deactivating" /\ Settled(k) /\ Running(k)
    BY <1>3, <1>7 DEF Stoppable
  <2> QED
    BY <1>3, <1>4, <2>1, DeactivateStops
<1> HIDE DEF z
<1>9. Ended(k, z, r)
  BY <1>4, <1>8 DEF Stopped
<1>10. Leftover(k)
  BY <1>1, <1>5, SilentLeftover
<1>11. Explained(k, "none")
  BY DEF Explained, Errors, BusErrors
<1>12. k.state # "activating"
  BY <1>3
<1>13. PInv(z) /\ Resting(z) /\ Lawful(k, z, f)
  BY <1>4, <1>7, <1>9, <1>10, <1>11, <1>12, EndedRests2
<1>14. z \in DeviceType /\ SameData(k, z) /\ SameBus(k, z) /\ z.returning /\ z.state = "inactive"
       /\ ~z.active
  BY <1>9 DEF Ended
<1>15. AtRest(z)
  BY <1>4, <1>13, <1>14 DEF AtRest, Settled, SameData, PInv
<1>15a. z \in DeviceType
  BY <1>14
<1>16. u \in DeviceType
  BY <1>15a DEF DeviceType
<1>17. Dozes(z, u) /\ SameBus(z, u) /\ u.awaiting_release /\ u.warnings = z.warnings
  BY <1>15a, <1>16 DEF DeviceType, Dozes, SameStatus, SameBus
<1> HIDE DEF u
<1>18. Settled(u)
  BY <1>15, <1>16, <1>17 DEF Settled, Dozes, AtRest
<1>19. Posted(u, t, "release")
  BY <1>17, <1>18, StartInterruptPosted DEF ListenKind
<1> HIDE DEF t
<1>20. Talks(z) = 0
  BY <1>6, <1>14, SameBusCounts
<1>21. PInv(t) /\ Lawful(z, t, f)
  <2>1. "release" \in Kinds \ ShakeKinds
    BY DEF Kinds, ShakeKinds
  <2> QED
    BY <1>15, <1>17, <1>19, <1>20, <2>1, RestPost
<1>22. /\ t.open = z.open /\ t.action = z.action /\ t.cancelled = z.cancelled
       /\ t.report = z.report /\ t.enroll_stage = z.enroll_stage /\ t.credited = z.credited
       /\ t.rejects = z.rejects /\ t.returning = z.returning /\ t.result = z.result
       /\ t.state = z.state /\ t.active = z.active /\ t.warnings = z.warnings
  BY <1>17, <1>19 DEF Dozes, SameStatus, Posted, Alike, SameData
<1>23. /\ t.open = s.open /\ t.action = s.action /\ t.cancelled = s.cancelled
       /\ t.report = s.report /\ t.enroll_stage = s.enroll_stage + 1 /\ t.credited
       /\ t.rejects = s.rejects /\ t.state = "inactive" /\ ~t.active
  BY <1>1, <1>4, <1>14, <1>22 DEF SameData, Captures
<1>24. Outcome(s, t)
  <2>1. Running(k)
    BY <1>7 DEF Stoppable
  <2>2. Outcome(k, z)
    BY <1>13, <2>1 DEF Lawful
  <2>3. s.action = "enroll" /\ s.state = "capture" /\ ~s.cancelled /\ ~k.cancelled
    BY <1>4 DEF Captures
  <2> QED
    BY <1>22, <2>2, <2>3 DEF Outcome
<1>25. Lawful(s, t, f)
  <2>1. Advances(s, t)
    BY <1>4, <1>23 DEF Advances, Captures
  <2> QED
    BY <1>1, <1>23, <1>24, <2>1 DEF Lawful
<1>26. Quiet(s, t)
  <2>1. CASE a.state = "idle"
    BY <2>1, <1>3, <1>4, <1>8, <1>22 DEF Quiet
  <2>2. CASE a.rejects > 0
    BY <2>2, <1>23 DEF Quiet, Caught
  <2> QED
    BY <2>1, <2>2
<1> QED
  BY <1>21, <1>25, <1>26 DEF t, u, z, k

\* A touch taken for the last one that was not: the driver rearms for the next
\* touch and waits for the finger to leave at the same time.
LEMMA TakenForLast ==
  ASSUME NEW s, NEW f, Captures(s), NEW a, NEW image, Caught(s, a, image),
         a.action = "enroll", ~a.minutiae_scan_active, a.action_error = "none",
         a.enroll_await_on_pending, a.enroll_stage < NrEnrollStages, a.rejects > 0,
         Advances(s, a)
  PROVE  LET t == StartInterrupt([EnrollMaybeAwaitFingerOn(a) EXCEPT !.awaiting_release = TRUE])
         IN  PInv(t) /\ Lawful(s, t, f) /\ Quiet(s, t)
<1> DEFINE x == [a EXCEPT !.enroll_await_on_pending = FALSE]
           b == ChangeState(x, "awaitFingerOn")
           u == [b EXCEPT !.awaiting_release = TRUE]
           t == StartInterrupt(u)
<1>1. /\ s \in DeviceType /\ ~s.deactivating /\ s.open /\ Running(s) /\ s.active
      /\ Shakes(s) = 0 /\ Rearms(s) = 0 /\ Fingers(s) = 0 /\ Releases(s) = 0
      /\ Reads(s) = 0 /\ Writes(s) = 0
  BY CapturesSilent
<1>2. a \in DeviceType
  BY DEF Caught
<1>3. EnrollMaybeAwaitFingerOn(a) = b
  BY DEF EnrollMaybeAwaitFingerOn
<1>4. x \in DeviceType
  BY <1>2 DEF DeviceType
<1>5. Between(a, x) /\ ~x.enroll_await_on_pending /\ x.state = a.state
      /\ x.controls = a.controls
  BY <1>2, <1>4 DEF DeviceType, Between, SameBus
<1> HIDE DEF x
<1>6. a.capture_count > 0 /\ a.capture_count # 0 /\ a.rejects # 0
  <2>1. s.capture_count \in Nat /\ a.rejects \in Nat
    BY <1>1, <1>2 DEF DeviceType
  <2>2. a.capture_count = s.capture_count + 1
    BY DEF Caught
  <2> QED
    BY <2>1, <2>2
<1>7. Settled(x) /\ x.capture_count # 0
  BY <1>1, <1>4, <1>5, <1>6 DEF Settled, Between, Caught
<1>8. PICK y : Turned(x, y, "awaitFingerOn") /\ Posted(y, b, "rearmWrite")
  BY <1>7, AwaitFingerOn
<1> HIDE DEF b
<1>9. y \in DeviceType /\ b \in DeviceType
  BY <1>8 DEF Turned, Posted
<1>9a. b \in DeviceType
  BY <1>9
<1>10. u \in DeviceType
  BY <1>9a DEF DeviceType
<1>11. Dozes(b, u) /\ SameBus(b, u) /\ u.awaiting_release /\ u.warnings = b.warnings
       /\ u.enroll_await_on_pending = b.enroll_await_on_pending
       /\ u.capture_count = b.capture_count
  BY <1>9a, <1>10 DEF DeviceType, Dozes, SameStatus, SameBus
<1> HIDE DEF u
<1>12. Settled(u)
  BY <1>7, <1>8, <1>10, <1>11 DEF Settled, Dozes, Turned, Posted, Alike, SameData
<1>13. Posted(u, t, "release")
  BY <1>11, <1>12, StartInterruptPosted DEF ListenKind
<1> HIDE DEF t
<1>14. /\ t \in DeviceType /\ t.open = a.open /\ t.action = a.action
       /\ t.cancelled = a.cancelled /\ t.report = a.report
       /\ t.enroll_stage = a.enroll_stage /\ ~t.enroll_await_on_pending
       /\ t.minutiae_scan_active = a.minutiae_scan_active
       /\ t.capture_count = a.capture_count /\ t.awaiting_release
       /\ t.credited = a.credited /\ t.rejects = a.rejects
       /\ t.init_stage = a.init_stage /\ t.exchanges = a.exchanges
       /\ t.state = "awaitFingerOn" /\ t.active = a.active /\ t.returning = a.returning
       /\ t.result = a.result /\ t.action_error = a.action_error
       /\ t.cancel_idle = a.cancel_idle /\ t.warnings = a.warnings
  <2>1. /\ b.open = a.open /\ b.action = a.action
        /\ b.cancelled = a.cancelled /\ b.report = a.report
        /\ b.enroll_stage = a.enroll_stage /\ ~b.enroll_await_on_pending
        /\ b.minutiae_scan_active = a.minutiae_scan_active
        /\ b.capture_count = a.capture_count
        /\ b.credited = a.credited /\ b.rejects = a.rejects
        /\ b.init_stage = a.init_stage /\ b.exchanges = a.exchanges
        /\ b.state = "awaitFingerOn" /\ b.active = a.active /\ b.returning = a.returning
        /\ b.result = a.result /\ b.action_error = a.action_error
        /\ b.cancel_idle = a.cancel_idle /\ b.warnings = a.warnings
    BY <1>5, <1>8 DEF Between, Turned, Posted, Alike, SameData, SameStatus
  <2> QED
    BY <2>1, <1>11, <1>13 DEF Dozes, SameStatus, Posted, Alike, SameData
<1>15. /\ t.open /\ t.action = s.action /\ t.action = "enroll" /\ t.cancelled = s.cancelled
       /\ t.init_stage = s.init_stage /\ t.exchanges = s.exchanges
       /\ t.active /\ t.returning = s.returning /\ t.result = s.result
       /\ t.cancel_idle = s.cancel_idle /\ t.warnings = s.warnings
       /\ t.rejects # 0 /\ t.rejects > 0 /\ t.action # "none" /\ ~t.returning
  BY <1>1, <1>6, <1>14 DEF Caught, Running
<1>16. SameBus(s, y)
  BY <1>5, <1>8 DEF Between, Turned, SameBus, Caught
<1>17. /\ Shakes(y) = 0 /\ Rearms(y) = 0 /\ Fingers(y) = 0 /\ Releases(y) = 0
       /\ Reads(y) = 0 /\ Writes(y) = 0
  BY <1>1, <1>16, SameBusCounts
<1>18. /\ Shakes(b) = 0 /\ Rearms(b) = 1 /\ Fingers(b) = 0 /\ Releases(b) = 0
       /\ Reads(b) = 0 /\ Writes(b) = 0
  <2>1. "rearmWrite" \in Kinds
    BY DEF Kinds
  <2>2. /\ In("rearmWrite", ShakeKinds) = 0 /\ In("rearmWrite", RearmKinds) = 1
        /\ In("rearmWrite", {"finger"}) = 0 /\ In("rearmWrite", {"release"}) = 0
        /\ In("rearmWrite", {"captureRead"}) = 0 /\ In("rearmWrite", {"captureWrite"}) = 0
    BY DEF In, ShakeKinds, RearmKinds
  <2> QED
    BY <1>8, <1>9, <1>17, <2>1, <2>2, PostedCounts
<1>19. /\ Shakes(t) = 0 /\ Rearms(t) = 1 /\ Fingers(t) = 0 /\ Releases(t) = 1
       /\ Reads(t) = 0 /\ Writes(t) = 0
  <2>1. "release" \in Kinds
    BY DEF Kinds
  <2>2. /\ In("release", ShakeKinds) = 0 /\ In("release", RearmKinds) = 0
        /\ In("release", {"finger"}) = 0 /\ In("release", {"release"}) = 1
        /\ In("release", {"captureRead"}) = 0 /\ In("release", {"captureWrite"}) = 0
    BY DEF In, ShakeKinds, RearmKinds
  <2>3. /\ Shakes(u) = 0 /\ Rearms(u) = 1 /\ Fingers(u) = 0 /\ Releases(u) = 0
        /\ Reads(u) = 0 /\ Writes(u) = 0
    BY <1>11, <1>18, SameBusCounts
  <2> QED
    BY <1>10, <1>13, <2>1, <2>2, <2>3, PostedCounts
<1>20. Tagged(t)
  <2>1. y.action = s.action /\ y.cancelled = s.cancelled
    BY <1>5, <1>8 DEF Between, Turned, SameData, Caught
  <2>2. Tagged(b)
    BY <1>8, <1>16, <2>1, SameBusTagged DEF Posted, Captures, OnDuty, Sound0, Sane
  <2> QED
    BY <1>11, <1>13, <2>2, SameBusTagged DEF Posted, Dozes
<1>21. Sane(t)
  BY <1>14, <1>15, <1>20 DEF Captures, OnDuty, Sound0, Sane
<1>22. Clean(t)
  BY <1>15 DEF Clean
<1>23. Agrees(t)
  BY <1>14, <1>15 DEF Agrees, ServingStates, Running, Captures
<1>24. Idles(t) /\ Attended(t)
  BY <1>14, <1>15, <1>19 DEF Idles, Attended, Listening1
<1>25. Lawful(s, t, f)
  <2>1. Advances(s, t)
    BY <1>14 DEF Advances
  <2> QED
    BY <1>1, <1>14, <1>15, <2>1 DEF Lawful, Outcome
<1> QED
  BY <1>3, <1>15, <1>21, <1>22, <1>23, <1>24, <1>25 DEF PInv, Phase, Serving, Quiet, t, u

\* A print is added to the gallery, or it is not: the enrollment ends, goes on
\* with a touch taken for the last one, or waits for the finger to leave.
LEMMA EnrollPrint ==
  ASSUME NEW s, NEW f, Captures(s), NEW v, NEW image \in Images, Caught(s, v, image),
         v.action = "enroll", ~v.minutiae_scan_active, v.action_error = "none",
         v.enroll_stage = s.enroll_stage, v.credited = s.credited, v.report = s.report,
         IF image # "noFeatures" /\ v.capture_count = NrEnrollStages
         THEN v.state = "idle" /\ v.enroll_await_on_pending
         ELSE v.state = "awaitFingerOff" /\ ~v.enroll_await_on_pending
  PROVE  LET t == StartInterrupt([ProcessPrint(v, image) EXCEPT !.awaiting_release = TRUE])
         IN  PInv(t) /\ Lawful(s, t, f) /\ Quiet(s, t)
<1> DEFINE a == AppendPrint(v, image)
           p == ProcessPrint(v, image)
           t == StartInterrupt([p EXCEPT !.awaiting_release = TRUE])
<1>1. /\ s \in DeviceType /\ v \in DeviceType
      /\ s.enroll_stage < NrEnrollStages /\ ~s.credited
      /\ s.rejects = 0 => s.capture_count = s.enroll_stage
      /\ s.action = "enroll" /\ v.capture_count = s.capture_count + 1
      /\ v.rejects = IF image = "features" THEN s.rejects ELSE s.rejects + 1
  <2>1. s \in DeviceType /\ v \in DeviceType /\ s.action = "enroll"
    BY CapturesSilent DEF Caught
  <2>2. Agrees(s) /\ ~s.credited
    BY DEF Captures, OnDuty
  <2> QED
    BY <2>1, <2>2 DEF Agrees, Caught
<1>2. /\ s.enroll_stage \in Nat /\ s.capture_count \in Nat /\ s.rejects \in Nat
      /\ NrEnrollStages \in Nat
  BY <1>1, ConstantsAssumption DEF DeviceType
<1>3. a \in DeviceType
  <2> DEFINE n == v.enroll_stage + 1
  <2>1. v \in DeviceType
    BY <1>1
  <2>2. v.enroll_stage \in Nat
    BY <2>1 DEF DeviceType
  <2>3. n \in Nat
    BY <2>2
  <2>4. a = IF image = "features" THEN [v EXCEPT !.enroll_stage = n, !.credited = TRUE] ELSE v
    BY DEF AppendPrint
  <2> HIDE DEF n, a
  <2> QED
    BY <2>1, <2>3, <2>4 DEF DeviceType
<1>4. /\ SameBus(v, a) /\ a.open = v.open /\ a.action = v.action /\ a.cancelled = v.cancelled
      /\ a.init_stage = v.init_stage /\ a.exchanges = v.exchanges
      /\ a.deactivating = v.deactivating /\ a.controls = v.controls
      /\ a.active = v.active /\ a.returning = v.returning /\ a.result = v.result
      /\ a.cancel_idle = v.cancel_idle /\ a.warnings = v.warnings
      /\ a.capture_count = v.capture_count /\ a.rejects = v.rejects
      /\ a.minutiae_scan_active = v.minutiae_scan_active
      /\ a.action_error = v.action_error /\ a.report = v.report /\ a.state = v.state
      /\ a.enroll_await_on_pending = v.enroll_await_on_pending
      /\ IF image = "features"
         THEN a.enroll_stage = v.enroll_stage + 1 /\ a.credited
         ELSE a.enroll_stage = v.enroll_stage /\ a.credited = v.credited
  BY <1>1 DEF AppendPrint, DeviceType, SameBus
<1>5. Caught(s, a, image) /\ a.action = "enroll" /\ ~a.minutiae_scan_active
      /\ a.action_error = "none" /\ a.report = s.report
  BY <1>3, <1>4 DEF Caught, SameBus
<1>6. p = IF EnrollmentFull(a) THEN Deactivate(MaybeCompleteAction(a, "none"), FALSE)
          ELSE EnrollMaybeAwaitFingerOn(a)
  BY DEF ProcessPrint
<1>7. Advances(s, a)
  BY <1>1, <1>4, <1>5 DEF Advances
<1> HIDE DEF a, p, t
<1>8. CASE EnrollmentFull(a)
  <2>1. image = "features" /\ a.enroll_stage = s.enroll_stage + 1 /\ a.credited
        /\ a.enroll_stage = NrEnrollStages
    BY <1>1, <1>2, <1>4, <1>8 DEF EnrollmentFull
  <2>2. a.state = "idle" \/ a.rejects > 0
    BY <1>1, <1>2, <1>4, <2>1
  <2>3. a.state \in {"idle", "awaitFingerOff"}
    BY <1>4
  <2>4. LET y == StartInterrupt([Deactivate(MaybeCompleteAction(a, "none"), FALSE)
                                   EXCEPT !.awaiting_release = TRUE])
        IN  PInv(y) /\ Lawful(s, y, f) /\ Quiet(s, y)
    BY <1>1, <1>5, <2>1, <2>2, <2>3, LastStage
  <2> QED
    BY <1>6, <1>8, <2>4 DEF t, p
<1>9. CASE ~EnrollmentFull(a) /\ v.state = "idle"
  <2>1. a.enroll_stage # NrEnrollStages /\ a.enroll_stage < NrEnrollStages
    BY <1>1, <1>2, <1>4, <1>9 DEF EnrollmentFull
  <2>2. a.rejects > 0
    BY <1>1, <1>2, <1>4, <1>9, <2>1
  <2>3. a.enroll_await_on_pending
    BY <1>4, <1>9
  <2>4. LET y == StartInterrupt([EnrollMaybeAwaitFingerOn(a) EXCEPT !.awaiting_release = TRUE])
        IN  PInv(y) /\ Lawful(s, y, f) /\ Quiet(s, y)
    BY <1>5, <1>7, <2>1, <2>2, <2>3, TakenForLast
  <2> QED
    BY <1>6, <1>9, <2>4 DEF t, p
<1>10. CASE ~EnrollmentFull(a) /\ v.state # "idle"
  <2> DEFINE y == [a EXCEPT !.enroll_await_on_pending = TRUE]
  <2>1. a.enroll_stage # NrEnrollStages /\ a.enroll_stage < NrEnrollStages
        /\ a.state = "awaitFingerOff" /\ ~a.enroll_await_on_pending
    BY <1>1, <1>2, <1>4, <1>10 DEF EnrollmentFull
  <2>2. EnrollMaybeAwaitFingerOn(a) = y
    BY <2>1 DEF EnrollMaybeAwaitFingerOn
  <2>3. y \in DeviceType
    BY <1>3 DEF DeviceType
  <2>4. /\ SameBus(a, y) /\ y.open = a.open /\ y.action = a.action /\ y.cancelled = a.cancelled
        /\ y.init_stage = a.init_stage /\ y.exchanges = a.exchanges
        /\ y.deactivating = a.deactivating /\ y.controls = a.controls
        /\ y.active = a.active /\ y.returning = a.returning /\ y.result = a.result
        /\ y.cancel_idle = a.cancel_idle /\ y.warnings = a.warnings
        /\ y.capture_count = a.capture_count /\ y.rejects = a.rejects
        /\ y.minutiae_scan_active = a.minutiae_scan_active
        /\ y.action_error = a.action_error /\ y.report = a.report /\ y.state = a.state
        /\ y.enroll_await_on_pending
        /\ y.enroll_stage = a.enroll_stage /\ y.credited = a.credited
    BY <1>3 DEF DeviceType, SameBus
  <2> HIDE DEF y
  <2>5. Caught(s, y, image)
    BY <1>5, <2>3, <2>4 DEF Caught, SameBus
  <2>6. Advances(s, y)
    BY <1>7, <2>4 DEF Advances
  <2>7. y.rejects = 0 => y.capture_count = y.enroll_stage
    BY <1>1, <1>2, <1>4, <2>4
  <2>8. LET z == StartInterrupt([y EXCEPT !.awaiting_release = TRUE])
        IN  PInv(z) /\ Lawful(s, z, f) /\ Quiet(s, z)
    <3>1. y.action = "enroll" /\ ~y.minutiae_scan_active /\ y.action_error = "none"
          /\ y.state = "awaitFingerOff" /\ y.enroll_stage < NrEnrollStages
          /\ y.enroll_await_on_pending
      BY <1>5, <2>1, <2>4
    <3>2. y.action_error \notin BusErrors
      BY <3>1 DEF BusErrors
    <3> QED
      BY <2>5, <2>6, <2>7, <3>1, <3>2, WaitsForRelease
  <2> QED
    BY <1>6, <1>10, <2>2, <2>8 DEF t, p
<1> QED
  BY <1>8, <1>9, <1>10 DEF t, p

\* The image of an enrollment, with the finger-off reported early or not.
LEMMA EnrollImage ==
  ASSUME NEW s, NEW f, Captures(s), NEW y, NEW image \in Images, Caught(s, y, "features"),
         Untouched(s, y), y.state = "awaitFingerOff", s.action = "enroll"
  PROVE  LET v == [ExtractPrint(Rejected(y, image), image) EXCEPT !.minutiae_scan_active = FALSE]
             t == StartInterrupt([ProcessPrint(v, image) EXCEPT !.awaiting_release = TRUE])
         IN  PInv(t) /\ Lawful(s, t, f) /\ Quiet(s, t)
<1> DEFINE x == Rejected(y, image)
           w == ChangeState(x, "idle")
           g == EnrollMaybeAwaitFingerOn(w)
           h == ExtractPrint(x, image)
           v == [h EXCEPT !.minutiae_scan_active = FALSE]
<1>1. /\ s \in DeviceType /\ y \in DeviceType /\ s.state = "capture"
      /\ ~s.enroll_await_on_pending /\ s.action_error = "none"
  <2>1. Agrees(s) /\ s.state = "capture" /\ s \in DeviceType /\ y \in DeviceType
    BY CapturesSilent DEF Captures, OnDuty, Caught
  <2>2. s.enroll_await_on_pending \in BOOLEAN
    BY <2>1 DEF DeviceType
  <2> QED
    BY <2>1, <2>2 DEF Agrees
<1>2. x \in DeviceType
  <2> DEFINE n == y.rejects + 1
  <2>1. y \in DeviceType
    BY <1>1
  <2>2. y.rejects \in Nat
    BY <2>1 DEF DeviceType
  <2>3. n \in Nat
    BY <2>2
  <2>4. x = IF image = "features" THEN y ELSE [y EXCEPT !.rejects = n]
    BY DEF Rejected
  <2> HIDE DEF n, x
  <2> QED
    BY <2>1, <2>3, <2>4 DEF DeviceType
<1>3. Caught(s, x, image) /\ Untouched(s, x) /\ x.state = "awaitFingerOff"
  BY <1>1, <1>2 DEF Rejected, Caught, Untouched, DeviceType, SameBus
<1> HIDE DEF x
<1>4. Turned(x, w, "idle")
  BY <1>2, ChangeStateTurned DEF FwStates
<1> HIDE DEF w
<1>5. w \in DeviceType /\ ~w.enroll_await_on_pending
  BY <1>1, <1>3, <1>4 DEF Turned, SameData, Untouched
<1>6. g = [w EXCEPT !.enroll_await_on_pending = TRUE]
  BY <1>5 DEF EnrollMaybeAwaitFingerOn
<1>7. Caught(s, w, image) /\ w.enroll_stage = s.enroll_stage /\ w.credited = s.credited
      /\ w.report = s.report /\ w.action_error = s.action_error /\ w.state = "idle"
  BY <1>3, <1>4, <1>5 DEF Turned, SameData, SameBus, Caught, Untouched
<1>8. w.action = "enroll" /\ x.action = "enroll"
  BY <1>3, <1>7 DEF Caught
<1>9. h = IF image # "noFeatures" /\ x.capture_count = NrEnrollStages THEN g ELSE x
  <2>1. ReportFingerStatus(x, FALSE) = g
    BY <1>3, <1>8 DEF ReportFingerStatus, w
  <2> QED
    BY <1>8, <2>1 DEF ExtractPrint
<1> HIDE DEF h, g
<1>10. w.capture_count = x.capture_count
  BY <1>4 DEF Turned, SameData
<1>11. /\ h \in DeviceType /\ Caught(s, h, image) /\ h.enroll_stage = s.enroll_stage
       /\ h.credited = s.credited /\ h.report = s.report /\ h.action_error = s.action_error
       /\ h.action = "enroll" /\ h.capture_count = x.capture_count
       /\ IF image # "noFeatures" /\ x.capture_count = NrEnrollStages
          THEN h.state = "idle" /\ h.enroll_await_on_pending
          ELSE h.state = "awaitFingerOff" /\ ~h.enroll_await_on_pending
  <2>1. CASE image # "noFeatures" /\ x.capture_count = NrEnrollStages
    <3>1. g \in DeviceType
      BY <1>5, <1>6 DEF DeviceType
    <3>2. Caught(s, g, image) /\ g.enroll_stage = s.enroll_stage
          /\ g.credited = s.credited /\ g.report = s.report /\ g.action_error = s.action_error
          /\ g.action = "enroll" /\ g.capture_count = w.capture_count
          /\ g.state = "idle" /\ g.enroll_await_on_pending
      BY <1>5, <1>6, <1>7, <1>8, <3>1 DEF DeviceType, Caught, SameBus
    <3> QED
      BY <2>1, <1>9, <1>10, <3>1, <3>2
  <2>2. CASE ~(image # "noFeatures" /\ x.capture_count = NrEnrollStages)
    BY <2>2, <1>1, <1>2, <1>3, <1>8, <1>9 DEF Untouched
  <2> QED
    BY <2>1, <2>2
<1> HIDE DEF v
<1>12. v \in DeviceType
  BY <1>11 DEF v, DeviceType
<1>13. /\ Caught(s, v, image) /\ v.enroll_stage = s.enroll_stage /\ v.credited = s.credited
       /\ v.report = s.report /\ v.action_error = s.action_error /\ v.action = "enroll"
       /\ v.capture_count = h.capture_count /\ v.state = h.state
       /\ v.enroll_await_on_pending = h.enroll_await_on_pending /\ ~v.minutiae_scan_active
  <2>1. h \in DeviceType
    BY <1>11
  <2>2. /\ SameBus(h, v) /\ v.open = h.open /\ v.action = h.action /\ v.cancelled = h.cancelled
        /\ v.init_stage = h.init_stage /\ v.exchanges = h.exchanges
        /\ v.deactivating = h.deactivating /\ v.controls = h.controls
        /\ v.active = h.active /\ v.returning = h.returning /\ v.result = h.result
        /\ v.cancel_idle = h.cancel_idle /\ v.warnings = h.warnings
        /\ v.capture_count = h.capture_count /\ v.rejects = h.rejects
        /\ ~v.minutiae_scan_active
        /\ v.action_error = h.action_error /\ v.report = h.report /\ v.state = h.state
        /\ v.enroll_await_on_pending = h.enroll_await_on_pending
        /\ v.enroll_stage = h.enroll_stage /\ v.credited = h.credited
    BY <2>1 DEF v, DeviceType, SameBus
  <2> QED
    BY <1>11, <1>12, <2>2 DEF Caught, SameBus
<1>14. LET t == StartInterrupt([ProcessPrint(v, image) EXCEPT !.awaiting_release = TRUE])
       IN  PInv(t) /\ Lawful(s, t, f) /\ Quiet(s, t)
  BY <1>1, <1>11, <1>13, EnrollPrint
<1> QED
  BY <1>14 DEF v, h, x

\* The image of a verification or an identification.
LEMMA MatchImage ==
  ASSUME NEW s, NEW f, Captures(s), NEW y, NEW image \in Images, Caught(s, y, "features"),
         Untouched(s, y), y.state = "awaitFingerOff", s.action \in {"verify", "identify"}
  PROVE  LET v == [ExtractPrint(Rejected(y, image), image) EXCEPT !.minutiae_scan_active = FALSE]
             t == StartInterrupt([ProcessPrint(v, image) EXCEPT !.awaiting_release = TRUE])
         IN  PInv(t) /\ Lawful(s, t, f) /\ Quiet(s, t)
<1> DEFINE x == Rejected(y, image)
           v == [x EXCEPT !.minutiae_scan_active = FALSE]
           r == CASE image = "features" -> "result" [] image = "noFeatures" -> "retry"
                  [] OTHER -> "none"
           e == IF image = "badGallery" THEN "invalid" ELSE "none"
           z == [v EXCEPT !.report = r]
           k == MaybeCompleteAction(z, e)
<1>1. /\ s \in DeviceType /\ y \in DeviceType /\ s.state = "capture"
      /\ s.report = "none" /\ s.action_error = "none" /\ s.rejects \in Nat
  <2>1. Agrees(s) /\ s.state = "capture" /\ s \in DeviceType /\ y \in DeviceType
    BY CapturesSilent DEF Captures, OnDuty, Caught
  <2> QED
    BY <2>1 DEF Agrees, DeviceType
<1>2. x \in DeviceType
  <2> DEFINE n == y.rejects + 1
  <2>1. y \in DeviceType
    BY <1>1
  <2>2. y.rejects \in Nat
    BY <2>1 DEF DeviceType
  <2>3. n \in Nat
    BY <2>2
  <2>4. x = IF image = "features" THEN y ELSE [y EXCEPT !.rejects = n]
    BY DEF Rejected
  <2> HIDE DEF n, x
  <2> QED
    BY <2>1, <2>3, <2>4 DEF DeviceType
<1>3. Caught(s, x, image) /\ Untouched(s, x) /\ x.state = "awaitFingerOff"
  BY <1>1, <1>2 DEF Rejected, Caught, Untouched, DeviceType, SameBus
<1>4. ExtractPrint(x, image) = x
  BY <1>3 DEF ExtractPrint, Caught
<1> HIDE DEF x
<1>5. r \in {"none", "result", "retry"} /\ e \in {"none", "invalid"}
  BY DEF Images
<1>6. v \in DeviceType
  BY <1>2 DEF DeviceType
<1>7. z \in DeviceType
  BY <1>2, <1>5 DEF DeviceType
<1>8. v.action = s.action /\ v.report = "none"
  BY <1>1, <1>2, <1>3 DEF DeviceType, Caught, Untouched
<1>9. ProcessPrint(v, image) = k
  <2>1. v.action # "capture" /\ v.action # "enroll"
    BY <1>8
  <2>2. r = "none" => z = v
    BY <1>6, <1>8 DEF DeviceType
  <2> HIDE DEF v
  <2>3. CASE image = "features"
    BY <2>1, <2>3 DEF ProcessPrint
  <2>4. CASE image = "noFeatures"
    BY <2>1, <2>4 DEF ProcessPrint
  <2>5. CASE image = "badGallery"
    BY <2>1, <2>2, <2>5 DEF ProcessPrint
  <2> QED
    BY <2>3, <2>4, <2>5 DEF Images
<1>10. /\ SameBus(x, z) /\ z.open = x.open /\ z.action = x.action /\ z.cancelled = x.cancelled
       /\ z.init_stage = x.init_stage /\ z.exchanges = x.exchanges
       /\ z.deactivating = x.deactivating /\ z.controls = x.controls
       /\ z.active = x.active /\ z.returning = x.returning /\ z.result = x.result
       /\ z.cancel_idle = x.cancel_idle /\ z.warnings = x.warnings
       /\ z.capture_count = x.capture_count /\ z.rejects = x.rejects
       /\ ~z.minutiae_scan_active
       /\ z.action_error = x.action_error /\ z.report = r /\ z.state = x.state
       /\ z.enroll_stage = x.enroll_stage /\ z.credited = x.credited
  BY <1>2, <1>5 DEF DeviceType, SameBus
<1> HIDE DEF z, v
<1>11. /\ k \in DeviceType /\ SameData(z, k) /\ SameBus(z, k)
       /\ k.state = z.state /\ k.active = z.active /\ k.returning = z.returning
       /\ k.result = z.result /\ k.cancel_idle = z.cancel_idle
       /\ k.warnings = z.warnings
       /\ k.action_error = FirstError(z, e)
  <2>1. e \in Errors /\ z.state # "inactive"
    BY <1>3, <1>10 DEF Errors
  <2> QED
    BY <1>7, <2>1, MaybeCompleteKept
<1> HIDE DEF k
<1>12. k.action_error = e
  BY <1>1, <1>3, <1>5, <1>10, <1>11 DEF FirstError, Untouched
<1>13. /\ Caught(s, k, image) /\ k.state = "awaitFingerOff" /\ ~k.minutiae_scan_active
       /\ k.enroll_stage = s.enroll_stage /\ k.credited = s.credited /\ k.report = r
  BY <1>3, <1>10, <1>11 DEF SameData, SameBus, Caught, Untouched
<1>14. Advances(s, k)
  BY <1>1, <1>5, <1>13 DEF Advances
<1>15. k.rejects = 0 => e = "none"
  BY <1>1, <1>13 DEF Caught
<1>16. LET t == StartInterrupt([k EXCEPT !.awaiting_release = TRUE])
       IN  PInv(t) /\ Lawful(s, t, f) /\ Quiet(s, t)
  <2>1. k.action # "capture" /\ k.action # "enroll"
    BY <1>13 DEF Caught
  <2>2. k.action_error \notin {"wrongType", "cancelled"}
        /\ (k.rejects = 0 => k.action_error \notin BusErrors)
    BY <1>5, <1>12, <1>15 DEF BusErrors
  <2> QED
    BY <1>13, <1>14, <2>1, <2>2, WaitsForRelease
<1> QED
  BY <1>4, <1>9, <1>16 DEF v, x

\* The image of a capture action is left to its minutiae thread.
LEMMA BareImage ==
  ASSUME NEW s, NEW f, Captures(s), NEW y, Caught(s, y, "features"),
         Untouched(s, y), y.state = "awaitFingerOff", s.action = "capture"
  PROVE  LET t == StartInterrupt([y EXCEPT !.awaiting_release = TRUE])
         IN  PInv(t) /\ Lawful(s, t, f) /\ Quiet(s, t)
<1>1. s.report = "none" /\ s.action_error = "none"
  BY DEF Captures, OnDuty, Sound0, Sane, Agrees
<1>2. Advances(s, y)
  BY DEF Advances, Untouched
<1>3. y.action = "capture" /\ y.report = "none" /\ y.action_error = "none"
  BY <1>1 DEF Caught, Untouched
<1>4. y.action_error \notin {"wrongType", "cancelled"} /\ y.action_error \notin BusErrors
  BY <1>3 DEF BusErrors
<1> QED
  BY <1>2, <1>3, <1>4, WaitsForRelease

LEMMA ServeImage ==
  ASSUME NEW s, NEW f, Captures(s), NEW image \in Images
  PROVE  LET t == CaptureReadCb(s, "none", image)
         IN  PInv(t) /\ Lawful(s, t, f) /\ Quiet(s, t)
<1> DEFINE c == [s EXCEPT !.capture_count = @ + 1]
           y == ChangeState([c EXCEPT !.minutiae_scan_active = TRUE], "awaitFingerOff")
           v == [ExtractPrint(Rejected(y, image), image) EXCEPT !.minutiae_scan_active = FALSE]
           i == ImageCaptured(c, image)
<1>1. /\ c.state = "capture" /\ c.action = s.action /\ c.action # "none"
      /\ Caught(s, y, "features") /\ Untouched(s, y)
      /\ y.state = "awaitFingerOff" /\ y.minutiae_scan_active
  BY CaptureBegins
<1>2. CaptureReadCb(s, "none", image) = StartInterrupt([i EXCEPT !.awaiting_release = TRUE])
  BY DEF CaptureReadCb
<1>3. i = IF s.action = "capture" THEN y ELSE ProcessPrint(v, image)
  BY <1>1 DEF ImageCaptured
<1>4. s.action \in {"capture", "enroll", "verify", "identify"}
  BY <1>1, CapturesSilent DEF DeviceType, ImageActions
<1> HIDE DEF c, y, i
<1>5. CASE s.action = "capture"
  <2>1. LET t == StartInterrupt([y EXCEPT !.awaiting_release = TRUE])
        IN  PInv(t) /\ Lawful(s, t, f) /\ Quiet(s, t)
    BY <1>1, <1>5, BareImage
  <2> QED
    BY <1>2, <1>3, <1>5, <2>1
<1>6. CASE s.action = "enroll"
  <2>1. LET t == StartInterrupt([ProcessPrint(v, image) EXCEPT !.awaiting_release = TRUE])
        IN  PInv(t) /\ Lawful(s, t, f) /\ Quiet(s, t)
    BY <1>1, <1>6, EnrollImage
  <2> QED
    BY <1>2, <1>3, <1>6, <2>1
<1>7. CASE s.action \in {"verify", "identify"}
  <2>1. LET t == StartInterrupt([ProcessPrint(v, image) EXCEPT !.awaiting_release = TRUE])
        IN  PInv(t) /\ Lawful(s, t, f) /\ Quiet(s, t)
    BY <1>1, <1>7, MatchImage
  <2> QED
    BY <1>2, <1>3, <1>7, <2>1
<1> QED
  BY <1>4, <1>5, <1>6, <1>7

\* The answer to an image request.
LEMMA ServeCaptureRead ==
  ASSUME NEW s, NEW f, OnDuty(s), ~s.cancelled => Due(s, "captureRead"),
         NEW image \in Images, NEW e, (e = "none" /\ Captures(s)) \/ Blamed(s, e)
  PROVE  LET t == CaptureReadCb(s, e, image)
         IN  PInv(t) /\ Lawful(s, t, f) /\ Quiet(s, t)
<1>1. CASE e = "none" /\ Captures(s)
  BY <1>1, ServeImage
<1>2. CASE Blamed(s, e)
  <2>1. e # "none"
    BY <1>2 DEF Blamed, BusErrors
  <2>2. CaptureReadCb(s, e, image) = FailSessionOrDeactivate(s, e)
    BY <2>1 DEF CaptureReadCb
  <2> QED
    BY <1>2, <2>2, DueFail
<1> QED
  BY <1>1, <1>2

-----------------------------------------------------------------------------
(* A completed transfer, in the phase it is completed in. *)

\* s is d without this transfer.
Received(d, s, kind, tag) ==
    \/ /\ AtRest(s) /\ kind \notin ShakeKinds
       /\ kind # "captureWrite" /\ s.rejects = 0 => Talks(s) = 0
       /\ Faults = {} /\ s.rejects = 0 =>
            tag = "doomed" \/ (kind = "release" /\ s.awaiting_release)
    \/ /\ Sound0(s) /\ Detecting(s)
       /\ kind = "release" /\ tag = "doomed" /\ s.cancelled
    \/ /\ Sound0(s) /\ Shaking(s, 0) /\ kind \in ShakeKinds
       /\ tag = "doomed" <=> s.cancelled
    \/ /\ OnDuty(s) /\ kind \notin ShakeKinds
       /\ OnDuty(d) /\ (~d.cancelled => Attended(d))
       /\ kind # "captureWrite" /\ ~s.cancelled => Due(s, kind)
       /\ tag = "doomed" <=> s.cancelled

LEMMA PendingTalks ==
  ASSUME NEW d \in DeviceType, NEW kind \in Kinds, Pending(d)[kind] > 0
  PROVE  Talks(d) + Writes(d) > 0
<1>1. /\ \A k \in Kinds : Pending(d)[k] \in Nat
      /\ d.wake_timers \in Nat
  BY PendingType
<1>2. /\ Shakes(d) \in Nat /\ Rearms(d) \in Nat /\ Fingers(d) \in Nat /\ Releases(d) \in Nat
      /\ Reads(d) \in Nat /\ Writes(d) \in Nat
  BY CountsType
<1>3. CASE kind \in ShakeKinds
  <2>1. Shakes(d) > 0
    BY <1>1, <1>3 DEF ShakeKinds, Shakes, Kinds
  <2> HIDE DEF Shakes, Rearms, Fingers, Releases, Reads, Writes
  <2> QED
    BY <1>2, <2>1 DEF Talks
<1>4. CASE kind \in RearmKinds
  <2>1. Rearms(d) > 0
    BY <1>1, <1>4 DEF RearmKinds, Rearms, Kinds
  <2> QED
    BY <1>2, <2>1 DEF Talks
<1>5. CASE kind = "finger"
  <2>1. Fingers(d) > 0
    BY <1>5 DEF Fingers
  <2> QED
    BY <1>2, <2>1 DEF Talks
<1>6. CASE kind = "release"
  <2>1. Releases(d) > 0
    BY <1>6 DEF Releases
  <2> QED
    BY <1>2, <2>1 DEF Talks
<1>7. CASE kind = "captureRead"
  <2>1. Reads(d) > 0
    BY <1>7 DEF Reads
  <2> QED
    BY <1>2, <2>1 DEF Talks
<1>8. CASE kind = "captureWrite"
  <2>1. Writes(d) > 0
    BY <1>8 DEF Writes
  <2> QED
    BY <1>2, <2>1 DEF Talks
<1> QED
  BY <1>3, <1>4, <1>5, <1>6, <1>7, <1>8 DEF Kinds, ShakeKinds, RearmKinds

LEMMA ReapedSound ==
  ASSUME NEW d, PInv(d), Settled(d), NEW kind \in Kinds, NEW s, Reaped(d, s, kind)
  PROVE  Sound0(s) /\ d.open /\ d \in DeviceType
<1>1. d \in DeviceType /\ s \in DeviceType /\ ~d.deactivating /\ Alike(d, s)
  BY DEF Settled, Reaped
<1>2. d.open
  <2>1. Talks(d) + Writes(d) > 0
    BY <1>1, PendingTalks DEF Reaped
  <2>2. Talks(d) \in Nat /\ Writes(d) \in Nat
    BY <1>1, CountsType
  <2>3. d.open \in BOOLEAN
    BY <1>1 DEF DeviceType
  <2>4. ~(Talks(d) + Writes(d) = 0)
    BY <2>1, <2>2
  <2> QED
    BY <2>3, <2>4 DEF PInv, Sane
<1>3. Settled(s) /\ s.open
  BY <1>1, <1>2 DEF Settled, Alike, SameData
<1>4. Sane(s)
  <2>1. Tagged(s)
    BY DEF Reaped, PInv, Sane
  <2> QED
    BY <1>1, <1>3, <2>1 DEF Alike, SameData, SameStatus, PInv, Sane
<1>5. Clean(s)
  <2>1. Talks(d) = Talks(s) + In(kind, TalkKinds) /\ Talks(s) \in Nat /\ Talks(d) \in Nat
    BY <1>1, ReapedCounts, CountsType
  <2>2. Talks(d) <= 1 => Talks(s) <= 1
    BY <2>1 DEF In
  <2> QED
    BY <1>1, <2>2 DEF Alike, SameData, SameStatus, PInv, Clean
<1> QED
  BY <1>1, <1>2, <1>3, <1>4, <1>5 DEF Sound0

LEMMA ReapedPhase ==
  ASSUME NEW d, PInv(d), Settled(d), NEW kind \in Kinds, NEW tag \in Tags,
         d.flight[<<kind, tag>>] > 0, NEW s, Reaped(d, s, kind)
  PROVE  Received(d, s, kind, tag)
<1>1. Sound0(s) /\ d.open /\ d \in DeviceType /\ s \in DeviceType
  BY ReapedSound DEF Reaped
<1>2. /\ Shakes(d) = Shakes(s) + In(kind, ShakeKinds)
      /\ Rearms(d) = Rearms(s) + In(kind, RearmKinds)
      /\ Fingers(d) = Fingers(s) + In(kind, {"finger"})
      /\ Releases(d) = Releases(s) + In(kind, {"release"})
      /\ Reads(d) = Reads(s) + In(kind, {"captureRead"})
      /\ Writes(d) = Writes(s) + In(kind, {"captureWrite"})
      /\ Talks(d) = Talks(s) + In(kind, TalkKinds)
  BY <1>1, ReapedCounts
<1>3. /\ Shakes(s) \in Nat /\ Rearms(s) \in Nat /\ Fingers(s) \in Nat
      /\ Releases(s) \in Nat /\ Reads(s) \in Nat /\ Writes(s) \in Nat /\ Talks(s) \in Nat
  BY <1>1, CountsType
<1>4. \A S : In(kind, S) \in {0, 1} /\ (In(kind, S) = 1 <=> kind \in S)
  BY DEF In
<1>5. Alike(d, s)
  BY DEF Reaped
<1>6. d.action # "none" => (tag = "doomed" <=> d.cancelled)
  <2>1. <<kind, tag>> \in Transfers
    BY DEF Transfers
  <2>2. Tagged(d)
    BY DEF PInv, Sane
  <2>3. d.cancelled \in BOOLEAN
    BY <1>1 DEF DeviceType
  <2> QED
    BY <2>1, <2>2, <2>3 DEF Tagged, SubmitTag
<1>7. s.cancelled = d.cancelled /\ s.rejects = d.rejects
      /\ s.awaiting_release = d.awaiting_release /\ s.action = d.action
  BY <1>5 DEF Alike, SameData
<1>8. Running(d) => (tag = "doomed" <=> s.cancelled)
  BY <1>6, <1>7 DEF Running
<1>9. CASE Resting(d)
  <2>1. Shakes(s) = 0 /\ kind \notin ShakeKinds
    <3>1. Shakes(d) = 0
      BY <1>9 DEF Resting
    <3> QED
      BY <3>1, <1>2, <1>3, <1>4
  <2>2. Leftover(s)
    BY <1>7, <1>9 DEF Resting, Leftover, Reaped
  <2>3. Resting(s)
    BY <1>5, <1>9, <2>1, <2>2 DEF Resting, Alike, SameData, SameStatus, Running
  <2>4. kind # "captureWrite" /\ s.rejects = 0 => Talks(s) = 0
    <3>1. SUFFICES ASSUME kind # "captureWrite", s.rejects = 0 PROVE Talks(s) = 0
      OBVIOUS
    <3>2. Talks(d) <= 1
      BY <3>1, <1>7 DEF PInv, Clean
    <3>3. In(kind, TalkKinds) = 1
      BY <3>1 DEF In, TalkKinds
    <3> QED
      BY <3>2, <3>3, <1>2, <1>3
  <2>5. Faults = {} /\ s.rejects = 0 =>
            tag = "doomed" \/ (kind = "release" /\ s.awaiting_release)
    <3>1. <<kind, tag>> \in Transfers /\ <<kind, tag>>[1] = kind /\ <<kind, tag>>[2] = tag
      BY DEF Transfers
    <3> QED
      BY <3>1, <1>7, <1>9 DEF Resting, Leftover
  <2> QED
    BY <1>1, <2>1, <2>3, <2>4, <2>5 DEF AtRest, Sound0, Received
<1>10. CASE Detecting(d)
  <2>1. Shakes(d) + Rearms(d) + Fingers(d) + Reads(d) + Writes(d) = 0
        /\ (d.cancelled \/ Releases(d) = 0) /\ Running(d)
    BY <1>10 DEF Detecting
  <2> DEFINE A == Rearms(s)
             B == Fingers(s)
             C == Reads(s)
             D == Writes(s)
             E == Shakes(s)
             F == Releases(s)
             a == In(kind, RearmKinds)
             b == In(kind, {"finger"})
             c == In(kind, {"captureRead"})
             x == In(kind, {"captureWrite"})
             e == In(kind, ShakeKinds)
             g == In(kind, {"release"})
  <2>2. /\ A \in Nat /\ B \in Nat /\ C \in Nat /\ D \in Nat /\ E \in Nat /\ F \in Nat
        /\ a \in {0, 1} /\ b \in {0, 1} /\ c \in {0, 1} /\ x \in {0, 1} /\ e \in {0, 1}
        /\ g \in {0, 1}
    BY <1>3, <1>4
  <2>3. (E + e) + (A + a) + (B + b) + (C + c) + (D + x) = 0
    BY <2>1, <1>2
  <2>3a. g = 1 => d.cancelled
    <3>1. d.cancelled \/ F + g = 0
      BY <2>1, <1>2
    <3> HIDE DEF F, g
    <3> QED
      BY <3>1, <2>2
  <2> HIDE DEF A, B, C, D, E, F, a, b, c, x, e, g
  <2>4. /\ E = 0 /\ A = 0 /\ B = 0 /\ C = 0 /\ D = 0
        /\ a = 0 /\ b = 0 /\ c = 0 /\ x = 0 /\ e = 0
    BY <2>2, <2>3
  <2>5. kind = "release"
    BY <1>4, <2>4 DEF Kinds, RearmKinds, ShakeKinds, a, b, c, x, e
  <2>6. g = 1
    BY <2>5, <1>4 DEF g
  <2>7. Shakes(s) + Rearms(s) + Fingers(s) + Reads(s) + Writes(s) = 0 /\ s.cancelled
    BY <2>3a, <2>4, <2>6, <1>7, 0 + 0 + 0 + 0 + 0 = 0 DEF A, B, C, D, E
  <2>8. Detecting(s)
    BY <1>5, <1>10, <2>7 DEF Detecting, Alike, SameData, SameStatus, Running
  <2> QED
    BY <1>1, <1>8, <2>1, <2>5, <2>7, <2>8 DEF Received
<1>11. CASE Shaking(d, 1)
  <2>1. Shakes(d) = 1 /\ Others(d) = 0 /\ Running(d)
    BY <1>11 DEF Shaking, Others
  <2>2. Rearms(d) = 0 /\ Fingers(d) = 0 /\ Releases(d) = 0 /\ Reads(d) = 0 /\ Writes(d) = 0
    BY <1>1, <2>1, OthersNone
  <2>3. Rearms(s) = 0 /\ Fingers(s) = 0 /\ Releases(s) = 0 /\ Reads(s) = 0 /\ Writes(s) = 0
        /\ kind \notin RearmKinds /\ kind \notin {"finger"} /\ kind \notin {"release"}
        /\ kind \notin {"captureRead"} /\ kind \notin {"captureWrite"}
    BY <2>2, <1>2, <1>3, <1>4
  <2>4. kind \in ShakeKinds
    BY <2>3 DEF Kinds, ShakeKinds, RearmKinds
  <2>5. Shakes(s) = 0
    BY <2>1, <2>4, <1>2, <1>3, <1>4
  <2>6. Rearms(s) + Fingers(s) + Releases(s) + Reads(s) + Writes(s) = 0
    BY <2>3, 0 + 0 + 0 + 0 + 0 = 0
  <2>7. Shaking(s, 0)
    BY <1>5, <1>11, <2>5, <2>6 DEF Shaking, Alike, SameData, SameStatus, Running, Reaped
  <2> QED
    BY <1>1, <1>8, <2>1, <2>4, <2>7 DEF Received
<1>12. CASE Serving(d)
  <2>1. OnDuty(d)
    <3>1. Sound0(d)
      BY <1>1 DEF PInv, Sound0
    <3> QED
      BY <3>1, <1>12 DEF Serving, OnDuty
  <2>2. OnDuty(s)
    BY <2>1, ReapedDuty
  <2>3. kind \notin ShakeKinds
    <3>1. Shakes(d) = 0
      BY <1>12 DEF Serving, Idles
    <3> QED
      BY <3>1, <1>2, <1>3, <1>4
  <2>4. ~d.cancelled => Attended(d)
    BY <1>12 DEF Serving
  <2>5. kind # "captureWrite" /\ ~s.cancelled => Due(s, kind)
    BY <2>1, <2>4, <1>7, ReapedDue
  <2>6. Running(d)
    BY <1>12 DEF Serving, Agrees
  <2> QED
    BY <1>8, <2>1, <2>2, <2>3, <2>4, <2>5, <2>6 DEF Received
<1> QED
  BY <1>9, <1>10, <1>11, <1>12 DEF PInv, Phase

-----------------------------------------------------------------------------
(* The steps of the main loop. *)

\* What a step must show.  A transfer of a cancelled action may end in a
\* warning.
Fine(d, t, f) ==
    /\ PInv(t) /\ Lawful(d, t, f)
    /\ Quiet(d, t) \/ \E k \in Kinds : d.flight[<<k, "doomed">>] > 0

LEMMA ReapedFine ==
  ASSUME NEW d, NEW s, NEW t, NEW f, NEW kind, Reaped(d, s, kind), PInv(t), Lawful(s, t, f),
         Quiet(s, t) \/ \E k \in Kinds : d.flight[<<k, "doomed">>] > 0
  PROVE  Fine(d, t, f)
<1>1. Alike(d, s)
  BY DEF Reaped
<1>2. Lawful(d, t, f)
  <2>1. Running(s) <=> Running(d)
    BY <1>1 DEF Running, Alike, SameData, SameStatus
  <2>2. Advances(s, t) => Advances(d, t)
    BY <1>1 DEF Advances, Alike, SameData, SameStatus
  <2>3. Outcome(s, t) => Outcome(d, t)
    BY <1>1 DEF Outcome, Alike, SameData, SameStatus
  <2> QED
    BY <1>1, <2>1, <2>2, <2>3 DEF Lawful, Alike, SameData, SameStatus
<1>3. Quiet(s, t) => Quiet(d, t)
  BY <1>1 DEF Quiet, Alike, SameData
<1> QED
  BY <1>2, <1>3 DEF Fine

\* A transfer at rest warns only if it is doomed, or an image gave no print, or
\* the bus has faults.
LEMMA RestFine ==
  ASSUME NEW d, NEW s, NEW t, NEW f, NEW kind \in Kinds, NEW tag, Reaped(d, s, kind), PInv(t),
         Lawful(s, t, f), AtRest(s), d.flight[<<kind, tag>>] > 0,
         Faults = {} /\ s.rejects = 0 => tag = "doomed" \/ t.warnings = s.warnings
  PROVE  Fine(d, t, f)
<1>1. s.rejects \in Nat /\ t.rejects = s.rejects
  BY DEF AtRest, Settled, DeviceType, Resting, Lawful
<1>2. Quiet(s, t) \/ \E k \in Kinds : d.flight[<<k, "doomed">>] > 0
  <2>1. CASE Faults # {} \/ s.rejects # 0
    BY <2>1, <1>1 DEF Quiet
  <2>2. CASE Faults = {} /\ s.rejects = 0 /\ tag = "doomed"
    BY <2>2
  <2>3. CASE t.warnings = s.warnings
    BY <2>3 DEF Quiet
  <2> QED
    BY <2>1, <2>2, <2>3
<1> QED
  BY <1>2, ReapedFine

\* The outcomes of a transfer on an open device.
Answered(tag, e) ==
    IF tag = "doomed" THEN e = "cancelled" ELSE e = "none" \/ e \in Faults

LEMMA FaultsFacts == Faults \subseteq BusErrors /\ Faults \subseteq Errors \ {"none"}
  BY ConstantsAssumption DEF Errors, BusErrors

LEMMA OutcomesAnswer ==
  ASSUME dev.open, NEW tag, NEW e \in CheckedOutcomes(tag)
  PROVE  Answered(tag, e) /\ e \in Errors
  BY FaultsFacts DEF CheckedOutcomes, Outcomes, Answered, Errors

LEMMA PlainOutcomes ==
  ASSUME NEW tag PROVE Outcomes(tag) \subseteq CheckedOutcomes(tag)
  BY DEF CheckedOutcomes

\* While the action runs.
LEMMA AnswerBlames ==
  ASSUME NEW s, NEW tag, NEW e, Answered(tag, e), s.cancelled \in BOOLEAN,
         tag = "doomed" <=> s.cancelled
  PROVE  (e = "none" /\ ~s.cancelled) \/ Blamed(s, e)
  BY FaultsFacts DEF Answered, Blamed

\* Each callback, in each phase.

LEMMA OperationControlFine ==
  ASSUME NEW d, NEW s, NEW f, NEW tag, NEW e \in Errors, Reaped(d, s, "control"),
         Received(d, s, "control", tag), Answered(tag, e)
  PROVE  Fine(d, OperationControlCb(s, e), f)
<1>1. "control" \in ShakeKinds
  BY DEF ShakeKinds
<1>2. Sound0(s) /\ Shaking(s, 0) /\ (tag = "doomed" <=> s.cancelled)
  BY <1>1 DEF Received, ShakeKinds
<1>3. s.cancelled \in BOOLEAN
  BY <1>2 DEF Sound0, Settled, DeviceType
<1>4. (e = "none" /\ ~s.cancelled) \/ Blamed(s, e)
  BY <1>2, <1>3, AnswerBlames
<1>5. LET t == OperationControlCb(s, e)
      IN  PInv(t) /\ Lawful(s, t, f) /\ Quiet(s, t)
  <2>1. e = "none" => ~s.cancelled
    BY <1>4 DEF Blamed, BusErrors
  <2> QED
    BY <1>2, <1>4, <2>1, ShakeOperationControl
<1> QED
  BY <1>5, ReapedFine

LEMMA InitWriteFine ==
  ASSUME NEW d, NEW s, NEW f, NEW tag, NEW e \in Errors, Reaped(d, s, "initWrite"),
         Received(d, s, "initWrite", tag), Answered(tag, e)
  PROVE  Fine(d, InitWriteCb(s, e), f)
<1>1. "initWrite" \in ShakeKinds
  BY DEF ShakeKinds
<1>2. Sound0(s) /\ Shaking(s, 0) /\ (tag = "doomed" <=> s.cancelled)
  BY <1>1 DEF Received, ShakeKinds
<1>3. s.cancelled \in BOOLEAN
  BY <1>2 DEF Sound0, Settled, DeviceType
<1>4. (e = "none" /\ ~s.cancelled) \/ Blamed(s, e)
  BY <1>2, <1>3, AnswerBlames
<1>5. LET t == InitWriteCb(s, e)
      IN  PInv(t) /\ Lawful(s, t, f) /\ Quiet(s, t)
  <2>1. e = "none" => ~s.cancelled
    BY <1>4 DEF Blamed, BusErrors
  <2> QED
    BY <1>2, <1>4, <2>1, ShakeInitWrite
<1> QED
  BY <1>5, ReapedFine

LEMMA InitReadFine ==
  ASSUME NEW d, NEW s, NEW f, NEW tag, NEW e \in Errors, Reaped(d, s, "initRead"),
         Received(d, s, "initRead", tag), Answered(tag, e)
  PROVE  Fine(d, InitReadCb(s, e), f)
<1>1. "initRead" \in ShakeKinds
  BY DEF ShakeKinds
<1>2. Sound0(s) /\ Shaking(s, 0) /\ (tag = "doomed" <=> s.cancelled)
  BY <1>1 DEF Received, ShakeKinds
<1>3. s.cancelled \in BOOLEAN
  BY <1>2 DEF Sound0, Settled, DeviceType
<1>4. (e = "none" /\ ~s.cancelled) \/ Blamed(s, e)
  BY <1>2, <1>3, AnswerBlames
<1>5. LET t == InitReadCb(s, e)
      IN  PInv(t) /\ Lawful(s, t, f) /\ Quiet(s, t)
  <2>1. e = "none" => ~s.cancelled
    BY <1>4 DEF Blamed, BusErrors
  <2> QED
    BY <1>2, <1>4, <2>1, ShakeInitRead
<1> QED
  BY <1>5, ReapedFine

LEMMA RearmWriteFine ==
  ASSUME NEW d, NEW s, NEW f, NEW tag, NEW e \in Errors, Reaped(d, s, "rearmWrite"),
         Received(d, s, "rearmWrite", tag), Answered(tag, e), d.flight[<<"rearmWrite", tag>>] > 0
  PROVE  Fine(d, RearmWriteCb(s, e), f)
<1>1. "rearmWrite" \notin ShakeKinds /\ "rearmWrite" \in Kinds
  BY DEF ShakeKinds, Kinds
<1>2. CASE AtRest(s) /\ (Faults = {} /\ s.rejects = 0 => tag = "doomed")
                      /\ (s.rejects = 0 => Talks(s) = 0)
  <2>1. e = "none" => Faults # {} \/ s.rejects # 0
    BY <1>2 DEF Answered
  <2>2. PInv(RearmWriteCb(s, e)) /\ Lawful(s, RearmWriteCb(s, e), f)
    BY <1>2, <2>1, RestRearmWrite
  <2> QED
    BY <1>1, <1>2, <2>2, RestFine
<1>3. CASE /\ OnDuty(s) /\ OnDuty(d) /\ (~d.cancelled => Attended(d))
           /\ tag = "doomed" <=> s.cancelled
           /\ ~s.cancelled => Due(s, "rearmWrite")
  <2>1. s.cancelled \in BOOLEAN
    BY <1>3 DEF OnDuty, Sound0, Settled, DeviceType
  <2>2. (e = "none" /\ ~s.cancelled) \/ Blamed(s, e)
    BY <1>3, <2>1, AnswerBlames
  <2>4. PInv(RearmWriteCb(s, e)) /\ Lawful(s, RearmWriteCb(s, e), f)
        /\ Quiet(s, RearmWriteCb(s, e))
    BY <1>3, <2>2, ServeRearmWrite
  <2> QED
    BY <2>4, ReapedFine
<1> QED
  BY <1>1, <1>2, <1>3 DEF Received

LEMMA RearmReadFine ==
  ASSUME NEW d, NEW s, NEW f, NEW tag, NEW e \in Errors, Reaped(d, s, "rearmRead"),
         Received(d, s, "rearmRead", tag), Answered(tag, e), d.flight[<<"rearmRead", tag>>] > 0
  PROVE  Fine(d, RearmReadCb(s, e), f)
<1>1. "rearmRead" \notin ShakeKinds /\ "rearmRead" \in Kinds
  BY DEF ShakeKinds, Kinds
<1>2. CASE AtRest(s) /\ (Faults = {} /\ s.rejects = 0 => tag = "doomed")
                      /\ (s.rejects = 0 => Talks(s) = 0)
  <2>1. e = "none" => Faults # {} \/ s.rejects # 0
    BY <1>2 DEF Answered
  <2>2. PInv(RearmReadCb(s, e)) /\ Lawful(s, RearmReadCb(s, e), f)
    BY <1>2, <2>1, RestRearmRead
  <2> QED
    BY <1>1, <1>2, <2>2, RestFine
<1>3. CASE /\ OnDuty(s) /\ OnDuty(d) /\ (~d.cancelled => Attended(d))
           /\ tag = "doomed" <=> s.cancelled
           /\ ~s.cancelled => Due(s, "rearmRead")
  <2>1. s.cancelled \in BOOLEAN
    BY <1>3 DEF OnDuty, Sound0, Settled, DeviceType
  <2>2. (e = "none" /\ ~s.cancelled) \/ Blamed(s, e)
    BY <1>3, <2>1, AnswerBlames
  <2>4. PInv(RearmReadCb(s, e)) /\ Lawful(s, RearmReadCb(s, e), f)
        /\ Quiet(s, RearmReadCb(s, e))
    BY <1>3, <2>2, ServeRearmRead
  <2> QED
    BY <2>4, ReapedFine
<1> QED
  BY <1>1, <1>2, <1>3 DEF Received

LEMMA CaptureWriteFine ==
  ASSUME NEW d, NEW s, NEW f, NEW tag, NEW e \in Errors, Reaped(d, s, "captureWrite"),
         Received(d, s, "captureWrite", tag), Answered(tag, e), d.flight[<<"captureWrite", tag>>] > 0
  PROVE  Fine(d, CaptureWriteCb(s, e), f)
<1>1. "captureWrite" \notin ShakeKinds /\ "captureWrite" \in Kinds
  BY DEF ShakeKinds, Kinds
<1>2. CASE AtRest(s) /\ (Faults = {} /\ s.rejects = 0 => tag = "doomed")
  <2>1. e = "none" => Faults # {} \/ s.rejects # 0
    BY <1>2 DEF Answered
  <2>2. PInv(CaptureWriteCb(s, e)) /\ Lawful(s, CaptureWriteCb(s, e), f)
    BY <1>2, <2>1, RestCaptureWrite
  <2> QED
    BY <1>1, <1>2, <2>2, RestFine
<1>3. CASE /\ OnDuty(s) /\ OnDuty(d) /\ (~d.cancelled => Attended(d))
           /\ tag = "doomed" <=> s.cancelled
  <2>1. s.cancelled \in BOOLEAN
    BY <1>3 DEF OnDuty, Sound0, Settled, DeviceType
  <2>2. (e = "none" /\ ~s.cancelled) \/ Blamed(s, e)
    BY <1>3, <2>1, AnswerBlames
  <2>3. s.state = "capture" /\ (~s.cancelled => Attended(s))
    BY <1>3, ReapedWrite
  <2>4. PInv(CaptureWriteCb(s, e)) /\ Lawful(s, CaptureWriteCb(s, e), f)
        /\ Quiet(s, CaptureWriteCb(s, e))
    BY <1>3, <2>2, <2>3, ServeCaptureWrite
  <2> QED
    BY <2>4, ReapedFine
<1> QED
  BY <1>1, <1>2, <1>3 DEF Received

LEMMA CaptureReadFine ==
  ASSUME NEW d, NEW s, NEW f, NEW tag, NEW e \in Errors, NEW image \in Images, Reaped(d, s, "captureRead"),
         Received(d, s, "captureRead", tag), Answered(tag, e), d.flight[<<"captureRead", tag>>] > 0,
         e = "none" /\ OnDuty(s) => Captures(s)
  PROVE  Fine(d, CaptureReadCb(s, e, image), f)
<1>1. "captureRead" \notin ShakeKinds /\ "captureRead" \in Kinds
  BY DEF ShakeKinds, Kinds
<1>2. CASE AtRest(s) /\ (Faults = {} /\ s.rejects = 0 => tag = "doomed")
                      /\ (s.rejects = 0 => Talks(s) = 0)
  <2>1. e = "none" => Faults # {} \/ s.rejects # 0
    BY <1>2 DEF Answered
  <2>2. PInv(CaptureReadCb(s, e, image)) /\ Lawful(s, CaptureReadCb(s, e, image), f)
    BY <1>2, <2>1, RestCaptureRead
  <2> QED
    BY <1>1, <1>2, <2>2, RestFine
<1>3. CASE /\ OnDuty(s) /\ OnDuty(d) /\ (~d.cancelled => Attended(d))
           /\ tag = "doomed" <=> s.cancelled
           /\ ~s.cancelled => Due(s, "captureRead")
  <2>1. s.cancelled \in BOOLEAN
    BY <1>3 DEF OnDuty, Sound0, Settled, DeviceType
  <2>2. (e = "none" /\ ~s.cancelled) \/ Blamed(s, e)
    BY <1>3, <2>1, AnswerBlames
  <2>4. PInv(CaptureReadCb(s, e, image)) /\ Lawful(s, CaptureReadCb(s, e, image), f)
        /\ Quiet(s, CaptureReadCb(s, e, image))
    BY <1>3, <2>2, ServeCaptureRead
  <2> QED
    BY <2>4, ReapedFine
<1> QED
  BY <1>1, <1>2, <1>3 DEF Received

\* Once an action that has been cancelled, or whose device is being
\* deactivated, waits for its minutiae thread: a read that ends changes nothing.
LEMMA DetectStay ==
  ASSUME NEW s, NEW f, Sound0(s), Detecting(s)
  PROVE  LET t == InterruptErrorCb(s, "cancelled")
         IN  PInv(t) /\ Lawful(s, t, f) /\ Quiet(s, t)
<1>1. InterruptErrorCb(s, "cancelled") = s
  BY DEF InterruptErrorCb, CompleteDeactivation, Sound0, Settled
<1>2. Running(s) /\ ~s.active /\ ~s.returning /\ s.state = "inactive"
  BY DEF Detecting, Running
<1>3. Lawful(s, s, f)
  BY <1>2 DEF Lawful, Advances, Outcome
<1> QED
  BY <1>1, <1>3 DEF PInv, Phase, Sound0, Quiet

LEMMA InterruptFingerFine ==
  ASSUME NEW d, NEW s, NEW f, NEW kind \in {"finger", "release"}, NEW tag,
         Reaped(d, s, kind), Received(d, s, kind, tag), tag # "doomed"
  PROVE  Fine(d, InterruptFingerCb(s), f) /\ Fine(d, StartInterrupt(s), f)
<1>1. kind \notin ShakeKinds /\ kind # "captureWrite"
  BY DEF ShakeKinds
<1>2. CASE AtRest(s) /\ (Faults = {} /\ s.rejects = 0 => s.awaiting_release)
                     /\ (s.rejects = 0 => Talks(s) = 0)
  <2>1. /\ PInv(InterruptFingerCb(s)) /\ Lawful(s, InterruptFingerCb(s), f)
        /\ Quiet(s, InterruptFingerCb(s))
    BY <1>2, RestFinger
  <2>2. /\ PInv(StartInterrupt(s)) /\ Lawful(s, StartInterrupt(s), f)
        /\ Quiet(s, StartInterrupt(s))
    BY <1>2, RestListen DEF Quiet
  <2> QED
    BY <2>1, <2>2, ReapedFine
<1>3. CASE OnDuty(s) /\ (tag = "doomed" <=> s.cancelled) /\ (~s.cancelled => Due(s, kind))
  <2>1. s.cancelled \in BOOLEAN
    BY <1>3 DEF OnDuty, Sound0, Settled, DeviceType
  <2>2. ~s.cancelled /\ Due(s, kind)
    BY <1>3, <2>1
  <2>3. /\ PInv(InterruptFingerCb(s)) /\ Lawful(s, InterruptFingerCb(s), f)
        /\ Quiet(s, InterruptFingerCb(s))
    BY <1>3, <2>2, ServeFinger
  <2>4. /\ PInv(StartInterrupt(s)) /\ Lawful(s, StartInterrupt(s), f)
        /\ Quiet(s, StartInterrupt(s))
    BY <1>3, <2>2, ServeListen
  <2> QED
    BY <2>3, <2>4, ReapedFine
<1> QED
  BY <1>1, <1>2, <1>3 DEF Received

LEMMA ReleaseTimedOutFine ==
  ASSUME NEW d, NEW s, NEW f, NEW tag, ~f, Reaped(d, s, "release"),
         Received(d, s, "release", tag), tag # "doomed"
  PROVE  Fine(d, InterruptErrorCb(s, "timedOut"), f)
<1>1. "release" \notin ShakeKinds /\ "timedOut" \in Errors \ {"none"}
  BY DEF ShakeKinds, Errors, BusErrors
<1>2. CASE AtRest(s) /\ (Faults = {} /\ s.rejects = 0 => s.awaiting_release)
                     /\ (s.rejects = 0 => Talks(s) = 0)
  <2> DEFINE t == InterruptErrorCb(s, "timedOut")
  <2>1. PInv(t) /\ Lawful(s, t, f) /\ (s.awaiting_release => t.warnings = s.warnings)
    BY <1>1, <1>2, RestInterruptError
  <2>2. s.rejects \in Nat /\ t.rejects = s.rejects
    BY <1>2, <2>1 DEF AtRest, Settled, DeviceType, Resting, Lawful
  <2> HIDE DEF t
  <2>3. Quiet(s, t)
    BY <1>2, <2>1, <2>2 DEF Quiet
  <2> QED
    BY <2>1, <2>3, ReapedFine DEF t
<1>3. CASE OnDuty(s) /\ (tag = "doomed" <=> s.cancelled) /\ (~s.cancelled => Due(s, "release"))
  <2>1. s.cancelled \in BOOLEAN
    BY <1>3 DEF OnDuty, Sound0, Settled, DeviceType
  <2>2. LET t == InterruptErrorCb(s, "timedOut")
        IN  PInv(t) /\ Lawful(s, t, f) /\ Quiet(s, t)
    BY <1>3, <2>1, ServeQuiet
  <2> QED
    BY <2>2, ReapedFine
<1> QED
  BY <1>1, <1>2, <1>3 DEF Received

LEMMA InterruptErrorFine ==
  ASSUME NEW d, NEW s, NEW f, NEW kind \in {"finger", "release"}, NEW tag,
         NEW e \in Errors \ {"none", "timedOut"}, Reaped(d, s, kind),
         Received(d, s, kind, tag), Answered(tag, e), d.flight[<<kind, tag>>] > 0
  PROVE  Fine(d, InterruptErrorCb(s, e), f)
<1>1. kind \notin ShakeKinds /\ kind # "captureWrite" /\ kind \in Kinds
  BY DEF ShakeKinds, Kinds
<1>2. CASE AtRest(s) /\ (s.rejects = 0 => Talks(s) = 0)
  <2>1. PInv(InterruptErrorCb(s, e)) /\ Lawful(s, InterruptErrorCb(s, e), f)
    BY <1>2, RestInterruptError
  <2>2. Faults = {} => tag = "doomed"
    BY DEF Answered
  <2> QED
    BY <1>1, <1>2, <2>1, <2>2, RestFine
<1>3. CASE Sound0(s) /\ Detecting(s) /\ tag = "doomed"
  <2>1. e = "cancelled"
    BY <1>3 DEF Answered
  <2> QED
    BY <1>3, <2>1, DetectStay, ReapedFine
<1>4. CASE OnDuty(s) /\ (tag = "doomed" <=> s.cancelled) /\ (~s.cancelled => Due(s, kind))
  <2>1. s.cancelled \in BOOLEAN
    BY <1>4 DEF OnDuty, Sound0, Settled, DeviceType
  <2>2. Blamed(s, e)
    BY <1>4, <2>1, AnswerBlames
  <2>3. LET t == InterruptErrorCb(s, e)
        IN  PInv(t) /\ Lawful(s, t, f) /\ Quiet(s, t)
    BY <1>4, <2>2, ServeInterruptError
  <2> QED
    BY <2>3, ReapedFine
<1> QED
  BY <1>1, <1>2, <1>3, <1>4 DEF Received

LEMMA Reaping ==
  ASSUME IInv, PInv(dev), NEW kind \in Kinds, NEW tag \in InFlight(kind)
  PROVE  LET s == Reap(dev, kind, tag)
         IN  /\ Reaped(dev, s, kind) /\ Received(dev, s, kind, tag)
             /\ dev.flight[<<kind, tag>>] > 0 /\ dev.open
<1>1. tag \in Tags /\ dev.flight[<<kind, tag>>] > 0
  BY DEF InFlight
<1>2. Settled(dev) /\ dev \in DeviceType
  BY InvSettled DEF IInv, Settled
<1>3. Reaped(dev, Reap(dev, kind, tag), kind)
  BY <1>1, <1>2, ReapReaped
<1> QED
  BY <1>1, <1>2, <1>3, ReapedPhase, ReapedSound

LEMMA CountIsPending == \A k \in Kinds : Count(k) = Pending(dev)[k]
  BY DEF Count, Pending

\* The image of an enrollment, a verification or a capture is read once its
\* request is written, under a touch that has not been counted.
LEMMA ReadsImage ==
  ASSUME IInv, NEW s, NEW tag, Reaped(dev, s, "captureRead"),
         Received(dev, s, "captureRead", tag), tag # "doomed",
         Count("captureWrite") < Count("captureRead"), OnDuty(s)
  PROVE  Captures(s)
<1>1. "captureRead" \in Kinds /\ "captureRead" \notin ShakeKinds
  BY DEF Kinds, ShakeKinds
<1>2. s.state \in ServingStates /\ s.active
  BY DEF OnDuty, Agrees
<1>3. ~AtRest(s) /\ ~Detecting(s)
  BY <1>2 DEF AtRest, Resting, Detecting
<1>4. /\ OnDuty(dev) /\ (~dev.cancelled => Attended(dev))
      /\ ~s.cancelled => Due(s, "captureRead")
      /\ tag = "doomed" <=> s.cancelled
  BY <1>1, <1>3 DEF Received
<1>5. s.cancelled \in BOOLEAN /\ Alike(dev, s) /\ dev \in DeviceType /\ s \in DeviceType
  BY <1>4 DEF OnDuty, Sound0, Settled, DeviceType, Reaped
<1>6. ~s.cancelled /\ Due(s, "captureRead") /\ Attended(dev)
  BY <1>4, <1>5 DEF Alike, SameData
<1>7. s.state = "capture" /\ dev.state = "capture"
  BY <1>2, <1>5, <1>6 DEF Due, DueOn, RearmKinds, ServingStates, Alike, SameStatus
<1>8. ~s.credited
  BY <1>5, <1>7 DEF IInv, Inv, Alike, SameData
<1>9. Writes(s) = 0
  <2>1. Reads(dev) = 1
    BY <1>6, <1>7 DEF Attended
  <2>2. Writes(dev) < Reads(dev)
    BY CountIsPending DEF Kinds, Reads, Writes
  <2>3. Writes(dev) \in Nat /\ Writes(s) \in Nat
    BY <1>5, CountsType
  <2>4. Writes(dev) = Writes(s) + In("captureRead", {"captureWrite"})
    BY <1>1, <1>5, ReapedCounts
  <2>5. In("captureRead", {"captureWrite"}) = 0
    BY DEF In
  <2> QED
    BY <2>1, <2>2, <2>3, <2>4, <2>5
<1> QED
  BY <1>6, <1>7, <1>8, <1>9 DEF Captures

LEMMA TransferFine ==
  ASSUME IInv, PInv(dev),
         \/ OperationControl \/ InitWrite \/ InitRead
         \/ RearmWrite \/ RearmRead \/ CaptureWrite \/ CaptureRead
  PROVE  Fine(dev, dev', finger)
<1>1. CASE OperationControl
  <2>1. PICK tag \in InFlight("control") : \E e \in CheckedOutcomes(tag) :
           dev' = OperationControlCb(Reap(dev, "control", tag), e)
    BY <1>1 DEF OperationControl
  <2>2. PICK e \in CheckedOutcomes(tag) : dev' = OperationControlCb(Reap(dev, "control", tag), e)
    BY <2>1, PlainOutcomes
  <2>3. LET s == Reap(dev, "control", tag)
        IN  /\ Reaped(dev, s, "control") /\ Received(dev, s, "control", tag)
            /\ dev.flight[<<"control", tag>>] > 0 /\ dev.open
    BY Reaping DEF Kinds
  <2>4. e \in Errors /\ Answered(tag, e)
    BY <2>3, OutcomesAnswer
  <2> QED
    BY <2>2, <2>3, <2>4, OperationControlFine
<1>2. CASE InitWrite
  <2>1. PICK tag \in InFlight("initWrite") : \E e \in Outcomes(tag) :
           dev' = InitWriteCb(Reap(dev, "initWrite", tag), e)
    BY <1>2 DEF InitWrite
  <2>2. PICK e \in CheckedOutcomes(tag) : dev' = InitWriteCb(Reap(dev, "initWrite", tag), e)
    BY <2>1, PlainOutcomes
  <2>3. LET s == Reap(dev, "initWrite", tag)
        IN  /\ Reaped(dev, s, "initWrite") /\ Received(dev, s, "initWrite", tag)
            /\ dev.flight[<<"initWrite", tag>>] > 0 /\ dev.open
    BY Reaping DEF Kinds
  <2>4. e \in Errors /\ Answered(tag, e)
    BY <2>3, OutcomesAnswer
  <2> QED
    BY <2>2, <2>3, <2>4, InitWriteFine
<1>3. CASE InitRead
  <2>1. PICK tag \in InFlight("initRead") : \E e \in Outcomes(tag) :
           dev' = InitReadCb(Reap(dev, "initRead", tag), e)
    BY <1>3 DEF InitRead
  <2>2. PICK e \in CheckedOutcomes(tag) : dev' = InitReadCb(Reap(dev, "initRead", tag), e)
    BY <2>1, PlainOutcomes
  <2>3. LET s == Reap(dev, "initRead", tag)
        IN  /\ Reaped(dev, s, "initRead") /\ Received(dev, s, "initRead", tag)
            /\ dev.flight[<<"initRead", tag>>] > 0 /\ dev.open
    BY Reaping DEF Kinds
  <2>4. e \in Errors /\ Answered(tag, e)
    BY <2>3, OutcomesAnswer
  <2> QED
    BY <2>2, <2>3, <2>4, InitReadFine
<1>4. CASE RearmWrite
  <2>1. PICK tag \in InFlight("rearmWrite") : \E e \in Outcomes(tag) :
           dev' = RearmWriteCb(Reap(dev, "rearmWrite", tag), e)
    BY <1>4 DEF RearmWrite
  <2>2. PICK e \in CheckedOutcomes(tag) : dev' = RearmWriteCb(Reap(dev, "rearmWrite", tag), e)
    BY <2>1, PlainOutcomes
  <2>3. LET s == Reap(dev, "rearmWrite", tag)
        IN  /\ Reaped(dev, s, "rearmWrite") /\ Received(dev, s, "rearmWrite", tag)
            /\ dev.flight[<<"rearmWrite", tag>>] > 0 /\ dev.open
    BY Reaping DEF Kinds
  <2>4. e \in Errors /\ Answered(tag, e)
    BY <2>3, OutcomesAnswer
  <2> QED
    BY <2>2, <2>3, <2>4, RearmWriteFine
<1>5. CASE RearmRead
  <2>1. PICK tag \in InFlight("rearmRead") : \E e \in Outcomes(tag) :
           dev' = RearmReadCb(Reap(dev, "rearmRead", tag), e)
    BY <1>5 DEF RearmRead
  <2>2. PICK e \in CheckedOutcomes(tag) : dev' = RearmReadCb(Reap(dev, "rearmRead", tag), e)
    BY <2>1, PlainOutcomes
  <2>3. LET s == Reap(dev, "rearmRead", tag)
        IN  /\ Reaped(dev, s, "rearmRead") /\ Received(dev, s, "rearmRead", tag)
            /\ dev.flight[<<"rearmRead", tag>>] > 0 /\ dev.open
    BY Reaping DEF Kinds
  <2>4. e \in Errors /\ Answered(tag, e)
    BY <2>3, OutcomesAnswer
  <2> QED
    BY <2>2, <2>3, <2>4, RearmReadFine
<1>6. CASE CaptureWrite
  <2>1. PICK tag \in InFlight("captureWrite") : \E e \in Outcomes(tag) :
           dev' = CaptureWriteCb(Reap(dev, "captureWrite", tag), e)
    BY <1>6 DEF CaptureWrite
  <2>2. PICK e \in CheckedOutcomes(tag) : dev' = CaptureWriteCb(Reap(dev, "captureWrite", tag), e)
    BY <2>1, PlainOutcomes
  <2>3. LET s == Reap(dev, "captureWrite", tag)
        IN  /\ Reaped(dev, s, "captureWrite") /\ Received(dev, s, "captureWrite", tag)
            /\ dev.flight[<<"captureWrite", tag>>] > 0 /\ dev.open
    BY Reaping DEF Kinds
  <2>4. e \in Errors /\ Answered(tag, e)
    BY <2>3, OutcomesAnswer
  <2> QED
    BY <2>2, <2>3, <2>4, CaptureWriteFine
<1>7. CASE CaptureRead
  <2>0. PICK tag \in InFlight("captureRead") :
           \E e \in CheckedOutcomes(tag) : \E image \in Images :
              /\ e = "none" => Count("captureWrite") < Count("captureRead")
              /\ dev' = CaptureReadCb(Reap(dev, "captureRead", tag), e, image)
    BY <1>7, AvailableImagesType DEF CaptureRead
  <2>1. PICK e \in CheckedOutcomes(tag), image \in Images :
           /\ e = "none" => Count("captureWrite") < Count("captureRead")
           /\ dev' = CaptureReadCb(Reap(dev, "captureRead", tag), e, image)
    BY <2>0
  <2> DEFINE s == Reap(dev, "captureRead", tag)
  <2>2. /\ Reaped(dev, s, "captureRead") /\ Received(dev, s, "captureRead", tag)
        /\ dev.flight[<<"captureRead", tag>>] > 0 /\ dev.open
    BY Reaping DEF Kinds
  <2> HIDE DEF s
  <2>3. e \in Errors /\ Answered(tag, e)
    BY <2>2, OutcomesAnswer
  <2>4. e = "none" => tag # "doomed"
    BY <2>3 DEF Answered
  <2>5. e = "none" /\ OnDuty(s) => Captures(s)
    BY <2>1, <2>2, <2>4, ReadsImage
  <2> QED
    BY <2>1, <2>2, <2>3, <2>5, CaptureReadFine DEF s
<1> QED
  BY <1>1, <1>2, <1>3, <1>4, <1>5, <1>6, <1>7

LEMMA InterruptFine ==
  ASSUME IInv, PInv(dev), Interrupt
  PROVE  Fine(dev, dev', finger)
<1>0. \A kind \in InterruptKinds : kind \in Kinds /\ kind \in {"finger", "release"}
  BY DEF InterruptKinds, Kinds
<1>1. CASE InterruptFinger \/ InterruptOther
  <2>0. PICK kind \in InterruptKinds : \E tag \in InFlight(kind) \ {"doomed"} :
           \/ dev' = InterruptFingerCb(Reap(dev, kind, tag))
           \/ dev' = StartInterrupt(Reap(dev, kind, tag))
    BY <1>1 DEF InterruptFinger, InterruptOther
  <2>1. PICK tag \in InFlight(kind) \ {"doomed"} :
           \/ dev' = InterruptFingerCb(Reap(dev, kind, tag))
           \/ dev' = StartInterrupt(Reap(dev, kind, tag))
    BY <2>0
  <2>2. LET s == Reap(dev, kind, tag)
        IN  Reaped(dev, s, kind) /\ Received(dev, s, kind, tag)
    BY <1>0, Reaping
  <2> QED
    BY <1>0, <2>1, <2>2, InterruptFingerFine
<1>2. CASE ReleaseTimedOut
  <2>1. PICK tag \in InFlight("release") \ {"doomed"} :
           dev' = InterruptErrorCb(Reap(dev, "release", tag), "timedOut")
    BY <1>2 DEF ReleaseTimedOut
  <2>2. LET s == Reap(dev, "release", tag)
        IN  Reaped(dev, s, "release") /\ Received(dev, s, "release", tag)
    BY Reaping DEF Kinds
  <2>3. ~finger
    BY <1>2 DEF ReleaseTimedOut
  <2> QED
    BY <2>1, <2>2, <2>3, ReleaseTimedOutFine
<1>3. CASE InterruptCancelled
  <2>1. PICK kind \in InterruptKinds :
           /\ "doomed" \in InFlight(kind)
           /\ dev' = InterruptErrorCb(Reap(dev, kind, "doomed"), "cancelled")
    BY <1>3 DEF InterruptCancelled
  <2>2. LET s == Reap(dev, kind, "doomed")
        IN  /\ Reaped(dev, s, kind) /\ Received(dev, s, kind, "doomed")
            /\ dev.flight[<<kind, "doomed">>] > 0
    BY <1>0, <2>1, Reaping
  <2>3. "cancelled" \in Errors \ {"none", "timedOut"} /\ Answered("doomed", "cancelled")
    BY DEF Errors, Answered
  <2> QED
    BY <1>0, <2>1, <2>2, <2>3, InterruptErrorFine
<1>4. CASE InterruptFault
  <2>0. PICK kind \in InterruptKinds : \E tag \in InFlight(kind) :
           \E e \in Outcomes(tag) \ {"none", "timedOut", "cancelled"} :
              dev' = InterruptErrorCb(Reap(dev, kind, tag), e)
    BY <1>4 DEF InterruptFault
  <2>0a. PICK tag \in InFlight(kind) :
           \E e \in Outcomes(tag) \ {"none", "timedOut", "cancelled"} :
              dev' = InterruptErrorCb(Reap(dev, kind, tag), e)
    BY <2>0
  <2>1. PICK e \in Outcomes(tag) \ {"none", "timedOut", "cancelled"} :
           dev' = InterruptErrorCb(Reap(dev, kind, tag), e)
    BY <2>0a
  <2>2. LET s == Reap(dev, kind, tag)
        IN  /\ Reaped(dev, s, kind) /\ Received(dev, s, kind, tag)
            /\ dev.flight[<<kind, tag>>] > 0 /\ dev.open
    BY <1>0, Reaping
  <2>3. e \in Errors \ {"none", "timedOut"} /\ Answered(tag, e)
    BY <2>2, PlainOutcomes, OutcomesAnswer
  <2> QED
    BY <1>0, <2>1, <2>2, <2>3, InterruptErrorFine
<1> QED
  BY <1>1, <1>2, <1>3, <1>4 DEF Interrupt

-----------------------------------------------------------------------------
(* The timer, the minutiae thread and the idle source. *)

\* What a step owes depends on these fields of the record it starts from.
SameOwing(s, w) ==
    /\ w.open = s.open /\ w.action = s.action /\ w.cancelled = s.cancelled
    /\ w.returning = s.returning /\ w.result = s.result /\ w.state = s.state
    /\ w.active = s.active /\ w.enroll_stage = s.enroll_stage /\ w.credited = s.credited
    /\ w.report = s.report /\ w.rejects = s.rejects /\ w.controls = s.controls

LEMMA LawfulFrom ==
  ASSUME NEW s, NEW w, NEW t, NEW f, SameOwing(s, w), Lawful(w, t, f)
  PROVE  Lawful(s, t, f)
<1>1. Running(s) <=> Running(w)
  BY DEF Running, SameOwing
<1>2. Advances(w, t) => Advances(s, t)
  BY DEF Advances, SameOwing
<1>3. Outcome(w, t) => Outcome(s, t)
  BY DEF Outcome, SameOwing
<1> QED
  BY <1>1, <1>2, <1>3 DEF Lawful, SameOwing

LEMMA LawfulStay ==
  ASSUME NEW s, NEW t, NEW f, Running(s), SameOwing(s, t)
  PROVE  Lawful(s, t, f)
  BY DEF Lawful, SameOwing, Running, Advances, Outcome

LEMMA RunningSound ==
  ASSUME NEW d, PInv(d), Settled(d), Running(d)
  PROVE  Sound0(d)
<1>1. d.open \in BOOLEAN
  BY DEF Settled, DeviceType
<1> QED
  BY <1>1 DEF PInv, Sane, Running, Sound0

LEMMA WakeRetryTimeoutFine ==
  ASSUME IInv, PInv(dev), WakeRetryTimeout
  PROVE  Fine(dev, dev', finger)
<1>1. Settled(dev) /\ dev \in DeviceType
  BY InvSettled DEF IInv, Settled
<1>2. dev.wake_timers > 0 /\ dev' = WakeRetryTimeoutCb(dev)
  BY DEF WakeRetryTimeout
<1>3. Shakes(dev) # 0
  <2>1. /\ \A k \in Kinds : Pending(dev)[k] \in Nat
        /\ dev.wake_timers \in Nat
    BY <1>1, PendingType
  <2> QED
    BY <1>2, <2>1 DEF Shakes, Kinds
<1>4. Shaking(dev, 1)
  <2>1. ~Resting(dev) /\ ~Serving(dev)
    BY <1>3 DEF Resting, Serving, Idles
  <2>2. ~Detecting(dev)
    <3>1. /\ Shakes(dev) \in Nat /\ Rearms(dev) \in Nat /\ Fingers(dev) \in Nat
          /\ Reads(dev) \in Nat /\ Writes(dev) \in Nat
      BY <1>1, CountsType
    <3> HIDE DEF Shakes, Rearms, Fingers, Reads, Writes
    <3>2. Shakes(dev) + Rearms(dev) + Fingers(dev) + Reads(dev) + Writes(dev) # 0
      BY <1>3, <3>1
    <3> QED
      BY <3>2 DEF Detecting
  <2> QED
    BY <2>1, <2>2 DEF PInv, Phase
<1>5. Sound0(dev)
  BY <1>1, <1>4, RunningSound DEF Shaking
<1> QED
  BY <1>2, <1>4, <1>5, ShakeTimer DEF Fine

LEMMA CancelInIdleFine ==
  ASSUME IInv, PInv(dev), CancelInIdle
  PROVE  Fine(dev, dev', finger)
<1> DEFINE v == [dev EXCEPT !.cancel_idle = FALSE]
           t == Deactivate(v, TRUE)
<1>1. dev.cancel_idle /\ dev' = t /\ dev.cancelled /\ ~dev.returning
  BY DEF CancelInIdle, IInv, Inv
<1>2. Settled(dev) /\ dev \in DeviceType
  BY InvSettled DEF IInv, Settled
<1>3. Running(dev)
  BY <1>1 DEF PInv, Sane, Running
<1>4. Sound0(dev)
  BY <1>2, <1>3, RunningSound
<1>5. v \in DeviceType
  BY <1>2 DEF DeviceType
<1>6. /\ SameData(dev, v) /\ SameBus(dev, v) /\ SameOwing(dev, v)
      /\ v.state = dev.state /\ v.active = dev.active /\ v.returning = dev.returning
      /\ v.result = dev.result /\ v.action_error = dev.action_error
      /\ ~v.cancel_idle /\ v.warnings = dev.warnings
  BY <1>2 DEF DeviceType, SameData, SameBus, SameOwing
<1> HIDE DEF v
<1>7. Settled(v) /\ Running(v) /\ v.cancelled /\ v.open /\ v.action # "none"
  BY <1>1, <1>3, <1>4, <1>5, <1>6 DEF SameData, Settled, Running, Sound0
<1>8. /\ Shakes(v) = Shakes(dev) /\ Rearms(v) = Rearms(dev) /\ Fingers(v) = Fingers(dev)
      /\ Releases(v) = Releases(dev) /\ Reads(v) = Reads(dev) /\ Writes(v) = Writes(dev)
      /\ Talks(v) = Talks(dev)
  BY <1>6, SameBusCounts
<1>9. Sane(v)
  <2>1. Tagged(v)
    BY <1>6, SameBusTagged DEF SameData, PInv, Sane
  <2> QED
    BY <1>6, <1>7, <2>1 DEF SameData, PInv, Sane
<1>10. Clean(v)
  BY <1>6, <1>8 DEF Clean, PInv, SameData
<1>11. Quiet(dev, t)
  BY <1>1 DEF Quiet
<1>12. CASE ~dev.active
  <2>1. t = v
    BY <1>6, <1>12 DEF Deactivate
  <2>2. Detecting(dev) \/ Shaking(dev, 1)
    BY <1>1, <1>12 DEF PInv, Phase, Serving, Agrees, Resting
  <2>3. Detecting(dev) => Detecting(v)
    BY <1>6, <1>7, <1>8 DEF Detecting, SameData
  <2>4. Shaking(dev, 1) => Shaking(v, 1)
    BY <1>6, <1>7, <1>8 DEF Shaking, SameData, SameBus
  <2>5. PInv(v)
    BY <1>9, <1>10, <2>2, <2>3, <2>4 DEF PInv, Phase
  <2>6. Lawful(dev, v, finger)
    BY <1>3, <1>6, LawfulStay
  <2> QED
    BY <1>1, <1>11, <2>1, <2>5, <2>6 DEF Fine
<1>13. CASE dev.active
  <2>1. Serving(dev)
    BY <1>13 DEF PInv, Phase, Detecting, Shaking, Resting
  <2>2. OnDuty(dev)
    BY <1>4, <2>1 DEF Serving, OnDuty
  <2>3. Stoppable(dev) /\ dev.state \notin {"inactive", "deactivating", "activating"}
    BY <1>1, <2>2, DutyStoppable
  <2>4. Stoppable(v)
    BY <1>6, <1>7, <1>8, <1>9, <1>10, <2>3 DEF Stoppable, SameData
  <2>5. Stopped(v, t, v.action_error)
    BY <1>6, <1>7, <1>13, <2>3, DeactivateStops
  <2>6. Explained(v, v.action_error)
    <3>1. v.action_error \in Errors
      BY <1>5 DEF DeviceType
    <3> QED
      BY <3>1, <1>7, <1>9, <1>10 DEF Explained, Sane, Clean
  <2>7. Leftover(v)
    BY <1>7, <1>9, CancelledLeftover
  <2>8. PInv(t) /\ Lawful(v, t, finger)
    BY <1>6, <2>3, <2>4, <2>5, <2>6, <2>7, StoppedRests
  <2>9. Lawful(dev, t, finger)
    BY <1>6, <2>8, LawfulFrom
  <2> QED
    BY <1>1, <1>11, <2>8, <2>9 DEF Fine
<1> QED
  BY <1>2, <1>12, <1>13 DEF DeviceType

\* The minutiae thread of a capture action has ended: s is left.
Scanned(d, s) ==
    /\ s \in DeviceType /\ ~s.minutiae_scan_active /\ SameBus(d, s) /\ SameOwing(d, s)
    /\ s.deactivating = d.deactivating /\ s.init_stage = d.init_stage
    /\ s.exchanges = d.exchanges /\ s.capture_count = d.capture_count
    /\ s.awaiting_release = d.awaiting_release /\ s.cancel_idle = d.cancel_idle
    /\ s.enroll_await_on_pending = d.enroll_await_on_pending
    /\ s.action_error = d.action_error /\ s.warnings = d.warnings

LEMMA ScannedSame ==
  ASSUME NEW d, PInv(d), Settled(d), Running(d), NEW s, Scanned(d, s), d.action = "capture"
  PROVE  /\ Sane(s) /\ Clean(s) /\ Settled(s) /\ Running(s) /\ s.open /\ s.action = "capture"
         /\ s.cancelled = d.cancelled /\ s.state = d.state /\ s.active = d.active
         /\ Shakes(s) = Shakes(d) /\ Rearms(s) = Rearms(d) /\ Fingers(s) = Fingers(d)
         /\ Releases(s) = Releases(d) /\ Reads(s) = Reads(d) /\ Writes(s) = Writes(d)
         /\ Talks(s) = Talks(d)
<1>1. SameBus(d, s) /\ SameOwing(d, s) /\ s \in DeviceType
  BY DEF Scanned
<1>2. Sound0(d)
  BY RunningSound
<1>3. /\ Shakes(s) = Shakes(d) /\ Rearms(s) = Rearms(d) /\ Fingers(s) = Fingers(d)
      /\ Releases(s) = Releases(d) /\ Reads(s) = Reads(d) /\ Writes(s) = Writes(d)
      /\ Talks(s) = Talks(d)
  BY <1>1, SameBusCounts
<1>4. Tagged(s)
  BY <1>1, SameBusTagged DEF SameOwing, PInv, Sane
<1>5. Sane(s)
  BY <1>2, <1>4 DEF Scanned, SameOwing, Sane, Sound0
<1>6. Clean(s)
  BY <1>2, <1>3 DEF Scanned, SameOwing, Clean, Sound0
<1>7. Settled(s) /\ Running(s) /\ s.open
  BY <1>1, <1>2 DEF Settled, Running, Scanned, SameOwing, Sound0
<1> QED
  BY <1>1, <1>3, <1>5, <1>6, <1>7 DEF SameOwing

\* Of an inactive device: the action is over.
LEMMA ScannedEnds ==
  ASSUME NEW d, PInv(d), Settled(d), Detecting(d), NEW s, Scanned(d, s), NEW f,
         NEW e \in {"none", "retry", "cancelled"}, e = "cancelled" => d.cancelled
  PROVE  LET t == MaybeCompleteAction(s, e)
         IN  /\ PInv(t) /\ Lawful(d, t, f) /\ t.warnings = d.warnings
             /\ ~t.active
<1> DEFINE t == MaybeCompleteAction(s, e)
           err == FirstError(s, e)
<1>1. Running(d) /\ d.action = "capture" /\ d.state = "inactive" /\ ~d.active
  BY DEF Detecting
<1>2. /\ Sane(s) /\ Clean(s) /\ Settled(s) /\ Running(s) /\ s.open /\ s.action = "capture"
      /\ s.cancelled = d.cancelled /\ s.state = "inactive" /\ ~s.active
      /\ Shakes(s) = Shakes(d) /\ Rearms(s) = Rearms(d) /\ Fingers(s) = Fingers(d)
      /\ Releases(s) = Releases(d) /\ Reads(s) = Reads(d) /\ Writes(s) = Writes(d)
      /\ Talks(s) = Talks(d)
  BY <1>1, ScannedSame
<1>3. /\ s \in DeviceType /\ ~s.minutiae_scan_active /\ SameOwing(d, s)
      /\ s.warnings = d.warnings /\ s.action_error \in Errors
  BY DEF Scanned, DeviceType
<1>4. e \in Errors /\ e \notin BusErrors
  BY DEF Errors, BusErrors
<1>5. Ended(s, t, ActionResult(s, err)) /\ t.warnings = s.warnings
  BY <1>2, <1>3, <1>4, MaybeCompleteEnds
<1>6. Explained(s, err)
  <2>1. err = e \/ err = s.action_error
    BY DEF FirstError
  <2>2. e # "wrongType"
    OBVIOUS
  <2> HIDE DEF err
  <2> QED
    BY <1>2, <1>3, <1>4, <2>1, <2>2 DEF Explained, Sane, Clean
<1>7. Shakes(s) = 0
  <2> DEFINE A == Shakes(d)
             B == Rearms(d)
             C == Fingers(d)
             D == Reads(d)
             E == Writes(d)
  <2>1. A \in Nat /\ B \in Nat /\ C \in Nat /\ D \in Nat /\ E \in Nat
    BY CountsType DEF Settled
  <2>2. A + B + C + D + E = 0
    BY DEF Detecting
  <2> HIDE DEF A, B, C, D, E
  <2>3. A = 0
    BY <2>1, <2>2
  <2> QED
    BY <1>2, <2>3 DEF A
<1>8. Stoppable(s)
  BY <1>2, <1>3, <1>7 DEF Stoppable
<1>9. Leftover(s)
  <2>1. CASE s.cancelled
    BY <1>2, <2>1, CancelledLeftover
  <2>2. CASE ~s.cancelled
    <3>1. Releases(s) = 0
      BY <1>2, <2>2 DEF Detecting
    <3>2. /\ Shakes(s) \in Nat /\ Rearms(s) \in Nat /\ Fingers(s) \in Nat
          /\ Reads(s) \in Nat /\ Writes(s) \in Nat
      BY <1>3, CountsType
    <3>3. Shakes(s) + Rearms(s) + Fingers(s) + Reads(s) + Writes(s) = 0
      BY <1>2 DEF Detecting
    <3>4. Rearms(s) + Fingers(s) + Reads(s) + Writes(s) = 0
      <4> HIDE DEF Shakes, Rearms, Fingers, Reads, Writes
      <4> QED
        BY <1>7, <3>2, <3>3
    <3>5. Releases(s) \in Nat
      BY <1>3, CountsType
    <3>6. \A x \in Transfers : ~(s.flight[x] > 0)
      BY <1>3, <1>7, <3>1, <3>4, OnlyReleases
    <3> QED
      BY <3>6 DEF Leftover
  <2> QED
    BY <1>2, <2>1, <2>2, <1>3 DEF DeviceType
<1>10. PInv(t) /\ Resting(t) /\ Lawful(s, t, f)
  <2>1. s.state # "activating"
    BY <1>2
  <2> QED
    BY <1>3, <1>5, <1>6, <1>8, <1>9, <2>1, EndedRests2
<1> QED
  BY <1>3, <1>5, <1>10, LawfulFrom DEF Resting

\* Of an active device: the outcome is kept until the finger leaves.
LEMMA ScannedGoesOn ==
  ASSUME NEW d, PInv(d), Settled(d), Serving(d), d.action = "capture", d.state = "awaitFingerOff",
         NEW s, Scanned(d, s), NEW f, NEW e \in {"none", "retry"}
  PROVE  LET t == MaybeCompleteAction(s, e)
         IN  PInv(t) /\ Lawful(d, t, f) /\ Quiet(d, t)
<1> DEFINE t == MaybeCompleteAction(s, e)
<1>1. Running(d) /\ d.active /\ d.report = "none"
  BY DEF Serving, Agrees, PInv, Sane
<1>2. /\ Sane(s) /\ Clean(s) /\ Settled(s) /\ Running(s) /\ s.open /\ s.action = "capture"
      /\ s.cancelled = d.cancelled /\ s.state = d.state /\ s.active
      /\ Shakes(s) = Shakes(d) /\ Rearms(s) = Rearms(d) /\ Fingers(s) = Fingers(d)
      /\ Releases(s) = Releases(d) /\ Reads(s) = Reads(d) /\ Writes(s) = Writes(d)
      /\ Talks(s) = Talks(d)
  BY <1>1, ScannedSame
<1>3. /\ s \in DeviceType /\ ~s.minutiae_scan_active /\ SameOwing(d, s) /\ SameBus(d, s)
      /\ s.warnings = d.warnings /\ s.action_error \in Errors
      /\ s.awaiting_release = d.awaiting_release /\ s.cancel_idle = d.cancel_idle
      /\ s.capture_count = d.capture_count
  BY DEF Scanned, DeviceType
<1>4. e \in Errors /\ e \notin BusErrors /\ e # "wrongType" /\ e # "cancelled"
  BY DEF Errors, BusErrors
<1>5. /\ t \in DeviceType /\ SameData(s, t) /\ SameBus(s, t)
      /\ t.state = s.state /\ t.active = s.active /\ t.returning = s.returning
      /\ t.result = s.result /\ t.cancel_idle = s.cancel_idle
      /\ t.warnings = s.warnings
      /\ t.action_error = FirstError(s, e)
  <2>1. s.state # "inactive"
    BY <1>2
  <2> QED
    BY <1>3, <1>4, <2>1, MaybeCompleteKept
<1> HIDE DEF t
<1>6. t.action_error = e \/ t.action_error = s.action_error
  BY <1>5 DEF FirstError
<1>7. /\ t.action = "capture" /\ t.cancelled = d.cancelled /\ t.state = "awaitFingerOff"
      /\ t.active /\ Running(t) /\ t.open /\ ~t.minutiae_scan_active
      /\ t.cancel_idle = d.cancel_idle /\ t.awaiting_release = d.awaiting_release
      /\ t.capture_count = d.capture_count /\ t.rejects = d.rejects
      /\ t.report = d.report /\ t.enroll_stage = d.enroll_stage /\ t.credited = d.credited
      /\ t.returning = d.returning /\ t.result = d.result /\ t.controls = d.controls
      /\ t.init_stage = s.init_stage /\ t.exchanges = s.exchanges /\ t.warnings = d.warnings
      /\ t.open = d.open /\ t.active = d.active /\ t.state = d.state /\ t.action = d.action
  BY <1>2, <1>3, <1>5 DEF SameData, SameOwing, Running
<1>8. /\ Shakes(t) = Shakes(d) /\ Rearms(t) = Rearms(d) /\ Fingers(t) = Fingers(d)
      /\ Releases(t) = Releases(d) /\ Reads(t) = Reads(d) /\ Writes(t) = Writes(d)
      /\ Talks(t) = Talks(d)
  BY <1>2, <1>5, SameBusCounts
<1>9. Sane(t)
  <2>1. Tagged(t)
    BY <1>2, <1>5, SameBusTagged DEF SameData, Sane
  <2>2. t.action_error # "wrongType" /\ (t.action_error = "cancelled" => t.cancelled)
    BY <1>2, <1>4, <1>6, <1>7 DEF Sane
  <2>3. t.init_stage = t.exchanges
    BY <1>2, <1>7 DEF Sane
  <2>4. t.action # "none" /\ (t.returning <=> t.result # "pending") /\ t.report = "none"
    BY <1>1, <1>7 DEF PInv, Sane, Running
  <2> QED
    BY <1>7, <2>1, <2>2, <2>3, <2>4 DEF Sane
<1>10. Clean(t)
  <2>1. t.rejects = 0 => Talks(t) <= 1 /\ (t.result \in BusErrors => t.result \in Faults)
    BY <1>7, <1>8 DEF PInv, Clean
  <2>2. t.rejects = 0 => (t.action_error \in BusErrors => t.action_error \in Faults)
    BY <1>2, <1>3, <1>4, <1>6, <1>7 DEF Clean, SameOwing
  <2> QED
    BY <2>1, <2>2 DEF Clean
<1>11. Serving(t)
  <2>1. Agrees(t)
    BY <1>7 DEF Serving, Agrees, ServingStates
  <2>2. Idles(t)
    BY <1>7, <1>8 DEF Serving, Idles
  <2>3. ~t.cancelled => Attended(t)
    BY <1>7, <1>8 DEF Serving, Attended
  <2> QED
    BY <2>1, <2>2, <2>3 DEF Serving
<1>12. SameOwing(d, t)
  BY <1>7 DEF SameOwing
<1>13. Lawful(d, t, f)
  BY <1>1, <1>12, LawfulStay
<1> QED
  BY <1>7, <1>9, <1>10, <1>11, <1>13 DEF PInv, Phase, Quiet, t

\* Of an active device whose action has been cancelled: it is deactivated.
LEMMA ScannedCancelled ==
  ASSUME NEW d, PInv(d), Settled(d), Serving(d), d.action = "capture", d.state = "awaitFingerOff",
         d.cancelled, NEW s, Scanned(d, s), NEW f
  PROVE  LET t == Deactivate(MaybeCompleteAction(s, "cancelled"), TRUE)
         IN  PInv(t) /\ Lawful(d, t, f)
<1> DEFINE k == MaybeCompleteAction(s, "cancelled")
           t == Deactivate(k, TRUE)
<1>1. Running(d) /\ d.active
  BY DEF Serving, Agrees
<1>2. /\ Sane(s) /\ Clean(s) /\ Settled(s) /\ Running(s) /\ s.open /\ s.action = "capture"
      /\ s.cancelled = d.cancelled /\ s.state = d.state /\ s.active
      /\ Shakes(s) = Shakes(d) /\ Talks(s) = Talks(d)
  BY <1>1, ScannedSame
<1>3. s \in DeviceType /\ ~s.minutiae_scan_active /\ SameOwing(d, s) /\ s.action_error \in Errors
  BY DEF Scanned, DeviceType
<1>4. /\ k \in DeviceType /\ SameData(s, k) /\ SameBus(s, k)
      /\ k.state = s.state /\ k.active = s.active /\ k.returning = s.returning
      /\ k.result = s.result /\ k.cancel_idle = s.cancel_idle
      /\ k.warnings = s.warnings
      /\ k.action_error = FirstError(s, "cancelled")
  <2>1. s.state # "inactive" /\ "cancelled" \in Errors
    BY <1>2 DEF Errors
  <2> QED
    BY <1>3, <2>1, MaybeCompleteKept
<1> HIDE DEF k
<1>5. /\ Running(k) /\ k.open /\ k.cancelled /\ ~k.minutiae_scan_active
      /\ k.state = "awaitFingerOff" /\ k.active /\ k.action = "capture" /\ Settled(k)
      /\ k.rejects = s.rejects /\ k.report = s.report /\ k.init_stage = s.init_stage
      /\ k.exchanges = s.exchanges /\ k.returning = s.returning /\ k.result = s.result
  BY <1>2, <1>3, <1>4 DEF SameData, Running, Settled
<1>6. Shakes(k) = Shakes(d) /\ Talks(k) = Talks(d) /\ Shakes(k) = 0
  BY <1>2, <1>4, SameBusCounts DEF Serving, Idles
<1>7. k.action_error \in {"cancelled", s.action_error}
  BY <1>4 DEF FirstError
<1>8. Sane(k)
  <2>1. Tagged(k)
    BY <1>2, <1>4, SameBusTagged DEF SameData, Sane
  <2>2. k.action_error # "wrongType"
    BY <1>2, <1>7 DEF Sane
  <2>3. k.init_stage = k.exchanges
    BY <1>2, <1>5 DEF Sane
  <2>4. (k.returning <=> k.result # "pending") /\ k.report = "none"
    BY <1>2, <1>5 DEF Sane
  <2> QED
    BY <1>5, <2>1, <2>2, <2>3, <2>4 DEF Sane
<1>9. Clean(k)
  <2>1. "cancelled" \notin BusErrors
    BY DEF BusErrors
  <2> QED
    BY <1>2, <1>5, <1>6, <1>7, <2>1 DEF Clean
<1>10. Stoppable(k)
  BY <1>5, <1>6, <1>8, <1>9 DEF Stoppable
<1>11. Explained(k, k.action_error)
  <2>1. k.action_error \in Errors
    BY <1>4 DEF DeviceType
  <2> QED
    BY <2>1, <1>5, <1>8, <1>9 DEF Explained, Sane, Clean
<1>12. Leftover(k)
  BY <1>5, <1>8, CancelledLeftover
<1>13. Stopped(k, t, k.action_error)
  <2>1. k.state # "deactivating"
    BY <1>5
  <2> QED
    BY <1>5, <2>1, DeactivateStops
<1> HIDE DEF t
<1>14. PInv(t) /\ Lawful(k, t, f)
  <2>1. k.state # "activating"
    BY <1>5
  <2> QED
    BY <2>1, <1>10, <1>11, <1>12, <1>13, StoppedRests
<1>15. SameOwing(d, k)
  BY <1>3, <1>4 DEF SameOwing, SameData
<1>16. Lawful(d, t, f)
  BY <1>14, <1>15, LawfulFrom
<1> QED
  BY <1>14, <1>16 DEF t, k

LEMMA MinutiaeDetectedFine ==
  ASSUME IInv, PInv(dev), MinutiaeDetected
  PROVE  Fine(dev, dev', finger)
<1> DEFINE s == [dev EXCEPT !.minutiae_scan_active = FALSE]
<1>1. Settled(dev) /\ dev \in DeviceType
  BY InvSettled DEF IInv, Settled
<1>2. dev.minutiae_scan_active
  BY DEF MinutiaeDetected
<1>3. s \in DeviceType
  BY <1>1 DEF DeviceType
<1>4. Scanned(dev, s)
  BY <1>1, <1>3 DEF DeviceType, Scanned, SameBus, SameOwing
<1>5. Detecting(dev) \/ (Serving(dev) /\ dev.state = "awaitFingerOff")
  BY <1>2 DEF PInv, Phase, Resting, Shaking, Serving, Agrees
<1>6. dev.action = "capture" /\ s.action = "capture"
  BY <1>2, <1>4, <1>5 DEF Detecting, Serving, Agrees, Scanned, SameOwing
<1>7. \/ \E e \in {"none", "retry"} : dev' = MaybeCompleteAction(s, e)
      \/ dev.cancelled /\ dev' = Deactivate(MaybeCompleteAction(s, "cancelled"), TRUE)
  <2>1. \A image : ProcessPrint(s, image) =
           MaybeCompleteAction(s, IF image = "noFeatures" THEN "retry" ELSE "none")
    BY <1>6 DEF ProcessPrint
  <2> QED
    BY <2>1, <1>6 DEF MinutiaeDetected
<1> HIDE DEF s
<1>8. CASE \E e \in {"none", "retry"} : dev' = MaybeCompleteAction(s, e)
  <2>1. PICK e \in {"none", "retry"} : dev' = MaybeCompleteAction(s, e)
    BY <1>8
  <2>2. CASE Detecting(dev)
    <3>1. e \in {"none", "retry", "cancelled"} /\ e # "cancelled"
      OBVIOUS
    <3>2. PInv(dev') /\ Lawful(dev, dev', finger) /\ dev'.warnings = dev.warnings
      BY <1>1, <1>4, <2>1, <2>2, <3>1, ScannedEnds
    <3> QED
      BY <3>2 DEF Fine, Quiet
  <2>3. CASE Serving(dev) /\ dev.state = "awaitFingerOff"
    BY <1>1, <1>4, <1>6, <2>1, <2>3, ScannedGoesOn DEF Fine
  <2> QED
    BY <1>5, <2>2, <2>3
<1>9. CASE dev.cancelled /\ dev' = Deactivate(MaybeCompleteAction(s, "cancelled"), TRUE)
  <2>1. Quiet(dev, dev')
    BY <1>9 DEF Quiet
  <2>2. CASE Detecting(dev)
    <3> DEFINE k == MaybeCompleteAction(s, "cancelled")
    <3>1. "cancelled" \in {"none", "retry", "cancelled"}
      OBVIOUS
    <3>2. PInv(k) /\ Lawful(dev, k, finger) /\ ~k.active
      BY <1>1, <1>4, <1>9, <2>2, <3>1, ScannedEnds
    <3>3. Deactivate(k, TRUE) = k
      BY <3>2 DEF Deactivate
    <3> QED
      BY <1>9, <2>1, <3>2, <3>3 DEF Fine
  <2>3. CASE Serving(dev) /\ dev.state = "awaitFingerOff"
    BY <1>1, <1>4, <1>6, <1>9, <2>1, <2>3, ScannedCancelled DEF Fine
  <2> QED
    BY <1>5, <2>2, <2>3
<1> QED
  BY <1>7, <1>8, <1>9

-----------------------------------------------------------------------------
(* The client and the finger. *)

\* The fields that the invariant is about, but for the open device.
SameTalk(d, t) ==
    /\ SameBus(d, t) /\ SameStatus(d, t)
    /\ t.action = d.action /\ t.cancelled = d.cancelled
    /\ t.report = d.report /\ t.enroll_stage = d.enroll_stage
    /\ t.enroll_await_on_pending = d.enroll_await_on_pending
    /\ t.minutiae_scan_active = d.minutiae_scan_active
    /\ t.init_stage = d.init_stage /\ t.exchanges = d.exchanges
    /\ t.capture_count = d.capture_count
    /\ t.awaiting_release = d.awaiting_release
    /\ t.wake_retry_used = d.wake_retry_used
    /\ t.rejects = d.rejects /\ t.controls = d.controls

LEMMA SameTalkInv ==
  ASSUME NEW d, NEW t, PInv(d), SameTalk(d, t),
         ~t.open => t.action = "none" /\ Talks(t) + Writes(t) = 0
  PROVE  PInv(t)
<1>1. /\ Shakes(t) = Shakes(d) /\ Rearms(t) = Rearms(d) /\ Fingers(t) = Fingers(d)
      /\ Releases(t) = Releases(d) /\ Reads(t) = Reads(d) /\ Writes(t) = Writes(d)
      /\ Talks(t) = Talks(d)
  BY SameBusCounts DEF SameTalk
<1>2. Tagged(t)
  BY SameBusTagged DEF SameTalk, PInv, Sane
<1>3. Sane(t)
  BY <1>2 DEF SameTalk, SameStatus, PInv, Sane
<1>4. Clean(t)
  BY <1>1 DEF SameTalk, SameStatus, PInv, Clean
<1>5. Running(t) <=> Running(d)
  BY DEF SameTalk, SameStatus, Running
<1>6. Resting(d) => Resting(t)
  <2>1. Leftover(d) => Leftover(t)
    BY DEF Leftover, SameTalk, SameBus
  <2> QED
    BY <1>1, <1>5, <2>1 DEF Resting, SameTalk, SameStatus
<1>7. Detecting(d) => Detecting(t)
  BY <1>1, <1>5 DEF Detecting, SameTalk, SameStatus
<1>8. Shaking(d, 1) => Shaking(t, 1)
  BY <1>1, <1>5 DEF Shaking, SameTalk, SameStatus, SameBus
<1>9. Serving(d) => Serving(t)
  <2>1. Agrees(d) => Agrees(t)
    BY <1>5 DEF Agrees, SameTalk, SameStatus
  <2>2. Idles(d) => Idles(t)
    BY <1>1 DEF Idles, SameTalk, SameStatus
  <2>3. Attended(d) => Attended(t)
    BY <1>1 DEF Attended, Listening1, SameTalk, SameStatus
  <2>4. t.cancelled = d.cancelled
    BY DEF SameTalk
  <2> QED
    BY <2>1, <2>2, <2>3, <2>4 DEF Serving
<1> QED
  BY <1>3, <1>4, <1>6, <1>7, <1>8, <1>9 DEF PInv, Phase

LEMMA QuiescentCounts ==
  ASSUME dev \in DeviceType, Quiescent
  PROVE  /\ Pending(dev) = [k \in Kinds |-> 0]
         /\ Shakes(dev) = 0 /\ Rearms(dev) = 0 /\ Fingers(dev) = 0 /\ Releases(dev) = 0
         /\ Reads(dev) = 0 /\ Writes(dev) = 0 /\ Talks(dev) = 0
<1>1. \A k \in Kinds : \A g \in Tags : dev.flight[<<k, g>>] = 0
  BY DEF Quiescent, Transfers
<1>2. Pending(dev) = [k \in Kinds |-> 0]
  BY <1>1 DEF Pending, Tags
<1>3. /\ Shakes(dev) = 0 /\ Rearms(dev) = 0 /\ Fingers(dev) = 0 /\ Releases(dev) = 0
      /\ Reads(dev) = 0 /\ Writes(dev) = 0
  BY <1>2 DEF Quiescent, Shakes, Rearms, Fingers, Releases, Reads, Writes, Kinds
<1> QED
  BY <1>2, <1>3 DEF Talks

LEMMA OpenClosePhase ==
  ASSUME IInv, PInv(dev), ~EagerClient, Open \/ Close
  PROVE  /\ PInv(dev') /\ dev.action = "none" /\ dev'.action = "none"
         /\ dev'.warnings = dev.warnings
         /\ SameTalk(dev, dev') /\ dev'.credited = dev.credited
<1>1. dev \in DeviceType /\ dev.action = "none"
  BY DEF IInv, Inv, Open, Close, ClientMayProceed
<1>2. SameTalk(dev, dev') /\ dev'.credited = dev.credited /\ dev'.warnings = dev.warnings
  <2>1. CASE Open
    <3>1. PICK o \in OpenOutcomes :
            dev' = [dev EXCEPT
                      !.open = (o = "ok"),
                      !.config_06 = IF o = "resetFails" THEN @ ELSE o # "badConfig",
                      !.scan_02 = CASE o \in {"resetFails", "badConfig"} -> @
                                    [] o = "badScan" -> "null"
                                    [] OTHER -> "initial"]
      BY <2>1 DEF Open
    <3>2. PICK opened, config, scan :
            dev' = [dev EXCEPT !.open = opened, !.config_06 = config, !.scan_02 = scan]
      BY <3>1
    <3> QED
      BY <1>1, <3>2 DEF DeviceType, SameTalk, SameBus, SameStatus
  <2>2. CASE Close
    BY <1>1, <2>2 DEF Close, DeviceType, SameTalk, SameBus, SameStatus
  <2> QED
    BY <2>1, <2>2
<1>3. Talks(dev) + Writes(dev) = 0
  <2>1. CASE Open
    BY <2>1 DEF Open, PInv, Sane
  <2>2. CASE Close
    BY <1>1, <2>2, QuiescentCounts, 0 + 0 = 0 DEF Close, ClientMayProceed
  <2> QED
    BY <2>1, <2>2
<1>4. dev'.action = "none" /\ Talks(dev') + Writes(dev') = 0
  BY <1>1, <1>2, <1>3, SameBusCounts DEF SameTalk
<1> QED
  BY <1>1, <1>2, <1>4, SameTalkInv

LEMMA FingerPhase ==
  ASSUME IInv, PInv(dev), Finger
  PROVE  /\ PInv(dev') /\ SameTalk(dev, dev') /\ dev'.open = dev.open
         /\ dev'.warnings = dev.warnings
         /\ \/ FingerDown /\ ~dev'.credited
            \/ FingerUp /\ dev' = dev
<1>1. dev \in DeviceType
  BY DEF IInv, Inv
<1>2. /\ SameTalk(dev, dev') /\ dev'.open = dev.open
      /\ dev'.warnings = dev.warnings
      /\ \/ FingerDown /\ ~dev'.credited
         \/ FingerUp /\ dev' = dev
  <2>1. CASE FingerDown
    BY <1>1, <2>1 DEF FingerDown, DeviceType, SameTalk, SameBus, SameStatus
  <2>2. CASE FingerUp
    BY <2>2 DEF FingerUp, SameTalk, SameBus, SameStatus
  <2> QED
    BY <2>1, <2>2 DEF Finger
<1>3. ~dev'.open => dev'.action = "none" /\ Talks(dev') + Writes(dev') = 0
  <2>1. Talks(dev') = Talks(dev) /\ Writes(dev') = Writes(dev)
    BY <1>2, SameBusCounts DEF SameTalk
  <2> QED
    BY <1>2, <2>1 DEF PInv, Sane, SameTalk
<1> QED
  BY <1>2, <1>3, SameTalkInv

\* The transfers of the action become this.
MovedTo(d, to) ==
    [x \in Transfers |->
       CASE x[2] = "own" -> 0
         [] x[2] = to -> d.flight[x] + d.flight[<<x[1], "own">>]
         [] OTHER -> d.flight[x]]

LEMMA MovedCounts ==
  ASSUME NEW d \in DeviceType, NEW t, NEW to \in {"stale", "doomed"},
         t.flight = MovedTo(d, to), t.wake_timers = d.wake_timers
  PROVE  /\ Pending(t) = Pending(d)
         /\ Shakes(t) = Shakes(d) /\ Rearms(t) = Rearms(d) /\ Fingers(t) = Fingers(d)
         /\ Releases(t) = Releases(d) /\ Reads(t) = Reads(d) /\ Writes(t) = Writes(d)
         /\ Talks(t) = Talks(d)
         /\ \A x \in Transfers : t.flight[x] > 0 =>
              x[2] # "own" /\ (d.flight[x] > 0 \/
                 (x[2] = to /\ <<x[1], "own">> \in Transfers /\ d.flight[<<x[1], "own">>] > 0))
<1>1. d.flight \in [Transfers -> Nat]
  BY DEF DeviceType
<1>2. \A k \in Kinds : \A g \in Tags : <<k, g>> \in Transfers /\ d.flight[<<k, g>>] \in Nat
  BY <1>1 DEF Transfers
<1>3. \A k \in Kinds : \A g \in Tags :
         t.flight[<<k, g>>] = IF g = "own" THEN 0
                              ELSE IF g = to THEN d.flight[<<k, g>>] + d.flight[<<k, "own">>]
                              ELSE d.flight[<<k, g>>]
  BY <1>2 DEF MovedTo
<1>4. Pending(t) = Pending(d)
  <2>1. ASSUME NEW k \in Kinds PROVE Pending(t)[k] = Pending(d)[k]
    <3> DEFINE a == d.flight[<<k, "own">>]
               b == d.flight[<<k, "stale">>]
               c == d.flight[<<k, "doomed">>]
    <3>1. a \in Nat /\ b \in Nat /\ c \in Nat
      BY <1>2 DEF Tags
    <3>2. /\ t.flight[<<k, "own">>] = 0
          /\ t.flight[<<k, "stale">>] = IF to = "stale" THEN b + a ELSE b
          /\ t.flight[<<k, "doomed">>] = IF to = "doomed" THEN c + a ELSE c
      BY <1>3 DEF Tags
    <3>3. Pending(t)[k] = 0 + (IF to = "stale" THEN b + a ELSE b)
                            + (IF to = "doomed" THEN c + a ELSE c)
      BY <3>2 DEF Pending
    <3>4. Pending(d)[k] = a + b + c
      BY DEF Pending
    <3> HIDE DEF a, b, c
    <3> QED
      BY <3>1, <3>3, <3>4
  <2> QED
    BY <2>1 DEF Pending
<1>5. \A x \in Transfers : t.flight[x] > 0 =>
              x[2] # "own" /\ (d.flight[x] > 0 \/
                 (x[2] = to /\ <<x[1], "own">> \in Transfers /\ d.flight[<<x[1], "own">>] > 0))
  <2>1. ASSUME NEW k \in Kinds, NEW g \in Tags, t.flight[<<k, g>>] > 0
        PROVE  g # "own" /\ (d.flight[<<k, g>>] > 0 \/
                  (g = to /\ <<k, "own">> \in Transfers /\ d.flight[<<k, "own">>] > 0))
    <3> DEFINE a == d.flight[<<k, "own">>]
               b == d.flight[<<k, g>>]
    <3>1. a \in Nat /\ b \in Nat /\ <<k, "own">> \in Transfers
      BY <1>2 DEF Tags
    <3>2. t.flight[<<k, g>>] = IF g = "own" THEN 0 ELSE IF g = to THEN b + a ELSE b
      BY <1>3
    <3> HIDE DEF a, b
    <3>3. g # "own" /\ (b > 0 \/ (g = to /\ a > 0))
      BY <2>1, <3>1, <3>2
    <3> QED
      BY <3>1, <3>3 DEF a, b
  <2> QED
    BY <2>1 DEF Transfers
<1>6. /\ Shakes(t) = Shakes(d) /\ Rearms(t) = Rearms(d) /\ Fingers(t) = Fingers(d)
      /\ Releases(t) = Releases(d) /\ Reads(t) = Reads(d) /\ Writes(t) = Writes(d)
  BY <1>4 DEF Shakes, Rearms, Fingers, Releases, Reads, Writes
<1>7. Talks(t) = Talks(d)
  BY <1>6 DEF Talks
<1> QED
  BY <1>4, <1>5, <1>6, <1>7

LEMMA TaskReturnPhase ==
  ASSUME IInv, PInv(dev), TaskReturn
  PROVE  /\ PInv(dev') /\ dev.action # "none" /\ dev.returning
         /\ dev'.action = "none" /\ dev'.warnings = dev.warnings
         /\ dev'.state = "inactive" /\ ~dev'.active /\ ~dev.active
<1>1. dev \in DeviceType /\ dev.returning
  BY DEF IInv, Inv, TaskReturn
<1>2. dev' = [dev EXCEPT !.returning = FALSE, !.action = "none", !.cancelled = FALSE,
                !.flight = MovedTo(dev, "stale")]
  BY DEF TaskReturn, MovedTo
<1>3. /\ dev'.flight = MovedTo(dev, "stale") /\ dev'.wake_timers = dev.wake_timers
      /\ ~dev'.returning /\ dev'.action = "none" /\ ~dev'.cancelled
      /\ dev'.open = dev.open /\ dev'.result = dev.result /\ dev'.report = dev.report
      /\ dev'.state = dev.state /\ dev'.active = dev.active
      /\ dev'.action_error = dev.action_error /\ dev'.cancel_idle = dev.cancel_idle
      /\ dev'.minutiae_scan_active = dev.minutiae_scan_active
      /\ dev'.init_stage = dev.init_stage /\ dev'.exchanges = dev.exchanges
      /\ dev'.rejects = dev.rejects /\ dev'.awaiting_release = dev.awaiting_release
      /\ dev'.warnings = dev.warnings
  BY <1>1, <1>2 DEF DeviceType
<1>4. Resting(dev)
  BY <1>1 DEF PInv, Phase, Detecting, Shaking, Serving, Agrees, Running
<1>5. dev.action # "none"
  BY <1>1 DEF PInv, Sane
<1>6. "stale" \in {"stale", "doomed"}
  OBVIOUS
<1>7. /\ Shakes(dev') = Shakes(dev) /\ Writes(dev') = Writes(dev) /\ Talks(dev') = Talks(dev)
      /\ \A x \in Transfers : dev'.flight[x] > 0 =>
              x[2] # "own" /\ (dev.flight[x] > 0 \/
                 (x[2] = "stale" /\ <<x[1], "own">> \in Transfers
                    /\ dev.flight[<<x[1], "own">>] > 0))
  BY <1>1, <1>3, <1>6, MovedCounts
<1>8. Tagged(dev')
  BY <1>3, <1>7 DEF Tagged
<1>9. Sane(dev')
  <2>1. ~dev'.open => Talks(dev') + Writes(dev') = 0
    BY <1>3, <1>7 DEF PInv, Sane
  <2> QED
    BY <1>3, <1>4, <1>8, <2>1 DEF PInv, Sane, Resting
<1>10. Clean(dev')
  BY <1>3, <1>7 DEF PInv, Clean
<1>11. Leftover(dev')
  <2>1. ASSUME Faults = {}, dev.rejects = 0, NEW x \in Transfers, dev'.flight[x] > 0
        PROVE  x[2] = "doomed" \/ (x[1] = "release" /\ dev.awaiting_release)
    <3>1. Leftover(dev)
      BY <1>4 DEF Resting
    <3>2. CASE dev.flight[x] > 0
      BY <2>1, <3>1, <3>2 DEF Leftover
    <3>3. CASE <<x[1], "own">> \in Transfers /\ dev.flight[<<x[1], "own">>] > 0
      <4>1. <<x[1], "own">>[2] # "doomed" /\ <<x[1], "own">>[1] = x[1]
        OBVIOUS
      <4> QED
        BY <2>1, <3>1, <3>3, <4>1 DEF Leftover
    <3> QED
      BY <1>7, <2>1, <3>2, <3>3
  <2> QED
    BY <1>3, <2>1 DEF Leftover
<1>12. Resting(dev')
  BY <1>3, <1>4, <1>7, <1>11 DEF Resting, Running
<1> QED
  BY <1>1, <1>3, <1>4, <1>5, <1>9, <1>10, <1>12 DEF PInv, Phase, Resting

LEMMA CancelPhase ==
  ASSUME IInv, PInv(dev), Cancel
  PROVE  /\ PInv(dev') /\ Running(dev) /\ ~dev.cancelled /\ dev'.cancelled
         /\ dev'.action = dev.action /\ dev'.returning = dev.returning
         /\ dev'.result = dev.result /\ dev'.enroll_stage = dev.enroll_stage
         /\ dev'.report = dev.report /\ dev'.credited = dev.credited
         /\ dev'.warnings = dev.warnings /\ dev'.state = dev.state
         /\ dev'.active = dev.active
<1>1. dev \in DeviceType /\ Running(dev) /\ ~dev.cancelled /\ dev.action # "none"
  BY DEF IInv, Inv, Cancel, Running
<1>2. dev' = [dev EXCEPT !.cancelled = TRUE, !.cancel_idle = TRUE,
                !.flight = MovedTo(dev, "doomed")]
  BY DEF Cancel, MovedTo
<1>3. /\ dev'.flight = MovedTo(dev, "doomed") /\ dev'.wake_timers = dev.wake_timers
      /\ dev'.cancelled /\ dev'.cancel_idle
      /\ dev'.open = dev.open /\ dev'.action = dev.action /\ dev'.returning = dev.returning
      /\ dev'.result = dev.result /\ dev'.report = dev.report
      /\ dev'.state = dev.state /\ dev'.active = dev.active
      /\ dev'.action_error = dev.action_error
      /\ dev'.enroll_stage = dev.enroll_stage
      /\ dev'.enroll_await_on_pending = dev.enroll_await_on_pending
      /\ dev'.minutiae_scan_active = dev.minutiae_scan_active
      /\ dev'.init_stage = dev.init_stage /\ dev'.exchanges = dev.exchanges
      /\ dev'.capture_count = dev.capture_count /\ dev'.wake_retry_used = dev.wake_retry_used
      /\ dev'.controls = dev.controls /\ dev'.credited = dev.credited
      /\ dev'.rejects = dev.rejects /\ dev'.awaiting_release = dev.awaiting_release
      /\ dev'.warnings = dev.warnings
  BY <1>1, <1>2 DEF DeviceType
<1>4. "doomed" \in {"stale", "doomed"}
  OBVIOUS
<1>5. /\ Shakes(dev') = Shakes(dev) /\ Rearms(dev') = Rearms(dev)
      /\ Fingers(dev') = Fingers(dev) /\ Releases(dev') = Releases(dev)
      /\ Reads(dev') = Reads(dev) /\ Writes(dev') = Writes(dev) /\ Talks(dev') = Talks(dev)
      /\ \A x \in Transfers : dev'.flight[x] > 0 =>
              x[2] # "own" /\ (dev.flight[x] > 0 \/
                 (x[2] = "doomed" /\ <<x[1], "own">> \in Transfers
                    /\ dev.flight[<<x[1], "own">>] > 0))
  BY <1>1, <1>3, <1>4, MovedCounts
<1>6. Tagged(dev')
  <2>1. Tagged(dev)
    BY DEF PInv, Sane
  <2>2. \A x \in Transfers : dev.flight[x] > 0 => x[2] = "own"
    BY <1>1, <2>1 DEF Tagged, SubmitTag
  <2>3. \A x \in Transfers : dev'.flight[x] > 0 => x[2] = "doomed"
    BY <1>5, <2>2
  <2> QED
    BY <1>1, <1>3, <2>3 DEF Tagged, SubmitTag
<1>7. Running(dev')
  BY <1>1, <1>3 DEF Running
<1>8. Sane(dev')
  BY <1>1, <1>3, <1>6 DEF PInv, Sane
<1>9. Clean(dev')
  BY <1>3, <1>5 DEF PInv, Clean
<1>10. Phase(dev')
  <2>1. CASE Detecting(dev)
    BY <2>1, <1>3, <1>5, <1>7 DEF Detecting, Phase
  <2>2. CASE Shaking(dev, 1)
    BY <2>2, <1>3, <1>5, <1>7 DEF Shaking, Phase
  <2>3. CASE Serving(dev)
    <3>1. Agrees(dev')
      BY <2>3, <1>3, <1>7 DEF Serving, Agrees
    <3>2. Idles(dev')
      BY <2>3, <1>3, <1>5 DEF Serving, Idles
    <3> QED
      BY <1>3, <3>1, <3>2 DEF Serving, Phase
  <2> QED
    BY <1>1, <2>1, <2>2, <2>3 DEF PInv, Phase, Resting
<1> QED
  BY <1>1, <1>3, <1>8, <1>9, <1>10 DEF PInv

\* With nothing in flight.
Silent(s) ==
    /\ s.flight = dev.flight /\ s.wake_timers = 0
    /\ Shakes(s) = 0 /\ Rearms(s) = 0 /\ Fingers(s) = 0 /\ Releases(s) = 0
    /\ Reads(s) = 0 /\ Writes(s) = 0 /\ Talks(s) = 0
    /\ \A x \in Transfers : s.flight[x] = 0

\* An action that is refused.
LEMMA RefusedRests ==
  ASSUME NEW s \in DeviceType, Silent(s), s.action # "none", ~s.returning, s.open,
         s.state = "inactive", ~s.active, s.action_error = "none",
         ~s.minutiae_scan_active, ~s.cancel_idle, ~s.cancelled, s.report = "none",
         s.init_stage = s.exchanges
  PROVE  LET t == Complete(s, "wrongType")
         IN  PInv(t) /\ Ended(s, t, "wrongType") /\ t.warnings = s.warnings
<1> DEFINE t == Complete(s, "wrongType")
<1>1. Ended(s, t, "wrongType") /\ t.warnings = s.warnings
  <2>1. Running(s) /\ "wrongType" \in Results
    BY DEF Running, Results, Errors
  <2> QED
    BY <2>1, CompleteEnds
<1> HIDE DEF t
<1>2. /\ t.open /\ t.action = s.action /\ ~t.cancelled /\ t.report = "none"
      /\ t.init_stage = t.exchanges /\ ~t.minutiae_scan_active
      /\ t.state = "inactive" /\ ~t.active /\ t.returning /\ t.result = "wrongType"
      /\ t.action_error = "none" /\ ~t.cancel_idle
  BY <1>1 DEF Ended, SameData
<1>3. Shakes(t) = 0 /\ Talks(t) = 0 /\ t.flight = s.flight
  BY <1>1, SameBusCounts DEF Ended, Silent, SameBus
<1>4. \A x \in Transfers : ~(t.flight[x] > 0)
  BY <1>3 DEF Silent
<1>5. Sane(t)
  BY <1>2, <1>4 DEF Sane, Tagged
<1>6. Clean(t)
  BY <1>2, <1>3, 0 <= 1 DEF Clean, BusErrors
<1>7. Resting(t)
  BY <1>2, <1>3, <1>4 DEF Resting, Leftover, Running
<1> QED
  BY <1>1, <1>5, <1>6, <1>7 DEF PInv, Phase, t

\* An action that begins: the handshake is under way.
LEMMA BegunShakes ==
  ASSUME NEW s \in DeviceType, Silent(s), s.action # "none", ~s.returning, s.open,
         s.state = "activating", ~s.active, s.action_error = "none", s.result = "pending",
         ~s.minutiae_scan_active, ~s.cancel_idle, ~s.cancelled, s.report = "none",
         s.enroll_stage = 0, ~s.enroll_await_on_pending
  PROVE  LET t == DevActivate(s)
         IN  /\ PInv(t) /\ t.action = s.action /\ ~t.returning /\ t.result = "pending"
             /\ ~t.cancelled /\ t.report = "none" /\ t.enroll_stage = 0
             /\ t.credited = s.credited /\ t.warnings = s.warnings
             /\ ~t.active /\ t.state = "activating"
<1> DEFINE y == [s EXCEPT !.deactivating = FALSE, !.init_stage = 0, !.capture_count = 0,
                    !.awaiting_release = FALSE, !.wake_retry_used = FALSE,
                    !.controls = 0]
           u == [y EXCEPT !.controls = @ + 1, !.exchanges = 0]
           t == DevActivate(s)
<1>1. t = SubmitOperationControl(y)
  BY DEF DevActivate
<1>2. y \in DeviceType
  <2> DEFINE x == [s EXCEPT !.deactivating = FALSE, !.init_stage = 0, !.capture_count = 0]
  <2>1. x \in DeviceType
    BY ZenonT(60) DEF DeviceType
  <2>2. [x EXCEPT !.awaiting_release = FALSE, !.wake_retry_used = FALSE,
                 !.controls = 0] \in DeviceType
    <3> HIDE DEF x
    <3> QED
      BY ZenonT(60), <2>1 DEF DeviceType
  <2>3. y = [x EXCEPT !.awaiting_release = FALSE, !.wake_retry_used = FALSE, !.controls = 0]
    BY DEF DeviceType
  <2> QED
    BY <2>2, <2>3
<1>3. /\ ~y.deactivating /\ y.init_stage = 0 /\ y.capture_count = 0 /\ ~y.awaiting_release
      /\ ~y.wake_retry_used /\ y.controls = 0
      /\ y.flight = s.flight /\ y.wake_timers = s.wake_timers
      /\ y.action = s.action /\ y.open = s.open /\ y.returning = s.returning
      /\ y.state = s.state /\ y.active = s.active /\ y.action_error = s.action_error
      /\ y.result = s.result /\ y.minutiae_scan_active = s.minutiae_scan_active
      /\ y.cancel_idle = s.cancel_idle /\ y.cancelled = s.cancelled
      /\ y.report = s.report /\ y.enroll_stage = s.enroll_stage
      /\ y.enroll_await_on_pending = s.enroll_await_on_pending
      /\ y.credited = s.credited /\ y.warnings = s.warnings
  BY DEF DeviceType
<1> HIDE DEF t, y
<1>4. Settled(y)
  BY <1>2, <1>3 DEF Settled
<1>5. /\ u \in DeviceType /\ Greets(y, u) /\ SameBus(y, u)
      /\ u.controls = y.controls + 1 /\ u.exchanges = 0 /\ u.init_stage = y.init_stage
      /\ u.wake_retry_used = y.wake_retry_used
      /\ Posted(u, t, "control")
  BY <1>1, <1>4, OperationControlPosted
<1> HIDE DEF u
<1>6. SameBus(s, u)
  BY <1>3, <1>5 DEF SameBus
<1>7. /\ Shakes(t) = 1 /\ Rearms(t) = 0 /\ Fingers(t) = 0 /\ Releases(t) = 0
      /\ Reads(t) = 0 /\ Writes(t) = 0 /\ Talks(t) = 1
  <2>1. /\ Shakes(u) = 0 /\ Rearms(u) = 0 /\ Fingers(u) = 0 /\ Releases(u) = 0
        /\ Reads(u) = 0 /\ Writes(u) = 0 /\ Talks(u) = 0
    BY <1>6, SameBusCounts DEF Silent
  <2>2. "control" \in Kinds
    BY DEF Kinds
  <2>3. /\ In("control", ShakeKinds) = 1 /\ In("control", RearmKinds) = 0
        /\ In("control", {"finger"}) = 0 /\ In("control", {"release"}) = 0
        /\ In("control", {"captureRead"}) = 0 /\ In("control", {"captureWrite"}) = 0
        /\ In("control", TalkKinds) = 1
    BY DEF In, ShakeKinds, RearmKinds, TalkKinds, Kinds
  <2> QED
    BY <1>5, <2>1, <2>2, <2>3, PostedCounts
<1>8. /\ t.controls = 1 /\ t.exchanges = 0 /\ t.init_stage = 0 /\ ~t.wake_retry_used
      /\ t.wake_timers = 0 /\ t.capture_count = 0 /\ ~t.awaiting_release
  BY <1>3, <1>5, <1>6 DEF Posted, Alike, SameData, Greets, SameBus, Silent
<1>9. /\ t.action = s.action /\ t.open = s.open /\ t.returning = s.returning
      /\ t.state = s.state /\ t.active = s.active /\ t.action_error = s.action_error
      /\ t.result = s.result /\ t.minutiae_scan_active = s.minutiae_scan_active
      /\ t.cancel_idle = s.cancel_idle /\ t.cancelled = s.cancelled
      /\ t.report = s.report /\ t.enroll_stage = s.enroll_stage
      /\ t.enroll_await_on_pending = s.enroll_await_on_pending
      /\ t.credited = s.credited /\ t.warnings = s.warnings
  BY <1>3, <1>5 DEF Posted, Alike, SameData, SameStatus, Greets
<1>10. Tagged(t)
  <2>1. \A x \in Transfers : ~(u.flight[x] > 0)
    BY <1>6 DEF SameBus, Silent
  <2>2. Tagged(u)
    BY <2>1 DEF Tagged
  <2> QED
    BY <1>5, <2>2 DEF Posted
<1>11. Sane(t)
  BY <1>8, <1>9, <1>10 DEF Sane
<1>12. Clean(t)
  BY <1>7, <1>9, 1 <= 1 DEF Clean, BusErrors
<1>13. Shaking(t, 1)
  <2>1. Rearms(t) + Fingers(t) + Releases(t) + Reads(t) + Writes(t) = 0
    BY <1>7, 0 + 0 + 0 + 0 + 0 = 0
  <2>2. t.controls + t.wake_timers = 1
    BY <1>8
  <2> QED
    BY <1>7, <1>8, <1>9, <2>1, <2>2 DEF Shaking, Running
<1> QED
  BY <1>9, <1>11, <1>12, <1>13 DEF PInv, Phase, t

LEMMA StartActionPhase ==
  ASSUME IInv, PInv(dev), ~EagerClient, NEW action \in ActionKinds, StartAction(action)
  PROVE  /\ PInv(dev') /\ dev.action = "none" /\ dev'.action = action
         /\ ~dev'.cancelled /\ ~dev'.credited /\ dev'.warnings = dev.warnings
         /\ \/ dev'.returning /\ dev'.result = "wrongType"
            \/ /\ ~dev'.returning /\ dev'.result = "pending"
               /\ dev'.report = "none" /\ dev'.enroll_stage = 0
         /\ dev'.state \in {"inactive", "activating"} /\ ~dev'.active
<1> DEFINE asked == [dev EXCEPT !.action = action, !.result = "pending",
                       !.report = "none", !.credited = FALSE, !.rejects = 0]
           started == [asked EXCEPT !.enroll_stage = 0, !.enroll_await_on_pending = FALSE]
           ready == [started EXCEPT !.state = "activating"]
<1>1. dev \in DeviceType /\ action \in ImageActions /\ dev.action = "none" /\ dev.open
      /\ Quiescent
  BY ConstantsAssumption DEF IInv, Inv, StartAction, ClientMayProceed
<1>2. Resting(dev)
  BY <1>1 DEF PInv, Phase, Detecting, Shaking, Serving, Agrees, Running
<1>3. /\ dev.state = "inactive" /\ ~dev.active /\ dev.action_error = "none"
      /\ ~dev.minutiae_scan_active /\ ~dev.cancel_idle
      /\ ~dev.returning /\ ~dev.cancelled /\ dev.init_stage = dev.exchanges
  BY <1>1, <1>2 DEF Resting, PInv, Sane
<1>4. /\ Shakes(dev) = 0 /\ Rearms(dev) = 0 /\ Fingers(dev) = 0 /\ Releases(dev) = 0
      /\ Reads(dev) = 0 /\ Writes(dev) = 0 /\ Talks(dev) = 0
      /\ dev.wake_timers = 0 /\ \A x \in Transfers : dev.flight[x] = 0
  BY <1>1, QuiescentCounts DEF Quiescent
<1>5. asked \in DeviceType
  BY <1>1 DEF DeviceType
<1>6. action # "none"
  BY <1>1 DEF ImageActions
<1>7. /\ asked.action = action /\ asked.result = "pending" /\ asked.report = "none"
      /\ ~asked.credited /\ asked.flight = dev.flight /\ asked.wake_timers = dev.wake_timers
      /\ asked.returning = dev.returning /\ asked.open = dev.open
      /\ asked.state = dev.state /\ asked.active = dev.active
      /\ asked.action_error = dev.action_error
      /\ asked.minutiae_scan_active = dev.minutiae_scan_active
      /\ asked.cancel_idle = dev.cancel_idle /\ asked.cancelled = dev.cancelled
      /\ asked.init_stage = dev.init_stage /\ asked.exchanges = dev.exchanges
      /\ asked.warnings = dev.warnings
  BY <1>1 DEF DeviceType
<1>8. \/ dev' = Complete(asked, "wrongType")
      \/ dev' = DevActivate(ready)
  BY <1>3 DEF StartAction
<1> HIDE DEF asked
<1>9. CASE dev' = Complete(asked, "wrongType")
  <2>1. Silent(asked)
    BY <1>4, <1>7, SameBusCounts DEF Silent, SameBus
  <2>2. PInv(dev') /\ Ended(asked, dev', "wrongType") /\ dev'.warnings = asked.warnings
    BY <1>1, <1>3, <1>5, <1>6, <1>7, <1>9, <2>1, RefusedRests
  <2> QED
    BY <1>1, <1>3, <1>7, <2>2 DEF Ended, SameData
<1>10. CASE dev' = DevActivate(ready)
  <2>1. started \in DeviceType
    BY <1>5 DEF DeviceType
  <2>2. ready \in DeviceType
    BY ZenonT(60), <2>1 DEF DeviceType, FwStates
  <2>3. /\ ready.action = asked.action /\ ready.result = asked.result
        /\ ready.report = asked.report /\ ready.credited = asked.credited
        /\ ready.flight = asked.flight /\ ready.wake_timers = asked.wake_timers
        /\ ready.returning = asked.returning /\ ready.open = asked.open
        /\ ready.state = "activating" /\ ready.active = asked.active
        /\ ready.action_error = asked.action_error
        /\ ready.minutiae_scan_active = asked.minutiae_scan_active
        /\ ready.cancel_idle = asked.cancel_idle /\ ready.cancelled = asked.cancelled
        /\ ready.warnings = asked.warnings
        /\ ready.enroll_stage = 0 /\ ~ready.enroll_await_on_pending
    BY <1>5 DEF DeviceType
  <2> HIDE DEF ready, started
  <2>4. SameBus(dev, ready)
    BY <1>7, <2>3 DEF SameBus
  <2>5. Silent(ready)
    BY <1>4, <2>4, SameBusCounts DEF Silent, SameBus
  <2>6. /\ PInv(dev') /\ dev'.action = ready.action /\ ~dev'.returning /\ dev'.result = "pending"
        /\ ~dev'.cancelled /\ dev'.report = "none" /\ dev'.enroll_stage = 0
        /\ dev'.credited = ready.credited /\ dev'.warnings = ready.warnings
        /\ ~dev'.active /\ dev'.state = "activating"
    BY <1>1, <1>3, <1>6, <1>7, <1>10, <2>2, <2>3, <2>5, BegunShakes
  <2> QED
    BY <1>1, <1>7, <2>3, <2>6
<1> QED
  BY <1>8, <1>9, <1>10

-----------------------------------------------------------------------------
(* The invariant and the steps. *)

CInv == IInv /\ PInv(dev) /\ dev.action \in ActionKinds \cup {"none"}

LEMMA InitCInv == Init => CInv
<1> SUFFICES ASSUME Init PROVE CInv
  OBVIOUS
<1>1. IInv
  BY InitIInv
<1>2. dev \in DeviceType
  BY <1>1 DEF IInv, Inv
<1>3. Quiescent
  BY DEF Init, Quiescent
<1>4. Shakes(dev) = 0 /\ Talks(dev) = 0 /\ Writes(dev) = 0
      /\ \A x \in Transfers : ~(dev.flight[x] > 0)
  BY <1>2, <1>3, QuiescentCounts DEF Quiescent
<1>5. Talks(dev) + Writes(dev) = 0 /\ Talks(dev) <= 1
  BY <1>4
<1>6. Sane(dev)
  BY <1>4, <1>5 DEF Init, Sane, Tagged
<1>7. Clean(dev)
  BY <1>5 DEF Init, Clean, BusErrors
<1>8. Resting(dev)
  BY <1>4 DEF Init, Resting, Leftover, Running
<1> QED
  BY <1>1, <1>6, <1>7, <1>8 DEF CInv, PInv, Phase, Init

LEMMA CallbackFine ==
  ASSUME IInv, PInv(dev), Callback \/ Interrupt, ~TaskReturn
  PROVE  Fine(dev, dev', finger)
  BY TransferFine, InterruptFine, WakeRetryTimeoutFine, MinutiaeDetectedFine, CancelInIdleFine
     DEF Callback

\* Every step is of one of these kinds.
LEMMA StepKinds ==
  ASSUME IInv, PInv(dev), ~EagerClient, [Next]_vars
  PROVE  \/ Fine(dev, dev', finger)
         \/ TaskReturn
         \/ Open \/ Close
         \/ \E a \in ActionKinds : StartAction(a)
         \/ Cancel
         \/ Finger
         \/ dev' = dev
  BY CallbackFine DEF Next, Client, vars

LEMMA NextCInv ==
  ASSUME ~EagerClient, CInv, [Next]_vars
  PROVE  CInv'
<1>1. IInv /\ PInv(dev) /\ dev.action \in ActionKinds \cup {"none"}
  BY DEF CInv
<1>2. IInv'
  BY <1>1, NextIInv
<1>3. PInv(dev') /\ dev'.action \in ActionKinds \cup {"none"}
  <2>1. CASE Fine(dev, dev', finger)
    BY <1>1, <2>1 DEF Fine, Lawful
  <2>2. CASE TaskReturn
    BY <1>1, <2>2, TaskReturnPhase
  <2>3. CASE Open \/ Close
    BY <1>1, <2>3, OpenClosePhase
  <2>4. CASE \E a \in ActionKinds : StartAction(a)
    BY <1>1, <2>4, StartActionPhase
  <2>5. CASE Cancel
    BY <1>1, <2>5, CancelPhase
  <2>6. CASE Finger
    BY <1>1, <2>6, FingerPhase DEF SameTalk
  <2>7. CASE dev' = dev
    BY <1>1, <2>7
  <2> QED
    BY <1>1, <2>1, <2>2, <2>3, <2>4, <2>5, <2>6, <2>7, StepKinds
<1> QED
  BY <1>2, <1>3 DEF CInv

-----------------------------------------------------------------------------
(* What the invariant says of the properties. *)

LEMMA CountsAre ==
  /\ Activating = Shakes(dev) /\ Rearming = Rearms(dev)
  /\ Count("finger") = Fingers(dev) /\ Count("release") = Releases(dev)
  /\ Listening = Fingers(dev) + Releases(dev)
  /\ Count("captureRead") = Reads(dev)
  BY CountIsPending DEF Activating, Rearming, Listening, Shakes, Rearms, Fingers, Releases,
     Reads, Kinds

LEMMA MatchesState == CInv => ConversationMatchesState
<1> SUFFICES ASSUME CInv, ~dev.cancelled, dev.rejects = 0 PROVE
        /\ SingleConversation
        /\ dev.state \notin {"idle", "deactivating"}
        /\ dev.state = "activating" => Activating = 1
        /\ dev.state = "awaitFingerOn" => Rearming + Count("finger") = 1
        /\ dev.state = "capture" => Count("captureRead") = 1
        /\ dev.state = "awaitFingerOff" => Count("release") = 1
  BY DEF ConversationMatchesState
<1>1. dev \in DeviceType /\ PInv(dev)
  BY DEF CInv, IInv, Inv
<1> DEFINE A == Shakes(dev)
           B == Rearms(dev)
           C == Fingers(dev)
           D == Releases(dev)
           E == Reads(dev)
<1>2. A \in Nat /\ B \in Nat /\ C \in Nat /\ D \in Nat /\ E \in Nat
  BY <1>1, CountsType
<1>3. /\ Activating = A /\ Rearming = B /\ Count("finger") = C /\ Count("release") = D
      /\ Listening = C + D /\ Count("captureRead") = E
  BY CountsAre
<1>4. A + B + C + D + E <= 1
  BY <1>1 DEF PInv, Clean, Talks
<1>5. dev.state = "activating" => A = 1
  BY <1>1 DEF PInv, Phase, Resting, Detecting, Shaking, Serving, Agrees, ServingStates
<1>6. dev.state \in ServingStates => Attended(dev)
  BY <1>1 DEF PInv, Phase, Resting, Detecting, Shaking, Serving, ServingStates
<1>7. dev.state = "awaitFingerOn" => B + C + D = 1 /\ D = 0
  <2>1. ~(dev.rejects > 0)
    OBVIOUS
  <2>2. dev.state = "awaitFingerOn" => Listening1(dev)
    BY <1>6 DEF Attended, ServingStates
  <2> QED
    BY <2>1, <2>2 DEF Listening1
<1>8. dev.state = "capture" => E = 1
  BY <1>6 DEF Attended, ServingStates
<1>9. dev.state = "awaitFingerOff" => D = 1
  BY <1>6 DEF Attended, ServingStates
<1>10. dev.state \notin {"idle", "deactivating"}
  BY <1>1 DEF PInv, Phase, Resting, Detecting, Shaking, Serving, Agrees, ServingStates
<1> HIDE DEF A, B, C, D, E
<1>11. SingleConversation
  BY <1>2, <1>3, <1>4 DEF SingleConversation
<1>12. dev.state = "awaitFingerOn" => B + C = 1
  BY <1>2, <1>7
<1> QED
  BY <1>3, <1>5, <1>8, <1>9, <1>10, <1>11, <1>12

LEMMA Stranded == CInv => NeverStranded
<1> SUFFICES ASSUME CInv, ~dev.cancel_idle PROVE
       /\ dev.state = "activating" => Activating > 0
       /\ dev.state = "awaitFingerOn" => Rearming + Listening + Count("captureRead") > 0
       /\ dev.state = "capture" => Count("captureRead") > 0
       /\ dev.state = "awaitFingerOff" => Listening > 0
  BY DEF NeverStranded
<1>1. dev \in DeviceType /\ PInv(dev)
  BY DEF CInv, IInv, Inv
<1> DEFINE A == Shakes(dev)
           B == Rearms(dev)
           C == Fingers(dev)
           D == Releases(dev)
           E == Reads(dev)
<1>2. A \in Nat /\ B \in Nat /\ C \in Nat /\ D \in Nat /\ E \in Nat
  BY <1>1, CountsType
<1>3. /\ Activating = A /\ Rearming = B /\ Listening = C + D /\ Count("captureRead") = E
  BY CountsAre
<1>4. dev.state = "activating" => A = 1
  BY <1>1 DEF PInv, Phase, Resting, Detecting, Shaking, Serving, Agrees, ServingStates
<1>5. dev.state \in ServingStates => Attended(dev)
  BY <1>1 DEF PInv, Phase, Resting, Detecting, Shaking, Serving, Agrees, ServingStates
<1>6. dev.state = "awaitFingerOn" => B + C + D = 1 \/ B + D = 2
  BY <1>5 DEF Attended, ServingStates, Listening1
<1>7. dev.state = "capture" => E = 1
  BY <1>5 DEF Attended, ServingStates
<1>8. dev.state = "awaitFingerOff" => D = 1
  BY <1>5 DEF Attended, ServingStates
<1> HIDE DEF A, B, C, D, E
<1>9. dev.state = "awaitFingerOn" => B + (C + D) + E > 0
  BY <1>2, <1>6
<1>10. dev.state = "awaitFingerOff" => C + D > 0
  BY <1>2, <1>8
<1> QED
  BY <1>2, <1>3, <1>4, <1>7, <1>9, <1>10

LEMMA RestsInactive == CInv => IdleMeansInactive
  BY DEF CInv, PInv, Phase, Resting, Detecting, Shaking, Serving, Agrees, Running,
     IdleMeansInactive

LEMMA ErrorsExplained == CInv => FaultsExplainErrors
  BY DEF CInv, PInv, Clean, FaultsExplainErrors

-----------------------------------------------------------------------------
(* What the invariant says of the steps. *)

LEMMA FingerOffIsDelayed ==
  ASSUME ~EagerClient, CInv, [Next]_vars,
         dev.state \in {"capture", "awaitFingerOff"}, dev'.state = "awaitFingerOn"
  PROVE  ~finger \/ dev'.rejects > 0
<1>1. IInv /\ PInv(dev) /\ dev.state # "awaitFingerOn"
  BY DEF CInv
<1>2. CASE Fine(dev, dev', finger)
  BY <1>2 DEF Fine, Lawful
<1>3. CASE TaskReturn
  BY <1>1, <1>3, TaskReturnPhase
<1>4. CASE Open \/ Close
  BY <1>1, <1>4, OpenClosePhase DEF SameTalk, SameStatus
<1>5. CASE \E a \in ActionKinds : StartAction(a)
  BY <1>1, <1>5, StartActionPhase
<1>6. CASE Cancel
  BY <1>1, <1>6, CancelPhase
<1>7. CASE Finger
  BY <1>1, <1>7, FingerPhase DEF SameTalk, SameStatus
<1>8. CASE dev' = dev
  BY <1>1, <1>8
<1> QED
  BY <1>1, <1>2, <1>3, <1>4, <1>5, <1>6, <1>7, <1>8, StepKinds

LEMMA HandshakeIsFull ==
  ASSUME ~EagerClient, CInv, [Next]_vars, ~dev.active, dev'.active
  PROVE  dev'.exchanges = 7
<1>1. IInv /\ PInv(dev)
  BY DEF CInv
<1>2. CASE Fine(dev, dev', finger)
  BY <1>2 DEF Fine, Lawful
<1>3. CASE TaskReturn
  BY <1>1, <1>3, TaskReturnPhase
<1>4. CASE Open \/ Close
  BY <1>1, <1>4, OpenClosePhase DEF SameTalk, SameStatus
<1>5. CASE \E a \in ActionKinds : StartAction(a)
  BY <1>1, <1>5, StartActionPhase
<1>6. CASE Cancel
  BY <1>1, <1>6, CancelPhase
<1>7. CASE Finger
  BY <1>1, <1>7, FingerPhase DEF SameTalk, SameStatus
<1>8. CASE dev' = dev
  BY <1>8
<1> QED
  BY <1>1, <1>2, <1>3, <1>4, <1>5, <1>6, <1>7, <1>8, StepKinds

LEMMA RetriedBeforeNoDevice ==
  ASSUME ~EagerClient, CInv, [Next]_vars, Completes, ~dev.active, dev.state = "activating",
         dev'.result = "noDevice"
  PROVE  dev.controls = 2
<1>1. IInv /\ PInv(dev) /\ ~dev.returning /\ dev'.returning
  BY DEF CInv, Completes
<1>2. CASE Fine(dev, dev', finger)
  <2>1. Running(dev)
    BY <1>1 DEF PInv, Phase, Resting, Detecting, Shaking, Serving, Agrees, ServingStates
  <2> QED
    BY <1>1, <1>2, <2>1 DEF Fine, Lawful, Outcome
<1>3. CASE TaskReturn
  BY <1>1, <1>3, TaskReturnPhase
<1>4. CASE Open \/ Close
  BY <1>1, <1>4, OpenClosePhase DEF SameTalk, SameStatus
<1>5. CASE \E a \in ActionKinds : StartAction(a)
  BY <1>1, <1>5, StartActionPhase
<1>6. CASE Cancel
  BY <1>1, <1>6, CancelPhase
<1>7. CASE Finger
  BY <1>1, <1>7, FingerPhase DEF SameTalk, SameStatus
<1>8. CASE dev' = dev
  BY <1>1, <1>8
<1> QED
  BY <1>1, <1>2, <1>3, <1>4, <1>5, <1>6, <1>7, <1>8, StepKinds

LEMMA WarnsOnlyExcused ==
  ASSUME ~EagerClient, Faults = {}, CInv, [Next]_vars
  PROVE  \/ dev'.warnings \subseteq dev.warnings
         \/ dev.cancelled \/ Doomed \/ dev'.rejects > 0
<1>1. IInv /\ PInv(dev)
  BY DEF CInv
<1>2. CASE Fine(dev, dev', finger)
  BY <1>2 DEF Fine, Quiet, Doomed
<1>3. CASE TaskReturn
  BY <1>1, <1>3, TaskReturnPhase
<1>4. CASE Open \/ Close
  BY <1>1, <1>4, OpenClosePhase
<1>5. CASE \E a \in ActionKinds : StartAction(a)
  BY <1>1, <1>5, StartActionPhase
<1>6. CASE Cancel
  BY <1>1, <1>6, CancelPhase
<1>7. CASE Finger
  BY <1>1, <1>7, FingerPhase
<1>8. CASE dev' = dev
  BY <1>8
<1> QED
  BY <1>1, <1>2, <1>3, <1>4, <1>5, <1>6, <1>7, <1>8, StepKinds

-----------------------------------------------------------------------------
(* The theorems. *)

\* With a patient client the device is always in one of the four phases.
THEOREM PatientInvariance == ASSUME ~EagerClient PROVE Spec => []CInv
<1>1. CInv /\ [Next]_vars => CInv'
  BY NextCInv
<1> QED
  BY <1>1, InitCInv, PTL DEF Spec

\* While an action whose images all gave a print is not cancelled, the driver
\* holds exactly the conversation its state calls for.
THEOREM OneConversationAtATime ==
  ASSUME ~EagerClient PROVE Spec => []ConversationMatchesState
  BY PatientInvariance, MatchesState, PTL

\* No active device waits for nothing.
THEOREM NeverLeftWaiting == ASSUME ~EagerClient PROVE Spec => []NeverStranded
  BY PatientInvariance, Stranded, PTL

\* Between two actions the device is inactive and remembers no error.
THEOREM InactiveBetweenActions == ASSUME ~EagerClient PROVE Spec => []IdleMeansInactive
  BY PatientInvariance, RestsInactive, PTL

\* A bus error the client sees is one the bus had.
THEOREM ErrorsAreFaults == ASSUME ~EagerClient PROVE Spec => []FaultsExplainErrors
  BY PatientInvariance, ErrorsExplained, PTL

\* The next touch is awaited only once the finger has left.
THEOREM FingerOffDelayed == ASSUME ~EagerClient PROVE Spec => DelayedFingerOff
<1>1. CInv /\ [Next]_vars => [AwaitsNextTouch => ~finger \/ dev'.rejects > 0]_vars
  BY FingerOffIsDelayed DEF AwaitsNextTouch
<1> QED
  BY <1>1, PatientInvariance, PTL DEF Spec, DelayedFingerOff

\* A device is active only after all seven exchanges of the handshake.
THEOREM ActiveMeansGreeted == ASSUME ~EagerClient PROVE Spec => ActiveAfterFullHandshake
<1>1. CInv /\ [Next]_vars => [~dev.active /\ dev'.active => dev'.exchanges = 7]_vars
  BY HandshakeIsFull
<1> QED
  BY <1>1, PatientInvariance, PTL DEF Spec, ActiveAfterFullHandshake

\* An activation fails with NO_DEVICE only at its second attempt.
THEOREM DisconnectRetriedOnce == ASSUME ~EagerClient PROVE Spec => NoDeviceRetriedFirst
<1>1. CInv /\ [Next]_vars =>
        [Completes /\ ~dev.active /\ dev.state = "activating" /\ dev'.result = "noDevice"
           => dev.controls = 2]_vars
  BY RetriedBeforeNoDevice
<1> QED
  BY <1>1, PatientInvariance, PTL DEF Spec, NoDeviceRetriedFirst

\* On a bus without faults the framework has nothing to warn of unless an action
\* is cancelled or an image gave no print.
THEOREM NothingToWarnOf ==
  ASSUME ~EagerClient, Faults = {} PROVE Spec => NoFrameworkWarnings
<1>1. CInv /\ [Next]_vars =>
        [\/ dev'.warnings \subseteq dev.warnings
         \/ dev.cancelled \/ Doomed \/ dev'.rejects > 0]_vars
  BY WarnsOnlyExcused
<1> QED
  BY <1>1, PatientInvariance, PTL DEF Spec, NoFrameworkWarnings

-----------------------------------------------------------------------------
(* The contract.                                                           *)

LEMMA InitContract == Init => Promise!Init
  BY DEF Init, Promise!Init, NoAction

LEMMA StartContract ==
  ASSUME ~EagerClient, CInv, NEW a \in ActionKinds, StartAction(a)
  PROVE  Promise!Next
<1>1. IInv /\ PInv(dev)
  BY DEF CInv
<1>2. /\ dev.action = "none" /\ dev'.action = a /\ a # "none"
      /\ ~dev'.cancelled /\ ~dev'.credited
      /\ \/ dev'.returning /\ dev'.result = "wrongType"
         \/ /\ ~dev'.returning /\ dev'.result = "pending"
            /\ dev'.report = "none" /\ dev'.enroll_stage = 0
  BY <1>1, StartActionPhase, ConstantsAssumption DEF ImageActions
<1>3. dev'.cancelled \in BOOLEAN /\ dev'.credited \in BOOLEAN
  BY <1>1, NextIInv DEF IInv, Inv, DeviceType, Next, Client
<1>4. CASE dev'.returning /\ dev'.result = "wrongType"
  <2>1. Promise!Refuse(a)
    BY <1>2, <1>3, <1>4 DEF Promise!Refuse, NoAction
  <2> QED
    BY <2>1 DEF Promise!Next
<1>5. CASE ~dev'.returning /\ dev'.result = "pending"
           /\ dev'.report = "none" /\ dev'.enroll_stage = 0
  <2>1. Promise!Start(a)
    BY <1>2, <1>3, <1>5 DEF Promise!Start, NoAction
  <2> QED
    BY <2>1 DEF Promise!Next
<1> QED
  BY <1>2, <1>4, <1>5

LEMMA CancelContract ==
  ASSUME CInv, Cancel
  PROVE  Promise!Next
<1>1. IInv /\ PInv(dev)
  BY DEF CInv
<1>2. /\ Running(dev) /\ dev'.cancelled
      /\ dev'.action = dev.action /\ dev'.returning = dev.returning
      /\ dev'.result = dev.result /\ dev'.enroll_stage = dev.enroll_stage
      /\ dev'.report = dev.report /\ dev'.credited = dev.credited
  BY <1>1, CancelPhase
<1>3. dev'.cancelled = TRUE
  BY <1>2, <1>1, NextIInv DEF IInv, Inv, DeviceType, Next, Client
<1>4. Promise!Ask
  BY <1>2, <1>3 DEF Promise!Ask, NoAction, Running
<1> QED
  BY <1>4 DEF Promise!Next

LEMMA FingerContract ==
  ASSUME CInv, Finger
  PROVE  Promise!Next \/ UNCHANGED Promise!contractVars
<1>1. CASE FingerUp
  BY <1>1 DEF FingerUp, Promise!contractVars, NoAction
<1>2. CASE FingerDown
  <2>1. dev \in DeviceType /\ dev' = [dev EXCEPT !.credited = FALSE]
    BY <1>2 DEF CInv, IInv, Inv, FingerDown
  <2>2. /\ dev'.action = dev.action /\ dev'.returning = dev.returning
        /\ dev'.result = dev.result /\ dev'.enroll_stage = dev.enroll_stage
        /\ dev'.report = dev.report /\ dev'.credited = FALSE
        /\ dev'.cancelled = dev.cancelled
    BY <2>1 DEF DeviceType
  <2>3. Promise!Touch
    BY <2>2 DEF Promise!Touch, NoAction
  <2> QED
    BY <2>3 DEF Promise!Next
<1> QED
  BY <1>1, <1>2 DEF Finger

LEMMA ReturnContract ==
  ASSUME CInv, TaskReturn
  PROVE  Promise!Next
<1>1. IInv /\ PInv(dev)
  BY DEF CInv
<1>2. dev.action # "none" /\ dev.returning /\ dev'.action = "none" /\ PInv(dev')
  BY <1>1, TaskReturnPhase
<1>3. dev'.cancelled = FALSE /\ dev'.credited \in BOOLEAN
  <2>1. ~dev'.cancelled
    BY <1>2 DEF PInv, Sane
  <2>2. dev'.cancelled \in BOOLEAN /\ dev'.credited \in BOOLEAN
    BY <1>1, NextIInv DEF IInv, Inv, DeviceType, Next, Callback
  <2> QED
    BY <2>1, <2>2
<1>4. Promise!Return
  BY <1>2, <1>3 DEF Promise!Return, NoAction
<1> QED
  BY <1>4 DEF Promise!Next


\* The mapped progress and freshness, and a mapped action's full progress.
Seen ==
    << IF NoAction \/ dev.result = "wrongType" THEN 0
       ELSE IF dev.action = "enroll" THEN dev.enroll_stage
       ELSE IF dev.report = "result" THEN 1 ELSE 0,
       NoAction \/ ~dev.credited >>

Completed ==
    (IF NoAction' \/ dev'.result = "wrongType" THEN 0
     ELSE IF dev'.action = "enroll" THEN dev'.enroll_stage
     ELSE IF dev'.report = "result" THEN 1 ELSE 0)
    = [k \in ActionKinds |->
         CASE k = "enroll" -> NrEnrollStages [] k = "capture" -> 0 [] OTHER -> 1][dev.action]

\* A callback of a running action makes the progress it owes and may finish it
\* with an outcome it owes; otherwise the client sees nothing.
LEMMA FineContract ==
  ASSUME CInv, CInv', Sound(dev, dev'), Fine(dev, dev', finger)
  PROVE  Promise!Next \/ UNCHANGED Promise!contractVars
<1>1. /\ Sane(dev) /\ Sane(dev') /\ Lawful(dev, dev', finger)
      /\ dev.action \in ActionKinds \cup {"none"}
      /\ dev'.action = dev.action /\ dev'.cancelled = dev.cancelled
  BY DEF CInv, PInv, Fine, Lawful
<1>2. /\ dev.enroll_stage \in Nat /\ dev'.enroll_stage \in Nat
      /\ dev.credited \in BOOLEAN /\ dev'.credited \in BOOLEAN
      /\ dev.cancelled \in BOOLEAN
      /\ dev.returning \in BOOLEAN /\ dev'.returning \in BOOLEAN
  BY DEF CInv, IInv, Inv, DeviceType
<1>3. CASE ~Running(dev)
  <2>1. /\ dev'.returning = dev.returning /\ dev'.result = dev.result
        /\ dev'.enroll_stage = dev.enroll_stage /\ dev'.credited = dev.credited
        /\ dev'.report = dev.report
    BY <1>1, <1>3 DEF Lawful
  <2> QED
    BY <1>1, <2>1 DEF Promise!contractVars, NoAction
<1>4. CASE Running(dev)
  <2>1. /\ dev.action \in ActionKinds /\ dev.action # "none" /\ ~dev.returning
        /\ dev.result = "pending" /\ ~NoAction /\ ~NoAction'
        /\ dev.action \in {"enroll", "verify", "identify", "capture"}
        /\ dev.action = "capture" => dev.report = "none" /\ dev'.report = "none"
    BY <1>1, <1>4, ConstantsAssumption DEF Running, Sane, NoAction, ImageActions
  <2>2. Advances(dev, dev') /\ Outcome(dev, dev')
    BY <1>1, <1>4 DEF Lawful
  <2>3. dev'.result # "wrongType"
    BY <1>1, <2>1, <2>2 DEF Outcome, Sane
  <2>4. Promise!Advance \/ UNCHANGED Seen
    <3>1. CASE /\ dev'.enroll_stage = dev.enroll_stage /\ dev'.credited = dev.credited
               /\ dev'.report = "result" <=> dev.report = "result"
      BY <1>1, <2>1, <2>3, <3>1 DEF Seen
    <3>2. CASE /\ dev.action = "enroll" /\ dev.enroll_stage < NrEnrollStages
               /\ ~dev.credited /\ dev'.credited /\ dev'.enroll_stage = dev.enroll_stage + 1
      BY <1>1, <1>2, <2>1, <2>3, <3>2 DEF Promise!Advance
    <3>3. CASE /\ dev.action \in {"verify", "identify"}
               /\ dev.report # "result" /\ dev'.report = "result"
               /\ dev'.enroll_stage = dev.enroll_stage /\ dev'.credited = dev.credited
      BY <1>1, <1>2, <2>1, <2>3, <3>3 DEF Promise!Advance
    <3> QED
      BY <2>2, <3>1, <3>2, <3>3 DEF Advances
  <2>5. CASE ~dev'.returning
    <3>1. dev'.result = "pending"
      BY <1>1, <2>1, <2>5 DEF Sane
    <3>2. CASE Promise!Advance
      <4>1. Promise!Step
        BY <1>1, <2>1, <2>5, <3>1, <3>2 DEF Promise!Step
      <4> QED
        BY <4>1 DEF Promise!Next
    <3>3. CASE UNCHANGED Seen
      BY <1>1, <2>1, <2>5, <3>1, <3>3 DEF Promise!contractVars, Seen
    <3> QED
      BY <2>4, <3>2, <3>3
  <2>6. CASE dev'.returning
    <3> DEFINE o == IF dev'.result \in {"ok", "cancelled"} THEN dev'.result ELSE "error"
    <3>1. dev'.result # "pending" /\ (dev'.result = "cancelled" => dev.cancelled)
      BY <2>2, <2>6 DEF Outcome
    <3>2. o = "cancelled" => dev.cancelled = TRUE
      BY <1>2, <3>1
    <3>3. dev'.result = "ok" => Completed
      <4>1. dev'.result = "ok" /\ dev.action = "enroll" => dev'.enroll_stage = NrEnrollStages
        BY <2>1, <2>6 DEF Sound
      <4>2. dev'.result = "ok" /\ dev.action \in {"verify", "identify"}
              => dev'.report = "result"
        BY <2>2, <2>6 DEF Outcome
      <4> QED
        BY <1>1, <2>1, <2>3, <4>1, <4>2 DEF Completed
    <3>4. o \in Promise!Outcomes
      BY DEF Promise!Outcomes
    <3>5. Promise!Finish(o)
      BY <1>1, <2>1, <2>4, <2>6, <3>1, <3>2, <3>3 DEF Promise!Finish, Seen, Completed
    <3> QED
      BY <3>4, <3>5 DEF Promise!Next
  <2> QED
    BY <1>2, <2>5, <2>6
<1> QED
  BY <1>3, <1>4

\* Every step of the driver is a step of the contract or one the client does not
\* see.
LEMMA NextContract ==
  ASSUME ~EagerClient, CInv, [Next]_vars
  PROVE  [Promise!Next]_Promise!contractVars
<1>1. IInv /\ PInv(dev) /\ CInv' /\ Sound(dev, dev')
  BY NextCInv, NextIInv DEF CInv
<1>2. CASE Fine(dev, dev', finger)
  BY <1>1, <1>2, FineContract
<1>3. CASE TaskReturn
  BY <1>3, ReturnContract
<1>4. CASE Open \/ Close
  <2>1. dev.action = "none" /\ dev'.action = "none" /\ dev'.cancelled = dev.cancelled
    BY <1>1, <1>4, OpenClosePhase DEF SameTalk
  <2> QED
    BY <2>1 DEF Promise!contractVars, NoAction
<1>5. CASE \E a \in ActionKinds : StartAction(a)
  BY <1>5, StartContract
<1>6. CASE Cancel
  BY <1>6, CancelContract
<1>7. CASE Finger
  BY <1>7, FingerContract
<1>8. CASE dev' = dev
  BY <1>8 DEF Promise!contractVars, NoAction
<1> QED
  BY <1>1, <1>2, <1>3, <1>4, <1>5, <1>6, <1>7, <1>8, StepKinds

\* What a patient client sees of the driver and its framework is the contract of
\* ActionContract: progress by fresh touches, one outcome, success only with the
\* progress the action needs, "cancelled" only when asked for.
THEOREM DriverKeepsContract == ASSUME ~EagerClient PROVE Spec => ImplementsContract
<1>1. CInv /\ [Next]_vars => [Promise!Next]_Promise!contractVars
  BY NextContract
<1> QED
  BY <1>1, InitContract, PatientInvariance, PTL DEF Spec, ImplementsContract, Promise!Contract
=============================================================================
