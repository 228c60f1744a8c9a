--------------------------- MODULE Syna0082Proofs ---------------------------
(***************************************************************************)
(* Proofs about Syna0082, for every value of the constants: any set of     *)
(* actions, any number of stages and sessions, every bus fault, eager or   *)
(* patient clients, with and without cancellation.                         *)
(*                                                                         *)
(* The argument follows the calls.  Carries(s, t) says what every          *)
(* synchronous call of the framework and the driver does to a device       *)
(* record s, except for the few that count a stage or enter CAPTURE; one   *)
(* lemma per operator shows it, bottom up.  The inductive invariant then   *)
(* needs one short step per callback.                                      *)
(***************************************************************************)
EXTENDS Syna0082Properties, TLAPS

Results == Errors \cup {"ok", "unreported", "pending"}

\* Completing the action now cannot pass off an unfinished enrollment as "ok".
Excused(s) ==
    \/ s.returning
    \/ s.action # "enroll"
    \/ s.cancelled
    \/ s.action_error # "none"
    \/ s.enroll_stage = NrEnrollStages

Carries(s, t) ==
    /\ t \in DeviceType /\ ~t.deactivating
    /\ t.action = s.action /\ t.cancelled = s.cancelled
    /\ t.credited = s.credited /\ t.awaiting_release = s.awaiting_release
    /\ t.enroll_stage = s.enroll_stage
    /\ t.state = "capture" => s.state = "capture"
    /\ s.returning => t.returning
    /\ t.cancel_idle => s.cancel_idle /\ (t.returning => s.returning)
    /\ Excused(s) => Excused(t)
    /\ ~s.returning /\ t.returning /\ s.action = "enroll" /\ t.result = "ok"
         => s.enroll_stage = NrEnrollStages
    /\ s.returning => t.result = s.result

\* A device record between two calls of a callback.
Settled(s) == s \in DeviceType /\ ~s.deactivating

\* A call that does not complete the action either.
Keeps(s, t) == Carries(s, t) /\ t.returning = s.returning

LEMMA CarriesRefl == ASSUME NEW s, Settled(s) PROVE Carries(s, s)
  BY DEF Settled, Carries

LEMMA CarriesTrans ==
  ASSUME NEW s, NEW t, NEW u, Carries(s, t), Carries(t, u)
  PROVE  Carries(s, u)
  BY DEF Carries, Excused

LEMMA KeepsTrans ==
  ASSUME NEW s, NEW t, NEW u, Keeps(s, t), Keeps(t, u)
  PROVE  Keeps(s, u)
  BY CarriesTrans DEF Keeps

LEMMA CarriesSettled == ASSUME NEW s, NEW t, Carries(s, t) PROVE Settled(t)
  BY DEF Carries, Settled

-----------------------------------------------------------------------------
(* Transfers. *)

LEMMA SubmitKeeps ==
  ASSUME NEW s, Settled(s), NEW kind \in Kinds
  PROVE  Keeps(s, Submit(s, kind))
<1>1. <<kind, SubmitTag(s)>> \in Transfers
  BY DEF Transfers, Tags, SubmitTag
<1>2. Submit(s, kind) \in DeviceType
  BY <1>1 DEF Settled, Submit, DeviceType
<1> QED
  BY <1>2 DEF Settled, Keeps, Carries, Excused, Submit, DeviceType

LEMMA ReapKeeps ==
  ASSUME NEW s, Settled(s), NEW kind \in Kinds, NEW tag \in Tags,
         s.flight[<<kind, tag>>] > 0
  PROVE  Keeps(s, Reap(s, kind, tag))
<1>1. <<kind, tag>> \in Transfers
  BY DEF Transfers
<1>2. Reap(s, kind, tag) \in DeviceType
  BY <1>1 DEF Settled, Reap, DeviceType
<1> QED
  BY <1>2 DEF Settled, Keeps, Carries, Excused, Reap, DeviceType

-----------------------------------------------------------------------------
(* Completion of an action. *)

LEMMA WarnCarries ==
  ASSUME NEW s, Settled(s), NEW w \in Warnings
  PROVE  Carries(s, Warn(s, w))
<1>1. Warn(s, w) \in DeviceType
  BY DEF Settled, Warn, DeviceType
<1> QED
  BY <1>1 DEF Settled, Carries, Excused, Warn, DeviceType

LEMMA CompleteCarries ==
  ASSUME NEW s, Settled(s), NEW r \in Results,
         r = "ok" /\ s.action = "enroll" /\ ~s.returning => s.enroll_stage = NrEnrollStages
  PROVE  /\ Carries(s, Complete(s, r))
         /\ Excused(Complete(s, r))
<1>1. CASE s.action = "none" \/ s.returning
  <2>1. Complete(s, r) = Warn(s, "doubleCompletion")
    BY <1>1 DEF Complete
  <2>2. Carries(s, Complete(s, r))
    BY <2>1, WarnCarries DEF Warnings
  <2>3. Excused(s)
    BY <1>1 DEF Excused
  <2> QED
    BY <2>2, <2>3 DEF Carries
<1>2. CASE ~(s.action = "none" \/ s.returning)
  <2> DEFINE t == [s EXCEPT !.returning = TRUE, !.result = r, !.cancel_idle = FALSE]
  <2>1. Complete(s, r) = t
    BY <1>2 DEF Complete
  <2>2. t \in DeviceType
    BY DEF Settled, DeviceType, Results
  <2>3. /\ t.returning /\ t.result = r /\ ~t.cancel_idle /\ ~t.deactivating
        /\ t.action = s.action /\ t.cancelled = s.cancelled
        /\ t.credited = s.credited /\ t.awaiting_release = s.awaiting_release
        /\ t.enroll_stage = s.enroll_stage /\ t.state = s.state
    BY DEF Settled, DeviceType
  <2> QED
    BY <1>2, <2>1, <2>2, <2>3 DEF Carries, Excused
<1> QED
  BY <1>1, <1>2

LEMMA ActionResultType ==
  ASSUME NEW s \in DeviceType, NEW e \in Errors
  PROVE  /\ ActionResult(s, e) \in Results
         /\ ActionResult(s, e) = "ok" => e = "none" /\ ~s.cancelled
<1>1. CASE e # "none"
  BY <1>1 DEF ActionResult, Results, Errors, BusErrors
<1>2. CASE e = "none" /\ s.cancelled
  BY <1>2 DEF ActionResult, Results, Errors
<1>3. CASE e = "none" /\ ~s.cancelled
  <2>1. ActionResult(s, e) \in {"retry", "unreported", "ok"}
    BY <1>3 DEF ActionResult
  <2> QED
    BY <1>3, <2>1 DEF Results, Errors
<1> QED
  BY <1>1, <1>2, <1>3

LEMMA FirstErrorType ==
  ASSUME NEW s \in DeviceType, NEW e \in Errors
  PROVE  /\ FirstError(s, e) \in Errors
         /\ FirstError(s, e) = "none" => e = "none" /\ s.action_error = "none"
  BY DEF FirstError, DeviceType

LEMMA MaybeCompleteActionCarries ==
  ASSUME NEW s, Settled(s), NEW e \in Errors, e # "none" \/ Excused(s)
  PROVE  /\ Carries(s, MaybeCompleteAction(s, e))
         /\ Excused(MaybeCompleteAction(s, e))
<1> DEFINE err == FirstError(s, e)
<1>1. err \in Errors /\ (err = "none" => e = "none" /\ s.action_error = "none")
  BY FirstErrorType DEF Settled
<1>2. CASE s.state # "inactive" \/ s.minutiae_scan_active
  <2> DEFINE t == [s EXCEPT !.action_error = err]
  <2>1. MaybeCompleteAction(s, e) = t
    BY <1>2 DEF MaybeCompleteAction
  <2>2. t \in DeviceType
    BY <1>1 DEF Settled, DeviceType
  <2>3. /\ t.returning = s.returning /\ t.result = s.result
        /\ t.cancel_idle = s.cancel_idle /\ ~t.deactivating
        /\ t.action = s.action /\ t.cancelled = s.cancelled
        /\ t.credited = s.credited /\ t.awaiting_release = s.awaiting_release
        /\ t.enroll_stage = s.enroll_stage /\ t.state = s.state
        /\ t.action_error = err
    BY DEF Settled, DeviceType
  <2> QED
    BY <1>1, <2>1, <2>2, <2>3 DEF Carries, Excused
<1>3. CASE ~(s.state # "inactive" \/ s.minutiae_scan_active)
  <2> DEFINE t == [s EXCEPT !.action_error = "none"]
             r == ActionResult(s, err)
  <2>1. MaybeCompleteAction(s, e) = Complete(t, r)
    BY <1>3 DEF MaybeCompleteAction
  <2>2. t \in DeviceType
    BY DEF Settled, DeviceType, Errors
  <2>3. /\ t.returning = s.returning /\ t.result = s.result
        /\ t.cancel_idle = s.cancel_idle /\ ~t.deactivating
        /\ t.action = s.action /\ t.cancelled = s.cancelled
        /\ t.credited = s.credited /\ t.awaiting_release = s.awaiting_release
        /\ t.enroll_stage = s.enroll_stage /\ t.state = s.state
    BY DEF Settled, DeviceType
  <2>4. r \in Results /\ (r = "ok" => err = "none" /\ ~s.cancelled)
    BY <1>1, ActionResultType DEF Settled
  <2>5. Settled(t)
    BY <2>2, <2>3 DEF Settled
  <2>6. r = "ok" /\ t.action = "enroll" /\ ~t.returning => t.enroll_stage = NrEnrollStages
    BY <1>1, <2>3, <2>4 DEF Excused
  <2>7. Carries(t, Complete(t, r)) /\ Excused(Complete(t, r))
    BY <2>4, <2>5, <2>6, CompleteCarries
  <2> QED
    BY <2>1, <2>3, <2>7 DEF Carries
<1> QED
  BY <1>2, <1>3

-----------------------------------------------------------------------------
(* Deactivation. *)

LEMMA DeactivateCompleteCarries ==
  ASSUME NEW s, Settled(s), Excused(s)
  PROVE  Carries(s, DeactivateComplete(s))
<1> DEFINE t == [s EXCEPT !.active = FALSE, !.state = "inactive"]
<1>1. t \in DeviceType
  BY DEF Settled, DeviceType, FwStates
<1>2. /\ t.returning = s.returning /\ t.result = s.result
      /\ t.cancel_idle = s.cancel_idle /\ ~t.deactivating
      /\ t.action = s.action /\ t.cancelled = s.cancelled
      /\ t.credited = s.credited /\ t.awaiting_release = s.awaiting_release
      /\ t.enroll_stage = s.enroll_stage /\ t.state = "inactive"
      /\ t.action_error = s.action_error
  BY DEF Settled, DeviceType
<1>3. Settled(t) /\ Carries(s, t)
  BY <1>1, <1>2 DEF Settled, Carries, Excused
<1>4. Excused(t)
  BY <1>3 DEF Carries
<1>5. Carries(t, MaybeCompleteAction(t, "none"))
  BY <1>3, <1>4, MaybeCompleteActionCarries DEF Errors
<1>6. Carries(s, MaybeCompleteAction(t, "none"))
  BY <1>3, <1>5, CarriesTrans
<1>7. Carries(s, Warn(s, "criticalCall"))
  BY WarnCarries DEF Warnings
<1> QED
  BY <1>6, <1>7 DEF DeactivateComplete

LEMMA DevDeactivateCarries ==
  ASSUME NEW s, Settled(s), Excused(s)
  PROVE  Carries(s, DevDeactivate(s))
<1> DEFINE t == [s EXCEPT !.deactivating = TRUE]
           u == [t EXCEPT !.deactivating = FALSE]
<1>1. t \in DeviceType /\ t.deactivating
  BY DEF Settled, DeviceType
<1>2. u = s
  BY DEF Settled, DeviceType
<1>3. DevDeactivate(s) = DeactivateComplete(s)
  BY <1>1, <1>2 DEF DevDeactivate, CompleteDeactivation
<1> QED
  BY <1>3, DeactivateCompleteCarries

LEMMA DeactivateCarries ==
  ASSUME NEW s, Settled(s), Excused(s), NEW cancelling \in BOOLEAN
  PROVE  Carries(s, Deactivate(s, cancelling))
<1>1. CASE ~s.active \/ s.state = "deactivating"
  <2>1. Deactivate(s, cancelling) = s
    BY <1>1 DEF Deactivate
  <2> QED
    BY <2>1, CarriesRefl
<1>2. CASE ~(~s.active \/ s.state = "deactivating")
  <2> DEFINE logged == IF ~cancelling /\ s.state # "idle" THEN Warn(s, "notIdle") ELSE s
             t == [logged EXCEPT !.state = "deactivating"]
  <2>1. Deactivate(s, cancelling) = DevDeactivate(t)
    BY <1>2 DEF Deactivate
  <2>2. Carries(s, logged)
    BY WarnCarries, CarriesRefl DEF Warnings
  <2>3. logged \in DeviceType /\ ~logged.deactivating
    BY <2>2 DEF Carries
  <2>4. t \in DeviceType
    BY <2>3 DEF DeviceType, FwStates
  <2> HIDE DEF logged
  <2>5. /\ t.returning = logged.returning /\ t.result = logged.result
        /\ t.cancel_idle = logged.cancel_idle /\ ~t.deactivating
        /\ t.action = logged.action /\ t.cancelled = logged.cancelled
        /\ t.credited = logged.credited /\ t.awaiting_release = logged.awaiting_release
        /\ t.enroll_stage = logged.enroll_stage /\ t.state = "deactivating"
        /\ t.action_error = logged.action_error
    BY <2>3 DEF DeviceType
  <2> HIDE DEF t
  <2>6. Carries(logged, t)
    BY <2>4, <2>5 DEF Carries, Excused
  <2>7. Carries(s, t)
    BY <2>2, <2>6, CarriesTrans
  <2>8. Settled(t) /\ Excused(t)
    BY <2>7 DEF Carries, Settled
  <2>9. Carries(t, DevDeactivate(t))
    BY <2>8, DevDeactivateCarries
  <2> QED
    BY <2>1, <2>7, <2>9, CarriesTrans
<1> QED
  BY <1>1, <1>2

-----------------------------------------------------------------------------
(* The framework's state machine and the driver calls it makes. *)

LEMMA StartInterruptKeeps ==
  ASSUME NEW s, Settled(s)
  PROVE  Keeps(s, StartInterrupt(s))
<1>1. StartInterrupt(s) = Submit(s, IF s.awaiting_release THEN "release" ELSE "finger")
  BY DEF StartInterrupt, Settled
<1> QED
  BY <1>1, SubmitKeeps DEF Kinds

LEMMA RearmSendStageKeeps ==
  ASSUME NEW s, Settled(s)
  PROVE  Keeps(s, RearmSendStage(s))
<1> DEFINE t == IF s.rearm_stage = 0 THEN s ELSE [s EXCEPT !.scan_02 = "enroll"]
<1>1. t \in DeviceType
  BY DEF Settled, DeviceType
<1>2. Keeps(s, t)
  BY <1>1 DEF Settled, Keeps, Carries, Excused, DeviceType
<1>3. Keeps(t, Submit(t, "rearmWrite"))
  BY <1>2, CarriesSettled, SubmitKeeps DEF Keeps, Kinds
<1> QED
  BY <1>2, <1>3, KeepsTrans DEF RearmSendStage

LEMMA DevChangeStateKeeps ==
  ASSUME NEW s, Settled(s), NEW state \in FwStates
  PROVE  Keeps(s, DevChangeState(s, state))
<1> DEFINE t == [s EXCEPT !.rearm_stage = 0]
<1>1. t \in DeviceType
  BY DEF Settled, DeviceType
<1>2. Keeps(s, t)
  BY <1>1 DEF Settled, Keeps, Carries, Excused, DeviceType
<1>3. Keeps(t, RearmSendStage(t))
  BY <1>2, CarriesSettled, RearmSendStageKeeps DEF Keeps
<1>4. Keeps(s, RearmSendStage(t))
  BY <1>2, <1>3, KeepsTrans
<1> QED
  BY <1>4, CarriesRefl, StartInterruptKeeps DEF DevChangeState, Keeps

LEMMA ChangeStateKeeps ==
  ASSUME NEW s, Settled(s), NEW state \in FwStates \ {"capture"}
  PROVE  /\ Keeps(s, ChangeState(s, state))
         /\ ChangeState(s, state).state # "capture"
<1> DEFINE t == [s EXCEPT !.state = state]
<1>1. t \in DeviceType
  BY DEF Settled, DeviceType
<1>2. Keeps(s, t) /\ t.state # "capture"
  BY <1>1 DEF Settled, Keeps, Carries, Excused, DeviceType
<1>3. Keeps(t, DevChangeState(t, state))
  BY <1>2, CarriesSettled, DevChangeStateKeeps DEF Keeps
<1>4. ChangeState(s, state) = DevChangeState(t, state)
  BY DEF ChangeState
<1>5. ChangeState(s, state).state # "capture"
  BY <1>2, <1>3, <1>4 DEF Keeps, Carries
<1> QED
  BY <1>2, <1>3, <1>4, <1>5, KeepsTrans

LEMMA EnrollMaybeAwaitFingerOnKeeps ==
  ASSUME NEW s, Settled(s)
  PROVE  Keeps(s, EnrollMaybeAwaitFingerOn(s))
<1> DEFINE t == [s EXCEPT !.enroll_await_on_pending = FALSE]
           u == [s EXCEPT !.enroll_await_on_pending = TRUE]
<1>1. t \in DeviceType /\ u \in DeviceType
  BY DEF Settled, DeviceType
<1>2. Keeps(s, t) /\ Keeps(s, u)
  BY <1>1 DEF Settled, Keeps, Carries, Excused, DeviceType
<1>3. Keeps(t, ChangeState(t, "awaitFingerOn"))
  BY <1>2, CarriesSettled, ChangeStateKeeps DEF Keeps, FwStates
<1>4. Keeps(s, ChangeState(t, "awaitFingerOn"))
  BY <1>2, <1>3, KeepsTrans
<1> QED
  BY <1>2, <1>4 DEF EnrollMaybeAwaitFingerOn

LEMMA ActivateCompleteCarries ==
  ASSUME NEW s, Settled(s), NEW e \in Errors
  PROVE  Carries(s, ActivateComplete(s, e))
<1>1. CASE s.active \/ s.action = "none"
  <2>1. ActivateComplete(s, e) = Warn(s, "criticalCall")
    BY <1>1 DEF ActivateComplete
  <2> QED
    BY <2>1, WarnCarries DEF Warnings
<1>2. CASE ~(s.active \/ s.action = "none") /\ e # "none"
  <2> DEFINE t == [s EXCEPT !.state = "inactive"]
  <2>1. ActivateComplete(s, e) = Complete(t, e)
    BY <1>2 DEF ActivateComplete
  <2>2. t \in DeviceType
    BY DEF Settled, DeviceType, FwStates
  <2>3. Carries(s, t)
    BY <2>2 DEF Settled, Carries, Excused, DeviceType
  <2>4. e \in Results /\ e # "ok"
    BY DEF Results, Errors, BusErrors
  <2>5. Carries(t, Complete(t, e))
    BY <2>3, <2>4, CarriesSettled, CompleteCarries
  <2> QED
    BY <2>1, <2>3, <2>5, CarriesTrans
<1>3. CASE ~(s.active \/ s.action = "none") /\ e = "none"
  <2> DEFINE t == [s EXCEPT !.active = TRUE]
             u == ChangeState(t, "idle")
  <2>1. ActivateComplete(s, e) = ChangeState(u, "awaitFingerOn")
    BY <1>3 DEF ActivateComplete
  <2>2. t \in DeviceType
    BY DEF Settled, DeviceType
  <2>3. Carries(s, t)
    BY <2>2 DEF Settled, Carries, Excused, DeviceType
  <2>4. Carries(t, u)
    BY <2>3, CarriesSettled, ChangeStateKeeps DEF Keeps, FwStates
  <2>5. Carries(u, ChangeState(u, "awaitFingerOn"))
    BY <2>4, CarriesSettled, ChangeStateKeeps DEF Keeps, FwStates
  <2> QED
    BY <2>1, <2>3, <2>4, <2>5, CarriesTrans
<1> QED
  BY <1>1, <1>2, <1>3

LEMMA SessionErrorCarries ==
  ASSUME NEW s, Settled(s), NEW e \in Errors \ {"none"}
  PROVE  Carries(s, SessionError(s, e))
<1> DEFINE t == MaybeCompleteAction(s, e)
           w == Warn(s, "inactiveError")
<1>1. Carries(s, t) /\ Excused(t)
  BY MaybeCompleteActionCarries
<1>2. Carries(t, Deactivate(t, TRUE))
  BY <1>1, CarriesSettled, DeactivateCarries
<1>3. Carries(s, Deactivate(t, TRUE))
  BY <1>1, <1>2, CarriesTrans
<1>4. Carries(s, w)
  BY WarnCarries DEF Warnings
<1>5. Carries(w, ActivateComplete(w, e)) /\ Carries(w, MaybeCompleteAction(w, e))
  BY <1>4, CarriesSettled, ActivateCompleteCarries, MaybeCompleteActionCarries
<1>6. Carries(s, ActivateComplete(w, e)) /\ Carries(s, MaybeCompleteAction(w, e))
  BY <1>4, <1>5, CarriesTrans
<1> HIDE DEF t, w
<1>7. SessionError(s, e) \in
        {Deactivate(t, TRUE), ActivateComplete(w, e), MaybeCompleteAction(w, e)}
  BY DEF SessionError, t, w
<1> QED
  BY <1>3, <1>6, <1>7

LEMMA FailSessionOrDeactivateCarries ==
  ASSUME NEW s, Settled(s), NEW e \in Errors \ {"none"}
  PROVE  Carries(s, FailSessionOrDeactivate(s, e))
  BY SessionErrorCarries DEF FailSessionOrDeactivate, Settled

LEMMA FingerOffCarries ==
  ASSUME NEW s, Settled(s)
  PROVE  /\ Carries(s, ReportFingerStatus(s, FALSE))
         /\ s.action = "enroll" => Keeps(s, ReportFingerStatus(s, FALSE))
<1>1. CASE s.state = "awaitFingerOff"
  <2> DEFINE t == ChangeState(s, "idle")
  <2>1. Keeps(s, t)
    BY ChangeStateKeeps DEF FwStates
  <2>2. Settled(t) /\ t.action = s.action
    BY <2>1 DEF Keeps, Carries, Settled
  <2>3. CASE s.action = "enroll"
    <3>1. ReportFingerStatus(s, FALSE) = EnrollMaybeAwaitFingerOn(t)
      BY <1>1, <2>3 DEF ReportFingerStatus
    <3>2. Keeps(s, EnrollMaybeAwaitFingerOn(t))
      BY <2>1, <2>2, EnrollMaybeAwaitFingerOnKeeps, KeepsTrans
    <3> QED
      BY <3>1, <3>2 DEF Keeps
  <2>4. CASE s.action # "enroll"
    <3>1. ReportFingerStatus(s, FALSE) = Deactivate(t, FALSE)
      BY <1>1, <2>4 DEF ReportFingerStatus
    <3>2. Excused(t)
      BY <2>2, <2>4 DEF Excused
    <3>3. Carries(t, Deactivate(t, FALSE))
      BY <3>2, <2>2, DeactivateCarries
    <3>4. Carries(s, Deactivate(t, FALSE))
      BY <2>1, <3>3, CarriesTrans DEF Keeps
    <3> QED
      BY <3>1, <3>4, <2>4
  <2> QED
    BY <2>3, <2>4
<1>2. CASE s.state # "awaitFingerOff"
  BY <1>2, CarriesRefl DEF ReportFingerStatus, Keeps
<1> QED
  BY <1>1, <1>2

-----------------------------------------------------------------------------
(* Images and prints: the calls that may count an enrollment stage. *)

Captured(s, t) ==
    /\ t \in DeviceType /\ ~t.deactivating
    /\ t.action = s.action /\ t.cancelled = s.cancelled
    /\ \/ t.credited = s.credited /\ t.enroll_stage = s.enroll_stage
       \/ t.credited /\ t.enroll_stage = s.enroll_stage + 1 /\ t.state # "capture"
    /\ t.state = "capture" => s.state = "capture"
    /\ s.returning => t.returning
    /\ t.cancel_idle => s.cancel_idle /\ (t.returning => s.returning)
    /\ ~s.returning /\ t.returning /\ s.action = "enroll" /\ t.result = "ok"
         => t.enroll_stage = NrEnrollStages

LEMMA CarriesCaptured ==
  ASSUME NEW s, NEW t, Carries(s, t)
  PROVE  Captured(s, t)
  BY DEF Carries, Captured

LEMMA CarriesThenCaptured ==
  ASSUME NEW s, NEW t, NEW u, Carries(s, t), Captured(t, u),
         s.action = "enroll" => t.returning = s.returning
  PROVE  Captured(s, u)
<1>1. t.action = s.action /\ t.credited = s.credited /\ t.enroll_stage = s.enroll_stage
  BY DEF Carries
<1>2. /\ u \in DeviceType /\ ~u.deactivating
      /\ u.action = s.action /\ u.cancelled = s.cancelled
      /\ u.state = "capture" => s.state = "capture"
      /\ s.returning => u.returning
  BY DEF Carries, Captured
<1>3. \/ u.credited = s.credited /\ u.enroll_stage = s.enroll_stage
      \/ u.credited /\ u.enroll_stage = s.enroll_stage + 1 /\ u.state # "capture"
  BY <1>1 DEF Captured
<1>4. u.cancel_idle => s.cancel_idle /\ (u.returning => s.returning)
  <2>1. u.cancel_idle => t.cancel_idle /\ (u.returning => t.returning)
    BY Zenon DEF Captured
  <2>2. t.cancel_idle => s.cancel_idle /\ (t.returning => s.returning)
    BY Zenon DEF Carries
  <2> QED
    BY <2>1, <2>2
<1>5. ~s.returning /\ u.returning /\ s.action = "enroll" /\ u.result = "ok"
        => u.enroll_stage = NrEnrollStages
  BY DEF Carries, Captured
<1> QED
  BY <1>2, <1>3, <1>4, <1>5 DEF Captured

LEMMA CapturedThenCarries ==
  ASSUME NEW s, NEW t, NEW u, Captured(s, t), Carries(t, u)
  PROVE  Captured(s, u)
<1>1. /\ u \in DeviceType /\ ~u.deactivating
      /\ u.action = s.action /\ u.cancelled = s.cancelled
      /\ u.state = "capture" => s.state = "capture"
      /\ s.returning => u.returning
  BY DEF Carries, Captured
<1>4. u.cancel_idle => s.cancel_idle /\ (u.returning => s.returning)
  <2>1. u.cancel_idle => t.cancel_idle /\ (u.returning => t.returning)
    BY Zenon DEF Carries
  <2>2. t.cancel_idle => s.cancel_idle /\ (t.returning => s.returning)
    BY Zenon DEF Captured
  <2> QED
    BY <2>1, <2>2
<1>2. \/ u.credited = s.credited /\ u.enroll_stage = s.enroll_stage
      \/ u.credited /\ u.enroll_stage = s.enroll_stage + 1 /\ u.state # "capture"
  BY DEF Carries, Captured
<1>3. ~s.returning /\ u.returning /\ s.action = "enroll" /\ u.result = "ok"
        => u.enroll_stage = NrEnrollStages
  <2>1. CASE t.returning
    BY <2>1 DEF Carries, Captured
  <2>2. CASE ~t.returning
    BY <2>2 DEF Carries, Captured
  <2> QED
    BY <2>1, <2>2
<1> QED
  BY <1>1, <1>2, <1>3, <1>4 DEF Captured

LEMMA ExtractPrintCarries ==
  ASSUME NEW s, Settled(s), NEW image \in Images
  PROVE  /\ Carries(s, ExtractPrint(s, image))
         /\ s.action = "enroll" => Keeps(s, ExtractPrint(s, image))
  BY FingerOffCarries, CarriesRefl DEF ExtractPrint, Keeps

LEMMA RejectedKeeps ==
  ASSUME NEW s, Settled(s), NEW image \in Images
  PROVE  Keeps(s, Rejected(s, image))
<1> DEFINE t == [s EXCEPT !.rejects = @ + 1]
<1>1. t \in DeviceType
  BY DEF Settled, DeviceType
<1>2. Keeps(s, t)
  BY <1>1 DEF Settled, Keeps, Carries, Excused, DeviceType
<1> QED
  BY <1>2, CarriesRefl DEF Rejected, Keeps

\* What follows an enrollment print: the end of the action, or the next touch.
LEMMA NextStageCarries ==
  ASSUME NEW t, Settled(t)
  PROVE  Carries(t, IF EnrollmentFull(t)
                    THEN Deactivate(MaybeCompleteAction(t, "none"), FALSE)
                    ELSE EnrollMaybeAwaitFingerOn(t))
<1>1. CASE EnrollmentFull(t)
  <2> DEFINE u == MaybeCompleteAction(t, "none")
  <2>1. Excused(t)
    BY <1>1 DEF EnrollmentFull, Excused
  <2>2. Carries(t, u) /\ Excused(u)
    BY <2>1, MaybeCompleteActionCarries DEF Errors
  <2>3. Carries(u, Deactivate(u, FALSE))
    BY <2>2, CarriesSettled, DeactivateCarries
  <2>4. Carries(t, Deactivate(u, FALSE))
    BY <2>2, <2>3, CarriesTrans
  <2> QED
    BY <1>1, <2>4
<1>2. CASE ~EnrollmentFull(t)
  BY <1>2, EnrollMaybeAwaitFingerOnKeeps DEF Keeps
<1> QED
  BY <1>1, <1>2

LEMMA ReportCarries ==
  ASSUME NEW s, Settled(s), s.action # "enroll", NEW e \in Errors, NEW r \in {"result", "retry"}
  PROVE  /\ Carries(s, MaybeCompleteAction(s, e))
         /\ Carries(s, MaybeCompleteAction([s EXCEPT !.report = r], e))
<1> DEFINE t == [s EXCEPT !.report = r]
<1>1. t \in DeviceType
  BY DEF Settled, DeviceType
<1>2. Carries(s, t)
  BY <1>1 DEF Settled, Carries, Excused, DeviceType
<1>3. Excused(s) /\ Excused(t)
  BY <1>2 DEF Excused, Carries
<1>4. Carries(t, MaybeCompleteAction(t, e))
  BY <1>2, <1>3, CarriesSettled, MaybeCompleteActionCarries
<1>5. Carries(s, MaybeCompleteAction(s, e))
  BY <1>3, MaybeCompleteActionCarries
<1> QED
  BY <1>2, <1>4, <1>5, CarriesTrans

LEMMA ProcessPrintCarries ==
  ASSUME NEW s, Settled(s), NEW image \in Images, s.action # "enroll" \/ image # "features"
  PROVE  Carries(s, ProcessPrint(s, image))
<1>1. CASE s.action = "capture"
  <2>1. ProcessPrint(s, image) =
          MaybeCompleteAction(s, IF image = "noFeatures" THEN "retry" ELSE "none")
    BY <1>1 DEF ProcessPrint
  <2> QED
    BY <1>1, <2>1, ReportCarries DEF Errors
<1>2. CASE s.action = "enroll"
  <2>1. AppendPrint(s, image) = s
    BY <1>2 DEF AppendPrint
  <2>2. ProcessPrint(s, image) = IF EnrollmentFull(s)
                                 THEN Deactivate(MaybeCompleteAction(s, "none"), FALSE)
                                 ELSE EnrollMaybeAwaitFingerOn(s)
    BY <1>2, <2>1 DEF ProcessPrint
  <2> QED
    BY <2>2, NextStageCarries
<1>3. CASE s.action \notin {"capture", "enroll"}
  <2>1. ProcessPrint(s, image) \in
          {MaybeCompleteAction([s EXCEPT !.report = "result"], "none"),
           MaybeCompleteAction([s EXCEPT !.report = "retry"], "none"),
           MaybeCompleteAction(s, "invalid")}
    BY <1>3 DEF ProcessPrint, Images
  <2>2. /\ Carries(s, MaybeCompleteAction([s EXCEPT !.report = "result"], "none"))
        /\ Carries(s, MaybeCompleteAction([s EXCEPT !.report = "retry"], "none"))
        /\ Carries(s, MaybeCompleteAction(s, "invalid"))
    BY <1>3, ReportCarries DEF Errors, BusErrors
  <2> QED
    BY <2>1, <2>2
<1> QED
  BY <1>1, <1>2, <1>3

LEMMA ProcessPrintCaptured ==
  ASSUME NEW s, Settled(s), s.state # "capture", NEW image \in Images
  PROVE  Captured(s, ProcessPrint(s, image))
<1>1. CASE s.action # "enroll" \/ image # "features"
  BY <1>1, ProcessPrintCarries, CarriesCaptured
<1>2. CASE s.action = "enroll" /\ image = "features"
  <2> DEFINE t == [s EXCEPT !.enroll_stage = @ + 1, !.credited = TRUE]
             u == IF EnrollmentFull(t)
                  THEN Deactivate(MaybeCompleteAction(t, "none"), FALSE)
                  ELSE EnrollMaybeAwaitFingerOn(t)
  <2>1. ProcessPrint(s, image) = u
    BY <1>2 DEF ProcessPrint, AppendPrint
  <2>2. t \in DeviceType
    <3>1. s.enroll_stage + 1 \in Nat
      BY DEF Settled, DeviceType
    <3> QED
      BY <3>1 DEF Settled, DeviceType
  <2>3. /\ t.credited /\ t.enroll_stage = s.enroll_stage + 1 /\ t.state = s.state
        /\ ~t.deactivating /\ t.action = s.action /\ t.cancelled = s.cancelled
        /\ t.returning = s.returning /\ t.cancel_idle = s.cancel_idle
    BY DEF Settled, DeviceType
  <2>4. Settled(t)
    BY <2>2, <2>3 DEF Settled
  <2>5. Carries(t, u)
    BY <2>4, NextStageCarries
  <2>6. Captured(s, t)
    BY <2>2, <2>3 DEF Captured
  <2> QED
    BY <2>1, <2>5, <2>6, CapturedThenCarries
<1> QED
  BY <1>1, <1>2

LEMMA ImageCapturedCaptured ==
  ASSUME NEW s, Settled(s), NEW image \in Images
  PROVE  LET t == ImageCaptured(s, image)
         IN  /\ Captured(s, t)
             /\ t.enroll_stage # s.enroll_stage => s.state = "capture"
<1>1. CASE s.state # "capture" \/ s.action = "none"
  <2>1. ImageCaptured(s, image) = Warn(s, "criticalCall")
    BY <1>1 DEF ImageCaptured
  <2>2. Carries(s, Warn(s, "criticalCall"))
    BY WarnCarries DEF Warnings
  <2>3. Warn(s, "criticalCall").enroll_stage = s.enroll_stage
    BY <2>2 DEF Carries
  <2> QED
    BY <2>1, <2>2, <2>3, CarriesCaptured
<1>2. CASE s.state = "capture" /\ s.action # "none"
  <2> DEFINE a == [s EXCEPT !.minutiae_scan_active = TRUE]
             t == ChangeState(a, "awaitFingerOff")
             r == Rejected(t, image)
             x == ExtractPrint(r, image)
             u == [x EXCEPT !.minutiae_scan_active = FALSE]
  <2>1. ImageCaptured(s, image) =
          IF s.action = "capture" THEN t ELSE ProcessPrint(u, image)
    BY <1>2 DEF ImageCaptured
  <2>2. a \in DeviceType
    BY DEF Settled, DeviceType
  <2>3. Keeps(s, a)
    BY <2>2 DEF Settled, Keeps, Carries, Excused, DeviceType
  <2> HIDE DEF a
  <2>4. Keeps(a, t) /\ t.state # "capture"
    BY <2>3, CarriesSettled, ChangeStateKeeps DEF FwStates, Keeps
  <2> HIDE DEF t
  <2>5. Keeps(s, t) /\ t.action = s.action
    BY <2>3, <2>4, KeepsTrans DEF Keeps, Carries
  <2>6. Keeps(t, r) /\ r.action = s.action
    BY <2>5, CarriesSettled, RejectedKeeps DEF Keeps, Carries
  <2> HIDE DEF r
  <2>7. Carries(r, x) /\ (s.action = "enroll" => Keeps(r, x))
    BY <2>6, CarriesSettled, ExtractPrintCarries DEF Keeps
  <2> HIDE DEF x
  <2>8. x \in DeviceType /\ ~x.deactivating
    BY <2>7 DEF Carries
  <2>9. u \in DeviceType
    BY <2>8 DEF DeviceType
  <2>10. Keeps(x, u)
    BY <2>8, <2>9 DEF Keeps, Carries, Excused, DeviceType
  <2> HIDE DEF u
  <2>11. Carries(t, u)
    BY <2>6, <2>7, <2>10, CarriesTrans DEF Keeps
  <2>12. Carries(s, u) /\ Settled(u)
    BY <2>5, <2>11, CarriesTrans, CarriesSettled DEF Keeps
  <2>13. u.state # "capture"
    BY <2>4, <2>11 DEF Carries
  <2>14. s.action = "enroll" => u.returning = s.returning
    BY <2>5, <2>6, <2>7, <2>10 DEF Keeps
  <2>15. Captured(u, ProcessPrint(u, image))
    BY <2>12, <2>13, ProcessPrintCaptured
  <2>16. Captured(s, ProcessPrint(u, image))
    BY <2>12, <2>14, <2>15, CarriesThenCaptured
  <2>17. Captured(s, t)
    BY <2>5, CarriesCaptured DEF Keeps
  <2> QED
    BY <1>2, <2>1, <2>16, <2>17
<1> QED
  BY <1>1, <1>2

-----------------------------------------------------------------------------
(* The inductive invariant, on a device record and the finger. *)

Inv(s, f) ==
    /\ s \in DeviceType /\ ~s.deactivating
    /\ s.credited => s.state # "capture" /\ (f => s.awaiting_release)
    /\ s.cancel_idle => s.cancelled /\ ~s.returning

\* What one step of the loop owes: no stage for a touch already counted, and
\* no success of an enrollment that is not complete.
Sound(s, t) ==
    /\ t.enroll_stage > s.enroll_stage => ~s.credited
    /\ ~s.returning /\ t.returning /\ s.action = "enroll" /\ t.result = "ok"
         => t.enroll_stage = NrEnrollStages

LEMMA InvSettled == ASSUME NEW s, NEW f, Inv(s, f) PROVE Settled(s)
  BY DEF Inv, Settled

LEMMA CarriesSound ==
  ASSUME NEW s, NEW t, NEW f \in BOOLEAN, Inv(s, f), Carries(s, t)
  PROVE  Inv(t, f) /\ Sound(s, t)
<1>1. t.credited => t.state # "capture" /\ (f => t.awaiting_release)
  BY DEF Inv, Carries
<1>2. t.cancel_idle => t.cancelled /\ ~t.returning
  <2>1. t.cancel_idle => s.cancel_idle /\ (t.returning => s.returning)
    BY Zenon DEF Carries
  <2>2. s.cancel_idle => s.cancelled /\ ~s.returning
    BY Zenon DEF Inv
  <2>3. t.cancelled = s.cancelled
    BY DEF Carries
  <2> QED
    BY <2>1, <2>2, <2>3
<1>3. Sound(s, t)
  <2>1. s.enroll_stage \in Nat /\ t.enroll_stage = s.enroll_stage
    BY DEF Inv, DeviceType, Carries
  <2> QED
    BY <2>1 DEF Carries, Sound
<1> QED
  BY <1>1, <1>2, <1>3 DEF Inv, Carries

\* An image has been taken: the touch may have become a stage, and the driver
\* waits for the finger to leave.
LEMMA CapturedSound ==
  ASSUME NEW s, NEW t, NEW f \in BOOLEAN, Inv(s, f), Captured(s, t),
         t.enroll_stage # s.enroll_stage => s.state = "capture"
  PROVE  LET u == [t EXCEPT !.awaiting_release = TRUE]
         IN  Inv(u, f) /\ Sound(s, u)
<1> DEFINE u == [t EXCEPT !.awaiting_release = TRUE]
<1>1. t \in DeviceType /\ s \in DeviceType
  BY DEF Captured, Inv
<1>2. u \in DeviceType
  BY <1>1 DEF DeviceType
<1>3. /\ u.awaiting_release /\ u.deactivating = t.deactivating
      /\ u.credited = t.credited /\ u.state = t.state
      /\ u.enroll_stage = t.enroll_stage /\ u.cancel_idle = t.cancel_idle
      /\ u.cancelled = t.cancelled /\ u.returning = t.returning
      /\ u.result = t.result
  BY <1>1 DEF DeviceType
<1> HIDE DEF u
<1>4. u.credited => u.state # "capture"
  BY <1>3 DEF Captured, Inv
<1>5. u.cancel_idle => u.cancelled /\ ~u.returning
  <2>1. t.cancel_idle => s.cancel_idle /\ (t.returning => s.returning)
    BY Zenon DEF Captured
  <2>2. s.cancel_idle => s.cancelled /\ ~s.returning
    BY Zenon DEF Inv
  <2>3. t.cancelled = s.cancelled
    BY DEF Captured
  <2> QED
    BY <1>3, <2>1, <2>2, <2>3
<1>6. Inv(u, f)
  BY <1>2, <1>3, <1>4, <1>5 DEF Inv, Captured
<1>7. s.enroll_stage \in Nat
  BY <1>1 DEF DeviceType
<1>8. u.enroll_stage > s.enroll_stage => ~s.credited
  BY <1>3, <1>7 DEF Inv
<1>9. ~s.returning /\ u.returning /\ s.action = "enroll" /\ u.result = "ok"
        => u.enroll_stage = NrEnrollStages
  BY <1>3 DEF Captured
<1> QED
  BY <1>6, <1>8, <1>9 DEF Sound, u

-----------------------------------------------------------------------------
(* The callbacks. *)

LEMMA WakeRetryOrFailCarries ==
  ASSUME NEW s, Settled(s), NEW e \in Errors
  PROVE  Carries(s, WakeRetryOrFail(s, e))
<1> DEFINE t == [s EXCEPT !.wake_retry_used = TRUE, !.wake_timers = @ + 1]
<1>1. s.wake_timers + 1 \in Nat
  BY DEF Settled, DeviceType
<1>2. t \in DeviceType
  BY <1>1 DEF Settled, DeviceType
<1>3. Carries(s, t)
  BY <1>2 DEF Settled, Carries, Excused, DeviceType
<1> QED
  BY <1>3, ActivateCompleteCarries DEF WakeRetryOrFail

LEMMA SubmitOperationControlCarries ==
  ASSUME NEW s, Settled(s)
  PROVE  Carries(s, SubmitOperationControl(s))
<1> DEFINE t == [s EXCEPT !.controls = @ + 1, !.exchanges = 0]
<1>1. s.controls + 1 \in Nat
  BY DEF Settled, DeviceType
<1>2. t \in DeviceType
  BY <1>1 DEF Settled, DeviceType
<1>3. Carries(s, t)
  BY <1>2 DEF Settled, Carries, Excused, DeviceType
<1>4. Carries(t, Submit(t, "control"))
  BY <1>3, CarriesSettled, SubmitKeeps DEF Kinds, Keeps
<1> QED
  BY <1>3, <1>4, CarriesTrans DEF SubmitOperationControl

LEMMA WakeRetryTimeoutCbCarries ==
  ASSUME NEW s, Settled(s), s.wake_timers > 0
  PROVE  Carries(s, WakeRetryTimeoutCb(s))
<1> DEFINE t == [s EXCEPT !.wake_timers = @ - 1]
           u == [t EXCEPT !.init_stage = 0]
<1>1. s.wake_timers - 1 \in Nat
  BY DEF Settled, DeviceType
<1>2. t \in DeviceType
  BY <1>1 DEF Settled, DeviceType
<1>3. Carries(s, t)
  BY <1>2 DEF Settled, Carries, Excused, DeviceType
<1> HIDE DEF t
<1>4. Settled(t)
  BY <1>3, CarriesSettled
<1>5. u \in DeviceType
  BY <1>2 DEF DeviceType
<1>6. Carries(t, u)
  BY <1>4, <1>5 DEF Settled, Carries, Excused, DeviceType
<1> HIDE DEF u
<1>7. Carries(u, SubmitOperationControl(u))
  BY <1>6, CarriesSettled, SubmitOperationControlCarries
<1>8. WakeRetryTimeoutCb(s) = SubmitOperationControl(u)
  BY <1>4 DEF WakeRetryTimeoutCb, t, u, Settled
<1> QED
  BY <1>3, <1>6, <1>7, <1>8, CarriesTrans

LEMMA OperationControlCbCarries ==
  ASSUME NEW s, Settled(s), NEW e \in Errors
  PROVE  Carries(s, OperationControlCb(s, e))
<1>1. Carries(s, InitSendStage(s))
  BY SubmitKeeps DEF InitSendStage, Kinds, Keeps
<1> QED
  BY <1>1, ActivateCompleteCarries, WakeRetryOrFailCarries DEF OperationControlCb

LEMMA InitWriteCbCarries ==
  ASSUME NEW s, Settled(s), NEW e \in Errors
  PROVE  Carries(s, InitWriteCb(s, e))
<1>1. Carries(s, Submit(s, "initRead"))
  BY SubmitKeeps DEF Kinds, Keeps
<1> QED
  BY <1>1, WakeRetryOrFailCarries DEF InitWriteCb

LEMMA InitReadCbCarries ==
  ASSUME NEW s, Settled(s), NEW e \in Errors
  PROVE  Carries(s, InitReadCb(s, e))
<1> DEFINE t == [s EXCEPT !.init_stage = @ + 1, !.exchanges = @ + 1]
<1>1. s.init_stage + 1 \in Nat /\ s.exchanges + 1 \in Nat
  BY DEF Settled, DeviceType
<1>2. t \in DeviceType
  BY <1>1 DEF Settled, DeviceType
<1>3. Carries(s, t)
  BY <1>2 DEF Settled, Carries, Excused, DeviceType
<1> HIDE DEF t
<1>4. Carries(t, ActivateComplete(t, "none")) /\ Carries(t, InitSendStage(t))
  BY <1>3, CarriesSettled, ActivateCompleteCarries, SubmitKeeps
     DEF InitSendStage, Kinds, Keeps, Errors
<1>5. InitReadCb(s, e) \in {WakeRetryOrFail(s, e), ActivateComplete(t, "none"), InitSendStage(t)}
  BY DEF InitReadCb, t
<1> QED
  BY <1>3, <1>4, <1>5, CarriesTrans, WakeRetryOrFailCarries

LEMMA RearmWriteCbCarries ==
  ASSUME NEW s, Settled(s), NEW e \in Errors
  PROVE  Carries(s, RearmWriteCb(s, e))
<1>1. Carries(s, Submit(s, "rearmRead"))
  BY SubmitKeeps DEF Kinds, Keeps
<1> QED
  BY <1>1, FailSessionOrDeactivateCarries DEF RearmWriteCb

LEMMA RearmReadCbCarries ==
  ASSUME NEW s, Settled(s), NEW e \in Errors
  PROVE  Carries(s, RearmReadCb(s, e))
<1> DEFINE t == [s EXCEPT !.rearm_stage = @ + 1]
<1>1. s.rearm_stage + 1 \in Nat
  BY DEF Settled, DeviceType
<1>2. t \in DeviceType
  BY <1>1 DEF Settled, DeviceType
<1>3. Carries(s, t)
  BY <1>2 DEF Settled, Carries, Excused, DeviceType
<1> HIDE DEF t
<1>4. Carries(t, StartInterrupt(t)) /\ Carries(t, RearmSendStage(t))
  BY <1>3, CarriesSettled, StartInterruptKeeps, RearmSendStageKeeps DEF Keeps
<1>5. \/ e # "none" /\ RearmReadCb(s, e) = FailSessionOrDeactivate(s, e)
      \/ RearmReadCb(s, e) \in {StartInterrupt(t), RearmSendStage(t)}
  BY DEF RearmReadCb, t
<1> QED
  BY <1>3, <1>4, <1>5, CarriesTrans, FailSessionOrDeactivateCarries

LEMMA CaptureWriteCbCarries ==
  ASSUME NEW s, Settled(s), NEW e \in Errors
  PROVE  Carries(s, CaptureWriteCb(s, e))
  BY CarriesRefl, FailSessionOrDeactivateCarries DEF CaptureWriteCb

LEMMA InterruptErrorCbCarries ==
  ASSUME NEW s, Settled(s), NEW e \in Errors \ {"none", "timedOut"}
  PROVE  Carries(s, InterruptErrorCb(s, e))
  BY CarriesRefl, FailSessionOrDeactivateCarries
     DEF InterruptErrorCb, CompleteDeactivation, Settled

LEMMA CaptureReadCbSound ==
  ASSUME NEW s, NEW f \in BOOLEAN, Inv(s, f), NEW e \in Errors, NEW image \in Images
  PROVE  Inv(CaptureReadCb(s, e, image), f) /\ Sound(s, CaptureReadCb(s, e, image))
<1>1. CASE e # "none"
  <2>1. Carries(s, FailSessionOrDeactivate(s, e))
    BY <1>1, InvSettled, FailSessionOrDeactivateCarries
  <2> QED
    BY <1>1, <2>1, CarriesSound DEF CaptureReadCb
<1>2. CASE e = "none"
  <2> DEFINE c == [s EXCEPT !.capture_count = @ + 1]
             t == ImageCaptured(c, image)
             u == [t EXCEPT !.awaiting_release = TRUE]
  <2>1. s.capture_count + 1 \in Nat
    BY DEF Inv, DeviceType
  <2>2. c \in DeviceType
    BY <2>1 DEF Inv, DeviceType
  <2>3. Carries(s, c) /\ c.returning = s.returning /\ c.state = s.state
    BY <2>2 DEF Inv, Carries, Excused, DeviceType
  <2>4. CaptureReadCb(s, e, image) = StartInterrupt(u)
    BY <1>2 DEF CaptureReadCb
  <2> HIDE DEF c
  <2>5. Captured(c, t) /\ (t.enroll_stage # c.enroll_stage => c.state = "capture")
    BY <2>3, CarriesSettled, ImageCapturedCaptured
  <2> HIDE DEF t
  <2>6. Captured(s, t)
    BY <2>3, <2>5, CarriesThenCaptured
  <2>7. t.enroll_stage # s.enroll_stage => s.state = "capture"
    BY <2>3, <2>5 DEF Carries
  <2>8. Inv(u, f) /\ Sound(s, u)
    BY <2>6, <2>7, CapturedSound
  <2> HIDE DEF u
  <2>9. Keeps(u, StartInterrupt(u))
    BY <2>8, InvSettled, StartInterruptKeeps
  <2>10. Inv(StartInterrupt(u), f)
    BY <2>8, <2>9, CarriesSound DEF Keeps
  <2>11. Sound(s, StartInterrupt(u))
    <3> DEFINE v == StartInterrupt(u)
    <3>1. v.enroll_stage = u.enroll_stage /\ v.returning = u.returning
      BY <2>9 DEF Keeps, Carries
    <3>2. u.returning => v.result = u.result
      BY <2>9 DEF Keeps, Carries
    <3> HIDE DEF v
    <3>3. Sound(s, v)
      BY <2>8, <3>1, <3>2 DEF Sound
    <3> QED
      BY <3>3 DEF v
  <2> QED
    BY <2>4, <2>10, <2>11
<1> QED
  BY <1>1, <1>2

\* A finger report under a resting finger: the driver listens on, or it takes
\* the image of a touch that has not been counted.
LEMMA InterruptFingerCbSound ==
  ASSUME NEW s, Inv(s, TRUE)
  PROVE  Inv(InterruptFingerCb(s), TRUE) /\ Sound(s, InterruptFingerCb(s))
<1>1. CASE s.awaiting_release
  <2>1. Carries(s, StartInterrupt(s))
    BY InvSettled, StartInterruptKeeps DEF Keeps
  <2> QED
    BY <1>1, <2>1, CarriesSound DEF InterruptFingerCb
<1>2. CASE ~s.awaiting_release
  <2> DEFINE v == ReportFingerStatus(s, TRUE)
             w == Submit(v, "captureRead")
  <2>1. v = s \/ v = [s EXCEPT !.state = "capture"]
    BY DEF ReportFingerStatus, ChangeState, DevChangeState
  <2>11. s \in DeviceType /\ [s EXCEPT !.state = "capture"] \in DeviceType
    BY DEF Inv, DeviceType, FwStates
  <2> HIDE DEF v
  <2>2. v \in DeviceType
    BY <2>1, <2>11
  <2>3. /\ v.deactivating = s.deactivating /\ v.credited = s.credited
        /\ v.awaiting_release = s.awaiting_release /\ v.cancel_idle = s.cancel_idle
        /\ v.cancelled = s.cancelled /\ v.returning = s.returning
        /\ v.enroll_stage = s.enroll_stage /\ v.action = s.action
    BY <2>1, <2>11 DEF DeviceType
  <2>4. ~s.credited
    BY <1>2 DEF Inv
  <2>5. Inv(v, TRUE)
    BY <2>2, <2>3, <2>4 DEF Inv
  <2>6. Carries(v, w)
    BY <2>5, InvSettled, SubmitKeeps DEF Kinds, Keeps
  <2> HIDE DEF w
  <2>7. Carries(w, Submit(w, "captureWrite"))
    BY <2>6, CarriesSettled, SubmitKeeps DEF Kinds, Keeps
  <2>8. Carries(v, Submit(w, "captureWrite"))
    BY <2>6, <2>7, CarriesTrans
  <2>9. InterruptFingerCb(s) = Submit(w, "captureWrite")
    BY <1>2 DEF InterruptFingerCb, StartCapture, v, w
  <2>10. Inv(InterruptFingerCb(s), TRUE) /\ Sound(v, InterruptFingerCb(s))
    BY <2>5, <2>8, <2>9, CarriesSound
  <2> QED
    BY <2>3, <2>10 DEF Sound
<1> QED
  BY <1>1, <1>2

LEMMA ReleaseTimedOutSound ==
  ASSUME NEW s, Inv(s, FALSE)
  PROVE  LET t == InterruptErrorCb(s, "timedOut")
         IN  Inv(t, FALSE) /\ Sound(s, t)
<1>1. CASE s.awaiting_release
  <2> DEFINE v == [s EXCEPT !.awaiting_release = FALSE]
  <2>1. v \in DeviceType
    BY DEF Inv, DeviceType
  <2>2. /\ v.deactivating = s.deactivating /\ v.credited = s.credited
        /\ v.state = s.state /\ v.cancel_idle = s.cancel_idle
        /\ v.cancelled = s.cancelled /\ v.returning = s.returning
        /\ v.enroll_stage = s.enroll_stage /\ v.action = s.action
    BY DEF Inv, DeviceType
  <2>3. InterruptErrorCb(s, "timedOut") = ReportFingerStatus(v, FALSE)
    BY <1>1 DEF InterruptErrorCb
  <2> HIDE DEF v
  <2>4. Inv(v, FALSE)
    BY <2>1, <2>2 DEF Inv
  <2>5. Carries(v, ReportFingerStatus(v, FALSE))
    BY <2>4, InvSettled, FingerOffCarries
  <2> DEFINE t == ReportFingerStatus(v, FALSE)
  <2>6. Inv(t, FALSE) /\ Sound(v, t)
    BY <2>4, <2>5, CarriesSound
  <2> HIDE DEF t
  <2>7. Sound(s, t)
    BY <2>2, <2>6 DEF Sound
  <2> QED
    BY <2>3, <2>6, <2>7 DEF t
<1>2. CASE ~s.awaiting_release
  <2>1. Carries(s, FailSessionOrDeactivate(s, "timedOut"))
    BY InvSettled, FailSessionOrDeactivateCarries DEF Errors, BusErrors
  <2>2. InterruptErrorCb(s, "timedOut") = FailSessionOrDeactivate(s, "timedOut")
    BY <1>2 DEF InterruptErrorCb
  <2> QED
    BY <2>1, <2>2, CarriesSound
<1> QED
  BY <1>1, <1>2

-----------------------------------------------------------------------------
(* The steps. *)

IInv == /\ Inv(dev, finger)
        /\ finger \in BOOLEAN
        /\ sessions \in 0 .. MaxSessions

LEMMA OutcomesType ==
  ASSUME NEW tag
  PROVE  Outcomes(tag) \subseteq Errors /\ CheckedOutcomes(tag) \subseteq Errors
  BY ConstantsAssumption DEF Outcomes, CheckedOutcomes, Errors, BusErrors

LEMMA AvailableImagesType == AvailableImages \subseteq Images
  BY DEF AvailableImages, Images

LEMMA KeepsThenSound ==
  ASSUME NEW s, NEW t, NEW u, Keeps(s, t), Sound(t, u)
  PROVE  Sound(s, u)
  BY DEF Keeps, Carries, Sound

\* A completed transfer is removed before its callback runs.
LEMMA ReapInFlight ==
  ASSUME IInv, NEW kind \in Kinds, NEW tag \in InFlight(kind)
  PROVE  /\ Keeps(dev, Reap(dev, kind, tag)) /\ Carries(dev, Reap(dev, kind, tag))
         /\ Inv(Reap(dev, kind, tag), finger)
<1>1. tag \in Tags /\ dev.flight[<<kind, tag>>] > 0
  BY DEF InFlight
<1>2. Keeps(dev, Reap(dev, kind, tag))
  BY <1>1, InvSettled, ReapKeeps DEF IInv
<1>3. Carries(dev, Reap(dev, kind, tag))
  BY <1>2 DEF Keeps
<1> QED
  BY <1>2, <1>3, CarriesSound DEF IInv

LEMMA TransferSteps ==
  ASSUME IInv,
         \/ OperationControl \/ InitWrite \/ InitRead
         \/ RearmWrite \/ RearmRead \/ CaptureWrite
  PROVE  Carries(dev, dev')
<1>1. CASE OperationControl
  <2>1. PICK tag \in InFlight("control") : \E e \in CheckedOutcomes(tag) :
           dev' = OperationControlCb(Reap(dev, "control", tag), e)
    BY <1>1 DEF OperationControl
  <2>2. PICK e \in Errors : dev' = OperationControlCb(Reap(dev, "control", tag), e)
    BY <2>1, OutcomesType
  <2>3. Carries(dev, Reap(dev, "control", tag))
    BY ReapInFlight DEF Kinds
  <2>4. Carries(Reap(dev, "control", tag), dev')
    BY <2>2, <2>3, CarriesSettled, OperationControlCbCarries
  <2> QED
    BY <2>3, <2>4, CarriesTrans
<1>2. CASE InitWrite
  <2>1. PICK tag \in InFlight("initWrite") : \E e \in Outcomes(tag) :
           dev' = InitWriteCb(Reap(dev, "initWrite", tag), e)
    BY <1>2 DEF InitWrite
  <2>2. PICK e \in Errors : dev' = InitWriteCb(Reap(dev, "initWrite", tag), e)
    BY <2>1, OutcomesType
  <2>3. Carries(dev, Reap(dev, "initWrite", tag))
    BY ReapInFlight DEF Kinds
  <2>4. Carries(Reap(dev, "initWrite", tag), dev')
    BY <2>2, <2>3, CarriesSettled, InitWriteCbCarries
  <2> QED
    BY <2>3, <2>4, CarriesTrans
<1>3. CASE InitRead
  <2>1. PICK tag \in InFlight("initRead") : \E e \in Outcomes(tag) :
           dev' = InitReadCb(Reap(dev, "initRead", tag), e)
    BY <1>3 DEF InitRead
  <2>2. PICK e \in Errors : dev' = InitReadCb(Reap(dev, "initRead", tag), e)
    BY <2>1, OutcomesType
  <2>3. Carries(dev, Reap(dev, "initRead", tag))
    BY ReapInFlight DEF Kinds
  <2>4. Carries(Reap(dev, "initRead", tag), dev')
    BY <2>2, <2>3, CarriesSettled, InitReadCbCarries
  <2> QED
    BY <2>3, <2>4, CarriesTrans
<1>4. CASE RearmWrite
  <2>1. PICK tag \in InFlight("rearmWrite") : \E e \in Outcomes(tag) :
           dev' = RearmWriteCb(Reap(dev, "rearmWrite", tag), e)
    BY <1>4 DEF RearmWrite
  <2>2. PICK e \in Errors : dev' = RearmWriteCb(Reap(dev, "rearmWrite", tag), e)
    BY <2>1, OutcomesType
  <2>3. Carries(dev, Reap(dev, "rearmWrite", tag))
    BY ReapInFlight DEF Kinds
  <2>4. Carries(Reap(dev, "rearmWrite", tag), dev')
    BY <2>2, <2>3, CarriesSettled, RearmWriteCbCarries
  <2> QED
    BY <2>3, <2>4, CarriesTrans
<1>5. CASE RearmRead
  <2>1. PICK tag \in InFlight("rearmRead") : \E e \in Outcomes(tag) :
           dev' = RearmReadCb(Reap(dev, "rearmRead", tag), e)
    BY <1>5 DEF RearmRead
  <2>2. PICK e \in Errors : dev' = RearmReadCb(Reap(dev, "rearmRead", tag), e)
    BY <2>1, OutcomesType
  <2>3. Carries(dev, Reap(dev, "rearmRead", tag))
    BY ReapInFlight DEF Kinds
  <2>4. Carries(Reap(dev, "rearmRead", tag), dev')
    BY <2>2, <2>3, CarriesSettled, RearmReadCbCarries
  <2> QED
    BY <2>3, <2>4, CarriesTrans
<1>6. CASE CaptureWrite
  <2>1. PICK tag \in InFlight("captureWrite") : \E e \in Outcomes(tag) :
           dev' = CaptureWriteCb(Reap(dev, "captureWrite", tag), e)
    BY <1>6 DEF CaptureWrite
  <2>2. PICK e \in Errors : dev' = CaptureWriteCb(Reap(dev, "captureWrite", tag), e)
    BY <2>1, OutcomesType
  <2>3. Carries(dev, Reap(dev, "captureWrite", tag))
    BY ReapInFlight DEF Kinds
  <2>4. Carries(Reap(dev, "captureWrite", tag), dev')
    BY <2>2, <2>3, CarriesSettled, CaptureWriteCbCarries
  <2> QED
    BY <2>3, <2>4, CarriesTrans
<1> QED
  BY <1>1, <1>2, <1>3, <1>4, <1>5, <1>6

\* The finished minutiae thread of a capture action; it never counts a stage.
LEMMA MinutiaeDetectedCarries ==
  ASSUME IInv, MinutiaeDetected
  PROVE  Carries(dev, dev')
<1> DEFINE done == [dev EXCEPT !.minutiae_scan_active = FALSE]
<1>1. Settled(dev)
  BY InvSettled DEF IInv
<1>2. done \in DeviceType
  BY <1>1 DEF Settled, DeviceType
<1>3. Carries(dev, done)
  BY <1>1, <1>2 DEF Settled, Carries, Excused, DeviceType
<1>4. done.action = dev.action
  BY <1>3 DEF Carries
<1>5. CASE \E image \in AvailableImages \ {"badGallery"} :
             dev' = ProcessPrint(done, IF dev.action = "capture" THEN image ELSE "badGallery")
  <2>1. PICK image \in AvailableImages :
             dev' = ProcessPrint(done, IF dev.action = "capture" THEN image ELSE "badGallery")
    BY <1>5
  <2> DEFINE shown == IF dev.action = "capture" THEN image ELSE "badGallery"
  <2>2. shown \in Images /\ (done.action # "enroll" \/ shown # "features")
    BY <1>4, AvailableImagesType DEF Images
  <2>3. Carries(done, ProcessPrint(done, shown))
    BY <1>3, <2>2, CarriesSettled, ProcessPrintCarries
  <2> QED
    BY <1>3, <2>1, <2>3, CarriesTrans
<1>6. CASE dev' = Deactivate(MaybeCompleteAction(done, "cancelled"), TRUE)
  <2> DEFINE t == MaybeCompleteAction(done, "cancelled")
  <2>1. Carries(done, t) /\ Excused(t)
    BY <1>3, CarriesSettled, MaybeCompleteActionCarries DEF Errors
  <2>2. Carries(t, Deactivate(t, TRUE))
    BY <2>1, CarriesSettled, DeactivateCarries
  <2> QED
    BY <1>3, <1>6, <2>1, <2>2, CarriesTrans
<1> QED
  BY <1>5, <1>6 DEF MinutiaeDetected

LEMMA CancelInIdleCarries ==
  ASSUME IInv, CancelInIdle
  PROVE  Carries(dev, dev')
<1> DEFINE t == [dev EXCEPT !.cancel_idle = FALSE]
<1>1. Settled(dev) /\ dev.cancelled
  BY InvSettled DEF IInv, CancelInIdle, Inv
<1>2. t \in DeviceType
  BY <1>1 DEF Settled, DeviceType
<1>3. Carries(dev, t)
  BY <1>1, <1>2 DEF Settled, Carries, Excused, DeviceType
<1>4. Excused(t)
  BY <1>1, <1>3 DEF Excused, Carries
<1>5. Carries(t, Deactivate(t, TRUE))
  BY <1>3, <1>4, CarriesSettled, DeactivateCarries
<1> QED
  BY <1>3, <1>5, CarriesTrans DEF CancelInIdle

LEMMA TaskReturnSound ==
  ASSUME IInv, TaskReturn
  PROVE  Inv(dev', finger') /\ Sound(dev, dev')
<1> DEFINE moved == [x \in Transfers |->
                       CASE x[2] = "own" -> 0
                         [] x[2] = "stale" -> dev.flight[x] + dev.flight[<<x[1], "own">>]
                         [] OTHER -> dev.flight[x]]
<1>1. dev \in DeviceType /\ dev.flight \in [Transfers -> Nat]
  BY DEF IInv, Inv, DeviceType
<1>2. \A x \in Transfers : <<x[1], "own">> \in Transfers
  BY DEF Transfers, Tags
<1>3. moved \in [Transfers -> Nat]
  BY <1>1, <1>2
<1>4. dev' = [dev EXCEPT !.returning = FALSE, !.action = "none", !.cancelled = FALSE,
                !.flight = moved]
  BY DEF TaskReturn
<1> HIDE DEF moved
<1>5. dev' \in DeviceType
  BY <1>1, <1>3, <1>4 DEF DeviceType
<1>6. /\ dev'.deactivating = dev.deactivating /\ dev'.credited = dev.credited
      /\ dev'.state = dev.state /\ dev'.awaiting_release = dev.awaiting_release
      /\ dev'.cancel_idle = dev.cancel_idle /\ ~dev'.returning
      /\ dev'.enroll_stage = dev.enroll_stage
  BY <1>1, <1>4 DEF DeviceType
<1>7. ~dev.cancel_idle /\ finger' = finger
  BY DEF IInv, Inv, TaskReturn
<1>8. dev.enroll_stage \in Nat
  BY <1>1 DEF DeviceType
<1> QED
  BY <1>5, <1>6, <1>7, <1>8 DEF IInv, Inv, Sound

LEMMA OpenCloseCarries ==
  ASSUME IInv, Open \/ Close
  PROVE  Carries(dev, dev')
<1>1. dev \in DeviceType /\ ~dev.deactivating
  BY DEF IInv, Inv
<1>2. CASE Open
  <2>1. PICK o \in OpenOutcomes :
          dev' = [dev EXCEPT
                    !.open = (o = "ok"),
                    !.config_06 = IF o = "resetFails" THEN @ ELSE o # "badConfig",
                    !.scan_02 = CASE o \in {"resetFails", "badConfig"} -> @
                                  [] o = "badScan" -> "null"
                                  [] OTHER -> "initial"]
    BY <1>2 DEF Open
  <2>2. /\ (o = "ok") \in BOOLEAN
        /\ (IF o = "resetFails" THEN dev.config_06 ELSE o # "badConfig") \in BOOLEAN
        /\ (CASE o \in {"resetFails", "badConfig"} -> dev.scan_02
             [] o = "badScan" -> "null"
             [] OTHER -> "initial") \in {"null", "initial", "enroll"}
    BY <1>1 DEF DeviceType
  <2>3. PICK opened \in BOOLEAN, config \in BOOLEAN, scan \in {"null", "initial", "enroll"} :
          dev' = [dev EXCEPT !.open = opened, !.config_06 = config, !.scan_02 = scan]
    BY <2>1, <2>2
  <2>4. [dev EXCEPT !.open = opened] \in DeviceType
    BY <1>1 DEF DeviceType
  <2>5. [[dev EXCEPT !.open = opened] EXCEPT !.config_06 = config] \in DeviceType
    BY <2>4 DEF DeviceType
  <2>6. [[[dev EXCEPT !.open = opened] EXCEPT !.config_06 = config]
           EXCEPT !.scan_02 = scan] \in DeviceType
    BY <2>5 DEF DeviceType
  <2>7. dev' = [[[dev EXCEPT !.open = opened] EXCEPT !.config_06 = config]
                  EXCEPT !.scan_02 = scan]
    BY <1>1, <2>3 DEF DeviceType
  <2>8. dev' \in DeviceType
    BY <2>6, <2>7
  <2> QED
    BY <1>1, <2>3, <2>8 DEF Carries, Excused, DeviceType
<1>3. CASE Close
  <2>1. dev' = [dev EXCEPT !.open = FALSE, !.config_06 = FALSE, !.scan_02 = "null"]
    BY <1>3 DEF Close
  <2>2. dev' \in DeviceType
    BY <1>1, <2>1 DEF DeviceType
  <2> QED
    BY <1>1, <2>1, <2>2 DEF Carries, Excused, DeviceType
<1> QED
  BY <1>2, <1>3

LEMMA DevActivateInv ==
  ASSUME NEW s, NEW f \in BOOLEAN, Inv(s, f), ~s.credited
  PROVE  Inv(DevActivate(s), f) /\ DevActivate(s).enroll_stage = s.enroll_stage
<1> DEFINE t == [s EXCEPT !.deactivating = FALSE, !.init_stage = 0, !.capture_count = 0,
                   !.awaiting_release = FALSE, !.wake_retry_used = FALSE,
                   !.controls = 0]
<1>1. t \in DeviceType
  BY DEF Inv, DeviceType
<1>2. /\ ~t.deactivating /\ t.credited = s.credited /\ t.state = s.state
      /\ t.cancel_idle = s.cancel_idle /\ t.cancelled = s.cancelled
      /\ t.returning = s.returning /\ t.enroll_stage = s.enroll_stage
  BY DEF Inv, DeviceType
<1>3. DevActivate(s) = SubmitOperationControl(t)
  BY DEF DevActivate
<1> HIDE DEF t
<1>4. Inv(t, f)
  BY <1>1, <1>2 DEF Inv
<1>5. Carries(t, SubmitOperationControl(t))
  BY <1>4, InvSettled, SubmitOperationControlCarries
<1>6. Inv(SubmitOperationControl(t), f)
  BY <1>4, <1>5, CarriesSound
<1> QED
  BY <1>2, <1>3, <1>5, <1>6 DEF Carries

LEMMA StartActionSound ==
  ASSUME IInv, NEW action \in ActionKinds, StartAction(action)
  PROVE  Inv(dev', finger') /\ Sound(dev, dev')
<1> DEFINE asked == [dev EXCEPT !.action = action, !.result = "pending",
                       !.report = "none", !.credited = FALSE, !.rejects = 0]
           started == [asked EXCEPT !.enroll_stage = 0, !.enroll_await_on_pending = FALSE]
           ready == [started EXCEPT !.state = "activating"]
<1>1. dev \in DeviceType /\ action \in ImageActions /\ finger' = finger /\ finger \in BOOLEAN
  BY ConstantsAssumption DEF IInv, Inv, StartAction
<1>2. asked \in DeviceType
  BY <1>1 DEF DeviceType
<1>3. /\ asked.deactivating = dev.deactivating /\ ~asked.credited
      /\ asked.cancel_idle = dev.cancel_idle /\ asked.cancelled = dev.cancelled
      /\ asked.returning = dev.returning /\ asked.enroll_stage = dev.enroll_stage
  BY <1>1 DEF DeviceType
<1>4. \/ dev' = Complete(asked, "wrongType")
      \/ dev' = IF dev.active \/ dev.state # "inactive"
                THEN Complete(started, "busy") ELSE DevActivate(ready)
  BY DEF StartAction
<1> HIDE DEF asked
<1>5. started \in DeviceType
  BY <1>2 DEF DeviceType
<1>6. /\ started.deactivating = asked.deactivating /\ ~started.credited
      /\ started.cancel_idle = asked.cancel_idle /\ started.cancelled = asked.cancelled
      /\ started.returning = asked.returning /\ started.enroll_stage = 0
  BY <1>2, <1>3 DEF DeviceType
<1> HIDE DEF started
<1>7. Inv(asked, finger) /\ Inv(started, finger)
  BY <1>2, <1>3, <1>5, <1>6 DEF IInv, Inv
<1>8. dev.action = "none" /\ dev.enroll_stage \in Nat
  BY <1>1 DEF StartAction, ClientMayProceed, DeviceType
<1>9. ASSUME NEW s, Inv(s, finger), NEW r \in {"wrongType", "busy"},
             s.enroll_stage \in {0, dev.enroll_stage}, dev' = Complete(s, r)
      PROVE  Inv(dev', finger') /\ Sound(dev, dev')
  <2>1. Carries(s, Complete(s, r))
    BY <1>9, InvSettled, CompleteCarries DEF Results, Errors
  <2>2. Inv(dev', finger)
    BY <1>1, <1>9, <2>1, CarriesSound
  <2>3. dev'.enroll_stage \in {0, dev.enroll_stage}
    BY <1>9, <2>1 DEF Carries
  <2> QED
    BY <1>1, <1>8, <2>2, <2>3 DEF Sound
<1>10. CASE dev' = Complete(asked, "wrongType")
  BY <1>3, <1>7, <1>9, <1>10
<1>11. CASE dev' = Complete(started, "busy")
  BY <1>6, <1>7, <1>9, <1>11
<1>12. CASE dev' = DevActivate(ready)
  <2>1. ready \in DeviceType
    BY <1>5 DEF DeviceType, FwStates
  <2>2. /\ ready.deactivating = started.deactivating /\ ~ready.credited
        /\ ready.cancel_idle = started.cancel_idle /\ ready.cancelled = started.cancelled
        /\ ready.returning = started.returning /\ ready.enroll_stage = 0
    BY <1>5, <1>6 DEF DeviceType
  <2> HIDE DEF ready
  <2>3. Inv(ready, finger)
    BY <1>7, <2>1, <2>2 DEF Inv
  <2>4. Inv(dev', finger) /\ dev'.enroll_stage = 0
    BY <1>1, <1>12, <2>2, <2>3, DevActivateInv
  <2> QED
    BY <1>1, <1>8, <2>4 DEF Sound
<1> QED
  BY <1>4, <1>10, <1>11, <1>12

LEMMA CancelSound ==
  ASSUME IInv, Cancel
  PROVE  Inv(dev', finger') /\ Sound(dev, dev')
<1> DEFINE moved == [x \in Transfers |->
                       CASE x[2] = "own" -> 0
                         [] x[2] = "doomed" -> dev.flight[x] + dev.flight[<<x[1], "own">>]
                         [] OTHER -> dev.flight[x]]
<1>1. dev \in DeviceType /\ dev.flight \in [Transfers -> Nat]
  BY DEF IInv, Inv, DeviceType
<1>2. \A x \in Transfers : <<x[1], "own">> \in Transfers
  BY DEF Transfers, Tags
<1>3. moved \in [Transfers -> Nat]
  BY <1>1, <1>2
<1>4. dev' = [dev EXCEPT !.cancelled = TRUE, !.cancel_idle = TRUE, !.flight = moved]
  BY DEF Cancel
<1> HIDE DEF moved
<1>5. dev' \in DeviceType
  BY <1>1, <1>3, <1>4 DEF DeviceType
<1>6. /\ dev'.deactivating = dev.deactivating /\ dev'.credited = dev.credited
      /\ dev'.state = dev.state /\ dev'.awaiting_release = dev.awaiting_release
      /\ dev'.cancelled /\ dev'.returning = dev.returning
      /\ dev'.enroll_stage = dev.enroll_stage
  BY <1>1, <1>4 DEF DeviceType
<1>7. ~dev.returning /\ finger' = finger
  BY DEF Cancel
<1>8. dev.enroll_stage \in Nat
  BY <1>1 DEF DeviceType
<1> QED
  BY <1>5, <1>6, <1>7, <1>8 DEF IInv, Inv, Sound

LEMMA FingerSound ==
  ASSUME IInv, Finger
  PROVE  Inv(dev', finger') /\ Sound(dev, dev') /\ finger' \in BOOLEAN
<1>1. CASE FingerDown
  <2>1. dev \in DeviceType /\ dev' = [dev EXCEPT !.credited = FALSE] /\ finger'
    BY <1>1 DEF IInv, Inv, FingerDown
  <2>2. dev' \in DeviceType
    BY <2>1 DEF DeviceType
  <2>3. /\ dev'.deactivating = dev.deactivating /\ ~dev'.credited
        /\ dev'.cancel_idle = dev.cancel_idle /\ dev'.cancelled = dev.cancelled
        /\ dev'.returning = dev.returning /\ dev'.enroll_stage = dev.enroll_stage
        /\ dev.enroll_stage \in Nat
    BY <2>1 DEF DeviceType
  <2> QED
    BY <1>1, <2>2, <2>3 DEF IInv, Inv, Sound, FingerDown
<1>2. CASE FingerUp
  <2>1. dev' = dev /\ ~finger' /\ finger' \in BOOLEAN
    BY <1>2 DEF FingerUp
  <2>2. dev.enroll_stage \in Nat
    BY DEF IInv, Inv, DeviceType
  <2> QED
    BY <2>1, <2>2 DEF IInv, Inv, Sound
<1> QED
  BY <1>1, <1>2 DEF Finger

LEMMA CaptureReadSound ==
  ASSUME IInv, CaptureRead
  PROVE  Inv(dev', finger') /\ Sound(dev, dev')
<1>1. PICK tag \in InFlight("captureRead") : \E e \in CheckedOutcomes(tag) :
         \E image \in AvailableImages :
            dev' = CaptureReadCb(Reap(dev, "captureRead", tag), e, image)
  BY DEF CaptureRead
<1>2. PICK e \in Errors, image \in Images :
         dev' = CaptureReadCb(Reap(dev, "captureRead", tag), e, image)
  BY <1>1, OutcomesType, AvailableImagesType
<1> DEFINE s == Reap(dev, "captureRead", tag)
<1>3. Keeps(dev, s) /\ Inv(s, finger)
  BY ReapInFlight DEF Kinds
<1>4. finger' = finger /\ finger \in BOOLEAN
  BY DEF CaptureRead, IInv
<1> HIDE DEF s
<1>5. Inv(CaptureReadCb(s, e, image), finger) /\ Sound(s, CaptureReadCb(s, e, image))
  BY <1>3, <1>4, CaptureReadCbSound
<1>6. dev' = CaptureReadCb(s, e, image)
  BY <1>2 DEF s
<1> QED
  BY <1>3, <1>4, <1>5, <1>6, KeepsThenSound

LEMMA InterruptSound ==
  ASSUME IInv, Interrupt
  PROVE  Inv(dev', finger') /\ Sound(dev, dev')
<1>1. ASSUME NEW kind \in InterruptKinds, NEW tag \in InFlight(kind)
      PROVE  LET s == Reap(dev, kind, tag)
             IN  Keeps(dev, s) /\ Carries(dev, s) /\ Inv(s, finger) /\ Settled(s)
  BY <1>1, ReapInFlight, InvSettled DEF InterruptKinds, Kinds
<1>2. finger \in BOOLEAN
  BY DEF IInv
<1>3. CASE InterruptFinger
  <2>1. PICK kind \in InterruptKinds : \E tag \in InFlight(kind) :
           dev' = InterruptFingerCb(Reap(dev, kind, tag))
    BY <1>3 DEF InterruptFinger
  <2>2. PICK tag \in InFlight(kind) : dev' = InterruptFingerCb(Reap(dev, kind, tag))
    BY <2>1
  <2> DEFINE s == Reap(dev, kind, tag)
  <2>3. finger /\ finger' = finger /\ Keeps(dev, s) /\ Inv(s, finger)
    BY <1>1, <1>3 DEF InterruptFinger
  <2>4. dev' = InterruptFingerCb(s)
    BY <2>2
  <2> HIDE DEF s
  <2>5. finger = TRUE
    BY <1>2, <2>3
  <2>6. Inv(dev', finger) /\ Sound(s, dev')
    BY <2>3, <2>4, <2>5, InterruptFingerCbSound
  <2> QED
    BY <2>3, <2>6, KeepsThenSound
<1>4. CASE InterruptOther
  <2>1. PICK kind \in InterruptKinds : \E tag \in InFlight(kind) :
           dev' = StartInterrupt(Reap(dev, kind, tag))
    BY <1>4 DEF InterruptOther
  <2>2. PICK tag \in InFlight(kind) : dev' = StartInterrupt(Reap(dev, kind, tag))
    BY <2>1
  <2>3. Carries(dev, dev')
    BY <1>1, <2>2, StartInterruptKeeps, CarriesTrans DEF Keeps
  <2> QED
    BY <1>2, <1>4, <2>3, CarriesSound DEF IInv, InterruptOther
<1>5. CASE ReleaseTimedOut
  <2>1. PICK tag \in InFlight("release") :
           dev' = InterruptErrorCb(Reap(dev, "release", tag), "timedOut")
    BY <1>5 DEF ReleaseTimedOut
  <2> DEFINE s == Reap(dev, "release", tag)
  <2>2. ~finger /\ finger' = finger /\ Keeps(dev, s) /\ Inv(s, finger)
    BY <1>1, <1>5 DEF ReleaseTimedOut, InterruptKinds
  <2>3. dev' = InterruptErrorCb(s, "timedOut")
    BY <2>1
  <2> HIDE DEF s
  <2>4. finger = FALSE
    BY <1>2, <2>2
  <2>5. Inv(dev', finger) /\ Sound(s, dev')
    BY <2>2, <2>3, <2>4, ReleaseTimedOutSound
  <2> QED
    BY <2>2, <2>5, KeepsThenSound
<1>6. CASE InterruptCancelled
  <2>1. PICK kind \in InterruptKinds :
           /\ "doomed" \in InFlight(kind)
           /\ dev' = InterruptErrorCb(Reap(dev, kind, "doomed"), "cancelled")
    BY <1>6 DEF InterruptCancelled
  <2>2. Carries(dev, dev')
    BY <1>1, <2>1, InterruptErrorCbCarries, CarriesTrans DEF Errors
  <2> QED
    BY <1>2, <1>6, <2>2, CarriesSound DEF IInv, InterruptCancelled
<1>7. CASE InterruptFault
  <2>1. PICK kind \in InterruptKinds : \E tag \in InFlight(kind) :
           \E e \in Outcomes(tag) \ {"none", "timedOut", "cancelled"} :
              dev' = InterruptErrorCb(Reap(dev, kind, tag), e)
    BY <1>7 DEF InterruptFault
  <2>2. PICK tag \in InFlight(kind) : \E e \in Errors \ {"none", "timedOut"} :
              dev' = InterruptErrorCb(Reap(dev, kind, tag), e)
    BY <2>1, OutcomesType
  <2>3. PICK e \in Errors \ {"none", "timedOut"} :
              dev' = InterruptErrorCb(Reap(dev, kind, tag), e)
    BY <2>2
  <2>4. Carries(dev, dev')
    BY <1>1, <2>3, InterruptErrorCbCarries, CarriesTrans
  <2> QED
    BY <1>2, <1>7, <2>4, CarriesSound DEF IInv, InterruptFault
<1> QED
  BY <1>3, <1>4, <1>5, <1>6, <1>7 DEF Interrupt

LEMMA WakeRetryTimeoutCarries ==
  ASSUME IInv, WakeRetryTimeout
  PROVE  Carries(dev, dev')
  BY InvSettled, WakeRetryTimeoutCbCarries DEF IInv, WakeRetryTimeout

LEMMA CallbackSound ==
  ASSUME IInv, Callback
  PROVE  Inv(dev', finger') /\ Sound(dev, dev')
<1>1. CASE Carries(dev, dev') /\ finger' = finger
  BY <1>1, CarriesSound DEF IInv
<1>2. CASE \/ OperationControl \/ InitWrite \/ InitRead
           \/ RearmWrite \/ RearmRead \/ CaptureWrite
  <2>1. finger' = finger
    BY <1>2 DEF OperationControl, InitWrite, InitRead, RearmWrite, RearmRead, CaptureWrite
  <2> QED
    BY <1>1, <1>2, <2>1, TransferSteps
<1>3. CASE CaptureRead
  BY <1>3, CaptureReadSound
<1>4. CASE WakeRetryTimeout
  BY <1>1, <1>4, WakeRetryTimeoutCarries DEF WakeRetryTimeout
<1>5. CASE MinutiaeDetected
  BY <1>1, <1>5, MinutiaeDetectedCarries DEF MinutiaeDetected
<1>6. CASE CancelInIdle
  BY <1>1, <1>6, CancelInIdleCarries DEF CancelInIdle
<1>7. CASE TaskReturn
  BY <1>7, TaskReturnSound
<1> QED
  BY <1>2, <1>3, <1>4, <1>5, <1>6, <1>7 DEF Callback

LEMMA ClientSound ==
  ASSUME IInv, Client
  PROVE  Inv(dev', finger') /\ Sound(dev, dev')
<1>1. CASE Open \/ Close
  <2>1. finger' = finger
    BY <1>1 DEF Open, Close
  <2> QED
    BY <1>1, <2>1, OpenCloseCarries, CarriesSound DEF IInv
<1>2. CASE \E a \in ActionKinds : StartAction(a)
  BY <1>2, StartActionSound
<1>3. CASE Cancel
  BY <1>3, CancelSound
<1> QED
  BY <1>1, <1>2, <1>3 DEF Client

LEMMA SessionsBounded ==
  ASSUME IInv, Next
  PROVE  sessions' \in 0 .. MaxSessions
<1>1. CASE \E a \in ActionKinds : StartAction(a)
  BY <1>1, ConstantsAssumption DEF IInv, StartAction
<1>2. CASE UNCHANGED sessions
  BY <1>2 DEF IInv
<1>3. (\E a \in ActionKinds : StartAction(a)) \/ UNCHANGED sessions
  BY DEF Next, Callback, Interrupt, Client, Finger, OperationControl, InitWrite, InitRead,
         RearmWrite, RearmRead, CaptureWrite, CaptureRead, WakeRetryTimeout, MinutiaeDetected,
         CancelInIdle, TaskReturn, InterruptFinger, InterruptOther, ReleaseTimedOut,
         InterruptCancelled, InterruptFault, Open, Close, Cancel, FingerDown, FingerUp
<1> QED
  BY <1>1, <1>2, <1>3

LEMMA FingerBoolean ==
  ASSUME IInv, Next
  PROVE  finger' \in BOOLEAN
<1>1. finger' \in {TRUE, FALSE, finger}
  BY DEF Next, Callback, Interrupt, Client, Finger, OperationControl, InitWrite, InitRead,
         RearmWrite, RearmRead, CaptureWrite, CaptureRead, WakeRetryTimeout, MinutiaeDetected,
         CancelInIdle, TaskReturn, InterruptFinger, InterruptOther, ReleaseTimedOut,
         InterruptCancelled, InterruptFault, Open, Close, StartAction, Cancel,
         FingerDown, FingerUp
<1> QED
  BY <1>1 DEF IInv

LEMMA InitIInv == Init => IInv
<1> SUFFICES ASSUME Init PROVE IInv
  OBVIOUS
<1>1. [x \in Transfers |-> 0] \in [Transfers -> Nat]
  OBVIOUS
<1>2. dev \in DeviceType
  BY <1>1 DEF Init, DeviceType, FwStates, Errors
<1>3. ~dev.deactivating /\ ~dev.credited /\ ~dev.cancel_idle
  BY DEF Init
<1>4. MaxSessions \in Nat
  BY ConstantsAssumption
<1>5. sessions \in 0 .. MaxSessions
  BY <1>4 DEF Init
<1>6. finger \in BOOLEAN
  BY DEF Init
<1> QED
  BY <1>2, <1>3, <1>5, <1>6 DEF IInv, Inv

\* Every step keeps the invariant and is sound.
LEMMA NextIInv == IInv /\ [Next]_vars => IInv' /\ Sound(dev, dev')
<1> SUFFICES ASSUME IInv, [Next]_vars PROVE IInv' /\ Sound(dev, dev')
  OBVIOUS
<1>1. CASE Next
  <2>1. Inv(dev', finger') /\ Sound(dev, dev')
    BY <1>1, CallbackSound, InterruptSound, ClientSound, FingerSound DEF Next
  <2>2. sessions' \in 0 .. MaxSessions /\ finger' \in BOOLEAN
    BY <1>1, SessionsBounded, FingerBoolean
  <2> QED
    BY <2>1, <2>2 DEF IInv
<1>2. CASE UNCHANGED vars
  <2>1. IInv'
    BY <1>2 DEF IInv, vars
  <2>2. dev.enroll_stage \in Nat
    BY DEF IInv, Inv, DeviceType
  <2> QED
    BY <1>2, <2>1, <2>2 DEF Sound, vars
<1> QED
  BY <1>1, <1>2

-----------------------------------------------------------------------------
(* The theorems. *)

\* Every reachable state satisfies the inductive invariant: the types, no
\* deactivation left half done, a counted touch watched until it ends.
THEOREM Invariance == Spec => []IInv
<1>1. Init => IInv
  BY InitIInv
<1>2. IInv /\ [Next]_vars => IInv'
  BY NextIInv
<1> QED
  BY <1>1, <1>2, PTL DEF Spec

\* Type correctness of the driver, the framework and the loop, for any number
\* of transfers in flight.
THEOREM TypeCorrect == Spec => []TypeOK
<1>1. IInv => TypeOK
  BY DEF IInv, Inv, TypeOK
<1> QED
  BY <1>1, Invariance, PTL

\* While a counted touch lasts no stage image is read and the driver waits for
\* the finger to leave.
THEOREM CountedTouchIsWatched == Spec => []CountedTouchWatched
<1>1. IInv => CountedTouchWatched
  BY DEF IInv, Inv, CountedTouchWatched
<1> QED
  BY <1>1, Invariance, PTL

\* No callback leaves a deactivation half done, whatever fails or is cancelled.
THEOREM CallbacksSettle == Spec => []SettledBetweenCallbacks
<1>1. IInv => SettledBetweenCallbacks
  BY DEF IInv, Inv, SettledBetweenCallbacks
<1> QED
  BY <1>1, Invariance, PTL

\* A finger held on the sensor is never counted as two enrollment stages.
THEOREM HeldFingerCountsOnce == Spec => HeldFingerOnce
<1>1. IInv /\ [Next]_vars => [dev'.enroll_stage > dev.enroll_stage => ~dev.credited]_vars
  BY NextIInv DEF Sound
<1> QED
  BY <1>1, Invariance, PTL DEF Spec, HeldFingerOnce

\* An enrollment that succeeds has a gallery of all its stages.
THEOREM SuccessIsComplete == Spec => EnrollNeedsAllStages
<1>1. IInv /\ [Next]_vars =>
        [Completes /\ dev.action = "enroll" /\ dev'.result = "ok"
           => dev'.enroll_stage = NrEnrollStages]_vars
  BY NextIInv DEF Sound, Completes
<1> QED
  BY <1>1, Invariance, PTL DEF Spec, EnrollNeedsAllStages

=============================================================================
