--------------------------- MODULE ActionContract ---------------------------
(***************************************************************************)
(* What the driver promises the client of an action (enroll, verify,       *)
(* identify, capture), without transfers, timers or a framework: an action *)
(* runs, makes progress by touches, finishes once with one outcome, and is *)
(* returned to the client.                                                 *)
(***************************************************************************)
EXTENDS Naturals

CONSTANTS
    Kinds,      \* the actions a client starts
    Needed      \* Needed[k]: the progress an action of kind k takes

VARIABLES
    phase,      \* "idle", "running", or "finished" and about to be returned
    kind,       \* the action; "none" while idle
    progress,   \* enrollment stages, or reported results, so far
    fresh,      \* has the present touch not been counted yet?
    asked,      \* has the client asked to cancel?
    outcome     \* "ok", "cancelled", "error"; "none" before an action finishes

contractVars == <<phase, kind, progress, fresh, asked, outcome>>

Outcomes == {"ok", "cancelled", "error"}

Init ==
    /\ phase = "idle" /\ kind = "none" /\ progress = 0
    /\ fresh = TRUE /\ asked = FALSE /\ outcome = "none"

Start(k) ==
    /\ phase = "idle"
    /\ phase' = "running" /\ kind' = k /\ progress' = 0
    /\ fresh' = TRUE /\ asked' = FALSE /\ outcome' = "none"

\* A request that is refused before anything happens.
Refuse(k) ==
    /\ phase = "idle"
    /\ phase' = "finished" /\ kind' = k /\ progress' = 0
    /\ fresh' = TRUE /\ asked' = FALSE /\ outcome' = "error"

Touch ==
    /\ fresh' = TRUE
    /\ UNCHANGED <<phase, kind, progress, asked, outcome>>

Ask ==
    /\ phase = "running"
    /\ asked' = TRUE
    /\ UNCHANGED <<phase, kind, progress, fresh, outcome>>

\* One touch is one enrollment stage; a result is reported at most once.
Advance ==
    /\ phase = "running" /\ progress < Needed[kind]
    /\ IF kind = "enroll" THEN fresh /\ fresh' = FALSE ELSE UNCHANGED fresh
    /\ progress' = progress + 1

Step == Advance /\ UNCHANGED <<phase, kind, asked, outcome>>

\* The last step may finish the action at once.
Finish(o) ==
    /\ phase = "running"
    /\ Advance \/ UNCHANGED <<progress, fresh>>
    /\ o = "ok" => progress' = Needed[kind]
    /\ o = "cancelled" => asked
    /\ phase' = "finished" /\ outcome' = o
    /\ UNCHANGED <<kind, asked>>

Return ==
    /\ phase = "finished"
    /\ phase' = "idle" /\ kind' = "none" /\ progress' = 0
    /\ fresh' = TRUE /\ asked' = FALSE /\ outcome' = "none"

Next ==
    \/ \E k \in Kinds : Start(k) \/ Refuse(k)
    \/ Touch \/ Ask \/ Step
    \/ \E o \in Outcomes : Finish(o)
    \/ Return

Contract == Init /\ [][Next]_contractVars
=============================================================================
