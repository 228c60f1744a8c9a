------------------------ MODULE ProbeScanProperties ------------------------
(***************************************************************************)
(* What the acquisition probe must guarantee.                              *)
(***************************************************************************)
EXTENDS ProbeScan

\* libusb writes the frame into the transfer's buffer and calls the callback
\* with a BulkRead on the stack of capture_image: the transfer is freed, the
\* function left and the handle closed only after the callback has run,
\* unless libusb refused to cancel the transfer.
FreedAfterCallback ==
    read.bus # "idle" => (read.allocated /\ "handle" \in held) \/ read.refused

\* Whatever fails, the process exits with nothing allocated and nothing
\* claimed.
CleanExit == At("exited") => held = {} /\ ~read.allocated

\* Exit status 0 promises what was asked for: a complete frame from a device
\* that accepted the scan matrix and the configuration before it, or the
\* requested stop and no file.
SuccessIsTrue ==
    At("exited") /\ exit_code = 0 =>
        CASE options.stop = "config" -> output \in {"absent", "other"}
          [] options.stop = "matrix" ->
               {"config06", "scan02"} \subseteq device /\ output \in {"absent", "other"}
          [] OTHER -> {"config06", "scan02"} \subseteq device /\ output = "complete"
=============================================================================
