------------------------------- MODULE Probes -------------------------------
(***************************************************************************)
(* The acquisition probe and the query probe started at the same time on   *)
(* one reader.  The kernel gives the reader's interface to one process at  *)
(* a time; everything else of the two interleaves freely.                  *)
(***************************************************************************)
EXTENDS ProbeScanProperties

CONSTANTS
    Lengths,       \* lengths a response may have
    Partitions     \* partition counts a flash response may declare

\* Nothing depends on the size of the buffer of run_query, nor on the width of
\* the count in print_flash_info.
ASSUME QueryAssumption == Lengths \subseteq Nat /\ Partitions \subseteq Nat

VARIABLES query_approved, query_pc, query_step, query_held, query_sent,
          query_printed, query_exit_code

Query == INSTANCE ProbeQuery WITH
    approved <- query_approved, pc <- query_pc, step <- query_step,
    held <- query_held, sent <- query_sent, printed <- query_printed,
    exit_code <- query_exit_code

queryVars == <<query_approved, query_pc, query_step, query_held, query_sent,
               query_printed, query_exit_code>>

ProbesInit == Init /\ Query!Init

\* libusb_claim_interface fails while another process holds the interface.
Exclusive == ~("claim" \in held' /\ "claim" \in query_held')

ScanProgram == Program /\ UNCHANGED queryVars /\ Exclusive
ScanBus == BusCompletes /\ UNCHANGED queryVars
ScanCallback == BulkReadCallback /\ UNCHANGED queryVars
QueryProgram == Query!Next /\ UNCHANGED vars /\ Exclusive

ProbesNext == ScanProgram \/ ScanBus \/ ScanCallback \/ QueryProgram

\* The programs run; the frame's transfer has a timeout, so the bus ends it; and
\* handling events delivers the callback in the end.
ProbesSpec ==
    /\ ProbesInit /\ [][ProbesNext]_<<vars, queryVars>>
    /\ WF_<<vars, queryVars>>(ScanProgram)
    /\ WF_<<vars, queryVars>>(ScanBus)
    /\ WF_<<vars, queryVars>>(ScanCallback)
    /\ WF_<<vars, queryVars>>(QueryProgram)

(***************************************************************************)
(* Properties of the query probe and of the two together.                  *)
(***************************************************************************)
\* The query probe does not disturb an acquisition: while the acquisition
\* probe converses with the reader no query reaches it, whatever fails on
\* either side.
NoQueryDuringAcquisition ==
    [][query_sent' # query_sent => "claim" \notin held]_<<vars, queryVars>>

\* A declared partition count is not believed: every partition printed lies
\* inside the response that was received (print_flash_info).
PartitionsInsideResponse ==
    \A response \in query_printed : 16 + 12 * response.partitions <= response.length

\* Exit status 0 of the query probe means three answers, and whatever fails the
\* interface is given back to the other probe.
QueryExitIsTrue ==
    query_pc = "exited" =>
        /\ query_held = {}
        /\ query_exit_code = 0 =>
              query_sent = {"information", "status", "flash"} /\ query_printed # {}

\* Both programs end, the acquisition at the latest after its attempts to see a
\* touch, and after the callback of a transfer it cancels.
BothEnd == <>[](At("exited") /\ query_pc = "exited")
=============================================================================
