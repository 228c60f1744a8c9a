----------------------------- MODULE ProbeQuery -----------------------------
(***************************************************************************)
(* The query probe (probe/syna0082-query.c): a process that opens the      *)
(* reader like the acquisition probe, asks it for its information, its     *)
(* status and its flash partitions, and prints the answers.                *)
(***************************************************************************)
EXTENDS Naturals

CONSTANTS
    Lengths,       \* lengths a response may have
    Partitions     \* partition counts a flash response may declare

Queries == <<"information", "status", "flash">>

VARIABLES
    approved,     \* was the acknowledging argument given?
    pc,
    step,         \* next element of Queries
    held,         \* libusb resources the program holds
    sent,         \* queries that reached the device
    printed,      \* flash responses whose partitions were printed
    exit_code

vars == <<approved, pc, step, held, sent, printed, exit_code>>

Labels == {"parse", "init", "open", "claim", "query", "cleanup", "exited"}

Init ==
    /\ approved \in BOOLEAN
    /\ pc = "parse" /\ step = 1 /\ held = {} /\ sent = {} /\ printed = {}
    /\ exit_code = 1

At(label) == pc = label
Go(label) == pc' = label

ParseArguments ==
    /\ At("parse")
    /\ IF approved THEN Go("init") /\ UNCHANGED exit_code
       ELSE Go("exited") /\ exit_code' = 2
    /\ UNCHANGED <<approved, step, held, sent, printed>>

Acquire(label, resource, next) ==
    /\ At(label)
    /\ \/ held' = held \cup {resource} /\ Go(next)
       \/ UNCHANGED held /\ Go("cleanup")
    /\ UNCHANGED <<approved, step, sent, printed, exit_code>>

LibusbInit == Acquire("init", "context", "open")
OpenDevice == Acquire("open", "handle", "claim")

\* Mutant: a refused claim is not noticed.
ClaimInterface_Ignored ==
    /\ At("claim")
    /\ held' \in {held, held \cup {"claim"}} /\ Go("query")
    /\ UNCHANGED <<approved, step, sent, printed, exit_code>>

ClaimInterface == Acquire("claim", "claim", "query")

\* A response: its length, whether it begins with the expected prefix (of a
\* response shorter than the prefix this says what the buffer held before),
\* and the partitions a flash response declares.
Responses == [length : Lengths, prefix : BOOLEAN, partitions : Partitions]

\* Mutant: the two status bytes are not counted.
FlashFits_NoStatus(response) ==
    /\ response.length >= 14
    /\ response.partitions <= (response.length - 14) \div 12

\* print_flash_info: a status of 2 bytes, a header of 14, 12 for each
\* partition.
FlashFits(response) ==
    /\ response.length >= 16
    /\ response.partitions <= (response.length - 16) \div 12

WellFormed(query, response) ==
    CASE query = "information" -> response.length = 38 /\ response.prefix
      [] query = "status" -> response.length = 68
      [] query = "flash" -> response.prefix /\ FlashFits(response)

\* A query is written; the read fails, or brings a response.
RunQuery ==
    /\ At("query")
    /\ LET query == Queries[step]
       IN  \/ Go("cleanup") /\ sent' \in {sent, sent \cup {query}}
              /\ UNCHANGED <<step, printed, exit_code>>
           \/ /\ sent' = sent \cup {query}
              /\ \E response \in Responses :
                    IF ~WellFormed(query, response)
                    THEN Go("cleanup") /\ UNCHANGED <<step, printed, exit_code>>
                    ELSE /\ printed' = IF query = "flash" THEN {response} ELSE printed
                         /\ IF step = 3
                            THEN Go("cleanup") /\ exit_code' = 0 /\ UNCHANGED step
                            ELSE step' = step + 1 /\ UNCHANGED <<pc, exit_code>>
    /\ UNCHANGED <<approved, held>>

\* Mutant: a failed query returns at once.
Cleanup_AfterSuccess ==
    /\ At("cleanup")
    /\ held' = IF exit_code = 0 THEN {} ELSE held
    /\ Go("exited")
    /\ UNCHANGED <<approved, step, sent, printed, exit_code>>

Cleanup ==
    /\ At("cleanup")
    /\ held' = {}
    /\ Go("exited")
    /\ UNCHANGED <<approved, step, sent, printed, exit_code>>

Next ==
    \/ ParseArguments \/ LibusbInit \/ OpenDevice \/ ClaimInterface
    \/ RunQuery \/ Cleanup
=============================================================================
