------------------------------ MODULE Decoder ------------------------------
(***************************************************************************)
(* tools/syna0082_protocol.py: a normalized capture, one JSON record per   *)
(* line, is read, put in frame order, and its commands are paired with     *)
(* their responses.  Records and transactions are named by the line they   *)
(* come from.                                                              *)
(***************************************************************************)
EXTENDS Naturals, Sequences

CONSTANTS
    Payloads,    \* contents of usb.capdata
    Lines,       \* lines a capture may have
    MaxLines     \* bound: lines of a capture

CommandOut == 1      \* endpoint 0x01
ResponseIn == 129   \* endpoint 0x81
InterruptIn == 131  \* endpoint 0x83

\* "frame" is 0 where the line has no usable number, "endpoint" holds every
\* occurrence TShark found in the frame, "control" is a transfer type of 2
\* with a request, "hex" is how usb.capdata is written.
LineType ==
    [shape : {"record", "blank", "broken"}, frame : Nat, endpoint : Seq(Nat),
     control : BOOLEAN, hex : {"plain", "colons", "broken"}, payload : Payloads]

ASSUME DecoderAssumption ==
    /\ \A p \in Payloads : p.length \in Nat
    /\ Lines \subseteq LineType
    /\ MaxLines \in Nat

VARIABLES
    file,       \* the lines read so far
    records,    \* read_capture: lines with a payload, in frame order
    phase,      \* "reading", "pairing", "done"; "failed" is exit status 2
    next,       \* transactions: the record it looks at,
    pending,    \* the command it collects responses for, if any,
    result      \* and the transactions it has finished

decoderVars == <<file, records, phase, next, pending, result>>

DecoderInit ==
    /\ file = <<>>
    /\ records = <<>>
    /\ phase = "reading"
    /\ next = 1
    /\ pending = {}
    /\ result = {}

(***************************************************************************)
(* read_capture.                                                           *)
(***************************************************************************)
\* _payload removes colons and blanks first.
Invalid(line) ==
    \/ line.shape = "broken"
    \/ line.shape = "record" /\ line.hex = "broken" /\ line.payload.length > 0

\* Blank lines and records without data are passed over.
HasPayload(line) == line.shape = "record" /\ line.payload.length > 0

\* _integer(...) or line_number.
Frame(f, l) == IF f[l].frame = 0 THEN l ELSE f[l].frame

\* _integer: the first of several occurrences.  The other readers compare its
\* text ("0x01", "0x81"), which TShark spells in this one way.
Endpoint(l) == IF file[l].endpoint = <<>> THEN 0 ELSE file[l].endpoint[1]

\* Mutant: a record goes before those of its own frame.
Behind_Unstable(f, l) ==
    {k \in 0 .. Len(records) :
        \A i \in DOMAIN records : i <= k <=> Frame(f, records[i]) < Frame(f, l)}

\* sorted is stable: a record goes behind those of its own frame.
Behind(f, l) ==
    {k \in 0 .. Len(records) :
        \A i \in DOMAIN records : i <= k <=> Frame(f, records[i]) <= Frame(f, l)}

\* An invalid line ends the reading with an error, which drops the records:
\* what is made of the lines behind it does not matter.
ReadLine(line) ==
    /\ phase = "reading" /\ Len(file) < MaxLines
    /\ file' = Append(file, line)
    /\ IF HasPayload(line) /\ ~Invalid(line)
       THEN \E k \in Behind(file', Len(file')) :
               records' = SubSeq(records, 1, k) \o <<Len(file')>>
                            \o SubSeq(records, k + 1, Len(records))
       ELSE UNCHANGED records
    /\ UNCHANGED <<phase, next, pending, result>>

EndOfFile ==
    /\ phase = "reading"
    /\ phase' = IF \E l \in DOMAIN file : Invalid(file[l]) THEN "failed" ELSE "pairing"
    /\ UNCHANGED <<file, records, next, pending, result>>

(***************************************************************************)
(* transactions.                                                           *)
(***************************************************************************)
Looking == phase = "pairing" /\ next <= Len(records)

Record == records[next]

Transaction(kind, l) == [kind |-> kind, at |-> l, responses |-> {}]

Command ==
    /\ Looking /\ Endpoint(Record) = CommandOut
    /\ result' = result \cup pending
    /\ pending' = {Transaction("command", Record)}
    /\ next' = next + 1
    /\ UNCHANGED <<file, records, phase>>

IsResponse == Endpoint(Record) = ResponseIn /\ pending # {}

Response ==
    /\ Looking /\ IsResponse
    /\ pending' = {[tx EXCEPT !.responses = @ \cup {Record}] : tx \in pending}
    /\ next' = next + 1
    /\ UNCHANGED <<file, records, phase, result>>

\* Mutant: whatever is no response ends the command before it.
Other_EndsCommand ==
    /\ Looking /\ Endpoint(Record) # CommandOut /\ ~IsResponse
    /\ result' = result \cup pending \cup
          CASE Endpoint(Record) = InterruptIn -> {Transaction("interrupt", Record)}
            [] file[Record].control -> {Transaction("control", Record)}
            [] OTHER -> {}
    /\ pending' = {}
    /\ next' = next + 1
    /\ UNCHANGED <<file, records, phase>>

\* An interrupt or a control request; what belongs to nothing is left out.
Other ==
    /\ Looking /\ Endpoint(Record) # CommandOut /\ ~IsResponse
    /\ result' = result \cup
          (CASE Endpoint(Record) = InterruptIn -> {Transaction("interrupt", Record)}
             [] Endpoint(Record) # InterruptIn /\ file[Record].control ->
                  {Transaction("control", Record)}
             [] OTHER -> {})
    /\ next' = next + 1
    /\ UNCHANGED <<file, records, phase, pending>>

EndOfRecords ==
    /\ phase = "pairing" /\ next > Len(records)
    /\ result' = result \cup pending
    /\ pending' = {}
    /\ phase' = "done"
    /\ UNCHANGED <<file, records, next>>

Pairing == Command \/ Response \/ Other \/ EndOfRecords

DecoderNext == (\E line \in Lines : ReadLine(line)) \/ EndOfFile \/ Pairing

DecoderSpec == DecoderInit /\ [][DecoderNext]_decoderVars

(***************************************************************************)
(* The pairing, said of the file.                                          *)
(***************************************************************************)
Used == {l \in DOMAIN file : HasPayload(file[l])}

Before(l, m) == Frame(file, l) < Frame(file, m) \/ (Frame(file, l) = Frame(file, m) /\ l < m)

\* The command under way when line l was captured.
Owner(l) ==
    {c \in Used : /\ Endpoint(c) = CommandOut /\ Before(c, l)
                  /\ \A d \in Used : Endpoint(d) = CommandOut /\ Before(d, l) => ~Before(c, d)}

Owned(c) == {l \in Used : Endpoint(l) = ResponseIn /\ c \in Owner(l)}

Paired ==
    {[kind |-> "command", at |-> c, responses |-> Owned(c)] :
        c \in {l \in Used : Endpoint(l) = CommandOut}}
    \cup {Transaction("interrupt", l) : l \in {m \in Used : Endpoint(m) = InterruptIn}}
    \cup {Transaction("control", l) :
            l \in {m \in Used : /\ Endpoint(m) \notin {CommandOut, InterruptIn}
                                /\ file[m].control
                                /\ Endpoint(m) = ResponseIn => Owner(m) = {}}}

\* Whatever the order of the lines and whatever lies between them, each
\* response belongs to the last command captured before it, in frame order,
\* and to no other; no command, interrupt or control request is lost
\* (transactions).
PairingIsTrue == phase = "done" => result = Paired
=============================================================================
