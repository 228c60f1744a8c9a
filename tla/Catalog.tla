------------------------------ MODULE Catalog ------------------------------
(***************************************************************************)
(* The catalog of sensor configurations in the vendor's driver             *)
(* (syna0082_descriptor_catalog.py), and the configuration the             *)
(* provisioning tool takes from it (config_from_dll): every known place of *)
(* the table of pointers is tried, and the table walked to its null        *)
(* pointer.  The file is one nobody controls.                              *)
(***************************************************************************)
EXTENDS Integers, Sequences, FiniteSets

CONSTANTS
    Files,          \* files the tools may be given: RVA -> the table there
    CandidateRvas,  \* KNOWN_CATALOG_RVAS, in order, or --catalog-rva alone
    Indices,        \* --descriptor-index
    Maximum,        \* entries of a catalog at most (4096)
    ConfigBlocks    \* 16-byte blocks of a protected configuration (656)

\* What can be read at an RVA: entries up to the end of the file.  An entry is
\* a null pointer, one that leads nowhere, or the descriptor it leads to, whose
\* payload is a header of four bytes, blocks of 16, and a tail.
Table(file, rva) == IF rva \in DOMAIN file THEN file[rva] ELSE <<>>

EntryKinds == {"null", "nowhere", "descriptor"}

ASSUME CatalogAssumption ==
    /\ CandidateRvas \in Seq(Nat)
    /\ \A file \in Files : \A rva \in DOMAIN file :
          /\ Len(file[rva]) \in Nat /\ DOMAIN file[rva] = 1 .. Len(file[rva])
          /\ \A i \in DOMAIN file[rva] : file[rva][i].kind \in EntryKinds
          /\ \A i \in DOMAIN file[rva] : file[rva][i].kind = "descriptor" =>
                LET blocks == file[rva][i].payload.blocks
                IN  Len(blocks) \in Nat /\ DOMAIN blocks = 1 .. Len(blocks)
    /\ Indices \subseteq Int
    /\ Maximum \in Nat /\ ConfigBlocks \in Nat

VARIABLES
    binary,       \* the file
    index,        \* the descriptor asked for
    position,     \* position of the candidate RVA
    descriptors,  \* parse_catalog: the payloads of the descriptors so far
    successes,    \* config_from_dll: configurations with their RVAs
    outcome       \* "running", "ok", "error", or "crash" for an uncaught error

catalogVars == <<binary, index, position, descriptors, successes, outcome>>

CatalogInit ==
    /\ binary \in Files
    /\ index \in Indices
    /\ position = 1
    /\ descriptors = <<>>
    /\ successes = <<>>
    /\ outcome = "running"

(***************************************************************************)
(* parse_catalog: one entry of the table per step.                         *)
(***************************************************************************)
Parsing == outcome = "running" /\ position <= Len(CandidateRvas)
Rva == CandidateRvas[position]
Readable == Len(descriptors) < Maximum /\ Len(descriptors) < Len(Table(binary, Rva))
Entry == Table(binary, Rva)[Len(descriptors) + 1]

\* parse_descriptor: the reserved bytes are zero, and the payload lies in the
\* file and has a header.
WellFormed(e) == e.kind = "descriptor" /\ e.reserved = 0 /\ e.mapped /\ e.payload.header # "short"

ParseDescriptor ==
    /\ Parsing /\ Readable /\ WellFormed(Entry)
    /\ descriptors' = Append(descriptors, Entry.payload)
    /\ UNCHANGED <<binary, index, position, successes, outcome>>

\* The end of the file, a malformed entry, or no null pointer in time.
Broken == Parsing /\ (Readable => Entry.kind # "null" /\ ~WellFormed(Entry))

Terminated == Parsing /\ Readable /\ Entry.kind = "null"

(***************************************************************************)
(* config_from_reader, for each candidate RVA.                             *)
(***************************************************************************)
\* A negative index counts from the end, as in any Python list.
Named == IF index >= 0 THEN descriptors[index + 1] ELSE descriptors[Len(descriptors) + 1 + index]

Supported(p) == p.header = "02000001" /\ Len(p.blocks) = ConfigBlocks /\ p.tail = 0

NextCandidate(found) ==
    /\ successes' = successes \o found
    /\ position' = position + 1
    /\ descriptors' = <<>>
    /\ UNCHANGED <<binary, index, outcome>>

\* Mutant: a broken catalog ends the search.
SkipBroken_Stops ==
    /\ Broken
    /\ outcome' = "error"
    /\ UNCHANGED <<binary, index, position, descriptors, successes>>

\* An error of one candidate is noted, and the next one tried.
SkipBroken == Broken /\ NextCandidate(<<>>)

SkipAbsent == Terminated /\ index >= Len(descriptors) /\ NextCandidate(<<>>)

\* The index is compared with the length from above only: an IndexError, which
\* nothing catches.
CrashOnIndex ==
    /\ Terminated /\ -index > Len(descriptors)
    /\ outcome' = "crash"
    /\ UNCHANGED <<binary, index, position, descriptors, successes>>

TakeDescriptor ==
    /\ Terminated /\ index < Len(descriptors) /\ -index <= Len(descriptors)
    /\ NextCandidate(IF Supported(Named) THEN <<[config |-> Named, rva |-> Rva]>> ELSE <<>>)

\* Mutant: the first configuration is taken, whatever the others are.
Unique_First == successes # <<>>

Unique == Cardinality({successes[i].config : i \in DOMAIN successes}) = 1

\* selected_rva is that of the first success.
Select ==
    /\ outcome = "running" /\ position > Len(CandidateRvas)
    /\ outcome' = IF Unique THEN "ok" ELSE "error"
    /\ UNCHANGED <<binary, index, position, descriptors, successes>>

CatalogNext ==
    \/ ParseDescriptor \/ SkipBroken \/ SkipAbsent
    \/ CrashOnIndex \/ TakeDescriptor \/ Select

CatalogSpec == CatalogInit /\ [][CatalogNext]_catalogVars
=============================================================================
