------------------------- MODULE VendorProperties -------------------------
(***************************************************************************)
(* What the vendor-file tools must guarantee.                              *)
(***************************************************************************)
EXTENDS Containers

\* The catalog at an RVA as a whole: what precedes the first null pointer, if
\* that comes in time and all of it is well-formed.
Whole(rva) ==
    {[i \in 1 .. n - 1 |-> Table(binary, rva)[i].payload] : n \in
        {m \in DOMAIN Table(binary, rva) :
            /\ m <= Maximum /\ Table(binary, rva)[m].kind = "null"
            /\ \A i \in 1 .. m - 1 : WellFormed(Table(binary, rva)[i])}}

\* The configurations the file offers under the index.
Offers(rva) ==
    {p \in {c[index + 1] : c \in {d \in Whole(rva) : index \in 0 .. Len(d) - 1}} : Supported(p)}

Offered == UNION {Offers(CandidateRvas[i]) : i \in DOMAIN CandidateRvas}

\* A broken or foreign table at one candidate RVA neither hides nor replaces
\* the configuration at another: provisioning succeeds exactly when all
\* candidates together offer one configuration, whatever order they are in,
\* and names the first RVA that offers it (config_from_dll).  Only a negative
\* index ends in an uncaught error, of files that are in the PE format at all.
ConfigIsTheOnlyOffer ==
    /\ outcome = "crash" => index < 0
    /\ index >= 0 /\ outcome = "ok" =>
          /\ Offered = {successes[1].config}
          /\ \E i \in DOMAIN CandidateRvas :
                /\ successes[1].rva = CandidateRvas[i] /\ Offers(CandidateRvas[i]) # {}
                /\ \A j \in 1 .. i - 1 : Offers(CandidateRvas[j]) = {}
    /\ index >= 0 /\ outcome = "error" => Cardinality(Offered) # 1

\* The message provisioning makes of a descriptor, sent and captured, is
\* identified as that descriptor again (config_from_reader, match_payload).
ProvisionedIsIdentified ==
    index >= 0 /\ outcome = "ok" =>
        \A catalog \in Whole(successes[1].rva) :
            index + 1 \in Matches([command |-> "06", payload |-> successes[1].config], catalog)

\* What provisioning takes from the driver is right in both directions.
ProvisionedIsTrue == ConfigIsTheOnlyOffer /\ ProvisionedIsIdentified

\* What is printed as a repeated run is one: two blocks or more, equal in two
\* payloads, and no longer run contains it; and every such run is printed.
RunsAreMaximal ==
    stage = "printed" =>
        report.runs =
            {run \in [left : DOMAIN descriptors, right : DOMAIN descriptors,
                      i : 1 .. report.blocks, j : 1 .. report.blocks, count : 2 .. report.blocks] :
                LET equal(from, to) ==
                        \A k \in from .. to : Same(run.left, run.i + k, run.right, run.j + k)
                IN  /\ run.left < run.right
                    /\ equal(0, run.count - 1)
                    /\ ~equal(-1, run.count - 1) /\ ~equal(0, run.count)}

\* The printed counts fit together: every block is unique, or one of the
\* occurrences of a repeated value; what lies behind the prefixes is not less
\* than nothing; a run is made of repeated values.
CountsFit ==
    stage = "printed" =>
        /\ report.blocks = report.unique - report.values + report.occurrences
        /\ report.behind \in 0 .. report.blocks
        /\ report.runs # {} => report.values > 0

\* The encoding of a type-1 block.
Padding(e) ==
    \E n \in 8 .. Len(e) :
        /\ n + 3 < Len(e)
        /\ e = <<0, 1>> \o [i \in 1 .. n |-> 255] \o <<0>> \o SubSeq(e, n + 4, Len(e))

\* The records of the table before its end that are no points.
OpaqueRecords ==
    {table[k] : k \in {n \in DOMAIN table :
                          (\A i \in 1 .. n : table[i].selector # 0) /\ ~IsPoint(table[n])}}

\* The keys tried are the opaque ones of the table, all of them; and of every
\* prefix, key, byte orders and exponent the report tells the truth: it counts
\* as a signature exactly if the modulus exceeds 1, the prefix's number lies below
\* it, and this interpretation's own encoding has type-1 padding: 00 01, eight
\* or more FF, 00, and something behind (rsa_prefix_check).
MatchesArePadded ==
    stage = "printed" =>
        /\ {keys[k] : k \in DOMAIN keys} = OpaqueRecords
        /\ report.matches =
              {t \in [descriptor : DOMAIN descriptors, key : DOMAIN keys, modulus : Orders,
                      signature : Orders, exponent : Exponents] :
                  LET modulus == keys[t.key][t.modulus]
                      number == descriptors[t.descriptor].number[t.signature]
                  IN  /\ modulus > 1 /\ number < modulus
                      /\ Padding(Encoded[<<number, t.exponent, modulus>>])}

\* The printed report contradicts neither itself nor the blocks.
ReportIsTrue == CountsFit /\ MatchesArePadded
=============================================================================
