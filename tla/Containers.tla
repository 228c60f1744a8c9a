---------------------------- MODULE Containers ----------------------------
(***************************************************************************)
(* The tools that look at a catalog beside the provisioning: the           *)
(* identification of a captured message (match_payload), and the map of    *)
(* protected containers and security keys (syna0082_container_map.py),     *)
(* that is, what the payloads have in common, block by block, and whether  *)
(* their prefixes look like signatures of a key in the vendor's tables.    *)
(***************************************************************************)
EXTENDS Catalog

CONSTANTS
    KeyTables,     \* what a key table may hold: sequences of records
    Numbers,       \* what a prefix or a key may be as an integer
    Encoded,       \* Encoded[<<s, e, m>>]: s to the power of e, modulo m, in 256 bytes
    PrefixBlocks,  \* 16-byte blocks of a protected prefix (16)
    MaximumKeys    \* records of a key table at most (256)

Orders == {"big", "little"}
Exponents == {3, 17, 65537}

ASSUME ContainersAssumption ==
    /\ \A t \in KeyTables :
          /\ Len(t) \in Nat /\ DOMAIN t = 1 .. Len(t)
          /\ \A k \in DOMAIN t : t[k].selector # 0 => \A o \in Orders : t[k][o] \in Numbers
    /\ \A file \in Files : \A rva \in DOMAIN file : \A i \in DOMAIN file[rva] :
          file[rva][i].kind = "descriptor" =>
             \A o \in Orders : file[rva][i].payload.number[o] \in Numbers
    /\ Numbers \subseteq Nat
    /\ Encoded \in [Numbers \X Exponents \X Numbers -> Seq(Nat)]
    /\ PrefixBlocks \in Nat /\ MaximumKeys \in Nat

VARIABLES
    table,     \* the key table
    keys,      \* read_opaque_security_keys: the opaque keys so far
    next,      \* the record it reads next
    stage,     \* "provision", or "catalog", "keys", "report", "printed", "failed"
    report     \* what is printed in the end

keyVars == <<table, keys, next>>
vars == <<catalogVars, keyVars, stage, report>>

\* The map reads the catalog at the first of the RVAs, and is explored on files
\* with no other.
Init ==
    /\ CatalogInit
    /\ keys = <<>>
    /\ next = 1
    /\ \/ stage = "provision" /\ table = <<>>
       \/ /\ stage = "catalog" /\ table \in KeyTables
          /\ DOMAIN binary = {CandidateRvas[1]} /\ index = CHOOSE i \in Indices : TRUE
    /\ report = <<>>

(***************************************************************************)
(* match_payload: a captured message as it is, or without its command.     *)
(***************************************************************************)
\* Mutant: only as it is.
Matches_Complete(message, catalog) ==
    {d \in DOMAIN catalog : message.command = "none" /\ message.payload = catalog[d]}

Matches(message, catalog) == {d \in DOMAIN catalog : message.payload = catalog[d]}

(***************************************************************************)
(* main: parse_catalog, read_opaque_security_keys, then the report.        *)
(***************************************************************************)
\* classify_security_key: two coordinates, each in a slot with zeros behind.
IsPoint(key) == key.x # 0 /\ key.y # 0 /\ key.padding = 0

ReadCatalog == stage = "catalog" /\ ParseDescriptor /\ UNCHANGED <<keyVars, stage, report>>

EndOfCatalog ==
    /\ stage = "catalog" /\ (Broken \/ Terminated)
    /\ stage' = IF Terminated THEN "keys" ELSE "failed"
    /\ UNCHANGED <<catalogVars, keyVars, report>>

KeyReadable == next <= MaximumKeys /\ next <= Len(table)

ReadKey ==
    /\ stage = "keys" /\ KeyReadable /\ table[next].selector # 0
    /\ keys' = IF IsPoint(table[next]) THEN keys ELSE Append(keys, table[next])
    /\ next' = next + 1
    /\ UNCHANGED <<catalogVars, table, stage, report>>

EndOfKeys ==
    /\ stage = "keys" /\ (KeyReadable => table[next].selector = 0)
    /\ stage' = IF KeyReadable THEN "report" ELSE "failed"
    /\ UNCHANGED <<catalogVars, keyVars, report>>

(***************************************************************************)
(* maximal_repeated_runs.                                                  *)
(***************************************************************************)
Blocks(d) == descriptors[d].blocks

Positions(d) == DOMAIN Blocks(d)

Same(left, i, right, j) ==
    i \in Positions(left) /\ j \in Positions(right) /\ Blocks(left)[i] = Blocks(right)[j]

\* The same block in two different payloads.
Occurrences ==
    {o \in UNION {{l} \X {r} \X Positions(l) \X Positions(r) :
                     l \in DOMAIN descriptors, r \in DOMAIN descriptors} :
        o[1] < o[2] /\ Same(o[1], o[3], o[2], o[4])}

\* Mutant: a run may begin inside another one.
Begins_Anywhere(l, r, i, j) == TRUE

\* ... that does not follow another common block.
Begins(l, r, i, j) == ~(i > 1 /\ j > 1 /\ Same(l, i - 1, r, j - 1))

\* The blocks in common from there on.
Extent(l, r, i, j) ==
    CHOOSE n \in 1 .. Len(Blocks(l)) :
        (\A k \in 0 .. n - 1 : Same(l, i + k, r, j + k)) /\ ~Same(l, i + n, r, j + n)

RepeatedRuns ==
    {run \in {[left |-> o[1], right |-> o[2], i |-> o[3], j |-> o[4],
               count |-> Extent(o[1], o[2], o[3], o[4])] :
                 o \in {p \in Occurrences : Begins(p[1], p[2], p[3], p[4])}} :
        run.count >= 2}

(***************************************************************************)
(* summarize_containers: how often each block occurs.                      *)
(***************************************************************************)
Places == UNION {{d} \X Positions(d) : d \in DOMAIN descriptors}
At(place) == Blocks(place[1])[place[2]]
Values == {At(place) : place \in Places}
Repeated == {v \in Values : Cardinality({place \in Places : At(place) = v}) > 1}

\* Mutant: each repeated value counts once.
RepeatedOccurrences_Values == Cardinality(Repeated)

RepeatedOccurrences == Cardinality({place \in Places : At(place) \in Repeated})

\* The length behind header and prefix, in blocks, of every payload: less than
\* none where the prefix is cut short.
BehindPrefix ==
    Cardinality({place \in Places : place[2] > PrefixBlocks})
      - Cardinality({o \in (DOMAIN descriptors) \X (1 .. PrefixBlocks) : o[2] > Len(Blocks(o[1]))})

Summarizable == descriptors # <<>> /\ \A d \in DOMAIN descriptors : descriptors[d].tail = 0

(***************************************************************************)
(* rsa_prefix_check: every key, prefix, byte order and exponent.           *)
(***************************************************************************)
CompletePrefixes == \A d \in DOMAIN descriptors : Len(Blocks(d)) >= PrefixBlocks

Modulus(t) == keys[t.key][t.modulus]
Signature(t) == descriptors[t.descriptor].number[t.signature]

Interpretations ==
    {t \in [descriptor : DOMAIN descriptors, key : DOMAIN keys, modulus : Orders,
            signature : Orders, exponent : Exponents] : Modulus(t) > 1}

\* Mutant: any zero is taken for the separator.
HasPadding_AnyLength(e) ==
    /\ Len(e) >= 12 /\ e[1] = 0 /\ e[2] = 1
    /\ \E s \in 3 .. Len(e) - 1 : e[s] = 0

\* has_pkcs1_v1_5_type_1_padding: the first zero behind 0x0001 is the
\* separator, at least eight 0xff precede it and something follows.
HasPadding(e) ==
    /\ Len(e) >= 12 /\ e[1] = 0 /\ e[2] = 1
    /\ \E s \in 11 .. Len(e) - 1 :
          /\ e[s] = 0 /\ \A i \in 3 .. s - 1 : e[i] # 0
          /\ \A i \in 3 .. s - 1 : e[i] = 255

\* Representatives are the interpretations below their modulus.
Below == {t \in Interpretations : Signature(t) < Modulus(t)}

\* Mutant: the exponent is that of the first check.
SignatureMatches_OneExponent ==
    {t \in Below : HasPadding(Encoded[<<Signature(t), 3, Modulus(t)>>])}

\* Each interpretation has an exponentiation of its own.
SignatureMatches ==
    {t \in Below : HasPadding(Encoded[<<Signature(t), t.exponent, Modulus(t)>>])}

\* Everything is printed at once, or nothing.
PrintReport ==
    /\ stage = "report"
    /\ IF Summarizable /\ CompletePrefixes
       THEN /\ stage' = "printed"
            /\ report' = [runs |-> RepeatedRuns, blocks |-> Cardinality(Places),
                          unique |-> Cardinality(Values), values |-> Cardinality(Repeated),
                          occurrences |-> RepeatedOccurrences, behind |-> BehindPrefix,
                          checks |-> Cardinality(Interpretations), below |-> Cardinality(Below),
                          matches |-> SignatureMatches]
       ELSE stage' = "failed" /\ UNCHANGED report
    /\ UNCHANGED <<catalogVars, keyVars>>

Next ==
    \/ stage = "provision" /\ CatalogNext /\ UNCHANGED <<keyVars, stage, report>>
    \/ ReadCatalog \/ EndOfCatalog \/ ReadKey \/ EndOfKeys
    \/ PrintReport

Spec == Init /\ [][Next]_vars
=============================================================================
