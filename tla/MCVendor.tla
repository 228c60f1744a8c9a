----------------------------- MODULE MCVendor -----------------------------
(***************************************************************************)
(* Two candidate RVAs with short catalogs of every kind of entry, payloads *)
(* of up to three blocks, and two key tables.                              *)
(***************************************************************************)
EXTENDS VendorProperties

MCCandidateRvas == <<16, 8>>

Payload(header, blocks, tail) ==
    [header |-> header, blocks |-> blocks, tail |-> tail,
     number |-> [big |-> Len(blocks), little |-> 5]]

Descriptor(p) == [kind |-> "descriptor", reserved |-> 0, mapped |-> TRUE, payload |-> p]
Config(blocks) == Descriptor(Payload("02000001", blocks, 0))
Null == [kind |-> "null"]

\* Catalogs of the provisioning: two configurations, one of another length,
\* a foreign one, and every defect.
Entries ==
    { Config(<<"a", "b">>), Config(<<"b", "b">>), Config(<<"a">>), Null,
      Descriptor(Payload("01000001", <<"a", "b">>, 0)),
      [Config(<<"a", "b">>) EXCEPT !.reserved = 1],
      [Config(<<"a", "b">>) EXCEPT !.mapped = FALSE],
      Descriptor(Payload("short", <<>>, 0)), [kind |-> "nowhere"] }

Ends == {<<>>, <<Null>>}
Tables ==
    {<<>>} \cup {<<e>> \o end : e \in Entries, end \in Ends}
    \cup {<<Config(<<"a">>), e>> \o end : e \in Entries, end \in Ends}

\* Catalogs of the container map: payloads that share blocks.
Bodies == UNION {[1 .. n -> {"a", "b"}] : n \in 0 .. 3}
Containing ==
    {<<Config(p), Config(q), Null>> : p \in Bodies, q \in Bodies}
    \cup {<<Config(<<"a", "b">>), Config(p), Config(<<"b", "a", "b">>), Null>> : p \in Bodies}
    \cup {[i \in 1 .. 5 |-> IF i = 5 THEN Null ELSE Config(<<"a">>)]}
    \cup {<<Null>>, <<Descriptor(Payload("02000001", <<"a">>, 3)), Null>>}

MCFiles ==
    {[rva \in {8, 16} |-> IF rva = 16 THEN t ELSE u] : t \in Tables, u \in Tables}
    \cup {[rva \in {16} |-> t] : t \in Containing}

MCIndices == {0, 1, -1}

Key(x, y, padding, big, little) ==
    [selector |-> 7, x |-> x, y |-> y, padding |-> padding, big |-> big, little |-> little]
EndRecord == [selector |-> 0]

MCKeyTables ==
    { <<EndRecord>>,
      <<Key(1, 1, 0, 9, 9), Key(1, 1, 1, 3, 1), EndRecord>>,
      <<Key(1, 1, 1, 3, 1)>>,
      <<Key(1, 1, 1, 3, 1), Key(0, 1, 0, 0, 4), Key(1, 1, 0, 9, 9), EndRecord>> }

Ones(n) == [i \in 1 .. n |-> 255]
EncodedBlocks ==
    << <<0, 1>> \o Ones(8) \o <<0, 7>>, <<0, 1>> \o Ones(8) \o <<0, 0, 7>>,
       <<0, 1>> \o Ones(7) \o <<0, 7, 0, 7>>, <<0, 1>> \o Ones(9) \o <<0>>,
       <<0, 2>> \o Ones(8) \o <<0, 7>>, <<0, 1>> \o Ones(7) \o <<8, 0, 7>> >>

MCNumbers == 0 .. 9

\* An exponentiation that gives the interpretations of one catalog every block,
\* with padding and without.
MCEncoded ==
    [x \in MCNumbers \X Exponents \X MCNumbers |->
        EncodedBlocks[1 + ((x[1] + (x[2] % 11) + x[3]) % 6)]]
=============================================================================
