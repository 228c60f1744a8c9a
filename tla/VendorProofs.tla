---------------------------- MODULE VendorProofs ----------------------------
(***************************************************************************)
(* Proofs about the vendor-file tools: for every file, every list of       *)
(* candidate addresses and every index, the configuration provisioning     *)
(* takes; for every catalog, every key table and every exponentiation, the *)
(* report of the container map.                                            *)
(*                                                                         *)
(* The first argument: the descriptors parsed are the entries passed over, *)
(* so where a null pointer comes in time they are the whole catalog and    *)
(* where the walk breaks off there is none; an address offers one          *)
(* configuration at most, because a table has one first null pointer.      *)
(*                                                                         *)
(* The second: there are finitely many places of blocks.  The places whose *)
(* value occurs once correspond one to one to the values that occur once;  *)
(* a run is as long as the least extension at which the payloads differ;   *)
(* the place of the separator says how many 255s a padding has.            *)
(***************************************************************************)
EXTENDS VendorProperties, FiniteSetTheorems, SequenceTheorems, TLAPS

\* Whatever may be found behind a pointer of a file.
Payloads ==
    UNION {UNION {{file[rva][i].payload : i \in DOMAIN file[rva]} : rva \in DOMAIN file} :
              file \in Files}

Types ==
    /\ binary \in Files
    /\ index \in Int
    /\ position \in 1 .. Len(CandidateRvas) + 1
    /\ descriptors \in Seq(Payloads)
    /\ successes \in Seq([config : Payloads, rva : Nat])
    /\ outcome \in {"running", "ok", "error", "crash"}

\* The descriptors are the entries passed over so far.
Walk ==
    outcome = "running" /\ position <= Len(CandidateRvas) =>
        /\ Len(descriptors) <= Maximum
        /\ Len(descriptors) <= Len(Table(binary, Rva))
        /\ \A i \in 1 .. Len(descriptors) :
              /\ WellFormed(Table(binary, Rva)[i])
              /\ descriptors[i] = Table(binary, Rva)[i].payload

\* Offers, of any file and index.
WholeOf(file, rva) ==
    {[i \in 1 .. n - 1 |-> Table(file, rva)[i].payload] : n \in
        {m \in DOMAIN Table(file, rva) :
            /\ m <= Maximum /\ Table(file, rva)[m].kind = "null"
            /\ \A i \in 1 .. m - 1 : WellFormed(Table(file, rva)[i])}}

OffersOf(file, n, rva) ==
    {p \in {c[n + 1] : c \in {d \in WholeOf(file, rva) : n \in 0 .. Len(d) - 1}} : Supported(p)}

\* The successes are what the candidates seen offer, the first of them first.
Found ==
    index >= 0 =>
        /\ \A j \in 1 .. Len(successes) :
              \E i \in 1 .. position - 1 :
                  successes[j].rva = CandidateRvas[i] /\ successes[j].config \in OffersOf(binary, index, CandidateRvas[i])
        /\ \A i \in 1 .. position - 1 : \A p \in OffersOf(binary, index, CandidateRvas[i]) :
              \E j \in 1 .. Len(successes) : successes[j].config = p
        /\ Len(successes) > 0 =>
              \E i \in 1 .. position - 1 :
                 /\ successes[1].rva = CandidateRvas[i]
                 /\ successes[1].config \in OffersOf(binary, index, CandidateRvas[i])
                 /\ \A j \in 1 .. i - 1 : OffersOf(binary, index, CandidateRvas[j]) = {}

Decided ==
    /\ outcome = "crash" => index < 0
    /\ outcome = "ok" => position > Len(CandidateRvas) /\ Unique
    /\ outcome = "error" => position > Len(CandidateRvas) /\ ~Unique

IInv == Types /\ Walk /\ Found /\ Decided

(***************************************************************************)
(* Tables.                                                                 *)
(***************************************************************************)
LEMMA TableType ==
    ASSUME Types, NEW rva
    PROVE  /\ Len(Table(binary, rva)) \in Nat
           /\ DOMAIN Table(binary, rva) = 1 .. Len(Table(binary, rva))
           /\ \A i \in DOMAIN Table(binary, rva) : Table(binary, rva)[i].payload \in Payloads
<1>1. CASE rva \in DOMAIN binary
  <2>1. Table(binary, rva) = binary[rva]
    BY <1>1 DEF Table
  <2>2. \A i \in DOMAIN binary[rva] : binary[rva][i].payload \in Payloads
    BY <1>1 DEF Payloads, Types
  <2> QED
    BY <1>1, <2>1, <2>2, CatalogAssumption DEF Types
<1>2. CASE rva \notin DOMAIN binary
  BY <1>2 DEF Table
<1> QED
  BY <1>1, <1>2

\* The place of the null pointer that ends the catalog at an address.
Ends(rva, n) ==
    /\ n \in DOMAIN Table(binary, rva) /\ n <= Maximum
    /\ Table(binary, rva)[n].kind = "null"
    /\ \A i \in 1 .. n - 1 : WellFormed(Table(binary, rva)[i])

CatalogAt(rva, n) == [i \in 1 .. n - 1 |-> Table(binary, rva)[i].payload]

LEMMA WholeIs ==
    ASSUME NEW rva
    PROVE  \A c : c \in Whole(rva) <=> \E n : Ends(rva, n) /\ c = CatalogAt(rva, n)
BY DEF Whole, Ends, CatalogAt

\* A table has one first null pointer.
LEMMA OneEnd ==
    ASSUME Types, NEW rva, NEW m, NEW n, Ends(rva, m), Ends(rva, n)
    PROVE  m = n
<1>1. m \in Nat /\ n \in Nat /\ m > 0 /\ n > 0
  BY TableType DEF Ends
<1>2. ~WellFormed(Table(binary, rva)[m]) /\ ~WellFormed(Table(binary, rva)[n])
  BY DEF Ends, WellFormed
<1> QED
  BY <1>1, <1>2 DEF Ends

LEMMA OneCatalog ==
    ASSUME Types, NEW rva, NEW c \in Whole(rva), NEW d \in Whole(rva)
    PROVE  c = d
BY OneEnd, WholeIs

(***************************************************************************)
(* The walk finds the whole catalog, or there is none.                     *)
(***************************************************************************)
LEMMA RvaType == ASSUME Types, position <= Len(CandidateRvas) PROVE Rva \in Nat /\ Rva = CandidateRvas[position]
BY CatalogAssumption DEF Types, Rva

LEMMA NoCatalog == ASSUME IInv, Broken PROVE Whole(Rva) = {}
<1> DEFINE k == Len(descriptors) + 1
           t == Table(binary, Rva)
<1>1. /\ k \in Nat /\ k > 0 /\ k - 1 <= Maximum /\ k - 1 <= Len(t)
      /\ \A i \in 1 .. k - 1 : WellFormed(t[i])
  BY DEF IInv, Types, Walk, Broken, Parsing
<1>2. Len(t) \in Nat /\ DOMAIN t = 1 .. Len(t)
  BY TableType DEF IInv
<1>3. Maximum \in Nat
  BY CatalogAssumption
<1>4. k <= Maximum /\ k <= Len(t) => t[k].kind # "null" /\ ~WellFormed(t[k])
  BY <1>1, <1>2, <1>3 DEF Broken, Readable, Entry, Parsing
<1>5. ASSUME NEW n, Ends(Rva, n) PROVE FALSE
  <2>1. /\ n \in 1 .. Len(t) /\ n <= Maximum /\ t[n].kind = "null"
        /\ \A i \in 1 .. n - 1 : WellFormed(t[i])
    BY <1>2, <1>5 DEF Ends
  <2>2. ~WellFormed(t[n])
    BY <2>1 DEF WellFormed
  <2> HIDE DEF t, k
  <2>3. n >= k
    BY <1>1, <1>2, <2>1, <2>2
  <2>4. n = k
    BY <1>1, <1>2, <1>3, <1>4, <2>1, <2>3
  <2> QED
    BY <1>2, <1>3, <1>4, <2>1, <2>4
<1> QED
  BY <1>5, WholeIs

LEMMA ThisCatalog == ASSUME IInv, Terminated PROVE Whole(Rva) = {descriptors}
<1> DEFINE k == Len(descriptors) + 1
           t == Table(binary, Rva)
<1>1. /\ k \in Nat /\ k > 0
      /\ \A i \in 1 .. k - 1 : WellFormed(t[i]) /\ descriptors[i] = t[i].payload
      /\ descriptors = [i \in 1 .. k - 1 |-> descriptors[i]]
  BY DEF IInv, Types, Walk, Terminated, Parsing
<1>2. k <= Maximum /\ k <= Len(t) /\ t[k].kind = "null"
  BY <1>1, TableType, CatalogAssumption DEF IInv, Terminated, Readable, Entry
<1>3. Len(t) \in Nat /\ DOMAIN t = 1 .. Len(t)
  BY TableType DEF IInv
<1>4. Ends(Rva, k)
  BY <1>1, <1>2, <1>3 DEF Ends
<1>5. descriptors = CatalogAt(Rva, k)
  BY <1>1 DEF CatalogAt
<1>6. descriptors \in Whole(Rva)
  BY <1>4, <1>5, WholeIs
<1> QED
  BY <1>6, OneCatalog DEF IInv

(***************************************************************************)
(* Offers.                                                                 *)
(***************************************************************************)
LEMMA OffersAre == \A rva : Offers(rva) = OffersOf(binary, index, rva)
BY DEF Offers, Whole, OffersOf, WholeOf

LEMMA OffersHold ==
    ASSUME NEW rva
    PROVE  \A p : p \in OffersOf(binary, index, rva) <=>
              /\ Supported(p)
              /\ \E c \in Whole(rva) : index \in 0 .. Len(c) - 1 /\ p = c[index + 1]
<1>1. Whole(rva) = WholeOf(binary, rva)
  BY DEF Whole, WholeOf
<1> QED
  BY <1>1 DEF OffersOf

LEMMA NoOffer ==
    ASSUME IInv, Broken \/ (Terminated /\ index >= Len(descriptors))
    PROVE  OffersOf(binary, index, Rva) = {}
<1>1. CASE Broken
  BY <1>1, NoCatalog, OffersHold
<1>2. CASE Terminated /\ index >= Len(descriptors)
  <2>1. index \in Int /\ Len(descriptors) \in Nat
    BY DEF IInv, Types
  <2> QED
    BY <1>2, <2>1, ThisCatalog, OffersHold
<1> QED
  BY <1>1, <1>2

LEMMA ThisOffer ==
    ASSUME IInv, Terminated, index >= 0, index < Len(descriptors)
    PROVE  Named \in Payloads /\ OffersOf(binary, index, Rva) = IF Supported(Named) THEN {Named} ELSE {}
<1>1. /\ index \in Int /\ Len(descriptors) \in Nat /\ descriptors \in Seq(Payloads)
      /\ Named = descriptors[index + 1]
  BY DEF IInv, Types, Named
<1>2. Named \in Payloads
  BY <1>1
<1>3. Whole(Rva) = {descriptors} /\ index \in 0 .. Len(descriptors) - 1
  BY <1>1, ThisCatalog
<1>4. \A p : p \in OffersOf(binary, index, Rva) <=> Supported(p) /\ p = Named
  BY <1>1, <1>3, OffersHold
<1> QED
  BY <1>2, <1>4

(***************************************************************************)
(* The steps.                                                              *)
(***************************************************************************)
LEMMA Start == Init => IInv
<1> SUFFICES ASSUME Init PROVE IInv
  OBVIOUS
<1>1. Types
  BY CatalogAssumption DEF Init, CatalogInit, Types
<1>2. Walk
  BY CatalogAssumption, TableType, <1>1 DEF Init, CatalogInit, Walk
<1>3. Found
  BY DEF Init, CatalogInit, Found
<1>4. Decided
  BY DEF Init, CatalogInit, Decided
<1> QED
  BY <1>1, <1>2, <1>3, <1>4 DEF IInv

LEMMA ParseKeeps == ASSUME IInv, ParseDescriptor PROVE IInv'
<1>1. /\ Parsing /\ Readable /\ WellFormed(Entry)
      /\ descriptors' = Append(descriptors, Entry.payload)
      /\ UNCHANGED <<binary, index, position, successes, outcome>>
  BY DEF ParseDescriptor
<1> DEFINE k == Len(descriptors) + 1
           t == Table(binary, Rva)
<1>2. /\ descriptors \in Seq(Payloads) /\ Len(descriptors) \in Nat /\ Maximum \in Nat
      /\ Len(t) \in Nat /\ DOMAIN t = 1 .. Len(t)
      /\ k <= Maximum /\ k <= Len(t) /\ Entry = t[k]
  BY <1>1, TableType, CatalogAssumption DEF IInv, Types, Readable, Entry
<1>3. Entry.payload \in Payloads
  BY <1>2, TableType DEF IInv
<1>4. /\ descriptors' \in Seq(Payloads) /\ Len(descriptors') = k
      /\ descriptors'[k] = t[k].payload
      /\ \A i \in 1 .. k - 1 : descriptors'[i] = descriptors[i]
  BY <1>1, <1>2, <1>3
<1>5. Types'
  BY <1>1, <1>4 DEF IInv, Types
<1>6. Rva' = Rva /\ Table(binary, Rva)' = t
  BY <1>1 DEF Rva, Table
<1>7. \A i \in 1 .. k - 1 : WellFormed(t[i]) /\ descriptors[i] = t[i].payload
  BY <1>1, <1>2 DEF IInv, Walk, Parsing
<1> HIDE DEF t
<1>8. \A i \in 1 .. k : WellFormed(t[i]) /\ descriptors'[i] = t[i].payload
  BY <1>1, <1>2, <1>4, <1>7
<1>9. Walk'
  BY <1>1, <1>2, <1>4, <1>6, <1>8 DEF Walk, WellFormed
<1>10. Found'
  BY <1>1 DEF IInv, Found
<1>11. Decided'
  BY <1>1 DEF IInv, Decided, Unique
<1> QED
  BY <1>5, <1>9, <1>10, <1>11 DEF IInv

\* Found, of the offers o of the candidates, the successes s and the position p.
OnlyIn(o, s, p) ==
    \A j \in 1 .. Len(s) : \E i \in 1 .. p - 1 : s[j].rva = CandidateRvas[i] /\ s[j].config \in o[i]

AllIn(o, s, p) == \A i \in 1 .. p - 1 : \A q \in o[i] : \E j \in 1 .. Len(s) : s[j].config = q

FirstIn(o, s, p) ==
    \E i \in 1 .. p - 1 :
       /\ s[1].rva = CandidateRvas[i]
       /\ s[1].config \in o[i]
       /\ \A j \in 1 .. i - 1 : o[j] = {}

FoundIn(o, s, p) == OnlyIn(o, s, p) /\ AllIn(o, s, p) /\ (Len(s) > 0 => FirstIn(o, s, p))

LEMMA NothingMore ==
    ASSUME NEW o, NEW s, NEW p \in Nat, FoundIn(o, s, p), p > 0, Len(s) \in Nat, o[p] = {}
    PROVE  FoundIn(o, s, p + 1)
<1>1. \A i : i \in 1 .. (p + 1) - 1 <=> i \in 1 .. p - 1 \/ i = p
  OBVIOUS
<1>2. OnlyIn(o, s, p + 1)
  BY <1>1 DEF FoundIn, OnlyIn
<1>3. AllIn(o, s, p + 1)
  BY <1>1 DEF FoundIn, AllIn
<1>4. Len(s) > 0 => FirstIn(o, s, p + 1)
  BY <1>1 DEF FoundIn, FirstIn
<1> QED
  BY <1>2, <1>3, <1>4 DEF FoundIn

LEMMA OneMore ==
    ASSUME NEW o, NEW s, NEW t, NEW x, NEW p \in Nat, p > 0, FoundIn(o, s, p), Len(s) \in Nat,
           Len(t) = Len(s) + 1, t[Len(s) + 1] = x, \A j \in 1 .. Len(s) : t[j] = s[j],
           x.rva = CandidateRvas[p], o[p] = {x.config}
    PROVE  FoundIn(o, t, p + 1)
<1>1. \A i : i \in 1 .. (p + 1) - 1 <=> i \in 1 .. p - 1 \/ i = p
  OBVIOUS
<1>2. \A j : j \in 1 .. Len(t) <=> j \in 1 .. Len(s) \/ j = Len(s) + 1
  OBVIOUS
<1>3. OnlyIn(o, t, p + 1)
  <2>1. \A j \in 1 .. Len(s) : \E i \in 1 .. p - 1 : t[j].rva = CandidateRvas[i] /\ t[j].config \in o[i]
    BY DEF FoundIn, OnlyIn
  <2>2. t[Len(s) + 1].rva = CandidateRvas[p] /\ t[Len(s) + 1].config \in o[p]
    OBVIOUS
  <2> QED
    BY <1>1, <1>2, <2>1, <2>2 DEF OnlyIn
<1>4. AllIn(o, t, p + 1)
  <2>1. \A i \in 1 .. p - 1 : \A q \in o[i] : \E j \in 1 .. Len(s) : t[j].config = q
    BY DEF FoundIn, AllIn
  <2>2. \A q \in o[p] : t[Len(s) + 1].config = q
    OBVIOUS
  <2>3. ASSUME NEW i \in 1 .. (p + 1) - 1, NEW q \in o[i] PROVE \E j \in 1 .. Len(t) : t[j].config = q
    <3>1. CASE i \in 1 .. p - 1
      BY <1>2, <2>1, <3>1
    <3>2. CASE i = p
      BY <1>2, <2>2, <3>2
    <3> QED
      BY <1>1, <3>1, <3>2
  <2> QED
    BY <2>3, Zenon DEF AllIn
<1>5. CASE Len(s) = 0
  <2>1. t[1] = x
    BY <1>5
  <2>2. \A j \in 1 .. p - 1 : o[j] = {}
    BY <1>5 DEF FoundIn, AllIn
  <2>3. x.rva = CandidateRvas[p] /\ x.config \in o[p]
    OBVIOUS
  <2>4. FirstIn(o, t, p + 1)
    BY <1>1, <2>1, <2>2, <2>3 DEF FirstIn
  <2> QED
    BY <1>3, <1>4, <2>4 DEF FoundIn
<1>6. CASE Len(s) > 0
  <2>1. t[1] = s[1]
    BY <1>6
  <2>2. FirstIn(o, s, p)
    BY <1>6 DEF FoundIn
  <2>3. FirstIn(o, t, p + 1)
    BY <1>1, <2>1, <2>2 DEF FirstIn
  <2> QED
    BY <1>3, <1>4, <2>3 DEF FoundIn
<1> QED
  BY <1>5, <1>6

\* What the candidate offers is what is found there.
LEMMA AdvanceKeeps ==
    ASSUME IInv, Parsing, NEW found, NextCandidate(found),
           \/ found = <<>> /\ (index >= 0 => OffersOf(binary, index, Rva) = {})
           \/ \E p \in Payloads :
                 found = <<[config |-> p, rva |-> Rva]>> /\ (index >= 0 => OffersOf(binary, index, Rva) = {p})
    PROVE  IInv'
<1>1. /\ successes' = successes \o found /\ position' = position + 1 /\ descriptors' = <<>>
      /\ binary' = binary /\ index' = index /\ outcome' = outcome
  BY DEF NextCandidate
<1> DEFINE o == [i \in 1 .. Len(CandidateRvas) |-> OffersOf(binary, index, CandidateRvas[i])]
<1>2. /\ outcome = "running" /\ position \in 1 .. Len(CandidateRvas) /\ position \in Nat
      /\ Len(CandidateRvas) \in Nat /\ CandidateRvas \in Seq(Nat)
      /\ successes \in Seq([config : Payloads, rva : Nat]) /\ Len(successes) \in Nat
      /\ Rva \in Nat /\ Rva = CandidateRvas[position]
  BY CatalogAssumption, RvaType DEF IInv, Types, Parsing
<1>3. \A i \in 1 .. Len(CandidateRvas) : o[i] = OffersOf(binary, index, CandidateRvas[i])
  OBVIOUS
<1> HIDE DEF o
<1>4. \A i \in 1 .. position : i \in 1 .. Len(CandidateRvas)
  BY <1>2
<1>5. ASSUME index >= 0 PROVE FoundIn(o, successes, position)
  <2>1. \A i \in 1 .. position - 1 :
           /\ o[i] = OffersOf(binary, index, CandidateRvas[i])
           /\ \A j \in 1 .. i - 1 : o[j] = OffersOf(binary, index, CandidateRvas[j])
    <3> TAKE i \in 1 .. position - 1
    <3>1. i \in 1 .. position /\ \A j \in 1 .. i - 1 : j \in 1 .. position
      BY <1>2
    <3>2. i \in 1 .. Len(CandidateRvas) /\ \A j \in 1 .. i - 1 : j \in 1 .. Len(CandidateRvas)
      BY <1>4, <3>1
    <3> QED
      BY <1>3, <3>2
  <2>2. /\ \A j \in 1 .. Len(successes) : \E i \in 1 .. position - 1 :
              /\ successes[j].rva = CandidateRvas[i]
              /\ successes[j].config \in OffersOf(binary, index, CandidateRvas[i])
        /\ \A i \in 1 .. position - 1 : \A p \in OffersOf(binary, index, CandidateRvas[i]) :
              \E j \in 1 .. Len(successes) : successes[j].config = p
        /\ Len(successes) > 0 =>
              \E i \in 1 .. position - 1 :
                 /\ successes[1].rva = CandidateRvas[i]
                 /\ successes[1].config \in OffersOf(binary, index, CandidateRvas[i])
                 /\ \A j \in 1 .. i - 1 : OffersOf(binary, index, CandidateRvas[j]) = {}
    BY <1>5 DEF IInv, Found
  <2>3. ASSUME NEW j \in 1 .. Len(successes)
        PROVE  \E i \in 1 .. position - 1 : successes[j].rva = CandidateRvas[i] /\ successes[j].config \in o[i]
    <3>1. PICK i \in 1 .. position - 1 :
             /\ successes[j].rva = CandidateRvas[i]
             /\ successes[j].config \in OffersOf(binary, index, CandidateRvas[i])
      BY <2>2, Zenon
    <3>2. o[i] = OffersOf(binary, index, CandidateRvas[i])
      BY <2>1, Zenon
    <3> QED
      BY <3>1, <3>2, Zenon
  <2>4. ASSUME NEW i \in 1 .. position - 1, NEW q \in o[i]
        PROVE  \E j \in 1 .. Len(successes) : successes[j].config = q
    <3>1. q \in OffersOf(binary, index, CandidateRvas[i])
      BY <2>1, Zenon
    <3> QED
      BY <2>2, <3>1, Zenon
  <2>5. Len(successes) > 0 => FirstIn(o, successes, position)
    BY <2>1, <2>2, Zenon DEF FirstIn
  <2> QED
    BY <2>3, <2>4, <2>5, Zenon DEF FoundIn, OnlyIn, AllIn
<1>6. ASSUME index >= 0 => FoundIn(o, successes', position + 1) PROVE Found'
  <2> SUFFICES ASSUME index >= 0
               PROVE  /\ \A j \in 1 .. Len(successes') : \E i \in 1 .. position' - 1 :
                            successes'[j].rva = CandidateRvas[i]
                              /\ successes'[j].config \in OffersOf(binary, index, CandidateRvas[i])
                      /\ \A i \in 1 .. position' - 1 : \A p \in OffersOf(binary, index, CandidateRvas[i]) :
                            \E j \in 1 .. Len(successes') : successes'[j].config = p
                      /\ Len(successes') > 0 =>
                            \E i \in 1 .. position' - 1 :
                               /\ successes'[1].rva = CandidateRvas[i]
                               /\ successes'[1].config \in OffersOf(binary, index, CandidateRvas[i])
                               /\ \A j \in 1 .. i - 1 : OffersOf(binary, index, CandidateRvas[j]) = {}
    BY <1>1, Zenon DEF Found
  <2>1. \A i \in 1 .. position' - 1 :
           /\ o[i] = OffersOf(binary, index, CandidateRvas[i])
           /\ \A j \in 1 .. i - 1 : o[j] = OffersOf(binary, index, CandidateRvas[j])
    <3>1. \A i \in 1 .. position' - 1 : \A j \in 1 .. i : j \in 1 .. position
      BY <1>1, <1>2
    <3>2. \A i \in 1 .. position' - 1 : i \in 1 .. i /\ \A j \in 1 .. i - 1 : j \in 1 .. i
      BY <1>1, <1>2
    <3> QED
      BY <1>3, <1>4, <3>1, <3>2, Zenon
  <2>2. FoundIn(o, successes', position')
    BY <1>1, <1>6, Zenon
  <2>3. \A j \in 1 .. Len(successes') : \E i \in 1 .. position' - 1 :
           successes'[j].rva = CandidateRvas[i] /\ successes'[j].config \in OffersOf(binary, index, CandidateRvas[i])
    BY <2>1, <2>2, Zenon DEF FoundIn, OnlyIn
  <2>4. \A i \in 1 .. position' - 1 : \A p \in OffersOf(binary, index, CandidateRvas[i]) :
           \E j \in 1 .. Len(successes') : successes'[j].config = p
    BY <2>1, <2>2, Zenon DEF FoundIn, AllIn
  <2>5. Len(successes') > 0 =>
           \E i \in 1 .. position' - 1 :
              /\ successes'[1].rva = CandidateRvas[i]
              /\ successes'[1].config \in OffersOf(binary, index, CandidateRvas[i])
              /\ \A j \in 1 .. i - 1 : OffersOf(binary, index, CandidateRvas[j]) = {}
    BY <2>1, <2>2, Zenon DEF FoundIn, FirstIn
  <2> QED
    BY <2>3, <2>4, <2>5
<1>7. CASE found = <<>> /\ (index >= 0 => OffersOf(binary, index, Rva) = {})
  <2>1. successes' = successes
    BY <1>1, <1>2, <1>7
  <2>2. Types'
    BY <1>1, <1>2, <2>1 DEF IInv, Types
  <2>3. index >= 0 => o[position] = {}
    BY <1>2, <1>3, <1>7
  <2>4. Found'
    BY <1>2, <1>5, <1>6, <2>1, <2>3, NothingMore
  <2>5. Walk'
    BY <1>1, <2>2, TableType, CatalogAssumption DEF Walk
  <2>6. Decided'
    BY <1>1, <1>2 DEF Decided
  <2> QED
    BY <2>2, <2>4, <2>5, <2>6 DEF IInv
<1>8. ASSUME NEW p \in Payloads, found = <<[config |-> p, rva |-> Rva]>>,
             index >= 0 => OffersOf(binary, index, Rva) = {p}
      PROVE  IInv'
  <2> DEFINE x == [config |-> p, rva |-> Rva]
  <2>1. x \in [config : Payloads, rva : Nat] /\ x.config = p /\ x.rva = CandidateRvas[position]
    BY <1>2
  <2> HIDE DEF x
  <2>2. /\ successes' \in Seq([config : Payloads, rva : Nat])
        /\ Len(successes') = Len(successes) + 1 /\ successes'[Len(successes) + 1] = x
        /\ \A j \in 1 .. Len(successes) : successes'[j] = successes[j]
    BY <1>1, <1>2, <1>8, <2>1 DEF x
  <2>3. Types'
    BY <1>1, <1>2, <2>2 DEF IInv, Types
  <2>4. index >= 0 => o[position] = {x.config}
    BY <1>2, <1>3, <1>8, <2>1
  <2>5. Found'
    <3>1. position > 0
      BY <1>2
    <3> QED
      BY <1>2, <1>5, <1>6, <2>1, <2>2, <2>4, <3>1, OneMore
  <2>6. Walk'
    BY <1>1, <2>3, TableType, CatalogAssumption DEF Walk
  <2>7. Decided'
    BY <1>1, <1>2 DEF Decided
  <2> QED
    BY <2>3, <2>5, <2>6, <2>7 DEF IInv
<1> QED
  BY <1>7, <1>8

LEMMA SkipKeeps == ASSUME IInv, SkipBroken \/ SkipAbsent PROVE IInv'
<1>1. NextCandidate(<<>>) /\ (Broken \/ (Terminated /\ index >= Len(descriptors))) /\ Parsing
  BY DEF SkipBroken, SkipAbsent, Broken, Terminated
<1> QED
  BY <1>1, NoOffer, AdvanceKeeps

LEMMA TakeKeeps == ASSUME IInv, TakeDescriptor PROVE IInv'
<1>1. /\ Terminated /\ Parsing /\ index < Len(descriptors) /\ -index <= Len(descriptors)
      /\ NextCandidate(IF Supported(Named) THEN <<[config |-> Named, rva |-> Rva]>> ELSE <<>>)
  BY DEF TakeDescriptor, Terminated
<1>2. Named \in Payloads
  <2>1. index \in Int /\ Len(descriptors) \in Nat /\ descriptors \in Seq(Payloads)
    BY DEF IInv, Types
  <2> QED
    BY <1>1, <2>1 DEF Named
<1>3. index >= 0 => OffersOf(binary, index, Rva) = IF Supported(Named) THEN {Named} ELSE {}
  BY <1>1, ThisOffer
<1>4. CASE Supported(Named)
  BY <1>1, <1>2, <1>3, <1>4, AdvanceKeeps
<1>5. CASE ~Supported(Named)
  BY <1>1, <1>2, <1>3, <1>5, AdvanceKeeps
<1> QED
  BY <1>4, <1>5

LEMMA EndKeeps == ASSUME IInv, CrashOnIndex \/ Select PROVE IInv'
<1>1. CASE CrashOnIndex
  <2>1. outcome' = "crash" /\ UNCHANGED <<binary, index, position, descriptors, successes>>
    BY <1>1 DEF CrashOnIndex
  <2>2. index < 0
    <3>1. index \in Int /\ Len(descriptors) \in Nat /\ -index > Len(descriptors)
      BY <1>1 DEF IInv, Types, CrashOnIndex
    <3> QED
      BY <3>1
  <2>3. Found'
    BY <2>1 DEF IInv, Found
  <2> QED
    BY <2>1, <2>2, <2>3 DEF IInv, Types, Walk, Decided
<1>2. CASE Select
  <2>1. /\ outcome' = (IF Unique THEN "ok" ELSE "error") /\ position > Len(CandidateRvas)
        /\ UNCHANGED <<binary, index, position, descriptors, successes>>
    BY <1>2 DEF Select
  <2>2. Found'
    BY <2>1 DEF IInv, Found
  <2>3. Unique' = Unique
    BY <2>1 DEF Unique
  <2> QED
    BY <2>1, <2>2, <2>3 DEF IInv, Types, Walk, Decided
<1> QED
  BY <1>1, <1>2

LEMMA OthersKeep == ASSUME IInv, UNCHANGED catalogVars PROVE IInv'
<1>1. UNCHANGED <<binary, index, position, descriptors, successes, outcome>>
  BY DEF catalogVars
<1>2. Found'
  BY <1>1 DEF IInv, Found
<1>3. Types' /\ Decided'
  BY <1>1 DEF IInv, Types, Decided, Unique
<1>4. Walk'
  BY <1>1 DEF IInv, Walk, Rva, Table
<1> QED
  BY <1>2, <1>3, <1>4 DEF IInv

\* What has been found is what the candidates seen offer.
THEOREM Invariance == Spec => []IInv
<1>1. IInv /\ [Next]_vars => IInv'
  <2> SUFFICES ASSUME IInv, [Next]_vars PROVE IInv'
    OBVIOUS
  <2>1. CASE stage = "provision" /\ CatalogNext /\ UNCHANGED <<keyVars, stage, report>>
    BY <2>1, ParseKeeps, SkipKeeps, TakeKeeps, EndKeeps DEF CatalogNext
  <2>2. CASE ReadCatalog
    BY <2>2, ParseKeeps DEF ReadCatalog
  <2>3. CASE EndOfCatalog \/ ReadKey \/ EndOfKeys
    BY <2>3, OthersKeep DEF EndOfCatalog, ReadKey, EndOfKeys
  <2>4. CASE PrintReport
    BY <2>4, OthersKeep DEF PrintReport
  <2>5. CASE UNCHANGED vars
    BY <2>5, OthersKeep DEF vars
  <2> QED
    BY <2>1, <2>2, <2>3, <2>4, <2>5 DEF Next
<1> QED
  BY Start, <1>1, PTL DEF Spec

\* All candidates together offer what was found.
LEMMA OfferedIsFound ==
    ASSUME IInv, index >= 0, position > Len(CandidateRvas)
    PROVE  Offered = {successes[i].config : i \in DOMAIN successes}
<1>1. /\ position - 1 = Len(CandidateRvas) /\ DOMAIN CandidateRvas = 1 .. Len(CandidateRvas)
      /\ DOMAIN successes = 1 .. Len(successes)
  BY CatalogAssumption DEF IInv, Types
<1>2. \A p : p \in Offered <=>
         \E i \in DOMAIN CandidateRvas : p \in OffersOf(binary, index, CandidateRvas[i])
  BY OffersAre DEF Offered
<1>3. \A p \in Offered : \E j \in DOMAIN successes : successes[j].config = p
  BY <1>1, <1>2 DEF IInv, Found
<1>4. \A j \in DOMAIN successes : successes[j].config \in Offered
  BY <1>1, <1>2 DEF IInv, Found
<1> QED
  BY <1>3, <1>4

\* The configurations found are finitely many.
LEMMA FoundIsFinite ==
    ASSUME IInv
    PROVE  IsFiniteSet({successes[i].config : i \in DOMAIN successes})
<1> DEFINE n == Len(successes)
           T == {successes[i].config : i \in DOMAIN successes}
           f == [i \in 1 .. n |-> successes[i].config]
<1>1. n \in Nat /\ DOMAIN successes = 1 .. n
  BY DEF IInv, Types
<1>2. IsFiniteSet(1 .. n)
  BY <1>1, FS_Interval
<1>3. f \in Surjection(1 .. n, T)
  BY <1>1 DEF Surjection
<1> QED
  BY <1>2, <1>3, FS_Surjection

\* Provisioning takes a configuration exactly when the candidates offer one,
\* and its message is identified as that descriptor again, for every file,
\* every list of candidates and every index (ProvisionedIsTrue).
THEOREM ConfigurationIsTrue == Spec => []ProvisionedIsTrue
<1>1. ASSUME IInv PROVE ProvisionedIsTrue
  <2> DEFINE C == {successes[i].config : i \in DOMAIN successes}
  <2>1. index \in Int /\ DOMAIN successes = 1 .. Len(successes) /\ Len(successes) \in Nat
        /\ DOMAIN CandidateRvas = 1 .. Len(CandidateRvas)
    BY <1>1, CatalogAssumption DEF IInv, Types
  <2>2. outcome = "crash" => index < 0
    BY <1>1 DEF IInv, Decided
  <2>3. ASSUME index >= 0, outcome = "error" PROVE Cardinality(Offered) # 1
    BY <1>1, <2>3, OfferedIsFound DEF IInv, Decided, Unique
  <2>4. ASSUME index >= 0, outcome = "ok"
        PROVE  /\ Offered = {successes[1].config}
               /\ \E i \in DOMAIN CandidateRvas :
                     /\ successes[1].rva = CandidateRvas[i] /\ Offers(CandidateRvas[i]) # {}
                     /\ \A j \in 1 .. i - 1 : Offers(CandidateRvas[j]) = {}
               /\ \A catalog \in Whole(successes[1].rva) :
                     index + 1 \in Matches([command |-> "06", payload |-> successes[1].config], catalog)
    <3>1. position > Len(CandidateRvas) /\ Cardinality(C) = 1 /\ Offered = C /\ IsFiniteSet(C)
      BY <1>1, <2>4, OfferedIsFound, FoundIsFinite DEF IInv, Decided, Unique
    <3>2. PICK x : C = {x}
      BY <3>1, FS_Singleton
    <3>3. PICK k \in DOMAIN successes : successes[k].config = x
      BY <3>2
    <3>4. 1 \in DOMAIN successes /\ Len(successes) > 0
      BY <2>1, <3>3
    <3>5. successes[1].config = x
      BY <3>2, <3>4
    <3>6. PICK i \in 1 .. position - 1 :
             /\ successes[1].rva = CandidateRvas[i]
             /\ successes[1].config \in OffersOf(binary, index, CandidateRvas[i])
             /\ \A j \in 1 .. i - 1 : OffersOf(binary, index, CandidateRvas[j]) = {}
      BY <1>1, <2>4, <3>4 DEF IInv, Found
    <3>7. i \in DOMAIN CandidateRvas
      BY <1>1, <2>1, <3>1 DEF IInv, Types
    <3>8. \A catalog \in Whole(successes[1].rva) :
             index + 1 \in Matches([command |-> "06", payload |-> successes[1].config], catalog)
      <4>1. PICK c \in Whole(successes[1].rva) :
               index \in 0 .. Len(c) - 1 /\ successes[1].config = c[index + 1]
        BY <3>6, OffersHold
      <4>2. \A catalog \in Whole(successes[1].rva) : catalog = c
        BY <1>1, OneCatalog DEF IInv
      <4>3. index + 1 \in DOMAIN c
        <5>1. PICK m : Ends(successes[1].rva, m) /\ c = CatalogAt(successes[1].rva, m)
          BY WholeIs
        <5>2. m \in Nat /\ m > 0
          BY <1>1, <5>1, TableType DEF IInv, Ends
        <5>3. DOMAIN c = 1 .. m - 1 /\ Len(c) = m - 1
          BY <5>1, <5>2 DEF CatalogAt
        <5> QED
          BY <2>1, <2>4, <4>1, <5>2, <5>3
      <4> QED
        BY <4>1, <4>2, <4>3 DEF Matches
    <3> QED
      BY <3>1, <3>2, <3>5, <3>6, <3>7, <3>8, OffersAre
  <2>5. ConfigIsTheOnlyOffer
    BY <2>2, <2>3, <2>4 DEF ConfigIsTheOnlyOffer
  <2>6. ProvisionedIsIdentified
    BY <2>4 DEF ProvisionedIsIdentified
  <2> QED
    BY <2>5, <2>6 DEF ProvisionedIsTrue
<1> QED
  BY <1>1, Invariance, PTL

(***************************************************************************)
(* The map of the containers.  Its blocks are counted in a finite set of   *)
(* places, and a run is as long as the least extension that fails.         *)
(***************************************************************************)
Shaped ==
    \A d \in 1 .. Len(descriptors) :
        /\ Len(Blocks(d)) \in Nat /\ Positions(d) = 1 .. Len(Blocks(d))
        /\ \A o \in Orders : descriptors[d].number[o] \in Numbers

Tabled ==
    /\ Len(table) \in Nat /\ DOMAIN table = 1 .. Len(table)
    /\ \A k \in DOMAIN table : table[k].selector # 0 => \A o \in Orders : table[k][o] \in Numbers

\* The opaque records passed over.
Passed == {table[k] : k \in {n \in 1 .. next - 1 : ~IsPoint(table[n])}}

KeysRead ==
    /\ next \in Nat \ {0} /\ next - 1 <= Len(table)
    /\ \A k \in 1 .. next - 1 : table[k].selector # 0
    /\ keys \in Seq(Passed)
    /\ \A v \in Passed : \E i \in DOMAIN keys : keys[i] = v

\* The end of the table has been reached.
AtEnd == next \in DOMAIN table /\ table[next].selector = 0

ReportInv ==
    /\ Shaped /\ Tabled /\ KeysRead
    /\ stage \in {"provision", "catalog", "keys", "report", "printed", "failed"}
    /\ stage \in {"report", "printed"} => AtEnd
    /\ RunsAreMaximal /\ CountsFit /\ MatchesArePadded

LEMMA Least ==
    ASSUME NEW T, T \subseteq Nat, T # {}
    PROVE  \E n \in T : \A m \in T : n <= m
<1> DEFINE R == OpToRel(<, Nat)
<1>1. \A m, n \in Nat : m < n => <<m, n>> \in R
  BY Zenon DEF OpToRel
<1>2. IsWellFoundedOn(R, Nat)
  BY NatLessThanWellFounded
<1> HIDE DEF R
<1>3. PICK n \in T : \A m \in T : ~(<<m, n>> \in R)
  BY <1>2, WFMin
<1>4. ASSUME NEW m \in T PROVE n <= m
  <2>1. m \in Nat /\ n \in Nat /\ ~(<<m, n>> \in R)
    BY <1>3
  <2>2. ~(m < n)
    BY <1>1, <2>1
  <2> QED
    BY <2>1, <2>2
<1> QED
  BY <1>4

\* n blocks in common from there on, and no more.
Common(l, r, i, j, n) ==
    (\A k \in 0 .. n - 1 : Same(l, i + k, r, j + k)) /\ ~Same(l, i + n, r, j + n)

\* There is one such number, and it is the extent.
LEMMA ExtentIs ==
    ASSUME Shaped, NEW l \in 1 .. Len(descriptors), NEW r \in 1 .. Len(descriptors),
           NEW i, NEW j, Same(l, i, r, j)
    PROVE  /\ Extent(l, r, i, j) \in 1 .. Len(Blocks(l))
           /\ Common(l, r, i, j, Extent(l, r, i, j))
           /\ \A n \in Nat : Common(l, r, i, j, n) => n = Extent(l, r, i, j)
<1> DEFINE N == Len(Blocks(l))
           T == {n \in Nat : ~Same(l, i + n, r, j + n)}
<1>1. /\ N \in Nat /\ \A x, y : Same(l, x, r, y) => x \in 1 .. N
      /\ i \in Nat /\ j \in Nat
  BY DEF Shaped, Same
<1>2. N \in T
  BY <1>1
<1> HIDE DEF N
<1>3. PICK n \in T : \A m \in T : n <= m
  BY <1>2, Least
<1>4. n \in 1 .. N
  <2>1. n # 0
    <3>1. i + 0 = i /\ j + 0 = j
      BY <1>1
    <3>2. 0 \notin T
      BY <3>1
    <3> QED
      BY <1>3, <3>2
  <2> QED
    BY <1>1, <1>2, <1>3, <2>1
<1>5. \A k \in 0 .. n - 1 : Same(l, i + k, r, j + k)
  <2> TAKE k \in 0 .. n - 1
  <2>1. k \in Nat /\ ~(n <= k)
    BY <1>4, <1>1
  <2> QED
    BY <1>3, <2>1
<1>6. Common(l, r, i, j, n)
  BY <1>3, <1>5 DEF Common
<1>7. ASSUME NEW m \in Nat, NEW k \in Nat, Common(l, r, i, j, m), Common(l, r, i, j, k), m < k
      PROVE  FALSE
  <2>1. m \in 0 .. k - 1
    BY <1>7
  <2> QED
    BY <1>7, <2>1 DEF Common
<1>8. \A m, k \in Nat : Common(l, r, i, j, m) /\ Common(l, r, i, j, k) => m = k
  <2> TAKE m, k \in Nat
  <2>1. m < k \/ k < m \/ m = k
    OBVIOUS
  <2> QED
    BY <1>7, <2>1
<1>9. Extent(l, r, i, j) = CHOOSE x \in 1 .. N : Common(l, r, i, j, x)
  BY DEF Extent, Common, N
<1>10. Extent(l, r, i, j) \in 1 .. N /\ Common(l, r, i, j, Extent(l, r, i, j))
  BY <1>4, <1>6, <1>9
<1> QED
  BY <1>1, <1>8, <1>10 DEF N

LEMMA UpToM == \A m \in Nat : IsFiniteSet(1 .. m) /\ Cardinality(1 .. m) = m
<1> TAKE m \in Nat
<1>1. 1 \in Int /\ m \in Int
  OBVIOUS
<1>2. IsFiniteSet(1 .. m)
  BY <1>1, FS_Interval
<1>3. Cardinality(1 .. m) = IF 1 > m THEN 0 ELSE m - 1 + 1
  BY <1>1, FS_Interval
<1> QED
  BY <1>2, <1>3

\* The places of blocks are finitely many, no fewer than the blocks of any
\* payload.
LEMMA PlacesAreFinite ==
    ASSUME Shaped, Len(descriptors) \in Nat, DOMAIN descriptors = 1 .. Len(descriptors)
    PROVE  /\ IsFiniteSet(Places)
           /\ Cardinality(Places) \in Nat
           /\ \A d \in 1 .. Len(descriptors) : Len(Blocks(d)) <= Cardinality(Places)
<1> DEFINE n == Len(descriptors)
           Of(d) == {d} \X Positions(d)
           F == [d \in 1 .. n |-> Of(d)]
           S == {Of(d) : d \in 1 .. n}
<1>1. \A d \in 1 .. n : IsFiniteSet(Of(d)) /\ Cardinality(Of(d)) = Len(Blocks(d))
  <2> TAKE d \in 1 .. n
  <2>1. Len(Blocks(d)) \in Nat /\ Positions(d) = 1 .. Len(Blocks(d))
    BY DEF Shaped
  <2>2. IsFiniteSet(Positions(d)) /\ Cardinality(Positions(d)) = Len(Blocks(d))
    BY <2>1, UpToM
  <2>3. IsFiniteSet({d}) /\ Cardinality({d}) = 1
    BY FS_Singleton
  <2>4. IsFiniteSet(Of(d)) /\ Cardinality(Of(d)) = 1 * Len(Blocks(d))
    BY <2>2, <2>3, FS_Product
  <2> QED
    BY <2>1, <2>4
<1>2. IsFiniteSet(S)
  <2>1. F \in [1 .. n -> S] /\ \A x \in S : \E d \in 1 .. n : F[d] = x
    OBVIOUS
  <2>2. F \in Surjection(1 .. n, S)
    BY <2>1 DEF Surjection
  <2>3. IsFiniteSet(1 .. n)
    BY FS_Interval
  <2> QED
    BY <2>2, <2>3, FS_Surjection
<1>3. Places = UNION S
  BY DEF Places
<1>4. \A x \in S : IsFiniteSet(x)
  BY <1>1
<1>5. IsFiniteSet(Places)
  <2> HIDE DEF S
  <2> QED
    BY <1>2, <1>3, <1>4, FS_UNION
<1>6. \A d \in 1 .. n : Len(Blocks(d)) <= Cardinality(Places)
  <2> TAKE d \in 1 .. n
  <2>1. Of(d) \subseteq Places
    BY <1>3
  <2> HIDE DEF Of
  <2>2. Cardinality(Of(d)) <= Cardinality(Places)
    BY <1>5, <2>1, FS_Subset
  <2> QED
    BY <1>1, <2>2
<1> QED
  BY <1>5, <1>6, FS_CardinalityType

MapTypes ==
    /\ Shaped
    /\ Len(descriptors) \in Nat /\ DOMAIN descriptors = 1 .. Len(descriptors)

\* The runs printed, said of the blocks alone; b bounds where they may be.
MaximalRuns(b) ==
    {run \in [left : DOMAIN descriptors, right : DOMAIN descriptors,
              i : 1 .. b, j : 1 .. b, count : 2 .. b] :
        /\ run.left < run.right
        /\ \A k \in 0 .. run.count - 1 : Same(run.left, run.i + k, run.right, run.j + k)
        /\ ~\A k \in -1 .. run.count - 1 : Same(run.left, run.i + k, run.right, run.j + k)
        /\ ~\A k \in 0 .. run.count : Same(run.left, run.i + k, run.right, run.j + k)}

Run(l, r, i, j, n) == [left |-> l, right |-> r, i |-> i, j |-> j, count |-> n]

\* Where two payloads have a run, and how long it is.
RunAt(l, r, i, j, n) ==
    /\ l \in DOMAIN descriptors /\ r \in DOMAIN descriptors /\ l < r
    /\ Same(l, i, r, j) /\ Begins(l, r, i, j)
    /\ n = Extent(l, r, i, j) /\ n >= 2

LEMMA RunsAre ==
    ASSUME NEW run
    PROVE  run \in RepeatedRuns <=> \E l, r, i, j, n : RunAt(l, r, i, j, n) /\ run = Run(l, r, i, j, n)
<1>1. ASSUME run \in RepeatedRuns
      PROVE  \E l, r, i, j, n : RunAt(l, r, i, j, n) /\ run = Run(l, r, i, j, n)
  <2>1. PICK o \in Occurrences :
           /\ Begins(o[1], o[2], o[3], o[4])
           /\ run = Run(o[1], o[2], o[3], o[4], Extent(o[1], o[2], o[3], o[4]))
    BY <1>1 DEF RepeatedRuns, Run
  <2>2. run.count >= 2
    BY <1>1 DEF RepeatedRuns
  <2>3. /\ o[1] \in DOMAIN descriptors /\ o[2] \in DOMAIN descriptors
        /\ o[1] < o[2] /\ Same(o[1], o[3], o[2], o[4])
    BY DEF Occurrences
  <2>4. Extent(o[1], o[2], o[3], o[4]) >= 2
    BY <2>1, <2>2 DEF Run
  <2> QED
    BY <2>1, <2>3, <2>4 DEF RunAt
<1>2. ASSUME NEW l, NEW r, NEW i, NEW j, NEW n, RunAt(l, r, i, j, n), run = Run(l, r, i, j, n)
      PROVE  run \in RepeatedRuns
  <2>1. <<l, r, i, j>> \in Occurrences
    <3>1. i \in Positions(l) /\ j \in Positions(r) /\ l \in DOMAIN descriptors /\ r \in DOMAIN descriptors
      BY <1>2 DEF RunAt, Same
    <3>2. <<l, r, i, j>> \in UNION {{a} \X {b} \X Positions(a) \X Positions(b) :
                                       a \in DOMAIN descriptors, b \in DOMAIN descriptors}
      <4> DEFINE Product(a, b) == {a} \X {b} \X Positions(a) \X Positions(b)
                 Products == {Product(a, b) : a \in DOMAIN descriptors, b \in DOMAIN descriptors}
      <4>1. <<l, r, i, j>> \in Product(l, r)
        BY <3>1
      <4> HIDE DEF Product
      <4>2. Product(l, r) \in Products
        BY <3>1
      <4> HIDE DEF Products
      <4>3. <<l, r, i, j>> \in UNION Products
        BY <4>1, <4>2
      <4> QED
        BY <4>3 DEF Products, Product
    <3> QED
      BY <1>2, <3>2 DEF RunAt, Occurrences
  <2>2. run.count >= 2
    BY <1>2 DEF RunAt, Run
  <2>3. PICK o \in Occurrences : o = <<l, r, i, j>>
    BY <2>1
  <2>4. /\ Begins(o[1], o[2], o[3], o[4])
        /\ run = [left |-> o[1], right |-> o[2], i |-> o[3], j |-> o[4],
                  count |-> Extent(o[1], o[2], o[3], o[4])]
    BY <1>2, <2>3 DEF RunAt, Run
  <2> QED
    BY <2>2, <2>4 DEF RepeatedRuns
<1> QED
  BY <1>1, <1>2

LEMMA RunsAreThose ==
    ASSUME MapTypes PROVE RepeatedRuns = MaximalRuns(Cardinality(Places))
<1> DEFINE b == Cardinality(Places)
<1>1. /\ b \in Nat /\ \A d \in DOMAIN descriptors : Len(Blocks(d)) <= b
      /\ DOMAIN descriptors = 1 .. Len(descriptors) /\ Len(descriptors) \in Nat
      /\ \A d \in DOMAIN descriptors : Len(Blocks(d)) \in Nat /\ Positions(d) = 1 .. Len(Blocks(d))
  BY PlacesAreFinite DEF MapTypes, Shaped
<1> HIDE DEF b
<1>2. ASSUME NEW run \in RepeatedRuns PROVE run \in MaximalRuns(b)
  <2>1. PICK l, r, i, j, n : RunAt(l, r, i, j, n) /\ run = Run(l, r, i, j, n)
    BY RunsAre
  <2>2. /\ l \in DOMAIN descriptors /\ r \in DOMAIN descriptors /\ l < r
        /\ Same(l, i, r, j) /\ Begins(l, r, i, j) /\ n >= 2
    BY <2>1 DEF RunAt
  <2>3. n \in 1 .. Len(Blocks(l)) /\ Common(l, r, i, j, n)
    BY <1>1, <2>1, <2>2, ExtentIs DEF RunAt, MapTypes
  <2>4. i \in 1 .. Len(Blocks(l)) /\ j \in 1 .. Len(Blocks(r))
    BY <1>1, <2>2 DEF Same
  <2>5. n \in 2 .. b /\ i \in 1 .. b /\ j \in 1 .. b
    BY <1>1, <2>2, <2>3, <2>4
  <2>6. ~\A k \in -1 .. n - 1 : Same(l, i + k, r, j + k)
    <3> SUFFICES ASSUME \A k \in -1 .. n - 1 : Same(l, i + k, r, j + k) PROVE FALSE
      OBVIOUS
    <3>1. -1 \in -1 .. n - 1 /\ i + (-1) = i - 1 /\ j + (-1) = j - 1
      BY <2>4, <2>5
    <3>2. Same(l, i - 1, r, j - 1)
      BY <3>1
    <3>3. i - 1 \in 1 .. Len(Blocks(l)) /\ j - 1 \in 1 .. Len(Blocks(r))
      BY <1>1, <2>2, <3>2 DEF Same
    <3> QED
      BY <1>1, <2>2, <2>4, <3>2, <3>3 DEF Begins
  <2>7. ~\A k \in 0 .. n : Same(l, i + k, r, j + k)
    <3>1. n \in 0 .. n
      BY <2>5
    <3> QED
      BY <2>3, <3>1 DEF Common
  <2>8. /\ run \in [left : DOMAIN descriptors, right : DOMAIN descriptors,
                    i : 1 .. b, j : 1 .. b, count : 2 .. b]
        /\ run.left = l /\ run.right = r /\ run.i = i /\ run.j = j /\ run.count = n
    BY <2>1, <2>2, <2>5 DEF Run
  <2> QED
    BY <2>2, <2>3, <2>6, <2>7, <2>8 DEF MaximalRuns, Common
<1>3. ASSUME NEW run \in MaximalRuns(b) PROVE run \in RepeatedRuns
  <2> DEFINE l == run.left
             r == run.right
             i == run.i
             j == run.j
             n == run.count
  <2>1. /\ l \in DOMAIN descriptors /\ r \in DOMAIN descriptors /\ l < r
        /\ i \in 1 .. b /\ j \in 1 .. b /\ n \in 2 .. b /\ run = Run(l, r, i, j, n)
        /\ \A k \in 0 .. n - 1 : Same(l, i + k, r, j + k)
        /\ ~\A k \in -1 .. n - 1 : Same(l, i + k, r, j + k)
        /\ ~\A k \in 0 .. n : Same(l, i + k, r, j + k)
    BY DEF MaximalRuns, Run
  <2> HIDE DEF l, r, i, j, n
  <2>2. i \in Nat /\ j \in Nat /\ n \in Nat /\ n >= 2
    BY <1>1, <2>1
  <2>3. Same(l, i, r, j)
    <3>1. 0 \in 0 .. n - 1 /\ i + 0 = i /\ j + 0 = j
      BY <2>2
    <3>2. Same(l, i + 0, r, j + 0)
      BY <2>1, <3>1
    <3> QED
      BY <3>1, <3>2
  <2>4. Common(l, r, i, j, n)
    <3>1. \A k : k \in 0 .. n <=> k \in 0 .. n - 1 \/ k = n
      BY <2>2
    <3> QED
      BY <2>1, <3>1 DEF Common
  <2>5. n = Extent(l, r, i, j)
    BY <1>1, <2>1, <2>2, <2>3, <2>4, ExtentIs DEF MapTypes
  <2>6. Begins(l, r, i, j)
    <3> SUFFICES ASSUME Same(l, i - 1, r, j - 1) PROVE FALSE
      BY DEF Begins
    <3>1. \A k : k \in -1 .. n - 1 <=> k \in 0 .. n - 1 \/ k = -1
      BY <2>2
    <3>2. i + (-1) = i - 1 /\ j + (-1) = j - 1
      BY <2>2
    <3> QED
      BY <2>1, <3>1, <3>2
  <2> QED
    BY <2>1, <2>2, <2>3, <2>5, <2>6, RunsAre DEF RunAt
<1> QED
  BY <1>2, <1>3 DEF b

(***************************************************************************)
(* The counts.  The places whose value occurs once correspond one to one   *)
(* to the values that occur once; the others are the occurrences.          *)
(***************************************************************************)
ValuesOf(S, g) == {g[x] : x \in S}
RepeatedOf(S, g) == {v \in ValuesOf(S, g) : Cardinality({x \in S : g[x] = v}) > 1}

LEMMA Twice ==
    ASSUME NEW S, IsFiniteSet(S), NEW x \in S, NEW y \in S, x # y
    PROVE  Cardinality(S) > 1
<1>1. IsFiniteSet({x}) /\ Cardinality({x}) = 1
  BY FS_Singleton
<1>2. {x} \subseteq S /\ {x} # S
  OBVIOUS
<1>3. Cardinality({x}) <= Cardinality(S) /\ Cardinality({x}) # Cardinality(S)
  BY <1>2, FS_Subset
<1>4. Cardinality(S) \in Nat
  BY FS_CardinalityType
<1> QED
  BY <1>1, <1>3, <1>4

LEMMA Counting ==
    ASSUME NEW S, IsFiniteSet(S), NEW g
    PROVE  LET V == ValuesOf(S, g)
               R == RepeatedOf(S, g)
               O == {x \in S : g[x] \in R}
           IN  /\ IsFiniteSet(V) /\ IsFiniteSet(R) /\ IsFiniteSet(O)
               /\ Cardinality(S) = Cardinality(V) - Cardinality(R) + Cardinality(O)
               /\ \A x, y \in S : x # y /\ g[x] = g[y] => g[x] \in R
<1> DEFINE V == ValuesOf(S, g)
           R == RepeatedOf(S, g)
           O == {x \in S : g[x] \in R}
           U == S \ O
           W == V \ R
           f == [x \in S |-> g[x]]
           h == [x \in U |-> g[x]]
<1>1. IsFiniteSet(V) /\ IsFiniteSet(R) /\ R \subseteq V
  <2>1. f \in Surjection(S, V)
    BY DEF Surjection, ValuesOf
  <2>2. IsFiniteSet(V)
    <3> HIDE DEF f, V
    <3> QED
      BY <2>1, FS_Surjection
  <2>3. R \subseteq V
    BY DEF RepeatedOf
  <2> QED
    <3> HIDE DEF V, R
    <3> QED
      BY <2>2, <2>3, FS_Subset
<1>2. IsFiniteSet(O) /\ O \subseteq S
  <2>1. O \subseteq S
    OBVIOUS
  <2> QED
    <3> HIDE DEF O
    <3> QED
      BY <2>1, FS_Subset
<1>3. ASSUME NEW x \in S, NEW y \in S, x # y, g[x] = g[y]
      PROVE  g[x] \in R
  <2> DEFINE T == {z \in S : g[z] = g[x]}
  <2>1. T \in SUBSET S /\ x \in T /\ y \in T /\ g[x] \in V
    BY <1>3 DEF ValuesOf
  <2>2. Cardinality(T) > 1
    <3> HIDE DEF T
    <3>1. IsFiniteSet(T)
      BY <2>1, FS_Subset
    <3> QED
      BY <1>3, <2>1, <3>1, Twice
  <2> QED
    BY <2>1, <2>2 DEF RepeatedOf
<1>4. h \in Bijection(U, W)
  <2>1. \A x \in U : g[x] \in W
    BY DEF ValuesOf
  <2>2. \A x, y \in U : g[x] = g[y] => x = y
    BY <1>3
  <2>3. \A v \in W : \E x \in U : g[x] = v
    BY DEF ValuesOf
  <2> HIDE DEF U, W
  <2> QED
    BY <2>1, <2>2, <2>3 DEF Bijection, Injection, IsInjective, Surjection
<1>5. Cardinality(U) = Cardinality(W)
  <2>1. IsFiniteSet(U)
    BY FS_Difference
  <2>2. ExistsBijection(U, W)
    BY <1>4 DEF ExistsBijection
  <2> HIDE DEF U, W
  <2> QED
    BY <2>1, <2>2, FS_Bijection
<1>6. Cardinality(U) = Cardinality(S) - Cardinality(O)
  <2>1. S \cap O = O
    BY <1>2
  <2> HIDE DEF O
  <2> QED
    BY <2>1, FS_Difference
<1>7. Cardinality(W) = Cardinality(V) - Cardinality(R)
  <2>1. V \cap R = R
    BY <1>1
  <2> HIDE DEF V, R
  <2> QED
    BY <1>1, <2>1, FS_Difference
<1>8. /\ Cardinality(S) \in Nat /\ Cardinality(O) \in Nat
      /\ Cardinality(V) \in Nat /\ Cardinality(R) \in Nat
  <2> HIDE DEF O, V, R
  <2> QED
    BY <1>1, <1>2, FS_CardinalityType
<1>9. Cardinality(S) = Cardinality(V) - Cardinality(R) + Cardinality(O)
  <2>1. \A s, v, r, o \in Nat : s - o = v - r => s = v - r + o
    OBVIOUS
  <2>2. Cardinality(S) - Cardinality(O) = Cardinality(V) - Cardinality(R)
    BY <1>5, <1>6, <1>7
  <2> HIDE DEF O, V, R
  <2> QED
    BY <1>8, <2>1, <2>2
<1>10. \A x, y \in S : x # y /\ g[x] = g[y] => g[x] \in R
  <2> HIDE DEF R
  <2> QED
    BY <1>3
<1> HIDE DEF V, R, O
<1>11. IsFiniteSet(V) /\ IsFiniteSet(R) /\ IsFiniteSet(O)
  BY <1>1, <1>2
<1> QED
  BY <1>9, <1>10, <1>11 DEF V, R, O

\* What is counted for the report, when every payload has a whole prefix.
LEMMA Counts ==
    ASSUME MapTypes
    PROVE  /\ Cardinality(Places) = Cardinality(Values) - Cardinality(Repeated) + RepeatedOccurrences
           /\ CompletePrefixes => BehindPrefix \in 0 .. Cardinality(Places)
           /\ RepeatedRuns # {} => Cardinality(Repeated) > 0
<1> DEFINE g == [place \in Places |-> At(place)]
<1>1. IsFiniteSet(Places) /\ Cardinality(Places) \in Nat
  BY PlacesAreFinite DEF MapTypes
<1>2. Values = ValuesOf(Places, g)
  BY DEF Values, ValuesOf
<1>3. Repeated = RepeatedOf(Places, g)
  <2>1. \A v : {place \in Places : At(place) = v} = {x \in Places : g[x] = v}
    OBVIOUS
  <2> QED
    BY <1>2, <2>1 DEF Repeated, RepeatedOf
<1>4. {place \in Places : At(place) \in Repeated} = {x \in Places : g[x] \in Repeated}
  OBVIOUS
<1> HIDE DEF g
<1>5. /\ IsFiniteSet(Repeated)
      /\ Cardinality(Places) = Cardinality(Values) - Cardinality(Repeated) + RepeatedOccurrences
      /\ \A x, y \in Places : x # y /\ g[x] = g[y] => g[x] \in Repeated
  BY <1>1, <1>2, <1>3, <1>4, Counting DEF RepeatedOccurrences
<1>6. ASSUME CompletePrefixes PROVE BehindPrefix \in 0 .. Cardinality(Places)
  <2> DEFINE A == {place \in Places : place[2] > PrefixBlocks}
             B == {o \in (DOMAIN descriptors) \X (1 .. PrefixBlocks) : o[2] > Len(Blocks(o[1]))}
  <2>1. A \in SUBSET Places
    OBVIOUS
  <2>2. B = {}
    <3> SUFFICES ASSUME NEW o \in (DOMAIN descriptors) \X (1 .. PrefixBlocks), o[2] > Len(Blocks(o[1]))
                 PROVE  FALSE
      OBVIOUS
    <3>1. o[1] \in DOMAIN descriptors /\ o[2] \in 1 .. PrefixBlocks
      OBVIOUS
    <3>2. Len(Blocks(o[1])) \in Nat /\ Len(Blocks(o[1])) >= PrefixBlocks
      BY <1>6, <3>1 DEF CompletePrefixes, MapTypes, Shaped
    <3> QED
      BY <3>1, <3>2, ContainersAssumption
  <2>3. BehindPrefix = Cardinality(A) - Cardinality(B)
    BY DEF BehindPrefix
  <2> HIDE DEF A, B
  <2>4. IsFiniteSet(A) /\ Cardinality(A) <= Cardinality(Places)
    BY <1>1, <2>1, FS_Subset
  <2>5. Cardinality(A) \in Nat
    BY <2>4, FS_CardinalityType
  <2>6. Cardinality(B) = 0
    BY <2>2, FS_EmptySet
  <2> QED
    BY <1>1, <2>3, <2>4, <2>5, <2>6
<1>7. ASSUME RepeatedRuns # {} PROVE Cardinality(Repeated) > 0
  <2>1. PICK l, r, i, j, n : RunAt(l, r, i, j, n)
    BY <1>7, RunsAre
  <2>2. /\ l \in DOMAIN descriptors /\ r \in DOMAIN descriptors /\ l < r
        /\ i \in Positions(l) /\ j \in Positions(r) /\ Blocks(l)[i] = Blocks(r)[j]
    BY <2>1 DEF RunAt, Same
  <2>3. l # r
    BY <2>2 DEF MapTypes
  <2>4. \A d \in DOMAIN descriptors : \A k \in Positions(d) :
           <<d, k>> \in Places /\ g[<<d, k>>] = Blocks(d)[k]
    <3> TAKE d \in DOMAIN descriptors
    <3> TAKE k \in Positions(d)
    <3> DEFINE Of(e) == {e} \X Positions(e)
               S == {Of(e) : e \in DOMAIN descriptors}
    <3>1. <<d, k>> \in Of(d)
      OBVIOUS
    <3> HIDE DEF Of
    <3>2. Of(d) \in S
      OBVIOUS
    <3> HIDE DEF S
    <3>3. <<d, k>> \in UNION S
      BY <3>1, <3>2
    <3>4. <<d, k>> \in Places
      BY <3>3 DEF S, Of, Places
    <3> QED
      BY <3>4 DEF g, At
  <2>5. g[<<l, i>>] \in Repeated
    <3>1. <<l, i>> # <<r, j>>
      BY <2>3
    <3>2. <<l, i>> \in Places /\ <<r, j>> \in Places /\ g[<<l, i>>] = g[<<r, j>>]
      BY <2>2, <2>4
    <3> QED
      BY <1>5, <3>1, <3>2
  <2>6. Cardinality(Repeated) \in Nat /\ Cardinality(Repeated) # 0
    BY <1>5, <2>5, FS_EmptySet, FS_CardinalityType
  <2> QED
    BY <2>6
<1> QED
  BY <1>5, <1>6, <1>7

(***************************************************************************)
(* The padding: the place of the separator says how many 255s precede it.  *)
(***************************************************************************)
Joined(s, t) == s \o t

LEMMA JoinedIs ==
    ASSUME NEW s \in Seq(Nat), NEW t \in Seq(Nat)
    PROVE  /\ Joined(s, t) \in Seq(Nat) /\ Len(Joined(s, t)) = Len(s) + Len(t)
           /\ \A i \in 1 .. Len(s) : Joined(s, t)[i] = s[i]
           /\ \A i \in 1 .. Len(t) : Joined(s, t)[Len(s) + i] = t[i]
BY DEF Joined

\* A head of two, n bytes, a separator and a tail, one behind the other.
Parts(n, p, f, z, b) ==
    /\ n \in Nat /\ p \in Seq(Nat) /\ f \in Seq(Nat) /\ z \in Seq(Nat) /\ b \in Seq(Nat)
    /\ Len(p) = 2 /\ Len(f) = n /\ Len(z) = 1

Laid(s, n, p, f, z, b) ==
    /\ s \in Seq(Nat) /\ Len(s) = n + 3 + Len(b)
    /\ s[1] = p[1] /\ s[2] = p[2] /\ s[n + 3] = z[1]
    /\ \A i \in 1 .. n : s[2 + i] = f[i]
    /\ \A i \in 1 .. Len(b) : s[n + 3 + i] = b[i]

LEMMA Block ==
    ASSUME NEW n, NEW p, NEW f, NEW z, NEW b, Parts(n, p, f, z, b)
    PROVE  Laid(Joined(Joined(Joined(p, f), z), b), n, p, f, z, b)
<1> USE DEF Parts
<1> DEFINE u == Joined(p, f)
           v == Joined(u, z)
           t == Joined(v, b)
<1>1. /\ u \in Seq(Nat) /\ Len(u) = n + 2 /\ \A i \in 1 .. 2 : u[i] = p[i]
      /\ \A i \in 1 .. n : u[2 + i] = f[i]
  <2>1. /\ u \in Seq(Nat) /\ Len(u) = Len(p) + Len(f)
        /\ \A i \in 1 .. Len(p) : u[i] = p[i]
        /\ \A i \in 1 .. Len(f) : u[Len(p) + i] = f[i]
    BY JoinedIs
  <2> HIDE DEF u
  <2> QED
    BY <2>1
<1> HIDE DEF u
<1>2. /\ v \in Seq(Nat) /\ Len(v) = n + 2 + 1 /\ \A i \in 1 .. n + 2 : v[i] = u[i]
      /\ \A i \in 1 .. 1 : v[n + 2 + i] = z[i]
  <2>1. /\ v \in Seq(Nat) /\ Len(v) = Len(u) + Len(z)
        /\ \A i \in 1 .. Len(u) : v[i] = u[i]
        /\ \A i \in 1 .. Len(z) : v[Len(u) + i] = z[i]
    BY <1>1, JoinedIs
  <2> HIDE DEF v
  <2> QED
    BY <1>1, <2>1
<1> HIDE DEF v
<1>3. /\ t \in Seq(Nat) /\ Len(t) = n + 3 + Len(b) /\ \A i \in 1 .. n + 3 : t[i] = v[i]
      /\ \A i \in 1 .. Len(b) : t[n + 3 + i] = b[i]
  <2>1. Len(v) = n + 3
    BY <1>2
  <2>2. /\ t \in Seq(Nat) /\ Len(t) = Len(v) + Len(b)
        /\ \A i \in 1 .. Len(v) : t[i] = v[i]
        /\ \A i \in 1 .. Len(b) : t[Len(v) + i] = b[i]
    BY <1>2, JoinedIs
  <2> HIDE DEF t
  <2> QED
    BY <2>1, <2>2
<1> HIDE DEF t
<1>4. t[1] = p[1] /\ t[2] = p[2]
  BY <1>1, <1>2, <1>3
<1>5. t[n + 3] = z[1]
  <2>1. v[n + 2 + 1] = z[1] /\ n + 2 + 1 = n + 3 /\ n + 3 \in 1 .. n + 3
    BY <1>2
  <2> QED
    BY <1>3, <2>1
<1>6. ASSUME NEW i \in 1 .. n PROVE t[2 + i] = f[i]
  <2>1. 2 + i \in 1 .. n + 2 /\ 2 + i \in 1 .. n + 3
    OBVIOUS
  <2> QED
    BY <1>1, <1>2, <1>3, <2>1
<1>7. /\ t \in Seq(Nat) /\ Len(t) = n + 3 + Len(b)
      /\ t[1] = p[1] /\ t[2] = p[2] /\ t[n + 3] = z[1]
      /\ \A i \in 1 .. n : t[2 + i] = f[i]
      /\ \A i \in 1 .. Len(b) : t[n + 3 + i] = b[i]
  BY <1>3, <1>4, <1>5, <1>6
<1>8. Laid(t, n, p, f, z, b)
  BY <1>7 DEF Laid
<1> QED
  BY <1>8, Zenon DEF t, v, u

\* Padding up to the separator, and the same bytes behind it.
Ones(e, n) == e[1] = 0 /\ e[2] = 1 /\ e[n + 3] = 0 /\ \A i \in 3 .. n + 2 : e[i] = 255

Behind(t, e, n) ==
    /\ e \in Seq(Nat) /\ t \in Seq(Nat) /\ Len(t) = Len(e) /\ n \in Nat /\ n + 3 < Len(e)
    /\ \A i \in n + 4 .. Len(e) : t[i] = e[i]

LEMMA SameBytes ==
    ASSUME NEW e, NEW t, NEW n, Behind(t, e, n), Ones(t, n)
    PROVE  e = t <=> Ones(e, n)
<1> USE DEF Behind, Ones
<1>1. Len(e) \in Nat
  OBVIOUS
<1>2. ASSUME Ones(e, n) PROVE e = t
  <2>1. ASSUME NEW i \in 1 .. Len(e) PROVE e[i] = t[i]
    <3>1. i = 1 \/ i = 2 \/ i \in 3 .. n + 2 \/ i = n + 3 \/ i \in n + 4 .. Len(e)
      BY <1>1
    <3> QED
      BY <1>2, <3>1
  <2> QED
    BY <2>1, SeqEqual
<1>3. ASSUME e = t PROVE Ones(e, n)
  BY <1>3
<1> QED
  BY <1>2, <1>3

LEMMA PaddedWith ==
    ASSUME NEW e \in Seq(Nat), NEW n \in Nat, n + 3 < Len(e)
    PROVE  e = <<0, 1>> \o [i \in 1 .. n |-> 255] \o <<0>> \o SubSeq(e, n + 4, Len(e))
              <=> Ones(e, n)
<1> DEFINE p == <<0, 1>>
           f == [i \in 1 .. n |-> 255]
           z == <<0>>
           b == SubSeq(e, n + 4, Len(e))
           t == Joined(Joined(Joined(p, f), z), b)
<1>1. Len(e) \in Nat /\ n + 4 \in Int /\ n + 4 <= Len(e) /\ \A i \in 1 .. Len(e) : e[i] \in Nat
  OBVIOUS
<1>2. p \in Seq(Nat) /\ Len(p) = 2 /\ p[1] = 0 /\ p[2] = 1
  OBVIOUS
<1>3. f \in Seq(Nat) /\ Len(f) = n /\ \A i \in 1 .. n : f[i] = 255
  OBVIOUS
<1>4. z \in Seq(Nat) /\ Len(z) = 1 /\ z[1] = 0
  OBVIOUS
<1>5. b \in Seq(Nat) /\ Len(b) = Len(e) - n - 3 /\ \A i \in 1 .. Len(e) - n - 3 : b[i] = e[n + 3 + i]
  <2>1. \A i \in n + 4 .. Len(e) : e[i] \in Nat
    BY <1>1
  <2>2. b \in Seq(Nat) /\ Len(b) = (IF n + 4 <= Len(e) THEN Len(e) - (n + 4) + 1 ELSE 0)
    BY <1>1, <2>1, SubSeqProperties
  <2>3. \A i \in 1 .. Len(e) - (n + 4) + 1 : b[i] = e[n + 4 + i - 1]
    BY <1>1, <2>1, SubSeqProperties
  <2> HIDE DEF b
  <2> QED
    BY <1>1, <2>2, <2>3
<1> HIDE DEF p, f, z, b
<1>6. Laid(t, n, p, f, z, b)
  <2>1. Parts(n, p, f, z, b)
    BY <1>2, <1>3, <1>4, <1>5 DEF Parts
  <2> QED
    BY <2>1, Block
<1> HIDE DEF t
<1>7. ASSUME NEW i \in 3 .. n + 2 PROVE t[i] = 255
  <2>1. i - 2 \in 1 .. n /\ 2 + (i - 2) = i
    OBVIOUS
  <2>2. t[2 + (i - 2)] = f[i - 2] /\ f[i - 2] = 255
    BY <1>3, <1>6, <2>1 DEF Laid
  <2> QED
    BY <2>1, <2>2
<1>8. ASSUME NEW i \in n + 4 .. Len(e) PROVE t[i] = e[i]
  <2>1. i - n - 3 \in 1 .. Len(e) - n - 3 /\ n + 3 + (i - n - 3) = i
    BY <1>1
  <2> QED
    BY <1>5, <1>6, <2>1 DEF Laid
<1>9. t \in Seq(Nat) /\ Len(t) = Len(e) /\ t[1] = 0 /\ t[2] = 1 /\ t[n + 3] = 0
  BY <1>1, <1>2, <1>4, <1>5, <1>6 DEF Laid
<1>10. Behind(t, e, n) /\ Ones(t, n)
  BY <1>7, <1>8, <1>9 DEF Behind, Ones
<1>11. e = t <=> Ones(e, n)
  BY <1>10, SameBytes
<1> QED
  BY <1>11, Zenon DEF t, Joined, p, f, z, b

LEMMA PaddingIsFound == ASSUME NEW e \in Seq(Nat) PROVE HasPadding(e) <=> Padding(e)
<1>1. Len(e) \in Nat
  OBVIOUS
<1>2. ASSUME HasPadding(e) PROVE Padding(e)
  <2>1. PICK s \in 11 .. Len(e) - 1 : e[s] = 0 /\ \A i \in 3 .. s - 1 : e[i] = 255
    BY <1>2 DEF HasPadding
  <2> DEFINE n == s - 3
  <2>2. n \in 8 .. Len(e) /\ n \in Nat /\ n + 3 < Len(e) /\ n + 3 = s /\ n + 2 = s - 1
    BY <1>1
  <2> HIDE DEF n
  <2>3. e[1] = 0 /\ e[2] = 1
    BY <1>2 DEF HasPadding
  <2>4. e[n + 3] = 0 /\ \A i \in 3 .. n + 2 : e[i] = 255
    BY <2>1, <2>2
  <2>5. Ones(e, n)
    BY <2>3, <2>4 DEF Ones
  <2>6. e = <<0, 1>> \o [i \in 1 .. n |-> 255] \o <<0>> \o SubSeq(e, n + 4, Len(e))
    BY <2>2, <2>5, PaddedWith
  <2> QED
    BY <2>2, <2>6 DEF Padding
<1>3. ASSUME Padding(e) PROVE HasPadding(e)
  <2>1. PICK n \in 8 .. Len(e) :
           /\ n + 3 < Len(e)
           /\ e = <<0, 1>> \o [i \in 1 .. n |-> 255] \o <<0>> \o SubSeq(e, n + 4, Len(e))
    BY <1>3 DEF Padding
  <2>2. n \in Nat
    BY <1>1
  <2>3. e[1] = 0 /\ e[2] = 1 /\ e[n + 3] = 0 /\ \A i \in 3 .. n + 2 : e[i] = 255
    <3>1. Ones(e, n)
      BY <2>1, <2>2, PaddedWith
    <3> QED
      BY <3>1 DEF Ones
  <2> DEFINE s == n + 3
  <2>4. s \in 11 .. Len(e) - 1 /\ s - 1 = n + 2 /\ Len(e) >= 12
    BY <1>1, <2>1
  <2>5. e[s] = 0 /\ (\A i \in 3 .. s - 1 : e[i] # 0) /\ (\A i \in 3 .. s - 1 : e[i] = 255)
    BY <2>3, <2>4
  <2> HIDE DEF s
  <2>6. \E x \in 11 .. Len(e) - 1 :
           e[x] = 0 /\ (\A i \in 3 .. x - 1 : e[i] # 0) /\ (\A i \in 3 .. x - 1 : e[i] = 255)
    <3>1. s \in 11 .. Len(e) - 1
      BY <2>4
    <3> WITNESS s \in 11 .. Len(e) - 1
    <3> QED
      BY <2>5
  <2> QED
    BY <2>3, <2>4, <2>6 DEF HasPadding
<1> QED
  BY <1>2, <1>3

(***************************************************************************)
(* The steps of the map.  Until the report is printed there is nothing to  *)
(* say of it.                                                              *)
(***************************************************************************)
LEMMA PayloadIsShaped ==
    ASSUME IInv, Parsing, Readable, WellFormed(Entry)
    PROVE  /\ LET blocks == Entry.payload.blocks
              IN  Len(blocks) \in Nat /\ DOMAIN blocks = 1 .. Len(blocks)
           /\ \A o \in Orders : Entry.payload.number[o] \in Numbers
<1> DEFINE t == Table(binary, Rva)
           k == Len(descriptors) + 1
<1>1. /\ descriptors \in Seq(Payloads) /\ Len(descriptors) \in Nat
      /\ Len(t) \in Nat /\ DOMAIN t = 1 .. Len(t) /\ k <= Len(t) /\ Entry = t[k]
  BY TableType DEF IInv, Types, Readable, Entry
<1>2. k \in DOMAIN t
  BY <1>1
<1>3. binary \in Files /\ Rva \in DOMAIN binary /\ t = binary[Rva]
  <2>1. t # <<>>
    BY <1>2
  <2> QED
    BY <2>1 DEF IInv, Types, Table
<1>4. binary[Rva][k].kind = "descriptor"
  BY <1>1, <1>3 DEF WellFormed
<1>5. LET blocks == binary[Rva][k].payload.blocks
      IN  Len(blocks) \in Nat /\ DOMAIN blocks = 1 .. Len(blocks)
  <2>1. \A i \in DOMAIN binary[Rva] : binary[Rva][i].kind = "descriptor" =>
           LET blocks == binary[Rva][i].payload.blocks
           IN  Len(blocks) \in Nat /\ DOMAIN blocks = 1 .. Len(blocks)
    BY <1>3, CatalogAssumption
  <2>2. k \in DOMAIN binary[Rva]
    BY <1>2, <1>3
  <2> HIDE DEF k
  <2> QED
    BY <1>4, <2>1, <2>2
<1>6. \A o \in Orders : binary[Rva][k].payload.number[o] \in Numbers
  <2>1. \A i \in DOMAIN binary[Rva] : binary[Rva][i].kind = "descriptor" =>
           \A o \in Orders : binary[Rva][i].payload.number[o] \in Numbers
    BY <1>3, ContainersAssumption
  <2>2. k \in DOMAIN binary[Rva]
    BY <1>2, <1>3
  <2> HIDE DEF k
  <2> QED
    BY <1>4, <2>1, <2>2
<1> QED
  BY <1>1, <1>3, <1>5, <1>6

LEMMA ParseShapes == ASSUME IInv, Shaped, ParseDescriptor PROVE Shaped'
<1> DEFINE n == Len(descriptors)
           p == Entry.payload
<1>1. Parsing /\ Readable /\ WellFormed(Entry) /\ descriptors' = Append(descriptors, p)
  BY DEF ParseDescriptor
<1>2. /\ Len(p.blocks) \in Nat /\ DOMAIN p.blocks = 1 .. Len(p.blocks)
      /\ \A o \in Orders : p.number[o] \in Numbers
  BY <1>1, PayloadIsShaped
<1> HIDE DEF p
<1>3. descriptors \in Seq(Payloads) /\ n \in Nat
  BY DEF IInv, Types
<1>4. /\ Len(descriptors') = n + 1 /\ descriptors'[n + 1] = p
      /\ \A d \in 1 .. n : descriptors'[d] = descriptors[d]
  BY <1>1, <1>3
<1>5. \A d \in 1 .. n + 1 : d \in 1 .. n \/ d = n + 1
  BY <1>3
<1>6. ASSUME NEW d \in 1 .. n + 1
      PROVE  /\ Len(descriptors'[d].blocks) \in Nat
             /\ DOMAIN descriptors'[d].blocks = 1 .. Len(descriptors'[d].blocks)
             /\ \A o \in Orders : descriptors'[d].number[o] \in Numbers
  <2>1. CASE d = n + 1
    BY <1>2, <1>4, <2>1
  <2>2. CASE d \in 1 .. n
    BY <1>4, <2>2 DEF Shaped, Blocks, Positions
  <2> QED
    BY <1>5, <2>1, <2>2
<1> QED
  BY <1>4, <1>6 DEF Shaped, Blocks, Positions

\* While nothing is printed.
LEMMA NotPrinted ==
    ASSUME Shaped', Tabled', KeysRead', stage' \in {"provision", "catalog", "keys", "report", "failed"},
           stage' = "report" => AtEnd'
    PROVE  ReportInv'
BY DEF ReportInv, RunsAreMaximal, CountsFit, MatchesArePadded

LEMMA ReportStart == Init => ReportInv
<1> SUFFICES ASSUME Init PROVE ReportInv
  OBVIOUS
<1>1. Shaped
  BY DEF Init, CatalogInit, Shaped
<1>2. Tabled /\ stage \in {"provision", "catalog"}
  <2>1. CASE table = <<>>
    BY <2>1 DEF Init, Tabled
  <2>2. CASE table \in KeyTables
    BY <2>2, ContainersAssumption DEF Init, Tabled
  <2> QED
    BY <2>1, <2>2 DEF Init
<1>3. KeysRead
  <2>1. next = 1 /\ keys = <<>> /\ 1 .. next - 1 = {}
    BY DEF Init
  <2>2. Passed = {}
    BY <2>1 DEF Passed
  <2> QED
    BY <1>2, <2>1, <2>2 DEF KeysRead, Tabled
<1> QED
  BY <1>1, <1>2, <1>3 DEF ReportInv, RunsAreMaximal, CountsFit, MatchesArePadded

LEMMA SameTable == ASSUME Tabled, KeysRead, UNCHANGED keyVars PROVE Tabled' /\ KeysRead'
BY DEF Tabled, KeysRead, Passed, keyVars

LEMMA ShapeStays == ASSUME Shaped, UNCHANGED descriptors PROVE Shaped'
BY DEF Shaped, Blocks, Positions

LEMMA CatalogShapes == ASSUME IInv, Shaped, CatalogNext PROVE Shaped'
<1>1. CASE ParseDescriptor
  BY <1>1, ParseShapes
<1>2. CASE SkipBroken \/ SkipAbsent \/ TakeDescriptor
  <2>1. descriptors' = <<>>
    BY <1>2 DEF SkipBroken, SkipAbsent, TakeDescriptor, NextCandidate
  <2> QED
    BY <2>1 DEF Shaped
<1>3. CASE CrashOnIndex \/ Select
  BY <1>3, ShapeStays DEF CrashOnIndex, Select
<1> QED
  BY <1>1, <1>2, <1>3 DEF CatalogNext

LEMMA ProvisionReports ==
    ASSUME IInv, ReportInv, stage = "provision", CatalogNext, UNCHANGED <<keyVars, stage, report>>
    PROVE  ReportInv'
<1>1. Shaped'
  BY CatalogShapes DEF ReportInv
<1>2. Tabled' /\ KeysRead'
  BY SameTable DEF ReportInv
<1> QED
  BY <1>1, <1>2, NotPrinted

LEMMA CatalogReports == ASSUME IInv, ReportInv, ReadCatalog \/ EndOfCatalog PROVE ReportInv'
<1>1. Shaped'
  BY ParseShapes, ShapeStays DEF ReportInv, ReadCatalog, EndOfCatalog, catalogVars
<1>2. Tabled' /\ KeysRead'
  BY SameTable DEF ReportInv, ReadCatalog, EndOfCatalog
<1>3. stage' \in {"catalog", "keys", "failed"}
  BY DEF ReadCatalog, EndOfCatalog
<1> QED
  BY <1>1, <1>2, <1>3, NotPrinted

LEMMA KeysReport == ASSUME ReportInv, ReadKey \/ EndOfKeys PROVE ReportInv'
<1>1. Shaped'
  BY ShapeStays DEF ReportInv, ReadKey, EndOfKeys, catalogVars
<1>2. CASE ReadKey
  <2>1. /\ Len(table) \in Nat /\ DOMAIN table = 1 .. Len(table)
        /\ next \in Nat \ {0} /\ next <= Len(table) /\ keys \in Seq(Passed)
        /\ table[next].selector # 0
        /\ keys' = IF IsPoint(table[next]) THEN keys ELSE Append(keys, table[next])
        /\ next' = next + 1 /\ table' = table /\ stage' = "keys"
    BY <1>2 DEF ReportInv, Tabled, KeysRead, ReadKey, KeyReadable
  <2>2. /\ next' \in Nat \ {0} /\ next' - 1 <= Len(table) /\ next \in 1 .. next' - 1
        /\ \A k \in 1 .. next' - 1 : k \in 1 .. next - 1 \/ k = next
        /\ 1 .. next - 1 \subseteq 1 .. next' - 1
    BY <2>1
  <2>3. \A k \in 1 .. next' - 1 : table[k].selector # 0
    BY <2>1, <2>2 DEF ReportInv, KeysRead
  <2>4. Passed' = {table[k] : k \in {n \in 1 .. next' - 1 : ~IsPoint(table[n])}}
    BY <2>1 DEF Passed
  <2>5. keys' \in Seq(Passed') /\ \A v \in Passed' : \E i \in DOMAIN keys' : keys'[i] = v
    <3>1. CASE IsPoint(table[next])
      <4>1. Passed' = Passed /\ keys' = keys
        BY <2>1, <2>2, <2>4, <3>1 DEF Passed
      <4> QED
        BY <2>1, <4>1 DEF ReportInv, KeysRead
    <3>2. CASE ~IsPoint(table[next])
      <4>1. Passed' = Passed \cup {table[next]}
        BY <2>2, <2>4, <3>2 DEF Passed
      <4>2. keys' = Append(keys, table[next])
        BY <2>1, <3>2
      <4>3. keys' \in Seq(Passed') /\ Len(keys') = Len(keys) + 1 /\ Len(keys) \in Nat
        BY <2>1, <4>1, <4>2
      <4>4. keys'[Len(keys) + 1] = table[next] /\ Len(keys) + 1 \in DOMAIN keys'
        BY <2>1, <4>2
      <4>5. \A i \in DOMAIN keys : i \in DOMAIN keys' /\ keys'[i] = keys[i]
        BY <2>1, <4>2
      <4> QED
        BY <4>1, <4>3, <4>4, <4>5 DEF ReportInv, KeysRead
    <3> QED
      BY <3>1, <3>2
  <2>6. Tabled'
    BY <2>1 DEF ReportInv, Tabled
  <2>7. KeysRead'
    BY <2>1, <2>2, <2>3, <2>5 DEF KeysRead
  <2> QED
    BY <1>1, <2>1, <2>6, <2>7, NotPrinted
<1>3. CASE EndOfKeys
  <2>1. Tabled' /\ KeysRead'
    BY <1>3, SameTable DEF ReportInv, EndOfKeys, keyVars
  <2>2. stage' \in {"report", "failed"} /\ (stage' = "report" => AtEnd')
    BY <1>3 DEF EndOfKeys, KeyReadable, AtEnd, ReportInv, Tabled, KeysRead, keyVars
  <2> QED
    BY <1>1, <2>1, <2>2, NotPrinted
<1> QED
  BY <1>2, <1>3

(***************************************************************************)
(* The report.                                                             *)
(***************************************************************************)
LEMMA ReportType == ASSUME IInv, ReportInv PROVE MapTypes
<1>1. Len(descriptors) \in Nat /\ DOMAIN descriptors = 1 .. Len(descriptors)
  BY DEF IInv, Types
<1> QED
  BY <1>1 DEF ReportInv, MapTypes

\* The keys read are the opaque records of the table.
LEMMA KeysAreOpaqueRecords ==
    ASSUME Tabled, KeysRead, AtEnd
    PROVE  {keys[k] : k \in DOMAIN keys} = OpaqueRecords
<1>1. \A n \in DOMAIN table : (\A i \in 1 .. n : table[i].selector # 0) <=> n \in 1 .. next - 1
  <2> TAKE n \in DOMAIN table
  <2>1. n \in Nat /\ n > 0 /\ next \in Nat /\ next > 0 /\ table[next].selector = 0
    BY DEF Tabled, KeysRead, AtEnd
  <2>2. ASSUME n \in 1 .. next - 1, NEW i \in 1 .. n PROVE table[i].selector # 0
    <3>1. i \in 1 .. next - 1
      BY <2>1, <2>2
    <3> QED
      BY <3>1 DEF KeysRead
  <2>3. ASSUME n \notin 1 .. next - 1 PROVE next \in 1 .. n
    BY <2>1, <2>3
  <2> QED
    BY <2>1, <2>2, <2>3
<1>2. \A n \in 1 .. next - 1 : n \in DOMAIN table
  BY DEF Tabled, KeysRead
<1>3. OpaqueRecords = Passed
  BY <1>1, <1>2 DEF OpaqueRecords, Passed
<1>4. \A k \in DOMAIN keys : keys[k] \in Passed
  BY DEF KeysRead
<1> QED
  BY <1>3, <1>4 DEF KeysRead

\* The numbers an interpretation is made of.
LEMMA NumbersOfInterpretations ==
    ASSUME MapTypes, Tabled, KeysRead,
           NEW d \in DOMAIN descriptors, NEW k \in DOMAIN keys, NEW m \in Orders, NEW o \in Orders
    PROVE  descriptors[d].number[o] \in Numbers /\ keys[k][m] \in Numbers
<1>1. descriptors[d].number[o] \in Numbers
  BY DEF MapTypes, Shaped
<1>2. keys[k] \in Passed
  BY DEF KeysRead
<1>3. PICK n \in 1 .. next - 1 : keys[k] = table[n]
  BY <1>2 DEF Passed
<1>4. n \in DOMAIN table /\ table[n].selector # 0
  BY <1>3 DEF Tabled, KeysRead
<1> QED
  BY <1>1, <1>3, <1>4 DEF Tabled

\* A prefix counts as a signature where its own encoding has padding.
LEMMA MatchesAre ==
    ASSUME MapTypes, Tabled, KeysRead
    PROVE  SignatureMatches =
              {t \in [descriptor : DOMAIN descriptors, key : DOMAIN keys, modulus : Orders,
                      signature : Orders, exponent : Exponents] :
                  LET modulus == keys[t.key][t.modulus]
                      number == descriptors[t.descriptor].number[t.signature]
                  IN  /\ modulus > 1 /\ number < modulus
                      /\ Padding(Encoded[<<number, t.exponent, modulus>>])}
<1> DEFINE T == [descriptor : DOMAIN descriptors, key : DOMAIN keys, modulus : Orders,
                 signature : Orders, exponent : Exponents]
<1>1. \A t \in T : Encoded[<<Signature(t), t.exponent, Modulus(t)>>] \in Seq(Nat)
  <2> TAKE t \in T
  <2>1. Signature(t) \in Numbers /\ Modulus(t) \in Numbers /\ t.exponent \in Exponents
    BY NumbersOfInterpretations DEF Signature, Modulus
  <2> QED
    BY <2>1, ContainersAssumption
<1>2. \A t \in T : HasPadding(Encoded[<<Signature(t), t.exponent, Modulus(t)>>])
                     <=> Padding(Encoded[<<Signature(t), t.exponent, Modulus(t)>>])
  BY <1>1, PaddingIsFound
<1>3. SignatureMatches =
        {t \in T : /\ Modulus(t) > 1 /\ Signature(t) < Modulus(t)
                   /\ HasPadding(Encoded[<<Signature(t), t.exponent, Modulus(t)>>])}
  BY DEF SignatureMatches, Below, Interpretations
<1>4. SignatureMatches =
        {t \in T : /\ Modulus(t) > 1 /\ Signature(t) < Modulus(t)
                   /\ Padding(Encoded[<<Signature(t), t.exponent, Modulus(t)>>])}
  BY <1>2, <1>3
<1> QED
  BY <1>4 DEF Signature, Modulus

LEMMA PrintReports ==
    ASSUME IInv, ReportInv, PrintReport
    PROVE  ReportInv'
<1>1. UNCHANGED <<binary, index, position, descriptors, successes, outcome, table, keys, next>>
  BY DEF PrintReport, catalogVars, keyVars
<1>2. Shaped'
  BY <1>1, ShapeStays DEF ReportInv
<1>3. Tabled' /\ KeysRead'
  BY <1>1, SameTable DEF ReportInv, keyVars
<1>4. CASE ~(Summarizable /\ CompletePrefixes)
  <2>1. stage' = "failed"
    BY <1>4 DEF PrintReport
  <2> QED
    BY <1>2, <1>3, <2>1, NotPrinted
<1>5. CASE Summarizable /\ CompletePrefixes
  <2> DEFINE b == Cardinality(Places)
  <2>1. /\ stage' = "printed"
        /\ report' = [runs |-> RepeatedRuns, blocks |-> b,
                      unique |-> Cardinality(Values), values |-> Cardinality(Repeated),
                      occurrences |-> RepeatedOccurrences, behind |-> BehindPrefix,
                      checks |-> Cardinality(Interpretations), below |-> Cardinality(Below),
                      matches |-> SignatureMatches]
    BY <1>5 DEF PrintReport
  <2>2. /\ report'.runs = RepeatedRuns /\ report'.blocks = b
        /\ report'.unique = Cardinality(Values) /\ report'.values = Cardinality(Repeated)
        /\ report'.occurrences = RepeatedOccurrences /\ report'.behind = BehindPrefix
        /\ report'.matches = SignatureMatches
    BY <2>1
  <2>3. MapTypes
    BY ReportType
  <2>4. RunsAreMaximal'
    <3>1. RepeatedRuns = MaximalRuns(b)
      BY <2>3, RunsAreThose
    <3>2. \A l, i, r, j : Same(l, i, r, j)' <=> Same(l, i, r, j)
      BY <1>1 DEF Same, Blocks, Positions
    <3> HIDE DEF b
    <3>3. MaximalRuns(b) =
            {run \in [left : DOMAIN descriptors, right : DOMAIN descriptors,
                      i : 1 .. b, j : 1 .. b, count : 2 .. b] :
                LET equal(from, to) ==
                        \A k \in from .. to : Same(run.left, run.i + k, run.right, run.j + k)
                IN  /\ run.left < run.right
                    /\ equal(0, run.count - 1)
                    /\ ~equal(-1, run.count - 1) /\ ~equal(0, run.count)}
      BY DEF MaximalRuns
    <3>4. RunsAreMaximal' = (stage' = "printed" => report'.runs =
            {run \in [left : DOMAIN descriptors', right : DOMAIN descriptors',
                      i : 1 .. report'.blocks, j : 1 .. report'.blocks, count : 2 .. report'.blocks] :
                LET equal(from, to) ==
                        \A k \in from .. to : Same(run.left, run.i + k, run.right, run.j + k)
                IN  /\ run.left < run.right
                    /\ equal(0, run.count - 1)
                    /\ ~equal(-1, run.count - 1) /\ ~equal(0, run.count)})
      BY <3>2 DEF RunsAreMaximal
    <3> QED
      BY <1>1, <2>2, <3>1, <3>3, <3>4
  <2>5. CountsFit'
    <3>1. /\ b = Cardinality(Values) - Cardinality(Repeated) + RepeatedOccurrences
          /\ BehindPrefix \in 0 .. b
          /\ RepeatedRuns # {} => Cardinality(Repeated) > 0
      BY <1>5, <2>3, Counts
    <3> HIDE DEF b
    <3> QED
      BY <2>2, <3>1 DEF CountsFit
  <2>6. MatchesArePadded'
    <3>1. Tabled /\ KeysRead /\ AtEnd
      BY DEF ReportInv, PrintReport
    <3>2. /\ {keys[k] : k \in DOMAIN keys} = OpaqueRecords
          /\ report'.matches =
                {t \in [descriptor : DOMAIN descriptors, key : DOMAIN keys, modulus : Orders,
                        signature : Orders, exponent : Exponents] :
                    LET modulus == keys[t.key][t.modulus]
                        number == descriptors[t.descriptor].number[t.signature]
                    IN  /\ modulus > 1 /\ number < modulus
                        /\ Padding(Encoded[<<number, t.exponent, modulus>>])}
      BY <2>2, <2>3, <3>1, KeysAreOpaqueRecords, MatchesAre, Zenon
    <3>3. OpaqueRecords' = OpaqueRecords
      BY <1>1 DEF OpaqueRecords
    <3> QED
      BY <1>1, <3>2, <3>3 DEF MatchesArePadded
  <2>7. AtEnd'
    BY <1>1 DEF ReportInv, PrintReport, AtEnd
  <2> QED
    BY <1>2, <1>3, <2>1, <2>4, <2>5, <2>6, <2>7 DEF ReportInv
<1> QED
  BY <1>4, <1>5

LEMMA OtherwiseReports == ASSUME ReportInv, UNCHANGED vars PROVE ReportInv'
<1>1. UNCHANGED <<binary, index, position, descriptors, successes, outcome, table, keys, next, stage, report>>
  BY DEF vars, catalogVars, keyVars
<1>2. /\ Shaped' /\ Tabled' /\ KeysRead'
      /\ stage' \in {"report", "printed"} => AtEnd'
  BY <1>1, ShapeStays, SameTable DEF ReportInv, AtEnd, keyVars
<1>3. RunsAreMaximal'
  BY <1>1 DEF ReportInv, RunsAreMaximal, Same, Blocks, Positions
<1>4. CountsFit' /\ MatchesArePadded'
  BY <1>1 DEF ReportInv, CountsFit, MatchesArePadded, OpaqueRecords
<1> QED
  BY <1>1, <1>2, <1>3, <1>4 DEF ReportInv

\* The tables are read as they are, and the report printed from them is right.
THEOREM ReportInvariance == Spec => []ReportInv
<1>1. IInv /\ ReportInv /\ [Next]_vars => ReportInv'
  <2> SUFFICES ASSUME IInv, ReportInv, [Next]_vars PROVE ReportInv'
    OBVIOUS
  <2>1. CASE stage = "provision" /\ CatalogNext /\ UNCHANGED <<keyVars, stage, report>>
    BY <2>1, ProvisionReports
  <2>2. CASE ReadCatalog \/ EndOfCatalog
    BY <2>2, CatalogReports
  <2>3. CASE ReadKey \/ EndOfKeys
    BY <2>3, KeysReport
  <2>4. CASE PrintReport
    BY <2>4, PrintReports
  <2>5. CASE UNCHANGED vars
    BY <2>5, OtherwiseReports
  <2> QED
    BY <2>1, <2>2, <2>3, <2>4, <2>5 DEF Next
<1> QED
  BY ReportStart, Invariance, <1>1, PTL DEF Spec

\* For every catalog, the repeated runs printed are the longest common runs of
\* two payloads, all of them and nothing else (maximal_repeated_runs).
THEOREM RunsAreTrue == Spec => []RunsAreMaximal
<1>1. ReportInv => RunsAreMaximal
  BY DEF ReportInv
<1> QED
  BY <1>1, ReportInvariance, PTL

\* For every catalog, key table and exponentiation, the printed counts fit
\* together, the keys tried are the opaque ones of the table, and a prefix is
\* reported as a signature under a key, byte orders and exponent exactly where
\* its number is below the modulus and that one encoding has type-1 padding
\* (summarize_containers, rsa_prefix_check).
THEOREM ReportIsRight == Spec => []ReportIsTrue
<1>1. ReportInv => ReportIsTrue
  BY DEF ReportInv, ReportIsTrue
<1> QED
  BY <1>1, ReportInvariance, PTL
=============================================================================
