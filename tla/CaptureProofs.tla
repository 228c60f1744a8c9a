--------------------------- MODULE CaptureProofs ---------------------------
(***************************************************************************)
(* What the capture tools make of a capture, however long it is and        *)
(* whatever its lines hold.  The decoder's invariant says which records    *)
(* have been read and in which order, and that the transactions made so    *)
(* far are those of the records looked at so far; the tools' invariant how *)
(* far each has come with its files, and where the directory is.           *)
(***************************************************************************)
EXTENDS CaptureProperties, SequenceTheorems, FunctionTheorems, FiniteSetTheorems,
        WellFoundedInduction, TLAPS

Good(l) == HasPayload(file[l]) /\ ~Invalid(file[l])

(***************************************************************************)
(* The transactions of a set S of records.                                 *)
(***************************************************************************)
Commands(S) == {c \in S : Endpoint(c) = CommandOut}

Last(S) == {c \in Commands(S) : \A d \in Commands(S) : ~Before(c, d)}

CommandOf(c, S) ==
    [kind |-> "command", at |-> c, responses |-> {l \in S : l \in Owned(c)}]

Interrupts(S) == {l \in S : Endpoint(l) = InterruptIn}

Controls(S) ==
    {l \in S : /\ Endpoint(l) \notin {CommandOut, InterruptIn}
               /\ file[l].control
               /\ Endpoint(l) = ResponseIn => Owner(l) = {}}

PendingOf(S) == {CommandOf(c, S) : c \in Last(S)}

FinishedOf(S) ==
    {CommandOf(c, S) : c \in Commands(S) \ Last(S)}
    \cup {Transaction("interrupt", l) : l \in Interrupts(S)}
    \cup {Transaction("control", l) : l \in Controls(S)}

Seen == {records[i] : i \in 1 .. next - 1}

(***************************************************************************)
(* The invariant.                                                          *)
(***************************************************************************)
Read ==
    /\ file \in Seq(Lines)
    /\ records \in Seq(1 .. Len(file))
    /\ \A i, j \in 1 .. Len(records) : i < j => Before(records[i], records[j])
    /\ \A l \in 1 .. Len(file) : Good(l) <=> \E i \in 1 .. Len(records) : records[i] = l

Progress ==
    /\ phase \in {"reading", "pairing", "done", "failed"}
    /\ phase \in {"pairing", "done"} => \A l \in 1 .. Len(file) : ~Invalid(file[l])
    /\ phase = "reading" => next = 1 /\ pending = {} /\ result = {}
    /\ phase = "pairing" =>
          /\ next \in 1 .. Len(records) + 1
          /\ pending = PendingOf(Seen) /\ result = FinishedOf(Seen)

IInv == Read /\ Progress /\ PairingIsTrue

(***************************************************************************)
(* Lines in frame order.                                                   *)
(***************************************************************************)
LEMMA FrameType ==
    ASSUME NEW f \in Seq(Lines), NEW l \in 1 .. Len(f)
    PROVE  Frame(f, l) \in Nat
BY DecoderAssumption DEF Frame, LineType

\* Before is a strict total order on the lines of the file.
LEMMA BeforeOrders ==
    ASSUME file \in Seq(Lines), NEW l \in 1 .. Len(file), NEW m \in 1 .. Len(file)
    PROVE  /\ ~(Before(l, m) /\ Before(m, l))
           /\ l # m => Before(l, m) \/ Before(m, l)
           /\ \A n \in 1 .. Len(file) : Before(l, m) /\ Before(m, n) => Before(l, n)
<1> DEFINE F(x) == Frame(file, x)
<1>1. \A x \in 1 .. Len(file) : F(x) \in Nat
  BY FrameType
<1>2. \A x, y : Before(x, y) <=> F(x) < F(y) \/ (F(x) = F(y) /\ x < y)
  BY DEF Before
<1> HIDE DEF F
<1> QED
  BY <1>1, <1>2

\* One more element behind position k of a sequence.
Inserted(s, k, x) == SubSeq(s, 1, k) \o <<x>> \o SubSeq(s, k + 1, Len(s))

\* The same said of functions: t is s, of N elements, with x behind position k.
Placed(N, k, x, s, t) ==
    /\ \A i \in 1 .. k : t[i] = s[i]
    /\ t[k + 1] = x
    /\ \A i \in k + 2 .. N + 1 : t[i] = s[i - 1]

LEMMA Insertion ==
    ASSUME NEW S, NEW s \in Seq(S), NEW x \in S, NEW k \in 0 .. Len(s)
    PROVE  /\ Inserted(s, k, x) \in Seq(S) /\ Len(Inserted(s, k, x)) = Len(s) + 1
           /\ Placed(Len(s), k, x, s, Inserted(s, k, x))
<1> DEFINE a == SubSeq(s, 1, k)
           b == SubSeq(s, k + 1, Len(s))
           c == a \o <<x>>
           t == c \o b
<1>1. /\ k \in Int /\ Len(s) \in Nat /\ k <= Len(s)
      /\ \A i \in 1 .. Len(s) : s[i] \in S
  OBVIOUS
<1>2. a \in Seq(S) /\ Len(a) = k /\ \A i \in 1 .. k : a[i] = s[i]
  <2>1. \A i \in 1 .. k : s[i] \in S
    BY <1>1
  <2>2. a \in Seq(S) /\ Len(a) = (IF 1 <= k THEN k - 1 + 1 ELSE 0)
    BY <1>1, <2>1, SubSeqProperties
  <2>3. \A i \in 1 .. k - 1 + 1 : a[i] = s[1 + i - 1]
    BY <1>1, <2>1, SubSeqProperties
  <2> HIDE DEF a
  <2> QED
    BY <1>1, <2>2, <2>3
<1>3. b \in Seq(S) /\ Len(b) = Len(s) - k /\ \A i \in 1 .. Len(s) - k : b[i] = s[k + i]
  <2>1. k + 1 \in Int /\ \A i \in k + 1 .. Len(s) : s[i] \in S
    BY <1>1
  <2>2. b \in Seq(S) /\ Len(b) = (IF k + 1 <= Len(s) THEN Len(s) - (k + 1) + 1 ELSE 0)
    BY <1>1, <2>1, SubSeqProperties
  <2>3. \A i \in 1 .. Len(s) - (k + 1) + 1 : b[i] = s[k + 1 + i - 1]
    BY <1>1, <2>1, SubSeqProperties
  <2> HIDE DEF b
  <2> QED
    BY <1>1, <2>2, <2>3
<1>4. <<x>> \in Seq(S) /\ Len(<<x>>) = 1 /\ <<x>>[1] = x
  OBVIOUS
<1> HIDE DEF a, b
<1>5. /\ c \in Seq(S) /\ Len(c) = k + 1
      /\ \A i \in 1 .. k + 1 : c[i] = IF i <= k THEN s[i] ELSE x
  <2>1. /\ c \in Seq(S) /\ Len(c) = Len(a) + Len(<<x>>)
        /\ \A i \in 1 .. Len(a) + Len(<<x>>) :
              c[i] = IF i <= Len(a) THEN a[i] ELSE <<x>>[i - Len(a)]
    BY <1>2, <1>4, ConcatProperties
  <2> HIDE DEF c
  <2> QED
    BY <1>1, <1>2, <1>4, <2>1
<1> HIDE DEF c
<1>6. /\ t \in Seq(S) /\ Len(t) = Len(c) + Len(b)
      /\ \A i \in 1 .. Len(c) + Len(b) : t[i] = IF i <= Len(c) THEN c[i] ELSE b[i - Len(c)]
  BY <1>3, <1>5, ConcatProperties
<1> HIDE DEF t
<1> QED
  <2>1. t \in Seq(S) /\ Len(t) = Len(s) + 1 /\ Len(c) + Len(b) = Len(s) + 1
    BY <1>1, <1>3, <1>5, <1>6
  <2>2. \A i \in 1 .. Len(s) + 1 : t[i] = IF i <= k + 1 THEN c[i] ELSE b[i - (k + 1)]
    BY <1>5, <1>6, <2>1
  <2>3. \A i \in k + 2 .. Len(s) + 1 : t[i] = s[i - 1]
    <3> SUFFICES ASSUME NEW i \in k + 2 .. Len(s) + 1 PROVE t[i] = s[i - 1]
      OBVIOUS
    <3>1. /\ i - (k + 1) \in 1 .. Len(s) - k /\ k + (i - (k + 1)) = i - 1
          /\ i \in 1 .. Len(s) + 1 /\ ~(i <= k + 1)
      BY <1>1
    <3> QED
      BY <1>3, <2>2, <3>1
  <2>4. (\A i \in 1 .. k : t[i] = s[i]) /\ t[k + 1] = x
    BY <1>1, <1>5, <2>2
  <2>5. t = Inserted(s, k, x)
    BY Zenon DEF t, c, a, b, Inserted
  <2>6. Placed(Len(s), k, x, s, t)
    BY <2>3, <2>4, Zenon DEF Placed
  <2> QED
    BY <2>1, <2>5, <2>6, Zenon

(***************************************************************************)
(* The record looked at next.                                              *)
(***************************************************************************)
AllGood == \A l \in 1 .. Len(file) : ~Invalid(file[l])

\* It comes behind exactly those already seen, and its owner is the last
\* command among them.
LEMMA NextRecord ==
    ASSUME Read, AllGood, next \in 1 .. Len(records)
    PROVE  /\ Seen \subseteq Used /\ Record \in Used \ Seen
           /\ \A m \in Used : Before(m, Record) <=> m \in Seen
           /\ Owner(Record) = Last(Seen)
           /\ {records[i] : i \in 1 .. next} = Seen \cup {Record}
<1>1. Used = {records[i] : i \in 1 .. Len(records)}
  <2>1. DOMAIN file = 1 .. Len(file) /\ \A i \in 1 .. Len(records) : records[i] \in 1 .. Len(file)
    BY DEF Read
  <2>2. \A l \in 1 .. Len(file) : HasPayload(file[l]) <=> \E i \in 1 .. Len(records) : records[i] = l
    BY DEF Read, AllGood, Good
  <2> QED
    BY <2>1, <2>2 DEF Used
<1>2. \A i \in 1 .. Len(records) : records[i] \in 1 .. Len(file)
  BY DEF Read
<1>3. \A i \in 1 .. Len(records) : Before(records[i], Record) <=> i < next
  <2>1. file \in Seq(Lines) /\ \A i, j \in 1 .. Len(records) : i < j => Before(records[i], records[j])
    BY DEF Read
  <2> TAKE i \in 1 .. Len(records)
  <2>2. ~(Before(records[i], Record) /\ Before(Record, records[i]))
    BY <1>2, <2>1, BeforeOrders DEF Record
  <2>3. CASE i < next
    BY <2>1, <2>3 DEF Record
  <2>4. CASE i > next
    BY <2>1, <2>2, <2>4 DEF Record
  <2>5. CASE i = next
    BY <2>2, <2>5 DEF Record
  <2> QED
    BY <2>3, <2>4, <2>5
<1>4. Seen \subseteq Used /\ Record \in Used
  BY <1>1 DEF Seen, Record
<1>5. \A m \in Used : Before(m, Record) <=> m \in Seen
  BY <1>1, <1>3 DEF Seen
<1>6. Record \notin Seen
  BY <1>3, <1>5, <1>4 DEF Record
<1>7. Owner(Record) = Last(Seen)
  BY <1>4, <1>5 DEF Owner, Last, Commands
<1>8. {records[i] : i \in 1 .. next} = Seen \cup {Record}
  BY DEF Seen, Record
<1> QED
  BY <1>4, <1>5, <1>6, <1>7, <1>8

\* The definitions depend on the file and the set of records only.
LEMMA Stable ==
    ASSUME file' = file, NEW S, Seen' = S
    PROVE  PendingOf(Seen)' = PendingOf(S) /\ FinishedOf(Seen)' = FinishedOf(S)
<1>1. \A l : Endpoint(l)' = Endpoint(l)
  BY DEF Endpoint
<1>2. \A l, m : Before(l, m)' = Before(l, m)
  BY DEF Before, Frame
<1>3. Used' = Used
  BY DEF Used
<1>4. \A l : Owner(l)' = Owner(l)
  BY <1>1, <1>2, <1>3 DEF Owner
<1>5. \A c : Owned(c)' = Owned(c)
  BY <1>1, <1>3, <1>4 DEF Owned
<1>6. Commands(Seen)' = Commands(S)
  BY <1>1 DEF Commands
<1>7. Last(Seen)' = Last(S)
  BY <1>2, <1>6 DEF Last
<1>8. Interrupts(Seen)' = Interrupts(S) /\ Controls(Seen)' = Controls(S)
  BY <1>1, <1>4 DEF Interrupts, Controls
<1>9. \A c : CommandOf(c, Seen)' = CommandOf(c, S)
  BY <1>5 DEF CommandOf
<1>10. PendingOf(Seen)' = PendingOf(S)
  BY <1>7, <1>9 DEF PendingOf
<1> QED
  BY <1>6, <1>7, <1>8, <1>9, <1>10 DEF FinishedOf, Transaction

(***************************************************************************)
(* One more record.                                                        *)
(***************************************************************************)
\* A record that is no command leaves the commands as they are, and belongs to
\* those that own it.
LEMMA NoCommand ==
    ASSUME NEW S \in SUBSET Used, NEW l \in Used \ S, Endpoint(l) # CommandOut
    PROVE  LET T == S \cup {l}
           IN  /\ Commands(T) = Commands(S) /\ Last(T) = Last(S)
               /\ \A c : l \in Owned(c) =>
                     CommandOf(c, T) = [CommandOf(c, S) EXCEPT !.responses = @ \cup {l}]
               /\ \A c : l \notin Owned(c) => CommandOf(c, T) = CommandOf(c, S)
<1> DEFINE T == S \cup {l}
<1>1. Commands(T) = Commands(S)
  BY DEF Commands
<1>2. Last(T) = Last(S)
  BY <1>1 DEF Last
<1>3. ASSUME NEW c, l \in Owned(c)
      PROVE  CommandOf(c, T) = [CommandOf(c, S) EXCEPT !.responses = @ \cup {l}]
  <2>1. {m \in T : m \in Owned(c)} = {m \in S : m \in Owned(c)} \cup {l}
    BY <1>3
  <2> DEFINE R == {m \in S : m \in Owned(c)}
  <2>2. CommandOf(c, S) = [kind |-> "command", at |-> c, responses |-> R]
    BY DEF CommandOf
  <2>3. CommandOf(c, T) = [kind |-> "command", at |-> c, responses |-> R \cup {l}]
    BY <2>1 DEF CommandOf
  <2> HIDE DEF R
  <2> QED
    BY <2>2, <2>3
<1>4. ASSUME NEW c, l \notin Owned(c) PROVE CommandOf(c, T) = CommandOf(c, S)
  <2>1. {m \in T : m \in Owned(c)} = {m \in S : m \in Owned(c)}
    BY <1>4
  <2> QED
    BY <2>1 DEF CommandOf
<1> QED
  BY <1>1, <1>2, <1>3, <1>4

\* There is one last command at most.
LEMMA LastIsUnique ==
    ASSUME file \in Seq(Lines), NEW S \in SUBSET (1 .. Len(file)),
           NEW c \in Last(S), NEW d \in Last(S)
    PROVE  c = d
BY BeforeOrders DEF Last, Commands

\* A step to the next record keeps the invariant if it leaves the transactions
\* of all records seen by then.
LEMMA Carry ==
    ASSUME IInv, Looking, UNCHANGED <<file, records, phase>>, next' = next + 1,
           pending' = PendingOf(Seen \cup {Record}), result' = FinishedOf(Seen \cup {Record})
    PROVE  IInv'
<1>1. Read /\ AllGood /\ phase = "pairing" /\ next \in 1 .. Len(records) /\ Len(records) \in Nat
  BY DEF IInv, Progress, AllGood, Looking, Read
<1>2. {records[i] : i \in 1 .. next} = Seen \cup {Record}
  BY <1>1, NextRecord
<1>3. next' - 1 = next
  BY <1>1
<1>4. Seen' = Seen \cup {Record}
  BY <1>2, <1>3 DEF Seen
<1>5. pending' = PendingOf(Seen)' /\ result' = FinishedOf(Seen)'
  BY <1>4, Stable
<1>6. Read'
  BY <1>1 DEF Read, Good, Before, Frame
<1>7. AllGood'
  BY <1>1 DEF AllGood
<1>8. phase' = "pairing" /\ next' \in 1 .. Len(records') + 1
  BY <1>1
<1>9. Progress'
  BY <1>5, <1>7, <1>8 DEF Progress, AllGood
<1> QED
  BY <1>6, <1>8, <1>9 DEF IInv, PairingIsTrue

LEMMA CommandStep ==
    ASSUME IInv, Command PROVE IInv'
<1> DEFINE l == Record
           T == Seen \cup {l}
<1>1. Read /\ AllGood /\ phase = "pairing" /\ next \in 1 .. Len(records)
  BY DEF IInv, Progress, AllGood, Command, Looking, Read
<1>2. /\ Seen \subseteq Used /\ l \in Used /\ l \notin Seen
      /\ \A m \in Used : Before(m, l) <=> m \in Seen
  BY <1>1, NextRecord
<1>3. Commands(T) = Commands(Seen) \cup {l}
  BY DEF Commands, Command
<1>4. file \in Seq(Lines) /\ Used \subseteq 1 .. Len(file)
  BY <1>1 DEF Read, Used
<1>5. Last(T) = {l}
  <2>1. \A c \in Commands(Seen) : Before(c, l) /\ ~Before(l, c)
    BY <1>2, <1>4, BeforeOrders DEF Commands
  <2>2. ~Before(l, l)
    BY <1>2
  <2> QED
    BY <1>3, <2>1, <2>2 DEF Last
<1>6. \A c : l \notin Owned(c)
  BY DEF Owned, Command, CommandOut, ResponseIn
<1>7. \A c : CommandOf(c, T) = CommandOf(c, Seen)
  BY <1>6 DEF CommandOf
<1>8. CommandOf(l, T) = Transaction("command", l)
  <2>1. \A m \in Seen : m \notin Owned(l)
    BY <1>2, <1>4, BeforeOrders DEF Owned, Owner
  <2> QED
    BY <1>6, <2>1 DEF CommandOf, Transaction
<1>9. PendingOf(T) = pending'
  BY <1>5, <1>8 DEF PendingOf, Command
<1>10. Interrupts(T) = Interrupts(Seen) /\ Controls(T) = Controls(Seen)
  BY DEF Interrupts, Controls, Command, CommandOut, InterruptIn
<1>11. FinishedOf(T) = FinishedOf(Seen) \cup PendingOf(Seen)
  <2>1. Commands(T) \ Last(T) = (Commands(Seen) \ Last(Seen)) \cup Last(Seen)
    BY <1>2, <1>3, <1>5 DEF Last, Commands
  <2> QED
    BY <1>7, <1>10, <2>1 DEF FinishedOf, PendingOf
<1>12. result' = FinishedOf(T)
  BY <1>1, <1>11 DEF IInv, Progress, Command
<1> QED
  BY <1>9, <1>12, Carry DEF Command

LEMMA ResponseStep ==
    ASSUME IInv, Response PROVE IInv'
<1> DEFINE l == Record
           T == Seen \cup {l}
<1>1. Read /\ AllGood /\ phase = "pairing" /\ next \in 1 .. Len(records)
  BY DEF IInv, Progress, AllGood, Response, Looking, Read
<1>2. Seen \subseteq Used /\ l \in Used /\ l \notin Seen /\ Owner(l) = Last(Seen)
  BY <1>1, NextRecord
<1>3. Endpoint(l) = ResponseIn /\ pending = PendingOf(Seen) /\ result = FinishedOf(Seen)
  BY <1>1 DEF IInv, Progress, Response, IsResponse
<1>4. PICK c \in Last(Seen) : TRUE
  BY <1>3 DEF Response, IsResponse, PendingOf
<1>5. Last(Seen) = {c}
  <2>1. file \in Seq(Lines) /\ Seen \subseteq 1 .. Len(file)
    BY <1>1, <1>2 DEF Read, Used
  <2> QED
    BY <1>4, <2>1, LastIsUnique
<1>6. \A d : l \in Owned(d) <=> d = c
  BY <1>2, <1>3, <1>5 DEF Owned
<1>7. Endpoint(l) # CommandOut /\ Endpoint(l) # InterruptIn
  BY <1>3 DEF CommandOut, ResponseIn, InterruptIn
<1>8. /\ Commands(T) = Commands(Seen) /\ Last(T) = Last(Seen)
      /\ CommandOf(c, T) = [CommandOf(c, Seen) EXCEPT !.responses = @ \cup {l}]
      /\ \A d : d # c => CommandOf(d, T) = CommandOf(d, Seen)
  BY <1>2, <1>6, <1>7, NoCommand
<1>9. pending' = PendingOf(T)
  <2>1. PendingOf(Seen) = {CommandOf(c, Seen)} /\ PendingOf(T) = {CommandOf(c, T)}
    BY <1>5, <1>8 DEF PendingOf
  <2> QED
    BY <1>3, <1>8, <2>1 DEF Response
<1>10. Interrupts(T) = Interrupts(Seen) /\ Controls(T) = Controls(Seen)
  BY <1>2, <1>3, <1>5, <1>7 DEF Interrupts, Controls
<1>11. result' = FinishedOf(T)
  BY <1>3, <1>5, <1>8, <1>10 DEF FinishedOf, Response
<1> QED
  BY <1>9, <1>11, Carry DEF Response

LEMMA OtherStep ==
    ASSUME IInv, Other PROVE IInv'
<1> DEFINE l == Record
           T == Seen \cup {l}
<1>1. Read /\ AllGood /\ phase = "pairing" /\ next \in 1 .. Len(records)
  BY DEF IInv, Progress, AllGood, Other, Looking, Read
<1>2. Seen \subseteq Used /\ l \in Used /\ l \notin Seen /\ Owner(l) = Last(Seen)
  BY <1>1, NextRecord
<1>3. pending = PendingOf(Seen) /\ result = FinishedOf(Seen) /\ Endpoint(l) # CommandOut
  BY <1>1 DEF IInv, Progress, Other
<1>4. Endpoint(l) = ResponseIn => Owner(l) = {}
  BY <1>2, <1>3 DEF Other, IsResponse, PendingOf
<1>5. \A c : l \notin Owned(c)
  BY <1>4 DEF Owned
<1>6. /\ Commands(T) = Commands(Seen) /\ Last(T) = Last(Seen)
      /\ \A c : CommandOf(c, T) = CommandOf(c, Seen)
  BY <1>2, <1>3, <1>5, NoCommand
<1>7. pending' = PendingOf(T)
  BY <1>3, <1>6 DEF PendingOf, Other
<1>8. result' = FinishedOf(T)
  <2>1. CASE Endpoint(l) = InterruptIn
    <3>1. Interrupts(T) = Interrupts(Seen) \cup {l} /\ Controls(T) = Controls(Seen)
      BY <2>1 DEF Interrupts, Controls
    <3>2. result' = result \cup {Transaction("interrupt", l)}
      BY <2>1 DEF Other
    <3> QED
      BY <1>3, <1>6, <3>1, <3>2 DEF FinishedOf
  <2>2. CASE Endpoint(l) # InterruptIn /\ file[l].control
    <3>1. Interrupts(T) = Interrupts(Seen) /\ Controls(T) = Controls(Seen) \cup {l}
      BY <1>3, <1>4, <2>2 DEF Interrupts, Controls
    <3>2. result' = result \cup {Transaction("control", l)}
      BY <2>2 DEF Other
    <3> QED
      BY <1>3, <1>6, <3>1, <3>2 DEF FinishedOf
  <2>3. CASE Endpoint(l) # InterruptIn /\ ~file[l].control
    <3>1. Interrupts(T) = Interrupts(Seen) /\ Controls(T) = Controls(Seen)
      BY <2>3 DEF Interrupts, Controls
    <3>2. result' = result
      BY <2>3 DEF Other
    <3> QED
      BY <1>3, <1>6, <3>1, <3>2 DEF FinishedOf
  <2> QED
    BY <2>1, <2>2, <2>3
<1> QED
  BY <1>7, <1>8, Carry DEF Other

LEMMA EndOfRecordsStep ==
    ASSUME IInv, EndOfRecords PROVE IInv'
<1>1. /\ Read /\ AllGood /\ next = Len(records) + 1 /\ Len(records) \in Nat
      /\ pending = PendingOf(Seen) /\ result = FinishedOf(Seen)
  BY DEF IInv, Progress, AllGood, EndOfRecords, Read
<1>2. Seen = Used
  <2>1. DOMAIN file = 1 .. Len(file) /\ \A i \in 1 .. Len(records) : records[i] \in 1 .. Len(file)
    BY <1>1 DEF Read
  <2>2. \A l \in 1 .. Len(file) : HasPayload(file[l]) <=> \E i \in 1 .. Len(records) : records[i] = l
    BY <1>1 DEF Read, AllGood, Good
  <2>3. next - 1 = Len(records)
    BY <1>1
  <2> QED
    BY <2>1, <2>2, <2>3 DEF Used, Seen
<1>3. \A c : {l \in Used : l \in Owned(c)} = Owned(c)
  BY DEF Owned
<1>4. \A c : CommandOf(c, Used) = [kind |-> "command", at |-> c, responses |-> Owned(c)]
  BY <1>3 DEF CommandOf
<1>5. FinishedOf(Used) \cup PendingOf(Used) = Paired
  <2>1. (Commands(Used) \ Last(Used)) \cup Last(Used) = Commands(Used)
    BY DEF Last
  <2>2. {CommandOf(c, Used) : c \in Commands(Used) \ Last(Used)} \cup PendingOf(Used)
          = {CommandOf(c, Used) : c \in Commands(Used)}
    BY <2>1 DEF PendingOf
  <2> QED
    BY <1>4, <2>2 DEF FinishedOf, Paired, Commands, Interrupts, Controls
<1>6. result' = Paired
  BY <1>1, <1>2, <1>5 DEF EndOfRecords
<1>7. Paired' = Paired
  <2>1. \A l : Endpoint(l)' = Endpoint(l)
    BY DEF Endpoint, EndOfRecords
  <2>2. \A l, m : Before(l, m)' = Before(l, m)
    BY DEF Before, Frame, EndOfRecords
  <2>3. Used' = Used /\ file' = file
    BY DEF Used, EndOfRecords
  <2>4. \A l : Owner(l)' = Owner(l)
    BY <2>1, <2>2, <2>3 DEF Owner
  <2>5. \A c : Owned(c)' = Owned(c)
    BY <2>1, <2>3, <2>4 DEF Owned
  <2> QED
    BY <2>1, <2>3, <2>4, <2>5 DEF Paired, Transaction
<1>8. Read'
  BY <1>1 DEF Read, Good, Before, Frame, EndOfRecords
<1>9. Progress'
  BY <1>1 DEF Progress, AllGood, EndOfRecords
<1> QED
  BY <1>6, <1>7, <1>8, <1>9 DEF IInv, PairingIsTrue

(***************************************************************************)
(* Reading.                                                                *)
(***************************************************************************)
LEMMA EndOfFileStep ==
    ASSUME IInv, EndOfFile PROVE IInv'
<1>1. Read /\ phase = "reading" /\ next = 1 /\ pending = {} /\ result = {}
  BY DEF IInv, Progress, EndOfFile
<1>2. Read'
  BY <1>1 DEF Read, Good, Before, Frame, EndOfFile
<1>3. Seen' = {}
  BY <1>1 DEF Seen, EndOfFile
<1>4. PendingOf({}) = {} /\ FinishedOf({}) = {}
  BY DEF PendingOf, FinishedOf, Commands, Last, Interrupts, Controls
<1>5. PendingOf(Seen)' = {} /\ FinishedOf(Seen)' = {}
  BY <1>3, <1>4, Stable DEF EndOfFile
<1>6. next' \in 1 .. Len(records') + 1
  BY <1>1 DEF Read, EndOfFile
<1>7. phase' = "pairing" => \A l \in 1 .. Len(file) : ~Invalid(file[l])
  BY <1>1 DEF Read, EndOfFile
<1>8. Progress'
  BY <1>1, <1>5, <1>6, <1>7 DEF Progress, EndOfFile
<1> QED
  BY <1>1, <1>2, <1>8 DEF IInv, PairingIsTrue, EndOfFile

Ordered(N, s, R) == \A i, j \in 1 .. N : i < j => <<s[i], s[j]>> \in R

Fits(N, k, n, s, R) ==
    \A i \in 1 .. N : IF i <= k THEN <<s[i], n>> \in R ELSE <<n, s[i]>> \in R

Holds(N, s, x) == \E i \in 1 .. N : s[i] = x

\* With n placed where R has it, an ordered sequence stays ordered and holds
\* n besides what it held.
LEMMA Placement ==
    ASSUME NEW N \in Nat, NEW k \in 0 .. N, NEW n, NEW s, NEW t, NEW R,
           Placed(N, k, n, s, t), Ordered(N, s, R), Fits(N, k, n, s, R)
    PROVE  /\ Ordered(N + 1, t, R)
           /\ \A x : Holds(N + 1, t, x) <=> x = n \/ Holds(N, s, x)
<1>5. /\ \A i \in 1 .. k : t[i] = s[i]
      /\ t[k + 1] = n
      /\ \A i \in k + 2 .. N + 1 : t[i] = s[i - 1]
      /\ \A i, j \in 1 .. N : i < j => <<s[i], s[j]>> \in R
      /\ \A i \in 1 .. N : IF i <= k THEN <<s[i], n>> \in R ELSE <<n, s[i]>> \in R
  BY DEF Placed, Ordered, Fits
<1>1. ASSUME NEW i \in 1 .. N + 1, NEW j \in 1 .. N + 1, i < j
      PROVE  <<t[i], t[j]>> \in R
  <2>1. CASE j <= k
    <3>1. i \in 1 .. N /\ j \in 1 .. N /\ i \in 1 .. k /\ j \in 1 .. k
      BY <1>1, <2>1
    <3> QED
      BY <1>1, <1>5, <3>1
  <2>2. CASE j = k + 1
    <3>1. i \in 1 .. N /\ i \in 1 .. k /\ i <= k
      BY <1>1, <2>2
    <3> QED
      BY <1>5, <2>2, <3>1
  <2>3. CASE i <= k /\ j >= k + 2
    <3>1. /\ i \in 1 .. N /\ j - 1 \in 1 .. N /\ i < j - 1
          /\ i \in 1 .. k /\ j \in k + 2 .. N + 1
      BY <2>3
    <3> QED
      BY <1>5, <3>1
  <2>4. CASE i = k + 1
    <3>1. j - 1 \in 1 .. N /\ ~(j - 1 <= k) /\ j \in k + 2 .. N + 1
      BY <1>1, <2>4
    <3> QED
      BY <1>5, <2>4, <3>1
  <2>5. CASE i >= k + 2
    <3>1. /\ i - 1 \in 1 .. N /\ j - 1 \in 1 .. N /\ i - 1 < j - 1
          /\ i \in k + 2 .. N + 1 /\ j \in k + 2 .. N + 1
      BY <1>1, <2>5
    <3> QED
      BY <1>5, <3>1
  <2>6. i <= k \/ i = k + 1 \/ i >= k + 2
    OBVIOUS
  <2>7. j <= k \/ j = k + 1 \/ j >= k + 2
    OBVIOUS
  <2> QED
    BY <1>1, <2>1, <2>2, <2>3, <2>4, <2>5, <2>6, <2>7
<1>2. ASSUME NEW i \in 1 .. N
      PROVE  \E j \in 1 .. N + 1 : t[j] = s[i]
  <2>1. CASE i <= k
    <3>1. i \in 1 .. k /\ i \in 1 .. N + 1
      BY <2>1
    <3> QED
      BY <1>5, <3>1
  <2>2. CASE i > k
    <3>1. i + 1 \in k + 2 .. N + 1 /\ i + 1 \in 1 .. N + 1 /\ i + 1 - 1 = i
      BY <2>2
    <3> QED
      BY <1>5, <3>1
  <2> QED
    BY <2>1, <2>2
<1>3. ASSUME NEW j \in 1 .. N + 1, t[j] # n
      PROVE  \E i \in 1 .. N : s[i] = t[j]
  <2>1. CASE j <= k
    <3>1. j \in 1 .. k /\ j \in 1 .. N
      BY <2>1
    <3> QED
      BY <1>5, <3>1
  <2>2. CASE j >= k + 2
    <3>1. j - 1 \in 1 .. N /\ j \in k + 2 .. N + 1
      BY <2>2
    <3> QED
      BY <1>5, <3>1
  <2>3. j <= k \/ j = k + 1 \/ j >= k + 2
    OBVIOUS
  <2> QED
    BY <1>3, <1>5, <2>1, <2>2, <2>3
<1>4. k + 1 \in 1 .. N + 1
  OBVIOUS
<1>6. Ordered(N + 1, t, R)
  BY <1>1 DEF Ordered
<1>7. ASSUME NEW x PROVE Holds(N + 1, t, x) <=> x = n \/ Holds(N, s, x)
  BY <1>2, <1>3, <1>4, <1>5 DEF Holds
<1> QED
  BY <1>6, <1>7

\* Before, said of any file.
Order(f, l, m) == Frame(f, l) < Frame(f, m) \/ (Frame(f, l) = Frame(f, m) /\ l < m)

\* The records s of the file f with the last line n of the longer file g put
\* where sorting puts it.
InOrder(f, s) == \A i, j \in 1 .. Len(s) : i < j => Order(f, s[i], s[j])

Longer(f, g, n) == n = Len(g) /\ n = Len(f) + 1 /\ \A l \in 1 .. Len(f) : g[l] = f[l]

Sorts(g, s, k, n) == \A i \in 1 .. Len(s) : i <= k <=> Frame(g, s[i]) <= Frame(g, n)

LEMMA SortedInsertion ==
    ASSUME NEW f \in Seq(Lines), NEW g \in Seq(Lines), NEW n, Longer(f, g, n),
           NEW s \in Seq(1 .. Len(f)), InOrder(f, s),
           NEW k \in 0 .. Len(s), Sorts(g, s, k, n)
    PROVE  LET t == Inserted(s, k, n)
           IN  /\ t \in Seq(1 .. n) /\ InOrder(g, t)
               /\ \A l : Holds(Len(t), t, l) <=> l = n \/ Holds(Len(s), s, l)
<1> DEFINE S == 1 .. n
           t == Inserted(s, k, n)
           F(x) == Frame(g, x)
           R == {p \in (1 .. n) \X (1 .. n) : Order(g, p[1], p[2])}
<1>1. /\ n \in Nat /\ n = Len(g) /\ Len(s) \in Nat /\ n \in 1 .. n
      /\ \A i \in 1 .. Len(s) : s[i] \in 1 .. Len(f) /\ s[i] \in 1 .. n /\ s[i] < n
  BY DEF Longer
<1>2. s \in Seq(S) /\ n \in S
  BY <1>1 DEF Longer
<1>3. t \in Seq(S) /\ Len(t) = Len(s) + 1 /\ Placed(Len(s), k, n, s, t)
  <2> HIDE DEF S
  <2> QED
    BY <1>2, Insertion
<1> HIDE DEF t
<1>4. \A x \in 1 .. n : F(x) \in Nat
  BY <1>1, FrameType
<1>5. \A i, j \in 1 .. Len(s) : i < j => Order(g, s[i], s[j])
  <2>1. \A x, y \in 1 .. Len(f) : Order(f, x, y) => Order(g, x, y)
    BY DEF Order, Frame, Longer
  <2> QED
    BY <1>1, <2>1 DEF InOrder
<1>6. \A i \in 1 .. Len(s) : IF i <= k THEN Order(g, s[i], n) ELSE Order(g, n, s[i])
  <2> SUFFICES ASSUME NEW i \in 1 .. Len(s)
               PROVE  IF i <= k THEN Order(g, s[i], n) ELSE Order(g, n, s[i])
    OBVIOUS
  <2>1. /\ F(s[i]) \in Nat /\ F(n) \in Nat /\ s[i] < n
        /\ i <= k <=> F(s[i]) <= F(n)
    BY <1>1, <1>4 DEF Sorts
  <2>2. Order(g, s[i], n) <=> F(s[i]) < F(n) \/ (F(s[i]) = F(n) /\ s[i] < n)
    BY DEF Order
  <2>3. Order(g, n, s[i]) <=> F(n) < F(s[i]) \/ (F(n) = F(s[i]) /\ n < s[i])
    BY DEF Order
  <2> HIDE DEF F
  <2> QED
    BY <2>1, <2>2, <2>3
<1>7. \A x, y \in 1 .. n : <<x, y>> \in R <=> Order(g, x, y)
  OBVIOUS
<1> HIDE DEF F, R
<1>8. Ordered(Len(s), s, R) /\ Fits(Len(s), k, n, s, R)
  BY <1>1, <1>5, <1>6, <1>7 DEF Ordered, Fits
<1>9. /\ Ordered(Len(s) + 1, t, R)
      /\ \A x : Holds(Len(s) + 1, t, x) <=> x = n \/ Holds(Len(s), s, x)
  BY <1>1, <1>3, <1>8, Placement
<1>10. \A i \in 1 .. Len(t) : t[i] \in 1 .. n
  <2>1. \A i \in 1 .. Len(t) : t[i] \in S
    <3> HIDE DEF S
    <3> QED
      BY <1>3
  <2> QED
    BY <2>1
<1>11. ASSUME NEW i \in 1 .. Len(t), NEW j \in 1 .. Len(t), i < j
       PROVE  Order(g, t[i], t[j])
  <2>1. <<t[i], t[j]>> \in R
    BY <1>3, <1>9, <1>11 DEF Ordered
  <2> QED
    BY <1>7, <1>10, <2>1
<1> QED
  <2>1. Len(t) = Len(s) + 1
    BY <1>3
  <2>2. \A l : Holds(Len(t), t, l) <=> l = n \/ Holds(Len(s), s, l)
    BY <1>9, <2>1, Zenon
  <2>3. InOrder(g, t)
    BY <1>11 DEF InOrder
  <2> QED
    BY <1>3, <2>2, <2>3, Zenon DEF t

LEMMA ReadLineStep ==
    ASSUME IInv, NEW line \in Lines, ReadLine(line) PROVE IInv'
<1> DEFINE n == Len(file) + 1
<1>1. Read /\ phase = "reading" /\ next = 1 /\ pending = {} /\ result = {}
  BY DEF IInv, Progress, ReadLine
<1>2. /\ file \in Seq(Lines) /\ Len(file) \in Nat /\ records \in Seq(1 .. Len(file))
      /\ Len(records) \in Nat /\ \A i \in 1 .. Len(records) : records[i] \in 1 .. Len(file)
      /\ \A i, j \in 1 .. Len(records) : i < j => Order(file, records[i], records[j])
      /\ \A l \in 1 .. Len(file) :
            HasPayload(file[l]) /\ ~Invalid(file[l]) <=> \E i \in 1 .. Len(records) : records[i] = l
  BY <1>1 DEF Read, Before, Order, Good
<1>3. /\ file' \in Seq(Lines) /\ Len(file') = n /\ file'[n] = line
      /\ \A l \in 1 .. Len(file) : file'[l] = file[l]
  BY <1>2 DEF ReadLine
<1>4. Progress'
  BY <1>1 DEF Progress, ReadLine
<1>5. /\ records' \in Seq(1 .. Len(file'))
      /\ \A i, j \in 1 .. Len(records') : i < j => Order(file', records'[i], records'[j])
      /\ \A l \in 1 .. Len(file') :
            HasPayload(file'[l]) /\ ~Invalid(file'[l])
               <=> \E i \in 1 .. Len(records') : records'[i] = l
  <2>1. CASE ~(HasPayload(line) /\ ~Invalid(line))
    <3>1. records' = records
      BY <2>1 DEF ReadLine
    <3>2. records \in Seq(1 .. Len(file'))
      BY <1>2, <1>3
    <3>3. \A i, j \in 1 .. Len(records) : i < j => Order(file', records[i], records[j])
      BY <1>2, <1>3 DEF Order, Frame
    <3>4. ASSUME NEW l \in 1 .. n
          PROVE  HasPayload(file'[l]) /\ ~Invalid(file'[l])
                    <=> \E i \in 1 .. Len(records) : records[i] = l
      <4>1. CASE l = n
        BY <1>2, <1>3, <2>1, <4>1
      <4>2. CASE l # n
        <5>1. l \in 1 .. Len(file)
          BY <1>2, <4>2
        <5> QED
          BY <1>2, <1>3, <5>1
      <4> QED
        BY <4>1, <4>2
    <3> QED
      BY <1>3, <3>1, <3>2, <3>3, <3>4
  <2>2. CASE HasPayload(line) /\ ~Invalid(line)
    <3>1. PICK k \in 0 .. Len(records) :
             Sorts(file', records, k, n) /\ records' = Inserted(records, k, n)
      <4>1. DOMAIN records = 1 .. Len(records)
        BY <1>2
      <4> QED
        BY <1>3, <2>2, <4>1 DEF ReadLine, Behind, Inserted, Sorts
    <3>2. /\ records' \in Seq(1 .. Len(file'))
          /\ InOrder(file', records')
          /\ \A l : Holds(Len(records'), records', l) <=> l = n \/ Holds(Len(records), records, l)
      <4>1. Longer(file, file', n) /\ InOrder(file, records)
        BY <1>2, <1>3 DEF Longer, InOrder
      <4> HIDE DEF n
      <4> QED
        BY <1>2, <1>3, <3>1, <4>1, SortedInsertion
    <3>3. ASSUME NEW l \in 1 .. n
          PROVE  HasPayload(file'[l]) /\ ~Invalid(file'[l])
                    <=> l = n \/ \E i \in 1 .. Len(records) : records[i] = l
      <4>1. CASE l = n
        BY <1>3, <2>2, <4>1
      <4>2. CASE l # n
        <5>1. l \in 1 .. Len(file)
          BY <1>2, <4>2
        <5> QED
          BY <1>2, <1>3, <4>2, <5>1
      <4> QED
        BY <4>1, <4>2
    <3> QED
      BY <1>3, <3>2, <3>3 DEF Holds, InOrder
  <2> QED
    BY <2>1, <2>2
<1>6. Read'
  BY <1>3, <1>5 DEF Read, Before, Order, Good
<1> QED
  BY <1>1, <1>4, <1>6 DEF IInv, PairingIsTrue, ReadLine

LEMMA Stuttering ==
    ASSUME IInv, UNCHANGED decoderVars PROVE IInv'
<1>1. /\ file' = file /\ records' = records /\ phase' = phase /\ next' = next
      /\ pending' = pending /\ result' = result
  BY DEF decoderVars
<1>2. Read'
  <2>1. \A l : Good(l)' <=> Good(l)
    BY <1>1 DEF Good
  <2>2. \A l, m : Before(l, m)' <=> Before(l, m)
    BY <1>1 DEF Before, Frame
  <2> QED
    BY <1>1, <2>1, <2>2 DEF IInv, Read
<1>3. Seen' = Seen
  BY <1>1 DEF Seen
<1>4. PendingOf(Seen)' = PendingOf(Seen) /\ FinishedOf(Seen)' = FinishedOf(Seen)
  BY <1>1, <1>3, Stable
<1>5. Progress'
  BY <1>1, <1>4 DEF IInv, Progress
<1>6. Paired' = Paired
  <2>1. \A l : Endpoint(l)' = Endpoint(l)
    BY <1>1 DEF Endpoint
  <2>2. \A l, m : Before(l, m)' = Before(l, m)
    BY <1>1 DEF Before, Frame
  <2>3. Used' = Used
    BY <1>1 DEF Used
  <2>4. \A l : Owner(l)' = Owner(l)
    BY <2>1, <2>2, <2>3 DEF Owner
  <2>5. \A c : Owned(c)' = Owned(c)
    BY <2>1, <2>3, <2>4 DEF Owned
  <2> QED
    BY <1>1, <2>1, <2>3, <2>4, <2>5 DEF Paired, Transaction
<1> QED
  BY <1>1, <1>2, <1>5, <1>6 DEF IInv, PairingIsTrue

(***************************************************************************)
(* The theorems.                                                           *)
(***************************************************************************)
\* The invariant holds of every behaviour of the decoder (read_capture,
\* transactions).
THEOREM Invariance == DecoderSpec => []IInv
<1>1. DecoderInit => IInv
  BY DEF DecoderInit, IInv, Read, Progress, PairingIsTrue
<1>2. IInv /\ [DecoderNext]_decoderVars => IInv'
  <2> SUFFICES ASSUME IInv, [DecoderNext]_decoderVars PROVE IInv'
    OBVIOUS
  <2>1. CASE \E line \in Lines : ReadLine(line)
    BY <2>1, ReadLineStep
  <2>2. CASE EndOfFile
    BY <2>2, EndOfFileStep
  <2>3. CASE Command
    BY <2>3, CommandStep
  <2>4. CASE Response
    BY <2>4, ResponseStep
  <2>5. CASE Other
    BY <2>5, OtherStep
  <2>6. CASE EndOfRecords
    BY <2>6, EndOfRecordsStep
  <2>7. CASE UNCHANGED decoderVars
    BY <2>7, Stuttering
  <2> QED
    BY <2>1, <2>2, <2>3, <2>4, <2>5, <2>6, <2>7 DEF DecoderNext, Pairing
<1> QED
  BY <1>1, <1>2, PTL DEF DecoderSpec

\* Whatever the order of the lines and whatever lies between them, every
\* response ends up with the last command captured before it, and nothing is
\* lost (transactions).
THEOREM Pairs == DecoderSpec => []PairingIsTrue
<1>1. IInv => PairingIsTrue
  BY DEF IInv
<1> QED
  BY <1>1, Invariance, PTL

(***************************************************************************)
(* The tools that write.  Each has its own files, and the invariant says   *)
(* of each how far it has come.                                            *)
(***************************************************************************)
WriterSteps == {"load", "open", "write", "error", "success"}
WriterType == [step : WriterSteps, file : Nat]

EntryType ==
    {Absent, Partial, Old}
    \cup {Complete(v) : v \in Payloads \cup Nat \cup Generated \cup [Records -> SUBSET Payloads]}

ToolTypes ==
    /\ candidates \in [Records -> SUBSET Payloads]
    /\ \A name \in Records : IsFiniteSet(candidates[name])
    /\ images \in Seq(Nat) /\ Len(images) <= MaxImages
    /\ writers \in [Tools -> WriterType]
    /\ directory \in [Outputs -> EntryType]
    /\ location \in {"outside", "worktree", "repository"}

Active(w) == w.step \in {"open", "write"}

\* Nothing of a tool's.
Clear(e) == e \in {Absent, Old}

\* The one candidate of the record a file is named for.
Selected(j) == candidates[ExtractOrder[j][1]]

ExtractFiles == {ExtractOrder[i] : i \in 1 .. 4}
ImageFiles == {ImageFile(i) : i \in 1 .. MaxImages}

ExtractOk(w, d) ==
    /\ w.file \in 1 .. 5
    /\ \A j \in 1 .. 3 : j < w.file =>
          \E p \in Selected(j) : Selected(j) = {p} /\ d[ExtractOrder[j]] = Complete(p)
    /\ w.file = 5 => d[Manifest] = Complete(candidates)
    /\ \A j \in 1 .. 4 : j >= w.file /\ ~(w.step \in {"write", "error"} /\ j = w.file)
          => Clear(d[ExtractOrder[j]])
    /\ Active(w) =>
          /\ \A j \in 1 .. 3 : \E p \in Selected(j) : Selected(j) = {p}
          /\ \A j \in 1 .. 4 : j >= w.file /\ ~(w.step = "write" /\ j = w.file)
                => d[ExtractOrder[j]] = Absent
    /\ w.step = "write" => w.file \in 1 .. 4 /\ d[ExtractOrder[w.file]] = Partial
    /\ w.step = "load" => w.file = 1
    /\ w.step = "error" /\ w.file \in 1 .. 4 =>
          Clear(d[ExtractOrder[w.file]]) \/ d[ExtractOrder[w.file]] = Partial
    /\ w.step = "success" => w.file = 5

SummaryOk(w, d) ==
    /\ w.file \in 1 .. Len(images) + 1
    /\ \A j \in 1 .. w.file - 1 : d[ImageFile(j)] = Complete(images[j])
    /\ \A j \in 1 .. MaxImages : j >= w.file /\ ~(w.step \in {"write", "error"} /\ j = w.file)
          => Clear(d[ImageFile(j)])
    /\ w.step = "write" => w.file <= Len(images) /\ d[ImageFile(w.file)] = Partial
    /\ w.step = "load" => w.file = 1
    /\ w.step = "error" /\ w.file \in 1 .. MaxImages =>
          \/ Clear(d[ImageFile(w.file)])
          \/ w.file <= Len(images) /\ d[ImageFile(w.file)] = Partial
    /\ w.step = "success" => w.file = Len(images) + 1

GenerateOk(w, d) ==
    /\ w.file \in 1 .. 2
    /\ w.step = "write" => w.file = 1 /\ d[GeneratedFile] = Partial
    /\ w.step = "load" => w.file = 1 /\ Clear(d[GeneratedFile])

\* Nothing is written where the tool must not write.
PlaceOk(w, d, loc) ==
    /\ loc # "outside" =>
          /\ \A f \in Outputs \ {GeneratedFile} : d[f] = Absent
          /\ w["extract"].step \in {"load", "error"} /\ w["summary"].step \in {"load", "error"}
    /\ loc = "repository" =>
          d[GeneratedFile] = Absent /\ w["generate"].step \in {"load", "error"}

WritersOk ==
    /\ ExtractOk(writers["extract"], directory)
    /\ SummaryOk(writers["summary"], directory)
    /\ GenerateOk(writers["generate"], directory)
    /\ PlaceOk(writers, directory, location)
    /\ \A t, u \in Tools : Active(writers[t]) /\ Active(writers[u]) => t = u
    /\ \A t \in Tools : writers[t].step # "load" => phase \in {"done", "failed"}

\* What the extraction collects, said of the lines read so far.
CandidatesOf(name) ==
    {l \in DOMAIN file : Strict(file[l]) /\ FromHost(file[l]) /\ IsRecord(file[l].payload, name)}

ReadersOk ==
    /\ "candidates" \notin failures => \A l \in DOMAIN file : Strict(file[l])
    /\ \A name \in Records : candidates[name] = {file[l].payload : l \in CandidatesOf(name)}
    /\ phase = "failed" => \E l \in DOMAIN file : Invalid(file[l])

ToolInv == ToolTypes /\ WritersOk /\ ReadersOk

\* No two files have the same name.
LEMMA Names ==
    /\ \A i \in 1 .. 4 : ExtractOrder[i] \in Outputs /\ ExtractOrder[i] # GeneratedFile
    /\ \A i, j \in 1 .. 4 : ExtractOrder[i] = ExtractOrder[j] => i = j
    /\ \A i \in 1 .. 4, j \in Nat : ExtractOrder[i] # ImageFile(j)
    /\ \A j \in Nat : ImageFile(j) # GeneratedFile
    /\ \A i, j \in Nat : ImageFile(i) = ImageFile(j) => i = j
    /\ \A j \in 1 .. MaxImages : ImageFile(j) \in Outputs
    /\ GeneratedFile \in Outputs
    /\ Manifest = ExtractOrder[4] /\ \A i \in 1 .. 3 : ExtractOrder[i] # Manifest
    /\ \A j \in 1 .. 3 : ExtractOrder[j][1] \in Records
<1>1. \A i \in 1 .. 4 : i = 1 \/ i = 2 \/ i = 3 \/ i = 4
  OBVIOUS
<1>2. /\ ExtractOrder[1] = <<"config-39.bin", 0>> /\ ExtractOrder[2] = <<"config-06.bin", 0>>
      /\ ExtractOrder[3] = <<"scan-matrix-02.bin", 0>> /\ ExtractOrder[4] = <<"manifest.json", 0>>
  BY DEF ExtractOrder
<1>3. \A i \in 1 .. 4 : ExtractOrder[i] # GeneratedFile
  BY <1>1, <1>2 DEF GeneratedFile
<1>4. \A i, j \in 1 .. 4 : ExtractOrder[i] = ExtractOrder[j] => i = j
  BY <1>1, <1>2
<1>5. \A i \in 1 .. 4, j \in Nat : ExtractOrder[i] # ImageFile(j)
  BY <1>1, <1>2 DEF ImageFile
<1>6. \A j \in Nat : ImageFile(j) # GeneratedFile
  BY DEF ImageFile, GeneratedFile
<1>7. \A i, j \in Nat : ImageFile(i) = ImageFile(j) => i = j
  BY DEF ImageFile
<1>8. \A j \in 1 .. 3 : ExtractOrder[j][1] \in Records
  BY <1>2 DEF Records
<1> QED
  BY <1>1, <1>3, <1>4, <1>5, <1>6, <1>7, <1>8 DEF Outputs, Manifest

\* Statuses tell entries apart.
LEMMA Entries ==
    /\ Absent # Partial /\ Absent # Old /\ Partial # Old
    /\ \A v : Complete(v) # Absent /\ Complete(v) # Partial /\ Complete(v) # Old
    /\ Absent.status = "absent" /\ Partial.status = "partial" /\ Old.status = "old"
    /\ \A v : Complete(v).status = "complete"
BY DEF Absent, Partial, Old, Complete

LEMMA InitTools == Init => ToolInv
<1> SUFFICES ASSUME Init PROVE ToolInv
  OBVIOUS
<1>1. /\ candidates = [name \in Records |-> {}] /\ images = <<>> /\ failures = {}
      /\ \A t \in Tools : writers[t] = [step |-> "load", file |-> 1]
      /\ \A f \in Outputs : directory[f] = Absent
      /\ location = "outside" /\ file = <<>> /\ phase = "reading"
  BY DEF Init, DecoderInit
<1>2. Len(images) = 0 /\ MaxImages \in Nat
  BY <1>1, CaptureToolsAssumption
<1>3. ToolTypes
  <2>1. \A name \in Records : IsFiniteSet(candidates[name])
    BY <1>1, FS_EmptySet
  <2>2. candidates \in [Records -> SUBSET Payloads] /\ directory \in [Outputs -> EntryType]
        /\ writers \in [Tools -> WriterType]
    BY DEF Init, EntryType, WriterType, WriterSteps
  <2> QED
    BY <1>1, <1>2, <2>1, <2>2 DEF ToolTypes
<1>4. WritersOk
  <2>1. "extract" \in Tools /\ "summary" \in Tools /\ "generate" \in Tools
    BY DEF Tools
  <2>2. ExtractOk(writers["extract"], directory)
    BY <1>1, <2>1, Names DEF ExtractOk, Active, Clear
  <2>3. SummaryOk(writers["summary"], directory)
    BY <1>1, <1>2, <2>1, Names DEF SummaryOk, Clear
  <2>4. GenerateOk(writers["generate"], directory)
    BY <1>1, <2>1, Names DEF GenerateOk, Clear
  <2> QED
    BY <1>1, <2>2, <2>3, <2>4 DEF WritersOk, PlaceOk, Active
<1>5. ReadersOk
  BY <1>1 DEF ReadersOk, CandidatesOf
<1> QED
  BY <1>3, <1>4, <1>5 DEF ToolInv

\* What the step of a tool must show: its own state w and its own files are
\* sound, it writes to no other, nor where it must not, and no other is active.
LEMMA ToolStep ==
    ASSUME ToolInv, NEW tool \in Tools, phase \in {"done", "failed"},
           UNCHANGED <<decoderVars, candidates, images, failures, location>>,
           NEW w \in WriterType, writers' = [writers EXCEPT ![tool] = w],
           directory' \in [Outputs -> EntryType],
           \A i \in 1 .. 4 : tool # "extract" => directory'[ExtractOrder[i]] = directory[ExtractOrder[i]],
           \A i \in 1 .. MaxImages : tool # "summary" => directory'[ImageFile(i)] = directory[ImageFile(i)],
           tool # "generate" => directory'[GeneratedFile] = directory[GeneratedFile],
           tool = "extract" => ExtractOk(w, directory'),
           tool = "summary" => SummaryOk(w, directory'),
           tool = "generate" => GenerateOk(w, directory'),
           location # "outside" /\ tool # "generate" =>
              w.step \in {"load", "error"} /\ UNCHANGED directory,
           location = "repository" => w.step \in {"load", "error"} /\ UNCHANGED directory,
           Active(w) => \A t \in Tools \ {tool} : ~Active(writers[t])
    PROVE  ToolInv'
<1>1. /\ \A t \in Tools \ {tool} : writers'[t] = writers[t]
      /\ writers'[tool] = w /\ writers' \in [Tools -> WriterType]
      /\ candidates' = candidates /\ images' = images /\ failures' = failures
      /\ location' = location /\ file' = file /\ phase' = phase
      /\ MaxImages \in Nat /\ Len(images) \in Nat /\ Len(images) <= MaxImages
      /\ "extract" \in Tools /\ "summary" \in Tools /\ "generate" \in Tools
  BY CaptureToolsAssumption DEF ToolInv, ToolTypes, decoderVars, Tools
<1>2. ToolTypes'
  BY <1>1 DEF ToolInv, ToolTypes
<1>3. ReadersOk'
  BY <1>1 DEF ToolInv, ReadersOk, CandidatesOf
<1>4. ExtractOk(writers["extract"], directory)'
  <2>1. CASE tool = "extract"
    BY <1>1, <2>1 DEF ExtractOk, Selected
  <2>2. CASE tool # "extract"
    <3>1. writers'["extract"] = writers["extract"] /\ ExtractOk(writers["extract"], directory)
      BY <1>1, <2>2 DEF ToolInv, WritersOk
    <3>2. /\ \A i \in 1 .. 4 : directory'[ExtractOrder[i]] = directory[ExtractOrder[i]]
          /\ directory'[Manifest] = directory[Manifest]
      BY <2>2, Names
    <3>3. writers["extract"].file \in 1 .. 5 /\ \A j \in 1 .. 3 : j \in 1 .. 4
      BY <3>1 DEF ExtractOk
    <3> QED
      BY <1>1, <3>1, <3>2, <3>3 DEF ExtractOk, Selected
  <2> QED
    BY <2>1, <2>2
<1>5. SummaryOk(writers["summary"], directory)'
  <2>1. CASE tool = "summary"
    BY <1>1, <2>1 DEF SummaryOk
  <2>2. CASE tool # "summary"
    <3>1. writers'["summary"] = writers["summary"] /\ SummaryOk(writers["summary"], directory)
      BY <1>1, <2>2 DEF ToolInv, WritersOk
    <3>2. \A i \in 1 .. MaxImages : directory'[ImageFile(i)] = directory[ImageFile(i)]
      BY <2>2
    <3>3. \A i \in 1 .. Len(images) : directory'[ImageFile(i)] = directory[ImageFile(i)]
      BY <1>1, <3>2
    <3> QED
      BY <1>1, <3>1, <3>2, <3>3 DEF SummaryOk
  <2> QED
    BY <2>1, <2>2
<1>6. GenerateOk(writers["generate"], directory)'
  <2>1. CASE tool = "generate"
    BY <1>1, <2>1 DEF GenerateOk
  <2>2. CASE tool # "generate"
    <3>1. writers'["generate"] = writers["generate"] /\ GenerateOk(writers["generate"], directory)
      BY <1>1, <2>2 DEF ToolInv, WritersOk
    <3> QED
      BY <1>1, <2>2, <3>1 DEF GenerateOk
  <2> QED
    BY <2>1, <2>2
<1>7. PlaceOk(writers, directory, location)'
  <2>1. PlaceOk(writers, directory, location)
    BY DEF ToolInv, WritersOk
  <2>2. CASE location = "outside"
    BY <1>1, <2>2 DEF PlaceOk
  <2>3. CASE location # "outside"
    <3>1. \A f \in Outputs \ {GeneratedFile} : directory'[f] = directory[f]
      <4>1. CASE tool = "generate"
        <5>1. ASSUME NEW f \in Outputs \ {GeneratedFile} PROVE directory'[f] = directory[f]
          BY <4>1 DEF Outputs
        <5> QED
          BY <5>1
      <4>2. CASE tool # "generate"
        BY <2>3, <4>2
      <4> QED
        BY <4>1, <4>2
    <3> QED
      BY <1>1, <2>1, <2>3, <3>1 DEF PlaceOk, Tools
  <2> QED
    BY <2>2, <2>3
<1>8. \A t, u \in Tools : Active(writers'[t]) /\ Active(writers'[u]) => t = u
  <2>1. \A t, u \in Tools : Active(writers[t]) /\ Active(writers[u]) => t = u
    BY DEF ToolInv, WritersOk
  <2> TAKE t, u \in Tools
  <2>2. CASE t # tool /\ u # tool
    BY <1>1, <2>1, <2>2
  <2>3. CASE t = tool \/ u = tool
    BY <1>1, <2>3
  <2> QED
    BY <2>2, <2>3
<1>9. \A t \in Tools : writers'[t].step # "load" => phase' \in {"done", "failed"}
  BY <1>1
<1> QED
  BY <1>2, <1>3, <1>4, <1>5, <1>6, <1>7, <1>8, <1>9 DEF ToolInv, WritersOk, Active

(***************************************************************************)
(* The steps of a tool.                                                    *)
(***************************************************************************)
\* What a step needs to know of the tool that takes it.
LEMMA ToolFacts ==
    ASSUME ToolInv, NEW tool \in Tools
    PROVE  /\ writers[tool] \in WriterType /\ directory \in [Outputs -> EntryType]
           /\ Len(images) \in Nat /\ Len(images) <= MaxImages /\ MaxImages \in Nat
           /\ tool \in {"extract", "summary", "generate"}
           /\ Files("extract") = 4 /\ Files("summary") = Len(images) /\ Files("generate") = 1
           /\ writers["extract"].file \in Nat /\ writers["summary"].file \in Nat
           /\ \A s \in WriterSteps : [writers[tool] EXCEPT !.step = s] \in WriterType
           /\ \A s \in WriterSteps : /\ [writers[tool] EXCEPT !.step = s].step = s
                                     /\ [writers[tool] EXCEPT !.step = s].file = writers[tool].file
<1>1. writers \in [Tools -> WriterType] /\ "extract" \in Tools /\ "summary" \in Tools
  BY DEF ToolInv, ToolTypes, Tools
<1>2. \A t \in Tools : writers[t] \in WriterType /\ writers[t].file \in Nat
  BY <1>1 DEF WriterType
<1>3. /\ directory \in [Outputs -> EntryType] /\ images \in Seq(Nat)
      /\ Len(images) <= MaxImages
  BY DEF ToolInv, ToolTypes
<1>4. Files("extract") = 4 /\ Files("summary") = Len(images) /\ Files("generate") = 1
  BY DEF Files
<1>5. \A s \in WriterSteps : /\ [writers[tool] EXCEPT !.step = s] \in WriterType
                             /\ [writers[tool] EXCEPT !.step = s].step = s
                             /\ [writers[tool] EXCEPT !.step = s].file = writers[tool].file
  BY <1>2 DEF WriterType
<1> QED
  BY <1>1, <1>2, <1>3, <1>4, <1>5, CaptureToolsAssumption DEF Tools

LEMMA StartStep ==
    ASSUME ToolInv, NEW tool \in Tools, Start(tool) PROVE ToolInv'
<1> DEFINE s == IF Refused(tool) THEN "error" ELSE "open"
           w == [writers[tool] EXCEPT !.step = s]
<1>1. /\ phase \in {"done", "failed"} /\ writers[tool].step = "load"
      /\ UNCHANGED <<decoderVars, candidates, images, failures, location>>
      /\ directory' = directory
      /\ writers' = [writers EXCEPT ![tool] = w]
      /\ \A t \in Tools : ~Active(writers[t])
  BY DEF Start, Finish, Active
<1>2. s \in WriterSteps /\ s \in {"error", "open"}
  BY DEF WriterSteps
<1>3. /\ w \in WriterType /\ w.step = s /\ w.file = writers[tool].file
      /\ directory \in [Outputs -> EntryType] /\ Len(images) \in Nat
  BY <1>2, ToolFacts
<1>4. Refused(tool) => s = "error"
  OBVIOUS
<1>5. ~Refused(tool) => s = "open"
  OBVIOUS
<1> HIDE DEF s
<1> HIDE DEF w
<1>6. ASSUME tool = "extract" PROVE ExtractOk(w, directory')
  <2>1. ExtractOk(writers[tool], directory)
    BY <1>6 DEF ToolInv, WritersOk
  <2>2. w.file = 1 /\ \A j \in 1 .. 4 : Clear(directory[ExtractOrder[j]])
    BY <1>1, <1>3, <2>1 DEF ExtractOk
  <2>3. CASE Refused(tool)
    BY <1>1, <1>3, <1>4, <2>2, <2>3 DEF ExtractOk, Active
  <2>4. CASE ~Refused(tool)
    <3>1. ~Existing /\ \A name \in Records : Cardinality(candidates[name]) = 1
      BY <1>6, <2>4 DEF Refused
    <3>2. \A j \in 1 .. 4 : directory[ExtractOrder[j]] = Absent
      BY <3>1 DEF Existing, ExtractOrder
    <3>3. ASSUME NEW j \in 1 .. 3 PROVE \E p \in Selected(j) : Selected(j) = {p}
      <4>1. ExtractOrder[j][1] \in Records
        BY Names
      <4>2. IsFiniteSet(Selected(j)) /\ Cardinality(Selected(j)) = 1
        BY <3>1, <4>1 DEF ToolInv, ToolTypes, Selected
      <4>3. \E p : Selected(j) = {p}
        BY <4>2, FS_Singleton
      <4> QED
        BY <4>3
    <3> QED
      BY <1>1, <1>3, <1>5, <2>2, <2>4, <3>2, <3>3 DEF ExtractOk, Active
  <2> QED
    BY <2>3, <2>4
<1>7. ASSUME tool = "summary" PROVE SummaryOk(w, directory')
  <2>1. SummaryOk(writers[tool], directory)
    BY <1>7 DEF ToolInv, WritersOk
  <2> QED
    BY <1>1, <1>2, <1>3, <2>1 DEF SummaryOk
<1>8. ASSUME tool = "generate" PROVE GenerateOk(w, directory')
  <2>1. GenerateOk(writers[tool], directory)
    BY <1>8 DEF ToolInv, WritersOk
  <2> QED
    BY <1>1, <1>2, <1>3, <2>1 DEF GenerateOk
<1>9. /\ location # "outside" /\ tool # "generate" => w.step \in {"load", "error"}
      /\ location = "repository" => w.step \in {"load", "error"}
  <2>1. location \in {"outside", "worktree", "repository"}
    BY DEF ToolInv, ToolTypes
  <2> QED
    BY <1>3, <1>4, <2>1 DEF Refused
<1> QED
  BY <1>1, <1>3, <1>6, <1>7, <1>8, <1>9, ToolStep

LEMMA OpenOutputStep ==
    ASSUME ToolInv, NEW tool \in Tools, OpenOutput(tool) PROVE ToolInv'
<1> DEFINE s == IF Blocked(tool) THEN "error" ELSE "write"
           w == [writers[tool] EXCEPT !.step = s]
           f == Target(tool)
<1>1. /\ writers[tool].step = "open" /\ writers[tool].file <= Files(tool)
      /\ UNCHANGED <<decoderVars, candidates, images, failures, location>>
      /\ directory' = IF Blocked(tool) THEN directory ELSE [directory EXCEPT ![f] = Partial]
      /\ writers' = [writers EXCEPT ![tool] = w]
  BY DEF OpenOutput, Finish
<1>2. s \in WriterSteps /\ s \in {"error", "write"}
  BY DEF WriterSteps
<1>3. /\ w \in WriterType /\ w.step = s /\ w.file = writers[tool].file
      /\ directory \in [Outputs -> EntryType] /\ Len(images) \in Nat /\ Len(images) <= MaxImages
      /\ MaxImages \in Nat
  BY <1>2, ToolFacts
<1>4. Blocked(tool) => s = "error" /\ tool # "extract"
  BY DEF Blocked
<1>5. ~Blocked(tool) => s = "write"
  OBVIOUS
<1>6. Active(writers[tool])
  BY <1>1 DEF Active
<1> HIDE DEF s, w, f
<1>7. /\ \A t \in Tools \ {tool} : ~Active(writers[t])
      /\ phase \in {"done", "failed"}
      /\ location # "outside" => tool = "generate"
      /\ location # "repository"
  BY <1>1, <1>6 DEF ToolInv, WritersOk, PlaceOk, Active, Tools
<1>8. directory' \in [Outputs -> EntryType]
  BY <1>1, <1>3 DEF EntryType
<1>9. CASE tool = "extract"
  <2>1. ExtractOk(writers[tool], directory) /\ Files(tool) = 4
    BY <1>9, ToolFacts DEF ToolInv, WritersOk
  <2>2. writers[tool].file \in 1 .. 4
    BY <1>1, <2>1 DEF ExtractOk
  <2>3. f = ExtractOrder[w.file]
    BY <1>3, <1>9 DEF f, Target
  <2>4. directory' = [directory EXCEPT ![ExtractOrder[w.file]] = Partial]
    BY <1>1, <1>4, <1>9, <2>3
  <2>5. /\ \A j \in 1 .. 4 : j # w.file => directory'[ExtractOrder[j]] = directory[ExtractOrder[j]]
        /\ directory'[ExtractOrder[w.file]] = Partial
        /\ \A j \in 1 .. MaxImages : directory'[ImageFile(j)] = directory[ImageFile(j)]
        /\ directory'[GeneratedFile] = directory[GeneratedFile]
    BY <1>3, <2>2, <2>4, Names
  <2>6. ExtractOk(w, directory')
    <3>1. s = "write"
      BY <1>4, <1>5, <1>9
    <3> QED
      BY <1>1, <1>3, <2>1, <2>2, <2>5, <3>1, Names DEF ExtractOk, Selected, Active
  <2> QED
    BY <1>1, <1>3, <1>7, <1>8, <1>9, <2>5, <2>6, ToolStep
<1>10. CASE tool = "summary"
  <2>1. SummaryOk(writers[tool], directory) /\ Files(tool) = Len(images)
    BY <1>10, ToolFacts DEF ToolInv, WritersOk
  <2>2. writers[tool].file \in 1 .. Len(images)
    BY <1>1, <1>3, <2>1 DEF SummaryOk
  <2>3. f = ImageFile(w.file) /\ w.file \in 1 .. MaxImages
    BY <1>3, <1>10, <2>2 DEF f, Target
  <2>4. /\ \A j \in 1 .. MaxImages : j # w.file => directory'[ImageFile(j)] = directory[ImageFile(j)]
        /\ directory'[ImageFile(w.file)] = IF Blocked(tool) THEN directory[ImageFile(w.file)] ELSE Partial
        /\ \A i \in 1 .. 4 : directory'[ExtractOrder[i]] = directory[ExtractOrder[i]]
        /\ directory'[GeneratedFile] = directory[GeneratedFile]
    BY <1>1, <1>3, <2>3, Names
  <2>5. /\ \A j \in 1 .. w.file - 1 : directory[ImageFile(j)] = Complete(images[j])
        /\ \A j \in 1 .. MaxImages : j >= w.file => Clear(directory[ImageFile(j)])
    BY <1>1, <1>3, <2>1 DEF SummaryOk
  <2>6. /\ \A j \in 1 .. w.file - 1 : directory'[ImageFile(j)] = Complete(images[j])
        /\ \A j \in 1 .. MaxImages : j >= w.file /\ j # w.file => Clear(directory'[ImageFile(j)])
    <3>1. /\ w.file \in Nat /\ w.file \in 1 .. MaxImages
          /\ \A j \in 1 .. w.file - 1 : j \in 1 .. MaxImages /\ j # w.file
      BY <1>3, <2>3
    <3>2. \A j \in 1 .. w.file - 1 : directory'[ImageFile(j)] = Complete(images[j])
      BY <2>4, <2>5, <3>1
    <3> QED
      BY <2>4, <2>5, <3>2
  <2>7. SummaryOk(w, directory')
    <3>1. w.file \in 1 .. Len(images) /\ images' = images
      BY <1>1, <1>3, <2>2
    <3> QED
      BY <1>2, <1>3, <1>4, <1>5, <2>3, <2>4, <2>5, <2>6, <3>1 DEF SummaryOk
  <2> QED
    BY <1>1, <1>3, <1>7, <1>8, <1>10, <2>4, <2>7, ToolStep
<1>11. CASE tool = "generate"
  <2>1. GenerateOk(writers[tool], directory) /\ Files(tool) = 1 /\ f = GeneratedFile
    BY <1>11, ToolFacts DEF ToolInv, WritersOk, f, Target
  <2>2. /\ directory'[GeneratedFile] = IF Blocked(tool) THEN directory[GeneratedFile] ELSE Partial
        /\ \A i \in 1 .. 4 : directory'[ExtractOrder[i]] = directory[ExtractOrder[i]]
        /\ \A j \in 1 .. MaxImages : directory'[ImageFile(j)] = directory[ImageFile(j)]
    BY <1>1, <1>3, <2>1, Names
  <2>3. GenerateOk(w, directory')
    BY <1>1, <1>2, <1>3, <1>4, <1>5, <2>1, <2>2 DEF GenerateOk
  <2> QED
    BY <1>1, <1>3, <1>7, <1>8, <1>11, <2>2, <2>3, ToolStep
<1> QED
  BY <1>9, <1>10, <1>11, ToolFacts

LEMMA WriteOutputStep ==
    ASSUME ToolInv, NEW tool \in Tools, WriteOutput(tool) PROVE ToolInv'
<1> DEFINE w == [step |-> "open", file |-> writers[tool].file + 1]
           f == Target(tool)
<1>1. PICK v \in Contents(tool) : directory' = [directory EXCEPT ![f] = Complete(v)]
  BY DEF WriteOutput
<1>2. /\ writers[tool].step = "write"
      /\ UNCHANGED <<decoderVars, candidates, images, failures, location>>
      /\ writers' = [writers EXCEPT ![tool] = w]
  BY DEF WriteOutput
<1>3. /\ w \in WriterType /\ w.step = "open" /\ w.file = writers[tool].file + 1
      /\ writers[tool].file \in Nat
      /\ directory \in [Outputs -> EntryType] /\ Len(images) \in Nat /\ Len(images) <= MaxImages
      /\ MaxImages \in Nat
  <2>1. writers[tool] \in WriterType
    BY ToolFacts
  <2>2. writers[tool].file \in Nat /\ writers[tool].file + 1 \in Nat
    BY <2>1 DEF WriterType
  <2>3. w \in WriterType /\ w.step = "open" /\ w.file = writers[tool].file + 1
    BY <2>2 DEF WriterType, WriterSteps
  <2> QED
    BY <2>2, <2>3, ToolFacts
<1> HIDE DEF w, f
<1>4. /\ \A t \in Tools \ {tool} : ~Active(writers[t])
      /\ phase \in {"done", "failed"}
      /\ location # "outside" => tool = "generate"
      /\ location # "repository"
  BY <1>2 DEF ToolInv, WritersOk, PlaceOk, Active, Tools
<1>5. CASE tool = "extract"
  <2>1. ExtractOk(writers[tool], directory)
    BY <1>5 DEF ToolInv, WritersOk
  <2> DEFINE n == writers[tool].file
  <2>2. /\ n \in 1 .. 4 /\ \A j \in 1 .. 3 : \E p \in Selected(j) : Selected(j) = {p}
        /\ \A j \in 1 .. 3 : j < n => \E p \in Selected(j) :
              Selected(j) = {p} /\ directory[ExtractOrder[j]] = Complete(p)
        /\ \A j \in 1 .. 4 : j > n => directory[ExtractOrder[j]] = Absent
    BY <1>2, <2>1 DEF ExtractOk, Active
  <2>3. f = ExtractOrder[n]
    BY <1>5 DEF f, Target
  <2> HIDE DEF n
  <2>4. IF n = 4 THEN v = candidates ELSE v \in Selected(n) /\ Selected(n) = {v}
    <3>1. CASE n = 4
      BY <1>5, <2>3, <3>1, Names DEF Contents, f
    <3>2. CASE n # 4
      <4>1. n \in 1 .. 3 /\ ExtractOrder[n] # Manifest
        BY <2>2, <3>2, Names
      <4>2. v \in Selected(n)
        BY <1>5, <2>3, <4>1 DEF Contents, f, Selected
      <4> QED
        BY <2>2, <3>2, <4>1, <4>2
    <3> QED
      BY <3>1, <3>2
  <2>5. Complete(v) \in EntryType
    <3>1. candidates \in [Records -> SUBSET Payloads]
      BY DEF ToolInv, ToolTypes
    <3>2. CASE n = 4
      BY <2>4, <3>1, <3>2 DEF EntryType
    <3>3. CASE n # 4
      <4>1. ExtractOrder[n][1] \in Records
        BY <2>2, <3>3, Names
      <4> QED
        BY <2>4, <3>1, <3>3, <4>1 DEF EntryType, Selected
    <3> QED
      BY <3>2, <3>3
  <2>6. /\ directory' \in [Outputs -> EntryType]
        /\ \A j \in 1 .. 4 : j # n => directory'[ExtractOrder[j]] = directory[ExtractOrder[j]]
        /\ directory'[ExtractOrder[n]] = Complete(v)
        /\ \A j \in 1 .. MaxImages : directory'[ImageFile(j)] = directory[ImageFile(j)]
        /\ directory'[GeneratedFile] = directory[GeneratedFile]
    BY <1>1, <1>3, <2>2, <2>3, <2>5, Names
  <2>7. w.file = n + 1
    BY <1>3 DEF n
  <2>8. ExtractOk(w, directory')
    <3>1. \A j \in 1 .. 3 : j < w.file =>
             \E p \in Selected(j) : Selected(j) = {p} /\ directory'[ExtractOrder[j]] = Complete(p)
      <4> TAKE j \in 1 .. 3
      <4>1. CASE j = n
        BY <2>4, <2>6, <4>1
      <4>2. CASE j # n
        BY <2>2, <2>6, <2>7, <4>2
      <4> QED
        BY <4>1, <4>2
    <3>2. w.file = 5 => directory'[Manifest] = Complete(candidates)
      BY <2>4, <2>6, <2>7, <2>2, Names
    <3>3. \A j \in 1 .. 4 : j >= w.file => directory'[ExtractOrder[j]] = Absent
      BY <2>2, <2>6, <2>7
    <3> QED
      BY <1>2, <1>3, <2>2, <2>7, <3>1, <3>2, <3>3 DEF ExtractOk, Selected, Clear, Active
  <2> QED
    BY <1>2, <1>3, <1>4, <1>5, <2>6, <2>8, ToolStep
<1>6. CASE tool = "summary"
  <2> DEFINE n == writers[tool].file
  <2>1. SummaryOk(writers[tool], directory)
    BY <1>6 DEF ToolInv, WritersOk
  <2>2. n \in 1 .. Len(images) /\ n \in 1 .. MaxImages
    BY <1>2, <1>3, <2>1 DEF SummaryOk
  <2>3. /\ \A j \in 1 .. n - 1 : directory[ImageFile(j)] = Complete(images[j])
        /\ \A j \in 1 .. MaxImages : j > n => Clear(directory[ImageFile(j)])
    BY <1>2, <1>3, <2>1 DEF SummaryOk
  <2>4. f = ImageFile(n) /\ v = images[n] /\ w.file = n + 1
    BY <1>3, <1>6 DEF f, Target, Contents
  <2> HIDE DEF n
  <2>5. Complete(v) \in EntryType
    <3>1. images \in Seq(Nat)
      BY DEF ToolInv, ToolTypes
    <3> QED
      BY <2>2, <2>4, <3>1 DEF EntryType
  <2>6. /\ directory' \in [Outputs -> EntryType]
        /\ \A j \in 1 .. MaxImages : j # n => directory'[ImageFile(j)] = directory[ImageFile(j)]
        /\ directory'[ImageFile(n)] = Complete(images[n])
        /\ \A i \in 1 .. 4 : directory'[ExtractOrder[i]] = directory[ExtractOrder[i]]
        /\ directory'[GeneratedFile] = directory[GeneratedFile]
    BY <1>1, <1>3, <2>2, <2>4, <2>5, Names
  <2>7. /\ \A j \in 1 .. n : directory'[ImageFile(j)] = Complete(images[j])
        /\ \A j \in 1 .. MaxImages : j >= n + 1 => Clear(directory'[ImageFile(j)])
    <3>1. ASSUME NEW j \in 1 .. n PROVE directory'[ImageFile(j)] = Complete(images[j])
      <4>1. CASE j = n
        BY <2>6, <4>1
      <4>2. CASE j # n
        <5>1. j \in 1 .. n - 1 /\ j \in 1 .. MaxImages
          BY <1>3, <2>2, <4>2
        <5> QED
          BY <2>3, <2>6, <4>2, <5>1
      <4> QED
        BY <4>1, <4>2
    <3>2. ASSUME NEW j \in 1 .. MaxImages, j >= n + 1 PROVE Clear(directory'[ImageFile(j)])
      <4>1. j > n /\ j # n
        BY <2>2, <3>2
      <4> QED
        BY <2>3, <2>6, <4>1
    <3> QED
      BY <3>1, <3>2
  <2>8. SummaryOk(w, directory')
    <3>1. w.file - 1 = n /\ w.file \in 1 .. Len(images) + 1 /\ images' = images
      BY <1>2, <1>3, <2>2, <2>4
    <3> QED
      BY <1>3, <2>4, <2>7, <3>1 DEF SummaryOk
  <2> QED
    BY <1>2, <1>3, <1>4, <1>6, <2>6, <2>8, ToolStep
<1>7. CASE tool = "generate"
  <2>1. GenerateOk(writers[tool], directory) /\ f = GeneratedFile /\ v \in Generated
    BY <1>7 DEF ToolInv, WritersOk, f, Target, Contents
  <2>2. writers[tool].file = 1
    BY <1>2, <2>1 DEF GenerateOk
  <2>3. GenerateOk(w, directory')
    BY <1>3, <2>2 DEF GenerateOk
  <2>4. /\ directory' \in [Outputs -> EntryType]
        /\ \A i \in 1 .. 4 : directory'[ExtractOrder[i]] = directory[ExtractOrder[i]]
        /\ \A j \in 1 .. MaxImages : directory'[ImageFile(j)] = directory[ImageFile(j)]
    <3>1. Complete(v) \in EntryType
      BY <2>1 DEF EntryType
    <3> QED
      BY <1>1, <1>3, <2>1, <3>1, Names
  <2> QED
    BY <1>2, <1>3, <1>4, <1>7, <2>3, <2>4, ToolStep
<1> QED
  BY <1>5, <1>6, <1>7, ToolFacts

\* A step that only ends the run of a tool.
LEMMA EndStep ==
    ASSUME ToolInv, NEW tool \in Tools, FailOutput(tool) \/ ExitOutput(tool) PROVE ToolInv'
<1>1. PICK s \in {"error", "success"} :
         /\ writers' = [writers EXCEPT ![tool] = [writers[tool] EXCEPT !.step = s]]
         /\ s = "error" => writers[tool].step = "write"
         /\ s = "success" => writers[tool].step = "open" /\ writers[tool].file > Files(tool)
  BY DEF FailOutput, ExitOutput, Finish
<1> DEFINE w == [writers[tool] EXCEPT !.step = s]
<1>2. /\ UNCHANGED <<decoderVars, candidates, images, failures, location>>
      /\ directory' = directory /\ Active(writers[tool])
  BY DEF FailOutput, ExitOutput, Active
<1>3. /\ w \in WriterType /\ w.step = s /\ w.file = writers[tool].file
      /\ directory \in [Outputs -> EntryType] /\ Len(images) \in Nat /\ Len(images) <= MaxImages
      /\ MaxImages \in Nat
  <2>1. s \in WriterSteps
    BY DEF WriterSteps
  <2> QED
    BY <2>1, ToolFacts
<1>4. writers' = [writers EXCEPT ![tool] = w]
  BY <1>1
<1> HIDE DEF w
<1>5. phase \in {"done", "failed"}
  BY <1>2 DEF ToolInv, WritersOk, Active
<1>6. ASSUME tool = "extract" PROVE ExtractOk(w, directory')
  <2>1. ExtractOk(writers[tool], directory) /\ Files(tool) = 4
    BY <1>6, ToolFacts DEF ToolInv, WritersOk
  <2>2. CASE s = "error"
    BY <1>1, <1>2, <1>3, <2>1, <2>2 DEF ExtractOk, Selected, Active
  <2>3. CASE s = "success"
    <3>1. writers[tool].file = 5
      BY <1>1, <2>1, <2>3 DEF ExtractOk
    <3> QED
      BY <1>1, <1>2, <1>3, <2>1, <2>3, <3>1 DEF ExtractOk, Selected, Active
  <2> QED
    BY <2>2, <2>3
<1>7. ASSUME tool = "summary" PROVE SummaryOk(w, directory')
  <2>1. SummaryOk(writers[tool], directory) /\ Files(tool) = Len(images)
    BY <1>7, ToolFacts DEF ToolInv, WritersOk
  <2>2. images' = images
    BY <1>2
  <2>3. CASE s = "error"
    BY <1>1, <1>2, <1>3, <2>1, <2>2, <2>3 DEF SummaryOk
  <2>4. CASE s = "success"
    <3>1. writers[tool].file = Len(images) + 1
      BY <1>1, <1>3, <2>1, <2>4 DEF SummaryOk
    <3> QED
      BY <1>1, <1>2, <1>3, <2>1, <2>2, <2>4, <3>1 DEF SummaryOk
  <2> QED
    BY <2>3, <2>4
<1>8. ASSUME tool = "generate" PROVE GenerateOk(w, directory')
  BY <1>1, <1>2, <1>3, <1>8 DEF ToolInv, WritersOk, GenerateOk
<1>9. /\ location # "outside" => tool = "generate"
      /\ location # "repository"
  BY <1>2 DEF ToolInv, WritersOk, PlaceOk, Active, Tools
<1>10. ~Active(w)
  BY <1>3 DEF Active
<1> QED
  BY <1>2, <1>3, <1>4, <1>5, <1>6, <1>7, <1>8, <1>9, <1>10, ToolStep

LEMMA ChooseDirectoryStep ==
    ASSUME ToolInv, ChooseDirectory PROVE ToolInv'
<1>1. /\ UNCHANGED <<decoderVars, candidates, images, failures, writers>>
      /\ \A t \in Tools : writers[t].step = "load"
      /\ location = "outside" /\ \A f \in Outputs : directory[f] = Absent
      /\ location' \in {"outside", "worktree", "repository"}
      /\ directory \in [Outputs -> EntryType] /\ Len(images) \in Nat
      /\ Len(images) <= MaxImages /\ MaxImages \in Nat
      /\ "extract" \in Tools /\ "summary" \in Tools /\ "generate" \in Tools
  BY CaptureToolsAssumption DEF ChooseDirectory, ToolInv, ToolTypes, Tools
<1>2. /\ directory' \in [Outputs -> EntryType] /\ \A f \in Outputs : Clear(directory'[f])
      /\ location' # "outside" => \A f \in Outputs : directory'[f] = Absent
  <2>1. CASE UNCHANGED directory
    BY <1>1, <2>1 DEF Clear
  <2>2. CASE ~UNCHANGED directory
    <3>1. PICK f \in Outputs : directory' = [directory EXCEPT ![f] = Old]
      BY <2>2 DEF ChooseDirectory
    <3>2. location' = location
      BY <2>2 DEF ChooseDirectory
    <3> QED
      BY <1>1, <3>1, <3>2 DEF Clear, EntryType
  <2> QED
    BY <2>1, <2>2
<1>3. ToolTypes'
  BY <1>1, <1>2 DEF ToolInv, ToolTypes
<1>4. ReadersOk'
  BY <1>1 DEF ToolInv, ReadersOk, CandidatesOf, decoderVars
<1>5. ExtractOk(writers["extract"], directory)'
  <2>1. writers'["extract"].step = "load" /\ writers'["extract"].file = 1
    BY <1>1 DEF ToolInv, WritersOk, ExtractOk
  <2>2. \A j \in 1 .. 4 : Clear(directory'[ExtractOrder[j]])
    BY <1>2, Names
  <2> QED
    BY <2>1, <2>2 DEF ExtractOk, Active
<1>6. SummaryOk(writers["summary"], directory)'
  <2>1. writers'["summary"].step = "load" /\ writers'["summary"].file = 1 /\ images' = images
    BY <1>1 DEF ToolInv, WritersOk, SummaryOk
  <2>2. \A j \in 1 .. MaxImages : Clear(directory'[ImageFile(j)])
    BY <1>2, Names
  <2> QED
    BY <1>1, <2>1, <2>2 DEF SummaryOk
<1>7. GenerateOk(writers["generate"], directory)'
  <2>1. writers'["generate"].step = "load" /\ writers'["generate"].file = 1
    BY <1>1 DEF ToolInv, WritersOk, GenerateOk
  <2> QED
    BY <1>2, <2>1, Names DEF GenerateOk
<1>8. PlaceOk(writers, directory, location)'
  BY <1>1, <1>2, Names DEF PlaceOk
<1> QED
  BY <1>1, <1>3, <1>4, <1>5, <1>6, <1>7, <1>8 DEF ToolInv, WritersOk, Active

\* A step of the decoder changes nothing of the tools, whose runs begin when
\* it is done.
LEMMA DecidingStep ==
    ASSUME ToolInv, Deciding PROVE ToolInv'
<1>1. /\ candidates' = candidates /\ images' = images /\ failures' = failures
      /\ writers' = writers /\ directory' = directory /\ location' = location
  BY DEF Deciding, toolVars
<1>2. file' = file /\ phase \in {"reading", "pairing"}
  BY DEF Deciding, EndOfFile, Pairing, Command, Response, Other, EndOfRecords, Looking
<1>3. phase' = "failed" => \E l \in DOMAIN file : Invalid(file[l])
  <2>1. CASE EndOfFile
    BY <2>1 DEF EndOfFile
  <2>2. CASE Pairing
    BY <2>2 DEF Pairing, Command, Response, Other, EndOfRecords, Looking
  <2> QED
    BY <2>1, <2>2 DEF Deciding
<1>4. ToolTypes'
  BY <1>1 DEF ToolInv, ToolTypes
<1>5. ReadersOk'
  BY <1>1, <1>2, <1>3 DEF ToolInv, ReadersOk, CandidatesOf
<1>6. \A t \in Tools : writers[t].step = "load"
  BY <1>2 DEF ToolInv, WritersOk
<1>7. /\ ExtractOk(writers["extract"], directory)'
      /\ SummaryOk(writers["summary"], directory)'
      /\ GenerateOk(writers["generate"], directory)'
      /\ PlaceOk(writers, directory, location)'
  BY <1>1 DEF ToolInv, WritersOk, ExtractOk, SummaryOk, GenerateOk, PlaceOk, Selected
<1> QED
  BY <1>1, <1>4, <1>5, <1>6, <1>7 DEF ToolInv, WritersOk, Active

LEMMA ReadingStep ==
    ASSUME ToolInv, file \in Seq(Lines), NEW line \in Lines,
           Len(images) < MaxImages \/ ~IsImage(line.payload),
           ReadLine(line), Collect(line), UNCHANGED <<writers, directory, location>>
    PROVE  ToolInv'
<1> DEFINE n == Len(file) + 1
           new(name) == {p \in {line.payload} :
                            Strict(line) /\ FromHost(line) /\ IsRecord(p, name)}
<1>1. /\ phase = "reading" /\ phase' = phase /\ file' = Append(file, line)
      /\ writers' = writers /\ directory' = directory /\ location' = location
      /\ "extract" \in Tools /\ "summary" \in Tools /\ "generate" \in Tools
  BY DEF ReadLine, Tools
<1>2. /\ n \in Nat /\ DOMAIN file = 1 .. Len(file) /\ DOMAIN file' = 1 .. n /\ file'[n] = line
      /\ \A l \in 1 .. Len(file) : file'[l] = file[l]
      /\ Len(file) \in Nat
  BY <1>1
<1>3. line.payload \in Payloads
  BY DecoderAssumption DEF LineType
<1>4. \A name \in Records : candidates'[name] = candidates[name] \cup new(name)
  BY DEF Collect
<1>5. ToolTypes'
  <2>1. candidates' \in [Records -> SUBSET Payloads]
    <3>1. candidates' = [name \in Records |-> candidates[name] \cup new(name)]
      BY DEF Collect
    <3>2. \A name \in Records : candidates[name] \cup new(name) \in SUBSET Payloads
      BY <1>3 DEF ToolInv, ToolTypes
    <3> QED
      BY <3>1, <3>2
  <2>2. ASSUME NEW name \in Records PROVE IsFiniteSet(candidates'[name])
    <3>1. IsFiniteSet(candidates[name])
      BY DEF ToolInv, ToolTypes
    <3>2. CASE new(name) = {}
      BY <1>4, <3>1, <3>2
    <3>3. CASE new(name) # {}
      <4>1. candidates'[name] = candidates[name] \cup {line.payload}
        BY <1>4, <3>3
      <4>2. IsFiniteSet(candidates[name] \cup {line.payload})
        BY ONLY <3>1, FS_AddElement
      <4> QED
        BY <4>1, <4>2
    <3> QED
      BY <3>2, <3>3
  <2>3. images' \in Seq(Nat) /\ Len(images') <= MaxImages
    <3>1. images \in Seq(Nat) /\ Len(images) <= MaxImages /\ MaxImages \in Nat
      BY CaptureToolsAssumption DEF ToolInv, ToolTypes
    <3>2. images' = images \/ (IsImage(line.payload) /\ images' = Append(images, n))
      BY DEF Collect
    <3>3. CASE images' = images
      BY <3>1, <3>3
    <3>4. CASE images' # images
      <4>1. Len(images) < MaxImages /\ images' = Append(images, n)
        BY <3>2, <3>4
      <4> HIDE DEF n
      <4> QED
        BY <1>2, <3>1, <4>1
    <3> QED
      BY <3>3, <3>4
  <2> QED
    BY <1>1, <2>1, <2>2, <2>3 DEF ToolInv, ToolTypes
<1>6. ReadersOk'
  <2>1. "candidates" \notin failures' => \A l \in 1 .. n : Strict(file'[l])
    <3>1. "candidates" \notin failures' => "candidates" \notin failures /\ Strict(line)
      BY DEF Collect
    <3>2. "candidates" \notin failures => \A l \in 1 .. Len(file) : Strict(file[l])
      BY <1>2 DEF ToolInv, ReadersOk
    <3> QED
      BY <1>2, <3>1, <3>2
  <2>2. ASSUME NEW name \in Records
        PROVE  candidates'[name] = {file[l].payload : l \in CandidatesOf(name)}'
    <3>1. candidates[name] = {file[l].payload : l \in CandidatesOf(name)}
      BY DEF ToolInv, ReadersOk
    <3>2. /\ \A l \in 1 .. Len(file) : l \in CandidatesOf(name)' <=> l \in CandidatesOf(name)
          /\ CandidatesOf(name) \subseteq 1 .. Len(file)
          /\ CandidatesOf(name)' \subseteq 1 .. n
          /\ n \in CandidatesOf(name)' <=>
                Strict(line) /\ FromHost(line) /\ IsRecord(line.payload, name)
      BY <1>2 DEF CandidatesOf
    <3>3. \A p : p \in new(name) <=> p = line.payload /\ n \in CandidatesOf(name)'
      BY <3>2
    <3>4. \A l : l \in 1 .. n <=> l = n \/ l \in 1 .. Len(file)
      BY <1>2
    <3> HIDE DEF n, new
    <3> QED
      BY <1>2, <1>4, <3>1, <3>2, <3>3, <3>4
  <2> QED
    BY <1>1, <1>2, <2>1, <2>2 DEF ReadersOk
<1>7. \A t \in Tools : writers[t].step = "load"
  BY <1>1 DEF ToolInv, WritersOk
<1>8. ExtractOk(writers["extract"], directory)'
  <2>1. ExtractOk(writers["extract"], directory) /\ writers["extract"].step = "load"
    BY <1>1, <1>7 DEF ToolInv, WritersOk
  <2> QED
    BY <1>1, <2>1 DEF ExtractOk, Active
<1>9. SummaryOk(writers["summary"], directory)'
  <2>1. SummaryOk(writers["summary"], directory) /\ writers["summary"].step = "load"
    BY <1>1, <1>7 DEF ToolInv, WritersOk
  <2>2. Len(images') \in Nat /\ writers["summary"].file = 1
    BY <1>5, <2>1 DEF ToolTypes, SummaryOk
  <2> QED
    BY <1>1, <2>1, <2>2 DEF SummaryOk
<1>10. GenerateOk(writers["generate"], directory)' /\ PlaceOk(writers, directory, location)'
  BY <1>1 DEF ToolInv, WritersOk, GenerateOk, PlaceOk
<1> QED
  BY <1>1, <1>5, <1>6, <1>7, <1>8, <1>9, <1>10 DEF ToolInv, WritersOk, Active

LEMMA NothingHappens == ASSUME ToolInv, UNCHANGED vars PROVE ToolInv'
<1>1. /\ candidates' = candidates /\ images' = images /\ failures' = failures
      /\ writers' = writers /\ directory' = directory /\ location' = location
      /\ file' = file /\ phase' = phase
  BY DEF vars, toolVars, decoderVars
<1>2. ToolTypes'
  BY <1>1 DEF ToolInv, ToolTypes
<1>3. ReadersOk'
  BY <1>1 DEF ToolInv, ReadersOk, CandidatesOf
<1>4. WritersOk'
  BY <1>1 DEF ToolInv, WritersOk, ExtractOk, SummaryOk, GenerateOk, PlaceOk, Selected
<1> QED
  BY <1>2, <1>3, <1>4 DEF ToolInv

(***************************************************************************)
(* The capture tools together.                                             *)
(***************************************************************************)
\* What the tools do leaves the decoder to itself.
THEOREM DecodersSteps == Spec => DecoderSpec
<1>1. Init => DecoderInit
  BY DEF Init
<1>2. [Next]_vars => [DecoderNext]_decoderVars
  <2> SUFFICES ASSUME [Next]_vars PROVE [DecoderNext]_decoderVars
    OBVIOUS
  <2>1. CASE Reading
    BY <2>1 DEF Reading, DecoderNext
  <2>2. CASE Deciding
    BY <2>2 DEF Deciding, DecoderNext
  <2>3. CASE ChooseDirectory
    BY <2>3 DEF ChooseDirectory
  <2>4. CASE \E tool \in Tools : Writing(tool)
    BY <2>4 DEF Writing, Start, OpenOutput, WriteOutput, FailOutput, ExitOutput
  <2>5. CASE UNCHANGED vars
    BY <2>5 DEF vars
  <2> QED
    BY <2>1, <2>2, <2>3, <2>4, <2>5 DEF Next
<1> QED
  BY <1>1, <1>2, PTL DEF Spec, DecoderSpec

\* The invariants of the decoder and of the tools hold of every capture, every
\* directory and every end the runs may come to (main of the tools).
THEOREM ToolsInvariance == Spec => [](IInv /\ ToolInv)
<1>1. Spec => []IInv
  BY DecodersSteps, Invariance, PTL
<1>2. Init => ToolInv
  BY InitTools
<1>3. IInv /\ ToolInv /\ [Next]_vars => ToolInv'
  <2> SUFFICES ASSUME IInv, ToolInv, [Next]_vars PROVE ToolInv'
    OBVIOUS
  <2>1. CASE Reading
    <3>1. file \in Seq(Lines)
      BY DEF IInv, Read
    <3>2. PICK line \in Lines :
             /\ Len(images) < MaxImages \/ ~IsImage(line.payload)
             /\ ReadLine(line) /\ Collect(line) /\ UNCHANGED <<writers, directory, location>>
      BY <2>1 DEF Reading
    <3> QED
      BY <3>1, <3>2, ReadingStep
  <2>2. CASE Deciding
    BY <2>2, DecidingStep
  <2>3. CASE ChooseDirectory
    BY <2>3, ChooseDirectoryStep
  <2>4. ASSUME NEW tool \in Tools, Writing(tool) PROVE ToolInv'
    BY <2>4, StartStep, OpenOutputStep, WriteOutputStep, EndStep DEF Writing
  <2>5. CASE UNCHANGED vars
    BY <2>5, NothingHappens
  <2> QED
    BY <2>1, <2>2, <2>3, <2>4, <2>5 DEF Next
<1> QED
  BY <1>1, <1>2, <1>3, PTL DEF Spec

\* A file of a tool's own is neither missing nor another run's.
LEMMA OwnIsNotClear ==
    ASSUME ToolInv, NEW f \in Outputs PROVE Own(f) <=> ~Clear(directory[f])
<1>1. directory[f] \in EntryType
  BY DEF ToolInv, ToolTypes
<1>2. directory[f].status = "absent" <=> directory[f] = Absent
  BY <1>1, Entries DEF EntryType
<1> QED
  BY <1>2 DEF Own, Clear

\* However a run ends, what it leaves is a beginning of what it would have
\* written, and is where it may be (main of both tools, find_git_worktree).
THEOREM WhatIsWritten == Spec => []OutputsAreSound
<1>1. ToolInv => OutputsAreSound
  <2> SUFFICES ASSUME ToolInv PROVE OutputsAreSound
    OBVIOUS
  <2> DEFINE e == writers["extract"]
             s == writers["summary"]
  <2>1. /\ ExtractOk(e, directory) /\ SummaryOk(s, directory)
        /\ PlaceOk(writers, directory, location)
    BY DEF ToolInv, WritersOk
  <2>2. /\ Len(images) \in Nat /\ Len(images) <= MaxImages /\ MaxImages \in Nat
        /\ DOMAIN images = 1 .. Len(images)
    BY CaptureToolsAssumption DEF ToolInv, ToolTypes
  <2> HIDE DEF e, s
  <2>3. ASSUME NEW i \in 1 .. MaxImages, Own(ImageFile(i))
        PROVE  /\ i <= Len(images)
               /\ \A j \in 1 .. i - 1 : directory[ImageFile(j)] = Complete(images[j])
               /\ directory[ImageFile(i)] \in {Partial, Complete(images[i])}
    <3>1. ~Clear(directory[ImageFile(i)])
      BY <2>3, OwnIsNotClear, Names
    <3>2. /\ s.file \in 1 .. Len(images) + 1
          /\ \A j \in 1 .. s.file - 1 : directory[ImageFile(j)] = Complete(images[j])
      BY <2>1 DEF SummaryOk
    <3>3. CASE i < s.file
      <4>1. i \in 1 .. s.file - 1 /\ i <= Len(images) /\ \A j \in 1 .. i - 1 : j \in 1 .. s.file - 1
        BY <2>2, <3>2, <3>3
      <4> QED
        BY <3>2, <4>1
    <3>4. CASE i >= s.file
      <4>1. s.step \in {"write", "error"} /\ i = s.file
        BY <2>1, <3>1, <3>4 DEF SummaryOk
      <4>2. i <= Len(images) /\ directory[ImageFile(i)] = Partial
        BY <2>1, <3>1, <4>1 DEF SummaryOk
      <4> QED
        BY <3>2, <4>1, <4>2
    <3> QED
      BY <2>2, <3>2, <3>3, <3>4
  <2>4. ASSUME NEW i \in 1 .. 4, Own(ExtractOrder[i]), NEW j \in 1 .. i - 1
        PROVE  \E p \in Selected(j) : Selected(j) = {p} /\ directory[ExtractOrder[j]] = Complete(p)
    <3>1. ~Clear(directory[ExtractOrder[i]])
      BY <2>4, OwnIsNotClear, Names
    <3>2. e.file \in 1 .. 5 /\ ~(i > e.file)
      BY <2>1, <3>1 DEF ExtractOk
    <3>3. j \in 1 .. 3 /\ j < e.file
      BY <3>2
    <3> QED
      BY <2>1, <3>3 DEF ExtractOk
  <2>5. e.step = "success" => directory[Manifest] = Complete(candidates)
    BY <2>1 DEF ExtractOk
  <2>6. s.step = "success" =>
           \A i \in DOMAIN images : directory[ImageFile(i)] = Complete(images[i])
    BY <2>1, <2>2 DEF SummaryOk
  <2>7. OutputsAreABeginning
    BY <2>3, <2>4, <2>5, <2>6 DEF OutputsAreABeginning, Selected, e, s
  <2>8. OutsideWorktrees
    <3>1. \A f \in Outputs : directory[f] = Absent => ~Own(f)
      BY Entries DEF Own
    <3> QED
      BY <2>1, <3>1, Names DEF OutsideWorktrees, PlaceOk
  <2> QED
    BY <2>7, <2>8 DEF OutputsAreSound
<1> QED
  BY <1>1, ToolsInvariance, PTL

\* A whole file is never written again, by no tool (write_pgm,
\* write_generated, the extraction).
THEOREM FilesStay == Spec => WholeFilesStay
<1> DEFINE Stays == \A f \in Outputs :
                       directory[f].status \in {"complete", "old"} => directory'[f] = directory[f]
<1>1. ToolInv /\ [Next]_vars => [Stays]_vars
  <2> SUFFICES ASSUME ToolInv, [Next]_vars PROVE Stays
    OBVIOUS
  <2>1. directory \in [Outputs -> EntryType]
    BY DEF ToolInv, ToolTypes
  <2>2. \A v : \A f \in Outputs : directory' = [directory EXCEPT ![f] = v] =>
           \A g \in Outputs : g # f => directory'[g] = directory[g]
    BY <2>1
  <2>3. CASE UNCHANGED directory
    BY <2>3
  <2>4. CASE ChooseDirectory
    BY <2>4, Entries DEF ChooseDirectory
  <2>5. ASSUME NEW tool \in Tools, OpenOutput(tool), ~UNCHANGED directory PROVE Stays
    <3>1. directory' = [directory EXCEPT ![Target(tool)] = Partial] /\ ~Blocked(tool)
      BY <2>5 DEF OpenOutput
    <3>2. Target(tool) \in Outputs /\ directory[Target(tool)] = Absent
      <4>1. writers[tool].step = "open" /\ writers[tool].file <= Files(tool)
        BY <2>5 DEF OpenOutput
      <4>2. CASE tool = "extract"
        <5>1. ExtractOk(writers[tool], directory) /\ Files(tool) = 4
          BY <4>2, ToolFacts DEF ToolInv, WritersOk
        <5>2. writers[tool].file \in 1 .. 4 /\ Target(tool) = ExtractOrder[writers[tool].file]
          BY <4>1, <4>2, <5>1 DEF ExtractOk, Target
        <5> QED
          BY <4>1, <5>1, <5>2, Names DEF ExtractOk, Active
      <4>3. CASE tool = "summary"
        <5>1. SummaryOk(writers[tool], directory) /\ Files(tool) = Len(images)
          BY <4>3, ToolFacts DEF ToolInv, WritersOk
        <5>2. writers[tool].file \in 1 .. MaxImages /\ Target(tool) = ImageFile(writers[tool].file)
          BY <4>1, <4>3, <5>1, ToolFacts DEF SummaryOk, Target
        <5> QED
          BY <3>1, <4>3, <5>2, Names DEF Blocked
      <4>4. CASE tool = "generate"
        BY <3>1, <4>4, Names DEF Blocked, Target
      <4> QED
        BY <4>2, <4>3, <4>4 DEF Tools
    <3> QED
      BY <2>2, <3>1, <3>2, Entries
  <2>6. ASSUME NEW tool \in Tools, WriteOutput(tool) PROVE Stays
    <3>1. PICK v \in Contents(tool) : directory' = [directory EXCEPT ![Target(tool)] = Complete(v)]
      BY <2>6 DEF WriteOutput
    <3>2. Target(tool) \in Outputs /\ directory[Target(tool)] = Partial
      <4>1. writers[tool].step = "write"
        BY <2>6 DEF WriteOutput
      <4>2. CASE tool = "extract"
        <5>1. ExtractOk(writers[tool], directory)
          BY <4>2 DEF ToolInv, WritersOk
        <5> QED
          BY <4>1, <4>2, <5>1, Names DEF ExtractOk, Target
      <4>3. CASE tool = "summary"
        <5>1. SummaryOk(writers[tool], directory)
          BY <4>3 DEF ToolInv, WritersOk
        <5>2. writers[tool].file \in 1 .. MaxImages /\ Target(tool) = ImageFile(writers[tool].file)
          BY <4>1, <4>3, <5>1, ToolFacts DEF SummaryOk, Target
        <5> QED
          BY <4>1, <5>1, <5>2, Names DEF SummaryOk
      <4>4. CASE tool = "generate"
        <5>1. GenerateOk(writers[tool], directory)
          BY <4>4 DEF ToolInv, WritersOk
        <5> QED
          BY <4>1, <4>4, <5>1, Names DEF GenerateOk, Target
      <4> QED
        BY <4>2, <4>3, <4>4 DEF Tools
    <3> QED
      BY <2>2, <3>1, <3>2, Entries
  <2>7. Reading \/ Deciding => UNCHANGED directory
    BY DEF Reading, Deciding, toolVars
  <2>8. \A tool \in Tools : Start(tool) \/ FailOutput(tool) \/ ExitOutput(tool) => UNCHANGED directory
    BY DEF Start, FailOutput, ExitOutput
  <2>9. UNCHANGED vars => UNCHANGED directory
    BY DEF vars, toolVars
  <2> QED
    BY <2>3, <2>4, <2>5, <2>6, <2>7, <2>8, <2>9 DEF Next, Writing
<1> QED
  BY <1>1, ToolsInvariance, PTL DEF Spec, WholeFilesStay

(***************************************************************************)
(* The tools agree.                                                        *)
(***************************************************************************)
\* The commands of a finished decoder are those of the file.
LEMMA CommandLinesAre ==
    ASSUME PairingIsTrue, phase = "done"
    PROVE  /\ CommandLines = {l \in Used : Endpoint(l) = CommandOut}
           /\ \A l \in CommandLines : OfResponses(l) = Owned(l)
<1>1. result = Paired
  BY DEF PairingIsTrue
<1> DEFINE Cmds == {l \in Used : Endpoint(l) = CommandOut}
<1>2. \A tx \in result : tx.kind = "command" =>
         tx.at \in Cmds /\ tx = [kind |-> "command", at |-> tx.at, responses |-> Owned(tx.at)]
  BY <1>1 DEF Paired, Transaction
<1>3. \A l \in Cmds : [kind |-> "command", at |-> l, responses |-> Owned(l)] \in result
  BY <1>1 DEF Paired
<1> HIDE DEF Cmds
<1>4. CommandLines \subseteq Cmds
  BY <1>2 DEF CommandLines
<1>5. ASSUME NEW l \in Cmds PROVE l \in CommandLines /\ OfResponses(l) = Owned(l)
  <2> DEFINE t == [kind |-> "command", at |-> l, responses |-> Owned(l)]
             u == CHOOSE tx \in result : tx.kind = "command" /\ tx.at = l
  <2>1. t \in result /\ t.kind = "command" /\ t.at = l
    BY <1>3
  <2>2. u \in result /\ u.kind = "command" /\ u.at = l
    BY <2>1
  <2>3. l \in CommandLines
    BY <2>1 DEF CommandLines
  <2>4. u = t
    BY <1>2, <2>2
  <2>5. t.responses = Owned(l)
    OBVIOUS
  <2>6. OfResponses(l) = u.responses
    BY DEF OfResponses
  <2> HIDE DEF t, u
  <2> QED
    BY <2>3, <2>4, <2>5, <2>6
<1> QED
  BY <1>4, <1>5 DEF Cmds

\* The endpoint 0x01, once, is what the text comparison asks for.
LEMMA OnlyOccurrence ==
    ASSUME file \in Seq(Lines), NEW l \in DOMAIN file
    PROVE  FromHost(file[l]) <=> Len(file[l].endpoint) = 1 /\ Endpoint(l) = CommandOut
<1>1. file[l] \in Lines
  OBVIOUS
<1>2. file[l].endpoint \in Seq(Nat)
  BY <1>1, DecoderAssumption DEF LineType
<1> DEFINE e == file[l].endpoint
<1>3. Endpoint(l) = IF e = <<>> THEN 0 ELSE e[1]
  BY DEF Endpoint
<1>4. FromHost(file[l]) <=> e = <<1>>
  BY DEF FromHost, CommandOut
<1> HIDE DEF e
<1>5. e \in Seq(Nat)
  BY <1>2 DEF e
<1>6. e = <<1>> <=> Len(e) = 1 /\ e[1] = 1
  BY <1>5
<1> QED
  BY <1>3, <1>4, <1>5, <1>6 DEF CommandOut, e

LEMMA ReadersAgreeAlways ==
    ASSUME IInv, ToolInv PROVE ReadersAgree
<1> SUFFICES ASSUME "candidates" \notin failures PROVE
       /\ phase # "failed"
       /\ phase = "done" => \A name \in Records :
             candidates[name] = {OfLine(l) : l \in
                 {c \in CommandLines : Len(file[c].endpoint) = 1 /\ IsRecord(OfLine(c), name)}}
  BY DEF ReadersAgree
<1>1. file \in Seq(Lines) /\ \A l \in DOMAIN file : Strict(file[l])
  BY DEF IInv, Read, ToolInv, ReadersOk
<1>2. \A l \in DOMAIN file : ~Invalid(file[l])
  <2> SUFFICES ASSUME NEW l \in DOMAIN file PROVE ~Invalid(file[l])
    OBVIOUS
  <2>1. file[l].payload.length \in Nat
    <3>1. file[l].payload \in Payloads
      BY <1>1, DecoderAssumption DEF LineType
    <3> QED
      BY <3>1, DecoderAssumption
  <2> QED
    BY <1>1, <2>1 DEF Strict, Invalid
<1>3. phase # "failed"
  BY <1>2 DEF ToolInv, ReadersOk
<1>4. ASSUME phase = "done", NEW name \in Records
      PROVE  candidates[name] = {OfLine(l) : l \in
                {c \in CommandLines : Len(file[c].endpoint) = 1 /\ IsRecord(OfLine(c), name)}}
  <2>1. candidates[name] = {file[l].payload : l \in CandidatesOf(name)}
    BY DEF ToolInv, ReadersOk
  <2>2. CommandLines = {l \in Used : Endpoint(l) = CommandOut}
    BY <1>4, CommandLinesAre DEF IInv
  <2>3. Expected[name].length \in Nat /\ Expected[name].length > 0
    BY DEF Records, Expected
  <2>4. ASSUME NEW l \in DOMAIN file
        PROVE  l \in CandidatesOf(name) <=>
                  l \in CommandLines /\ Len(file[l].endpoint) = 1 /\ IsRecord(OfLine(l), name)
    <3>1. Strict(file[l]) /\ file[l].shape = "record"
      BY <1>1 DEF Strict
    <3>2. IsRecord(file[l].payload, name) => HasPayload(file[l])
      BY <2>3, <3>1 DEF IsRecord, HasPayload
    <3>3. l \in CandidatesOf(name) <=> FromHost(file[l]) /\ IsRecord(file[l].payload, name)
      BY <3>1 DEF CandidatesOf
    <3>4. l \in CommandLines <=> HasPayload(file[l]) /\ Endpoint(l) = CommandOut
      BY <2>2 DEF Used
    <3> QED
      BY <1>1, <3>2, <3>3, <3>4, OnlyOccurrence DEF OfLine
  <2>5. CandidatesOf(name) \subseteq DOMAIN file /\ CommandLines \subseteq DOMAIN file
    BY <2>2 DEF CandidatesOf, Used
  <2> QED
    BY <2>1, <2>4, <2>5 DEF OfLine
<1> QED
  BY <1>3, <1>4

\* The commands that can be generated are those whose schema names a generator,
\* as it describes them.
LEMMA GeneratedMessages ==
    /\ \A p \in Generated : /\ p.opcode \in DOMAIN Schema
                            /\ Schema[p.opcode].generator
                            /\ Schema[p.opcode].length = p.length
                            /\ p.opcode = "39" => IsRecord(p, "config-39.bin")
    /\ \A op \in DOMAIN Schema : Schema[op].generator => \E p \in Generated : p.opcode = op
<1> DEFINE Ops == {"01", "02", "04", "06", "07", "08", "17", "19", "1a", "39", "3e", "51", "52", "75"}
<1>1. DOMAIN Schema = Ops
  BY DEF Schema
<1>2. /\ Schema["01"] = Definition(1, <<38>>, TRUE)
      /\ Schema["19"] = Definition(1, <<64, 4>>, TRUE)
      /\ Schema["1a"] = Definition(1, <<2>>, TRUE)
      /\ Schema["39"] = Definition(125, <<2>>, TRUE)
      /\ Schema["51"] = Definition(5, <<8082>>, TRUE)
      /\ Schema["75"] = Definition(1, <<10>>, TRUE)
  BY DEF Schema
<1>3. /\ Schema["02"] = Definition(18869, <<2154>>, FALSE)
      /\ Schema["06"] = Definition(10501, <<2>>, FALSE)
      /\ Schema["07"] = Definition(6, <<>>, FALSE)
      /\ Schema["08"] = Definition(10, <<>>, FALSE)
      /\ Schema["3e"] = Definition(1, <<16>>, FALSE)
      /\ Schema["04"] = Definition(1, <<>>, FALSE)
      /\ Schema["17"] = Definition(1, <<>>, FALSE)
      /\ Schema["52"] = Definition(1, <<>>, FALSE)
  BY DEF Schema
<1>4. \A p : p \in Generated <=>
         \E command \in Ops, mode \in Modes : p \in Generate(command, mode)
  BY <1>1 DEF Generated
<1>5. ASSUME NEW command \in Ops, NEW mode \in Modes, NEW p \in Generate(command, mode)
      PROVE  \/ p.opcode \in {"01", "19", "1a", "75"} /\ p.length = 1
             \/ p.opcode = "51" /\ p.length = 5
             \/ p.opcode = "39" /\ p.length = 125 /\ p.prefix = "3920bf0200"
  <2>1. CASE command \in {"01", "19", "1a", "75"}
    <3>1. p = Message(command, 1, "", 0)
      BY <1>5, <2>1 DEF Generate
    <3>2. p.opcode = command /\ p.length = 1
      BY <3>1 DEF Message
    <3> QED
      BY <2>1, <3>2
  <2>2. CASE command = "51"
    <3>1. p = Message("51", 5, "", 32) \/ p = Message("51", 5, "", 0)
      BY <1>5, <2>2 DEF Generate
    <3>2. p.opcode = "51" /\ p.length = 5
      <4>1. CASE p = Message("51", 5, "", 32)
        BY <4>1 DEF Message
      <4>2. CASE p = Message("51", 5, "", 0)
        BY <4>2 DEF Message
      <4> QED
        BY <3>1, <4>1, <4>2
    <3> QED
      BY <3>2
  <2>3. CASE command = "39"
    <3>1. p = Message("39", 125, "3920bf0200", 0)
      BY <1>5, <2>3 DEF Generate
    <3>2. p.opcode = "39" /\ p.length = 125 /\ p.prefix = "3920bf0200"
      BY <3>1 DEF Message
    <3> QED
      BY <3>2
  <2>4. CASE command \notin {"01", "19", "1a", "75", "51", "39"}
    BY <1>5, <2>4 DEF Generate
  <2> QED
    BY <2>1, <2>2, <2>3, <2>4
<1>6. ASSUME NEW p \in Generated
      PROVE  /\ p.opcode \in DOMAIN Schema
             /\ Schema[p.opcode].generator
             /\ Schema[p.opcode].length = p.length
             /\ p.opcode = "39" => IsRecord(p, "config-39.bin")
  <2>1. \/ p.opcode \in {"01", "19", "1a", "75"} /\ p.length = 1
        \/ p.opcode = "51" /\ p.length = 5
        \/ p.opcode = "39" /\ p.length = 125 /\ p.prefix = "3920bf0200"
    BY <1>4, <1>5
  <2>2. p.opcode \in DOMAIN Schema
    BY <1>1, <2>1
  <2>3. Schema[p.opcode].generator = TRUE /\ Schema[p.opcode].length = p.length
    <3>1. \A op \in {"01", "19", "1a", "75"} :
             Schema[op].generator = TRUE /\ Schema[op].length = 1
      BY <1>2 DEF Definition
    <3>2. Schema["51"].generator = TRUE /\ Schema["51"].length = 5
      BY <1>2 DEF Definition
    <3>3. Schema["39"].generator = TRUE /\ Schema["39"].length = 125
      BY <1>2 DEF Definition
    <3> QED
      BY <2>1, <3>1, <3>2, <3>3
  <2>4. Expected["config-39.bin"] = [length |-> 125, prefix |-> "3920bf0200"]
    BY DEF Expected, Records
  <2> QED
    BY <2>1, <2>2, <2>3, <2>4 DEF IsRecord
<1>7. ASSUME NEW op \in DOMAIN Schema, Schema[op].generator
      PROVE  \E p \in Generated : p.opcode = op
  <2>1. op \in {"01", "19", "1a", "75", "51", "39"}
    <3>1. \A o \in {"02", "04", "06", "07", "08", "17", "3e", "52"} : Schema[o].generator = FALSE
      BY <1>3 DEF Definition
    <3> QED
      BY <1>1, <1>7, <3>1
  <2>2. op \in Ops /\ "none" \in Modes
    BY <1>1 DEF Modes
  <2>3. \E p \in Generate(op, "none") : p.opcode = op
    BY <2>1 DEF Generate, Message
  <2> QED
    BY <1>4, <2>2, <2>3
<1> QED
  BY <1>6, <1>7

\* What provisioning and extraction select is what the decoder shows, and the
\* generator, the schema and the extraction know the same messages
\* (capture_candidates, load_candidates, read_capture, generate).
THEOREM ReadersAndMakersAgree == Spec => []ToolsAgree
<1>1. IInv /\ ToolInv => ToolsAgree
  <2> SUFFICES ASSUME IInv, ToolInv PROVE ToolsAgree
    OBVIOUS
  <2>1. ReadersAgree
    BY ReadersAgreeAlways
  <2>2. ASSUME NEW l \in CommandLines, OfLine(l) \in Generated
        PROVE  /\ l \notin Errors /\ OfLine(l).opcode \in GeneratorCoverage
               /\ OfLine(l).opcode = "39" => IsRecord(OfLine(l), "config-39.bin")
    <3>1. /\ OfLine(l).opcode \in DOMAIN Schema
          /\ Schema[OfLine(l).opcode].generator
          /\ Schema[OfLine(l).opcode].length = OfLine(l).length
          /\ OfLine(l).opcode = "39" => IsRecord(OfLine(l), "config-39.bin")
      BY <2>2, GeneratedMessages
    <3>2. l \notin Errors
      BY <3>1 DEF Errors
    <3>3. OfLine(l).opcode \in Observed
      BY DEF Observed
    <3> QED
      BY <3>1, <3>2, <3>3 DEF GeneratorCoverage
  <2>3. \A op \in GeneratorCoverage : \E p \in Generated : p.opcode = op
    BY GeneratedMessages DEF GeneratorCoverage
  <2> QED
    BY <2>1, <2>2, <2>3 DEF ToolsAgree, GeneratedIsKnown
<1> QED
  BY <1>1, ToolsInvariance, PTL

(***************************************************************************)
(* The elements of a sequence that are in a set.  Chosen is a recursive    *)
(* function: that there is one is shown for every beginning of the         *)
(* sequence, the least that had none being one element longer than one     *)
(* that has.                                                               *)
(***************************************************************************)
LEMMA Least ==
    ASSUME NEW T, T \subseteq Nat, T # {}
    PROVE  \E n \in T : \A m \in T : n <= m
<1> DEFINE R == OpToRel(<, Nat)
<1>1. \A m, n \in Nat : m < n => <<m, n>> \in R
  BY Zenon DEF OpToRel
<1>2. IsWellFoundedOn(R, Nat)
  BY NatLessThanWellFounded
<1> HIDE DEF R
<1>3. PICK n \in T : \A m \in T : ~(<<m, n>> \in R)
  BY <1>2, WFMin
<1>4. ASSUME NEW m \in T PROVE n <= m
  <2>1. m \in Nat /\ n \in Nat /\ ~(<<m, n>> \in R)
    BY <1>3
  <2>2. ~(m < n)
    BY <1>1, <2>1
  <2> QED
    BY <2>1, <2>2
<1> QED
  BY <1>4

\* What holds at 0, and at n + 1 wherever it holds at n, holds up to N: X is
\* where it holds.
LEMMA UpTo ==
    ASSUME NEW N \in Nat, NEW X, 0 \in X, \A n \in 0 .. N - 1 : n \in X => n + 1 \in X
    PROVE  \A n \in 0 .. N : n \in X
<1> SUFFICES ASSUME NEW b \in 0 .. N, b \notin X PROVE FALSE
  OBVIOUS
<1> DEFINE T == {n \in 0 .. N : n \notin X}
<1>1. T \subseteq Nat /\ T # {}
  OBVIOUS
<1>2. PICK n \in T : \A m \in T : n <= m
  BY <1>1, Least
<1>3. n \in 0 .. N /\ n \notin X /\ n # 0
  BY <1>2
<1>4. n - 1 \in 0 .. N - 1 /\ n - 1 + 1 = n /\ ~(n <= n - 1)
  BY <1>3
<1>5. n - 1 \in X
  BY <1>2, <1>4
<1> QED
  BY <1>3, <1>4, <1>5

\* The function of Chosen, for the first n elements.
Filters(s, S, n, c) ==
    c = [i \in 0 .. n |->
            IF i = 0 THEN <<>>
            ELSE IF s[i] \in S THEN Append(c[i - 1], s[i]) ELSE c[i - 1]]

LEMMA FilterExists ==
    ASSUME NEW N \in Nat, NEW s, NEW S PROVE \E c : Filters(s, S, N, c)
<1> DEFINE X == {n \in 0 .. N : \E c : Filters(s, S, n, c)}
<1>1. 0 \in X
  <2> DEFINE c == [i \in 0 .. 0 |-> <<>>]
  <2>1. Filters(s, S, 0, c)
    BY DEF Filters
  <2> QED
    BY <2>1
<1>2. ASSUME NEW n \in 0 .. N - 1, n \in X PROVE n + 1 \in X
  <2>1. PICK c : Filters(s, S, n, c)
    BY <1>2
  <2> DEFINE last == IF s[n + 1] \in S THEN Append(c[n], s[n + 1]) ELSE c[n]
             d == [i \in 0 .. n + 1 |-> IF i = n + 1 THEN last ELSE c[i]]
             e == [i \in 0 .. n + 1 |-> IF i = 0 THEN <<>>
                      ELSE IF s[i] \in S THEN Append(d[i - 1], s[i]) ELSE d[i - 1]]
  <2>2. \A i \in 0 .. n : c[i] = IF i = 0 THEN <<>>
                 ELSE IF s[i] \in S THEN Append(c[i - 1], s[i]) ELSE c[i - 1]
    BY <2>1 DEF Filters
  <2>3. ASSUME NEW i \in 0 .. n + 1 PROVE d[i] = e[i]
    <3>1. CASE i = n + 1
      <4>1. i # 0 /\ i - 1 = n /\ n \in 0 .. n + 1 /\ n # n + 1
        BY <3>1
      <4>2. d[i - 1] = c[n]
        BY <4>1
      <4> QED
        BY <3>1, <4>1, <4>2
    <3>2. CASE i = 0
      BY <2>2, <3>2
    <3>3. CASE i # 0 /\ i # n + 1
      <4>1. i \in 0 .. n /\ i - 1 \in 0 .. n + 1 /\ i - 1 # n + 1
        BY <3>3
      <4>2. d[i] = c[i] /\ d[i - 1] = c[i - 1]
        BY <3>3, <4>1
      <4> QED
        BY <2>2, <3>3, <4>1, <4>2
    <3> QED
      BY <3>1, <3>2, <3>3
  <2>4. d = e
    BY <2>3
  <2>5. Filters(s, S, n + 1, d)
    BY <2>4 DEF Filters
  <2>6. n + 1 \in 0 .. N
    OBVIOUS
  <2> QED
    BY <2>5, <2>6
<1>3. N \in X
  <2> HIDE DEF X
  <2>1. N \in 0 .. N
    OBVIOUS
  <2> QED
    BY <1>1, <1>2, <2>1, UpTo
<1> QED
  BY <1>3

LEMMA ChosenUnfolds ==
    ASSUME NEW s, NEW S, Len(s) \in Nat
    PROVE  \E c : Filters(s, S, Len(s), c) /\ Chosen(s, S) = c[Len(s)]
<1> DEFINE c == CHOOSE x : Filters(s, S, Len(s), x)
<1>1. Filters(s, S, Len(s), c)
  BY FilterExists, Zenon
<1>2. Chosen(s, S) = c[Len(s)]
  BY DEF Chosen, Filters
<1> QED
  BY <1>1, <1>2

\* What is chosen of an ordered sequence is what it holds of the set, in order.
LEMMA ChosenIs ==
    ASSUME NEW T, NEW s \in Seq(T), NEW S, NEW R, Ordered(Len(s), s, R)
    PROVE  LET q == Chosen(s, S)
           IN  /\ q \in Seq(T) /\ Ordered(Len(q), q, R)
               /\ \A x : Holds(Len(q), q, x) <=> x \in S /\ Holds(Len(s), s, x)
<1> DEFINE N == Len(s)
<1>1. N \in Nat /\ \A i \in 1 .. N : s[i] \in T
  OBVIOUS
<1>2. PICK c : Filters(s, S, N, c) /\ Chosen(s, S) = c[N]
  BY <1>1, ChosenUnfolds
<1>3. \A i \in 0 .. N : c[i] = IF i = 0 THEN <<>>
                 ELSE IF s[i] \in S THEN Append(c[i - 1], s[i]) ELSE c[i - 1]
  BY <1>2 DEF Filters
<1> DEFINE Fine(n) == /\ c[n] \in Seq(T) /\ Ordered(Len(c[n]), c[n], R)
                      /\ \A x : Holds(Len(c[n]), c[n], x) <=> x \in S /\ Holds(n, s, x)
           X == {n \in 0 .. N : Fine(n)}
<1> HIDE DEF N
<1>4. 0 \in X
  <2>1. c[0] = <<>> /\ Len(c[0]) = 0
    BY <1>1, <1>3
  <2>2. c[0] \in Seq(T)
    BY <2>1
  <2>3. \A x, t : ~Holds(0, t, x)
    BY DEF Holds
  <2>4. Ordered(0, c[0], R)
    BY DEF Ordered
  <2>5. Fine(0)
    BY <2>1, <2>2, <2>3, <2>4
  <2>6. 0 \in 0 .. N
    BY <1>1
  <2> QED
    BY <2>5, <2>6
<1>5. ASSUME NEW n \in 0 .. N - 1, n \in X PROVE n + 1 \in X
  <2> DEFINE q == c[n]
             y == s[n + 1]
  <2>1. n + 1 \in 0 .. N /\ n + 1 # 0 /\ n + 1 - 1 = n /\ n + 1 \in 1 .. N /\ n \in Nat
    BY <1>1
  <2>2. Fine(n)
    BY <1>5
  <2>3. c[n + 1] = IF y \in S THEN Append(q, y) ELSE q
    BY <1>3, <2>1
  <2>4. \A x : Holds(n + 1, s, x) <=> Holds(n, s, x) \/ x = y
    <3>1. \A j : j \in 1 .. n + 1 <=> j \in 1 .. n \/ j = n + 1
      BY <2>1
    <3> QED
      BY <3>1 DEF Holds
  <2>5. CASE y \notin S
    <3>1. c[n + 1] = c[n]
      BY <2>3, <2>5
    <3>2. Fine(n + 1)
      BY <2>2, <2>4, <2>5, <3>1
    <3> QED
      BY <2>1, <3>2
  <2>6. CASE y \in S
    <3> DEFINE r == c[n + 1]
               L == Len(q)
    <3>1. q \in Seq(T) /\ y \in T /\ L \in Nat
      BY <1>1, <2>1, <2>2
    <3>2. r = Append(q, y)
      BY <2>3, <2>6
    <3> HIDE DEF q, y
    <3>3. /\ r \in Seq(T) /\ Len(r) = L + 1 /\ r[L + 1] = y
          /\ \A i \in 1 .. L : r[i] = q[i]
      BY <3>1, <3>2
    <3> HIDE DEF r
    <3>4. Ordered(L, q, R) /\ \A x : Holds(L, q, x) <=> x \in S /\ Holds(n, s, x)
      BY <2>2 DEF q
    <3>5. \A i \in 1 .. L : <<q[i], y>> \in R
      <4> TAKE i \in 1 .. L
      <4>1. Holds(L, q, q[i])
        BY DEF Holds
      <4>2. PICK j \in 1 .. n : s[j] = q[i]
        BY <3>4, <4>1 DEF Holds
      <4>3. j \in 1 .. N /\ n + 1 \in 1 .. N /\ j < n + 1
        BY <1>1, <2>1
      <4>4. Ordered(N, s, R)
        BY DEF N
      <4> QED
        BY <4>2, <4>3, <4>4 DEF Ordered, y
    <3>6. Ordered(L + 1, r, R)
      <4> SUFFICES ASSUME NEW i \in 1 .. L + 1, NEW j \in 1 .. L + 1, i < j
                   PROVE  <<r[i], r[j]>> \in R
        BY DEF Ordered
      <4>1. i \in 1 .. L
        BY <3>1
      <4>2. CASE j = L + 1
        BY <3>3, <3>5, <4>1, <4>2
      <4>3. CASE j # L + 1
        <5>1. j \in 1 .. L
          BY <3>1, <4>3
        <5> QED
          BY <3>3, <3>4, <4>1, <5>1 DEF Ordered
      <4> QED
        BY <4>2, <4>3
    <3>7. \A x : Holds(L + 1, r, x) <=> Holds(L, q, x) \/ x = y
      <4>1. \A j : j \in 1 .. L + 1 <=> j \in 1 .. L \/ j = L + 1
        BY <3>1
      <4> QED
        BY <3>3, <4>1 DEF Holds
    <3>8. Fine(n + 1)
      <4>1. \A x : Holds(L + 1, r, x) <=> x \in S /\ Holds(n + 1, s, x)
        BY <2>4, <2>6, <3>4, <3>7 DEF y
      <4> QED
        BY <3>3, <3>6, <4>1 DEF r
    <3> QED
      BY <2>1, <3>8
  <2> QED
    BY <2>5, <2>6
<1>6. N \in X
  <2> HIDE DEF X
  <2>1. N \in 0 .. N
    BY <1>1
  <2> QED
    BY <1>1, <1>4, <1>5, <2>1, UpTo
<1>7. Fine(N)
  BY <1>6
<1> QED
  BY <1>2, <1>7 DEF N

\* A sequence ordered by a relation that is never mutual lists its elements
\* once: there are as many as it is long, and i of them are not behind the i-th.
LEMMA Ranks ==
    ASSUME NEW T, NEW q \in Seq(T), NEW R, Ordered(Len(q), q, R),
           \A x, y \in T : ~(<<x, y>> \in R /\ <<y, x>> \in R),
           NEW O, \A x : x \in O <=> Holds(Len(q), q, x)
    PROVE  /\ Cardinality(O) = Len(q)
           /\ \A i \in 1 .. Len(q) : Cardinality({x \in O : <<q[i], x>> \notin R}) = i
<1> DEFINE N == Len(q)
<1>1. N \in Nat /\ \A i \in 1 .. N : q[i] \in T
  OBVIOUS
<1>2. \A i, j \in 1 .. N : i < j => <<q[i], q[j]>> \in R
  BY DEF Ordered
<1> HIDE DEF N
<1>3. ASSUME NEW i \in 1 .. N, NEW j \in 1 .. N, q[i] = q[j] PROVE i = j
  <2>1. \A k, l \in 1 .. N : k < l => q[k] # q[l]
    BY <1>1, <1>2
  <2>2. ~(i < j) /\ ~(j < i)
    BY <1>3, <2>1
  <2> QED
    BY <1>1, <2>2
<1>4. ASSUME NEW n \in 0 .. N PROVE Cardinality({q[i] : i \in 1 .. n}) = n
  <2> DEFINE U == {q[i] : i \in 1 .. n}
             F == [i \in 1 .. n |-> q[i]]
  <2>1. F \in [1 .. n -> U] /\ \A u \in U : \E i \in 1 .. n : F[i] = u
    OBVIOUS
  <2>2. \A i, j \in 1 .. n : F[i] = F[j] => i = j
    <3>1. \A i \in 1 .. n : i \in 1 .. N
      BY <1>1
    <3> QED
      BY <1>3, <3>1
  <2> HIDE DEF U, F
  <2>3. F \in Bijection(1 .. n, U)
    BY <2>1, <2>2, Fun_IsBij
  <2>4. ExistsBijection(1 .. n, U)
    BY <2>3 DEF ExistsBijection
  <2>5. n \in Nat
    BY <1>1
  <2>6. Cardinality(U) = n
    BY <2>4, <2>5, FS_CountingElements
  <2> QED
    BY <2>6 DEF U
<1>5. O = {q[i] : i \in 1 .. N}
  BY DEF Holds, N
<1>6. Cardinality(O) = N
  <2>1. N \in 0 .. N
    BY <1>1
  <2> QED
    BY <1>4, <1>5, <2>1
<1>7. ASSUME NEW i \in 1 .. N PROVE Cardinality({x \in O : <<q[i], x>> \notin R}) = i
  <2>1. ASSUME NEW j \in 1 .. N PROVE <<q[i], q[j]>> \notin R <=> j <= i
    <3>1. CASE i < j
      BY <1>1, <1>2, <3>1
    <3>2. CASE i = j
      BY <1>1, <3>2
    <3>3. CASE j < i
      <4>1. <<q[j], q[i]>> \in R
        BY <1>2, <3>3
      <4> QED
        BY <1>1, <3>3, <4>1
    <3>4. i < j \/ i = j \/ j < i
      BY <1>1
    <3> QED
      BY <3>1, <3>2, <3>3, <3>4
  <2>2. \A j : j \in 1 .. i <=> j \in 1 .. N /\ j <= i
    BY <1>1
  <2>3. {x \in O : <<q[i], x>> \notin R} = {q[j] : j \in 1 .. i}
    BY <1>5, <2>1, <2>2
  <2>4. i \in 0 .. N
    BY <1>1
  <2> QED
    BY <1>4, <2>3, <2>4
<1> QED
  BY <1>6, <1>7 DEF N

(***************************************************************************)
(* The reports.                                                            *)
(***************************************************************************)
InFile == {p \in (DOMAIN file) \X (DOMAIN file) : Before(p[1], p[2])}

\* What a finished decoder's reports rest on.
LEMMA ReportFacts ==
    ASSUME IInv, phase = "done"
    PROVE  /\ file \in Seq(Lines) /\ records \in Seq(DOMAIN file)
           /\ \A l \in DOMAIN file : ~Invalid(file[l])
           /\ CommandLines = {l \in Used : Endpoint(l) = CommandOut}
           /\ \A l \in CommandLines : OfResponses(l) = Owned(l)
           /\ \A l : Holds(Len(records), records, l) <=> l \in Used
           /\ Ordered(Len(records), records, InFile)
           /\ \A x, y \in DOMAIN file : ~(<<x, y>> \in InFile /\ <<y, x>> \in InFile)
           /\ \A x, y \in DOMAIN file : <<x, y>> \in InFile <=> Before(x, y)
           /\ \A l \in DOMAIN file : OfLine(l) \in MessageType
<1>1. /\ file \in Seq(Lines) /\ records \in Seq(1 .. Len(file))
      /\ \A i, j \in 1 .. Len(records) : i < j => Before(records[i], records[j])
      /\ \A l \in 1 .. Len(file) : Good(l) <=> \E i \in 1 .. Len(records) : records[i] = l
      /\ \A l \in 1 .. Len(file) : ~Invalid(file[l])
  BY DEF IInv, Read, Progress
<1>2. DOMAIN file = 1 .. Len(file) /\ \A i \in 1 .. Len(records) : records[i] \in 1 .. Len(file)
  BY <1>1
<1>3. \A l : Holds(Len(records), records, l) <=> l \in Used
  BY <1>1, <1>2 DEF Holds, Used, Good
<1>4. \A x, y \in DOMAIN file : <<x, y>> \in InFile <=> Before(x, y)
  BY DEF InFile
<1>5. \A x, y \in DOMAIN file : ~(Before(x, y) /\ Before(y, x))
  BY <1>1, <1>2, BeforeOrders
<1>6. Ordered(Len(records), records, InFile)
  BY <1>1, <1>2, <1>4 DEF Ordered
<1>7. \A l \in DOMAIN file : OfLine(l) \in MessageType
  <2> TAKE l \in DOMAIN file
  <2>1. file[l] \in Lines
    BY <1>1
  <2>2. file[l].payload \in Payloads
    BY <2>1, DecoderAssumption DEF LineType
  <2> QED
    BY <2>2, CaptureToolsAssumption DEF OfLine
<1>8. /\ CommandLines = {l \in Used : Endpoint(l) = CommandOut}
      /\ \A l \in CommandLines : OfResponses(l) = Owned(l)
  BY CommandLinesAre DEF IInv
<1> QED
  BY <1>1, <1>2, <1>3, <1>4, <1>5, <1>6, <1>7, <1>8

\* The lines of a set of used ones, in frame order.
LEMMA ChosenLines ==
    ASSUME IInv, phase = "done", NEW S, S \subseteq Used
    PROVE  LET q == Chosen(records, S)
           IN  /\ q \in Seq(DOMAIN file) /\ Cardinality(S) = Len(q)
               /\ \A x : x \in S <=> \E i \in 1 .. Len(q) : q[i] = x
               /\ \A i \in 1 .. Len(q) : Cardinality({x \in S : ~Before(q[i], x)}) = i
<1> DEFINE q == Chosen(records, S)
<1>1. /\ records \in Seq(DOMAIN file) /\ Ordered(Len(records), records, InFile)
      /\ \A l : Holds(Len(records), records, l) <=> l \in Used
      /\ \A x, y \in DOMAIN file : ~(<<x, y>> \in InFile /\ <<y, x>> \in InFile)
      /\ \A x, y \in DOMAIN file : <<x, y>> \in InFile <=> Before(x, y)
  BY ReportFacts
<1>2. /\ q \in Seq(DOMAIN file) /\ Ordered(Len(q), q, InFile)
      /\ \A x : Holds(Len(q), q, x) <=> x \in S /\ Holds(Len(records), records, x)
  BY <1>1, ChosenIs
<1> HIDE DEF q
<1>3. \A x : x \in S <=> Holds(Len(q), q, x)
  BY <1>1, <1>2
<1>4. /\ Cardinality(S) = Len(q)
      /\ \A i \in 1 .. Len(q) : Cardinality({x \in S : <<q[i], x>> \notin InFile}) = i
  BY ONLY <1>1, <1>2, <1>3, Ranks
<1>5. ASSUME NEW i \in 1 .. Len(q) PROVE Cardinality({x \in S : ~Before(q[i], x)}) = i
  <2>1. q[i] \in DOMAIN file /\ S \subseteq DOMAIN file
    BY <1>2 DEF Used
  <2>2. {x \in S : ~Before(q[i], x)} = {x \in S : <<q[i], x>> \notin InFile}
    BY <1>1, <2>1
  <2> QED
    BY <1>4, <2>2
<1> QED
  BY <1>2, <1>3, <1>4, <1>5 DEF Holds, q

\* Commands of one opcode and length that agree in all fields are the same.
LEMMA SameFields ==
    ASSUME NEW p \in MessageType, NEW r \in MessageType,
           p.opcode = r.opcode, p.length = r.length,
           \A field \in Fields : p[field] = r[field]
    PROVE  p = r
<1>1. p.prefix = r.prefix /\ p.mode = r.mode /\ p.image = r.image
  BY DEF Fields
<1> QED
  BY <1>1 DEF MessageType

LEMMA DiffIsTrueAlways == ASSUME IInv PROVE DiffIsTrue
<1> SUFFICES ASSUME phase = "done", NEW g \in Groups
             PROVE  /\ Differing(g) =
                          {field \in Fields : \E p, r \in Variants(g) : p[field] # r[field]}
                    /\ Differing(g) = {} <=> Cardinality(Variants(g)) = 1
  BY DEF DiffIsTrue
<1> DEFINE M == {l \in CommandLines : OfLine(l).opcode = g.opcode /\ OfLine(l).length = g.length}
           q == Members(g)
           V == Variants(g)
           m(i) == OfLine(q[i])
<1>1. CommandLines \subseteq Used /\ CommandLines \subseteq DOMAIN file
  BY ReportFacts DEF Used
<1>2. M \subseteq Used
  BY <1>1
<1>3. /\ q \in Seq(DOMAIN file) /\ \A x : x \in M <=> \E i \in 1 .. Len(q) : q[i] = x
  <2>1. q = Chosen(records, M)
    BY DEF Members
  <2> HIDE DEF M, q
  <2> QED
    BY <1>2, <2>1, ChosenLines
<1>4. DOMAIN q = 1 .. Len(q) /\ Len(q) \in Nat
  BY <1>3
<1>5. V = {m(i) : i \in 1 .. Len(q)}
  BY <1>4 DEF Variants
<1>6. \A i \in 1 .. Len(q) : m(i) \in MessageType /\ m(i).opcode = g.opcode /\ m(i).length = g.length
  <2> TAKE i \in 1 .. Len(q)
  <2>1. q[i] \in M
    BY <1>3
  <2>2. m(i) \in MessageType
    BY <1>1, <2>1, ReportFacts
  <2> QED
    BY <2>1, <2>2
<1>7. 1 \in 1 .. Len(q)
  <2>1. \E l : l \in M
    BY DEF Groups
  <2>2. \E i : i \in 1 .. Len(q)
    BY <1>3, <2>1
  <2> QED
    BY <1>4, <2>2
<1>8. Differing(g) = {field \in Fields : \E i \in 2 .. Len(q) : m(i)[field] # m(1)[field]}
  BY DEF Differing
<1> HIDE DEF M, q, V, m
<1>9. IsFiniteSet(V)
  <2> DEFINE F == [i \in 1 .. Len(q) |-> m(i)]
  <2>1. F \in [1 .. Len(q) -> V] /\ \A v \in V : \E i \in 1 .. Len(q) : F[i] = v
    BY <1>5
  <2> HIDE DEF F
  <2>2. F \in Surjection(1 .. Len(q), V)
    BY <2>1, Fun_IsSurj
  <2>3. IsFiniteSet(1 .. Len(q))
    BY <1>4, FS_Interval
  <2> QED
    BY <2>2, <2>3, FS_Surjection
<1>10. ASSUME NEW field, NEW i \in 1 .. Len(q), m(i)[field] # m(1)[field]
       PROVE  i \in 2 .. Len(q)
  BY <1>4, <1>10
<1>11. Differing(g) = {field \in Fields : \E p, r \in V : p[field] # r[field]}
  <2>1. ASSUME NEW field \in Differing(g) PROVE \E p, r \in V : p[field] # r[field]
    <3>1. PICK i \in 2 .. Len(q) : m(i)[field] # m(1)[field]
      BY <1>8
    <3>2. i \in 1 .. Len(q)
      BY <1>4
    <3> QED
      BY <1>5, <1>7, <3>1, <3>2
  <2>2. ASSUME NEW field \in Fields, NEW p \in V, NEW r \in V, p[field] # r[field]
        PROVE  field \in Differing(g)
    <3>1. PICK i \in 1 .. Len(q) : p = m(i)
      BY <1>5
    <3>2. PICK j \in 1 .. Len(q) : r = m(j)
      BY <1>5
    <3>3. m(i)[field] # m(1)[field] \/ m(j)[field] # m(1)[field]
      BY <2>2, <3>1, <3>2
    <3> QED
      BY <1>8, <1>10, <3>3
  <2> QED
    BY <1>8, <2>1, <2>2
<1>12. Differing(g) = {} <=> Cardinality(V) = 1
  <2>1. ASSUME Differing(g) = {} PROVE V = {m(1)}
    <3>1. ASSUME NEW v \in V PROVE v = m(1)
      <4>1. PICK i \in 1 .. Len(q) : v = m(i)
        BY <1>5
      <4>2. \A field \in Fields : m(i)[field] = m(1)[field]
        BY <1>8, <1>10, <2>1
      <4>3. /\ m(i) \in MessageType /\ m(i).opcode = g.opcode /\ m(i).length = g.length
            /\ m(1) \in MessageType /\ m(1).opcode = g.opcode /\ m(1).length = g.length
        BY <1>6, <1>7
      <4> QED
        BY <4>1, <4>2, <4>3, SameFields
    <3>2. m(1) \in V
      BY <1>5, <1>7
    <3> QED
      BY <3>1, <3>2
  <2>2. ASSUME NEW v, V = {v} PROVE Differing(g) = {}
    BY <1>11, <2>2
  <2> QED
    BY <1>9, <2>1, <2>2, FS_Singleton
<1> QED
  BY <1>11, <1>12 DEF V

\* Responses are listed by their lengths.
LEMMA ResponsesListed == \A op \in DOMAIN Schema : Schema[op].responses \in Seq(Nat)
<1> DEFINE a == <<38>>  b == <<2154>>  c == <<2>>  d == <<>>
           e == <<64, 4>>  f == <<16>>  g == <<8082>>  h == <<10>>
<1>1. \A op \in DOMAIN Schema : Schema[op].responses \in {a, b, c, d, e, f, g, h}
  BY SMTT(60) DEF Schema, Definition
<1>2. a \in Seq(Nat) /\ b \in Seq(Nat) /\ c \in Seq(Nat) /\ d \in Seq(Nat)
  OBVIOUS
<1>3. e \in Seq(Nat) /\ f \in Seq(Nat) /\ g \in Seq(Nat) /\ h \in Seq(Nat)
  OBVIOUS
<1> HIDE DEF a, b, c, d, e, f, g, h
<1> QED
  BY <1>1, <1>2, <1>3

LEMMA ValidationIsTrueAlways == ASSUME IInv, ToolInv PROVE ValidationIsTrue
<1> DEFINE Well(c) == /\ OfLine(c).opcode \in DOMAIN Schema
                      /\ OfLine(c).length = Schema[OfLine(c).opcode].length
                      /\ AsListed(c)
           Valid == ValidateExit = 0 /\ Warnings = {}
           Sound == /\ \A l \in DOMAIN file : ~Invalid(file[l])
                    /\ \A c \in Used : Endpoint(c) = CommandOut => Well(c)
<1>1. CASE phase = "failed"
  <2>1. ~Valid
    BY <1>1 DEF ValidateExit
  <2>2. ~Sound
    BY <1>1 DEF ToolInv, ReadersOk
  <2> QED
    BY <2>1, <2>2 DEF ValidationIsTrue
<1>2. CASE phase = "done"
  <2>1. /\ \A l \in DOMAIN file : ~Invalid(file[l])
        /\ CommandLines = {l \in Used : Endpoint(l) = CommandOut}
        /\ \A c \in CommandLines : OfResponses(c) = Owned(c)
    BY <1>2, ReportFacts
  <2>2. ASSUME NEW c \in CommandLines, OfLine(c).opcode \in DOMAIN Schema
        PROVE  Unexpected(c) <=> ~AsListed(c)
    <3> DEFINE listed == Schema[OfLine(c).opcode].responses
               O == Owned(c)
               q == Chosen(records, O)
               found == [i \in DOMAIN q |-> OfLine(q[i]).length]
               rank(l) == Cardinality({m \in O : ~Before(l, m)})
    <3>1. listed \in Seq(Nat)
      BY <2>2, ResponsesListed
    <3>2. ResponseLengths(c) = found
      BY <2>1 DEF ResponseLengths
    <3>3. Unexpected(c) <=> listed # <<>> /\ found # listed
      BY <3>2 DEF Unexpected
    <3>4. AsListed(c) <=> \/ listed = <<>>
                          \/ /\ Cardinality(O) = Len(listed)
                             /\ \A l \in O : OfLine(l).length = listed[rank(l)]
      BY DEF AsListed
    <3>5. O \subseteq Used
      BY DEF Owned
    <3>6. /\ q \in Seq(DOMAIN file) /\ Cardinality(O) = Len(q)
          /\ \A x : x \in O <=> \E i \in 1 .. Len(q) : q[i] = x
          /\ \A i \in 1 .. Len(q) : Cardinality({x \in O : ~Before(q[i], x)}) = i
      <4> HIDE DEF O, q
      <4>1. q = Chosen(records, O)
        BY DEF q
      <4> QED
        BY <1>2, <3>5, <4>1, ChosenLines
    <3>7. \A i \in 1 .. Len(q) : rank(q[i]) = i
      BY <3>6
    <3>8. DOMAIN q = 1 .. Len(q) /\ Len(q) \in Nat
      BY <3>6
    <3>9. DOMAIN listed = 1 .. Len(listed) /\ Len(listed) \in Nat
      BY <3>1
    <3> HIDE DEF O, q, listed, rank
    <3>10. found = listed <=> /\ Len(q) = Len(listed)
                              /\ \A i \in 1 .. Len(q) : OfLine(q[i]).length = listed[i]
      <4>1. DOMAIN found = 1 .. Len(q)
            /\ \A i \in 1 .. Len(q) : found[i] = OfLine(q[i]).length
        BY <3>8
      <4>2. ASSUME found = listed PROVE Len(q) = Len(listed)
        <5>1. 1 .. Len(q) = 1 .. Len(listed)
          BY <3>9, <4>1, <4>2
        <5>2. \A n, k \in Nat : 1 .. n = 1 .. k => n = k
          <6> SUFFICES ASSUME NEW n \in Nat, NEW k \in Nat, 1 .. n = 1 .. k PROVE n = k
            OBVIOUS
          <6>1. n >= 1 => n \in 1 .. k
            OBVIOUS
          <6>2. k >= 1 => k \in 1 .. n
            OBVIOUS
          <6> QED
            BY <6>1, <6>2
        <5> QED
          BY <3>8, <3>9, <5>1, <5>2
      <4>3. ASSUME Len(q) = Len(listed),
                   \A i \in 1 .. Len(q) : OfLine(q[i]).length = listed[i]
            PROVE  found = listed
        <5>1. listed = [i \in 1 .. Len(listed) |-> listed[i]]
          BY <3>1
        <5> QED
          BY <3>8, <4>3, <5>1
      <4> HIDE DEF found
      <4> QED
        BY <4>1, <4>2, <4>3
    <3>11. (\A l \in O : OfLine(l).length = listed[rank(l)])
              <=> \A i \in 1 .. Len(q) : OfLine(q[i]).length = listed[i]
      BY <3>6, <3>7
    <3> QED
      BY <3>3, <3>4, <3>6, <3>10, <3>11
  <2>3. Valid <=> Errors = {} /\ Warnings = {}
    BY <1>2 DEF ValidateExit
  <2>4. Errors = {} /\ Warnings = {} <=> \A c \in CommandLines : Well(c)
    <3>1. Errors = {} <=> \A c \in CommandLines : OfLine(c).opcode \in DOMAIN Schema
                              => OfLine(c).length = Schema[OfLine(c).opcode].length
      BY DEF Errors
    <3>2. Warnings = {} <=> \A c \in CommandLines :
                               OfLine(c).opcode \in DOMAIN Schema /\ ~Unexpected(c)
      BY DEF Warnings
    <3> QED
      BY <2>2, <3>1, <3>2
  <2>5. Valid <=> Sound
    BY <2>1, <2>3, <2>4
  <2> QED
    BY <2>5 DEF ValidationIsTrue
<1>3. phase \notin {"done", "failed"} => ValidationIsTrue
  BY DEF ValidationIsTrue
<1> QED
  BY <1>1, <1>2, <1>3

\* What the decoder reports of a capture is what the capture holds: diff shows
\* every difference and no other, and validate passes exactly the captures
\* whose commands are known, as long as they may be and answered as listed
\* (diff_captures, validate_capture).
THEOREM ReportsHold == Spec => []ReportsAreTrue
<1>1. IInv /\ ToolInv => ReportsAreTrue
  BY DiffIsTrueAlways, ValidationIsTrueAlways DEF ReportsAreTrue
<1> QED
  BY <1>1, ToolsInvariance, PTL
=============================================================================
