----------------------------- MODULE Commands -----------------------------
(***************************************************************************)
(* The messages the capture tools tell apart: the schema of                *)
(* protocol/commands.json, the commands that can be generated, and the     *)
(* records and images the tools look for.  A message is its opcode in      *)
(* hexadecimal, its length, its first bytes where a tool compares them,    *)
(* its mode byte, and the image header a response may begin with.          *)
(***************************************************************************)
EXTENDS Naturals

MessageType ==
    [opcode : STRING, length : Nat, prefix : STRING, mode : Nat,
     image : [status : Nat, declared : Nat, width : Nat, height : Nat]]

NoImage == [status |-> 0, declared |-> 0, width |-> 0, height |-> 0]

Message(op, length, prefix, mode) ==
    [opcode |-> op, length |-> length, prefix |-> prefix, mode |-> mode, image |-> NoImage]

\* Message length, response lengths (<<>> where any will do), and whether a
\* generator is named.
Definition(length, responses, generator) ==
    [length |-> length, responses |-> responses, generator |-> generator]

Schema ==
    [ op \in {"01", "02", "04", "06", "07", "08", "17", "19", "1a", "39", "3e", "51", "52", "75"} |->
      CASE op = "01" -> Definition(1, <<38>>, TRUE)
        [] op = "02" -> Definition(18869, <<2154>>, FALSE)
        [] op = "06" -> Definition(10501, <<2>>, FALSE)
        [] op = "07" -> Definition(6, <<>>, FALSE)
        [] op = "08" -> Definition(10, <<>>, FALSE)
        [] op = "19" -> Definition(1, <<64, 4>>, TRUE)
        [] op = "1a" -> Definition(1, <<2>>, TRUE)
        [] op = "39" -> Definition(125, <<2>>, TRUE)
        [] op = "3e" -> Definition(1, <<16>>, FALSE)
        [] op = "51" -> Definition(5, <<8082>>, TRUE)
        [] op = "75" -> Definition(1, <<10>>, TRUE)
        [] op \in {"04", "17", "52"} -> Definition(1, <<>>, FALSE) ]

\* Mutant: one byte short.
Generate_Short(command, mode) ==
    CASE command \in {"01", "19", "1a", "75"} -> {Message(command, 1, "", 0)}
      [] command = "51" /\ mode \in {"none", "image"} -> {Message("51", 5, "", 32)}
      [] command = "51" /\ mode = "transition" -> {Message("51", 5, "", 0)}
      [] command = "39" /\ mode \in {"none", "observed-v1"} -> {Message("39", 124, "3920bf0200", 0)}
      [] OTHER -> {}

\* generate: the message, or none for an error.  The mode of a literal command
\* is not looked at.
Generate(command, mode) ==
    CASE command \in {"01", "19", "1a", "75"} -> {Message(command, 1, "", 0)}
      [] command = "51" /\ mode \in {"none", "image"} -> {Message("51", 5, "", 32)}
      [] command = "51" /\ mode = "transition" -> {Message("51", 5, "", 0)}
      [] command = "39" /\ mode \in {"none", "observed-v1"} -> {Message("39", 125, "3920bf0200", 0)}
      [] OTHER -> {}

Modes == {"none", "image", "transition", "observed-v1"}

Generated == UNION {Generate(command, mode) : command \in DOMAIN Schema, mode \in Modes}

\* EXPECTED of the extraction; the provisioning tool has the same lengths and
\* prefixes for two of them.
Records == {"config-39.bin", "config-06.bin", "scan-matrix-02.bin"}

Expected ==
    [name \in Records |->
        CASE name = "config-39.bin" -> [length |-> 125, prefix |-> "3920bf0200"]
          [] name = "config-06.bin" -> [length |-> 10501, prefix |-> "0602000001"]
          [] name = "scan-matrix-02.bin" -> [length |-> 18869, prefix |-> "0298000000"]]

\* Of the scan matrices only that of an acquisition.
IsRecord(p, name) ==
    /\ p.length = Expected[name].length /\ p.prefix = Expected[name].prefix
    /\ name = "scan-matrix-02.bin" => p.mode = 2

\* parse_image: a header of 18 bytes declares the rest.
IsImage(p) ==
    /\ p.length >= 18
    /\ p.image.status = 0 /\ p.image.declared = p.length - 6
    /\ p.image.width > 0 /\ p.image.height > 0
    /\ p.image.width * p.image.height = p.length - 18
=============================================================================
