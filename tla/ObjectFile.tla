----------------------------- MODULE ObjectFile -----------------------------
(* Object files: what libbaby/writer.c writes for a section and what         *)
(* libbaby/loader.c takes one line of such a file for.  A file is a sequence *)
(* of items, each a record with a kind:                                      *)
(*                                                                           *)
(*   cell     a word in host byte order             (binary)                 *)
(*   bits     a line of bits                        (bits, bits.ssem)        *)
(*   addressed  a line with an address and bits     (bits.snp)               *)
(*   hex      a line of hexadecimal, or its header  (logisim)                *)
(*   ignored  a blank line or a comment                                      *)
(*   junk     any other line                                                 *)
EXTENDS Words, Sequences, FiniteSets

CONSTANT WordBits       \* bits of a word  (32)

PowerOfTwo[n \in Nat] == IF n = 0 THEN 1 ELSE 2 * PowerOfTwo[n - 1]

ASSUME BitsAssumption == WordBits \in Nat /\ Modulus = PowerOfTwo[WordBits]

(* The items a file may be made of.  An address is what an addr_t holds of   *)
(* the digits.                                                               *)
Item ==
    [kind : {"cell"}, word : Word]
        \cup [kind : {"bits"}, bits : [1 .. WordBits -> {0, 1}]]
        \cup [kind : {"addressed"}, addr : Nat, bits : [1 .. WordBits -> {0, 1}]]
        \cup [kind : {"hex", "ignored", "junk"}]

TextItem == {item \in Item : item.kind # "cell"}

ReaderFormats == {"binary", "bits", "bits.ssem", "bits.snp"}
WriterFormats == ReaderFormats \cup {"logisim"}

(* The flags of the format tables.                                           *)
Ssem(format) == format \in {"bits.ssem", "bits.snp"}
Addressed(format) == format = "bits.snp"

(* The weight of the i-th bit of a line: least significant first for the     *)
(* SSEM, most significant first otherwise.  Writer and reader each walk a    *)
(* single set bit over the word.                                             *)
WriteWeight(ssem, i) == PowerOfTwo[IF ssem THEN i - 1 ELSE WordBits - i]
(* Mutant: every format is read most significant bit first.                  *)
ReadWeightPlain(ssem, i) == PowerOfTwo[WordBits - i]

ReadWeight(ssem, i) == PowerOfTwo[IF ssem THEN i - 1 ELSE WordBits - i]

BitsOf(word, ssem) ==
    [i \in 1 .. WordBits |-> (word \div WriteWeight(ssem, i)) % 2]

WordOf(bits, ssem) ==
    LET Walked[n \in 0 .. WordBits] ==
            IF n = 0 THEN 0 ELSE Walked[n - 1] + bits[n] * ReadWeight(ssem, n)
    IN  Walked[WordBits]

-----------------------------------------------------------------------------
(* Writing: words is the section's data, whose org is always zero.           *)

LogisimFile(words) ==
    <<[kind |-> "hex"]>> \o [a \in DOMAIN words |-> [kind |-> "hex"]]

BitsFile(words, format) ==
    [a \in DOMAIN words |->
        IF Addressed(format)
          THEN [kind |-> "addressed", addr |-> a - 1,
                bits |-> BitsOf(words[a], Ssem(format))]
          ELSE [kind |-> "bits", bits |-> BitsOf(words[a], Ssem(format))]]

BinaryFile(words) == [a \in DOMAIN words |-> [kind |-> "cell", word |-> words[a]]]

Written(words, format) ==
    CASE format = "logisim" -> LogisimFile(words)
      [] format = "binary" -> BinaryFile(words)
      [] OTHER -> BitsFile(words, format)

-----------------------------------------------------------------------------
(* Reading a line: the statement expression of the format, then the one for  *)
(* what may be ignored, else a format error.                                 *)
(* Mutant: the expression for plain bits is not anchored at the start.       *)
IsStatementAnywhere(line, format) ==
    line.kind \in (IF Addressed(format) THEN {"addressed"} ELSE {"addressed", "bits"})

IsStatement(line, format) ==
    line.kind = (IF Addressed(format) THEN "addressed" ELSE "bits")

IsIgnored(line) == line.kind = "ignored"

(* The address a statement is for.  Addresses must follow one another.       *)
AddressOf(line, format, next) == IF Addressed(format) THEN line.addr ELSE next

(* Mutant: gaps are let through.                                             *)
SequentialOrLater(line, format, next) == AddressOf(line, format, next) >= next

Sequential(line, format, next) == AddressOf(line, format, next) = next
=============================================================================
