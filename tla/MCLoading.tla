----------------------------- MODULE MCLoading -----------------------------
(* Three-bit words; pages of 2, 4 or 8 words out of 32 addresses.            *)
EXTENDS Loading, SequencesExt

(* Every section of up to two words over a word with an odd bit pattern, its *)
(* mirror image and zero; then one to fill each page, one for no page and    *)
(* one for more than half of the addresses.                                  *)
Counting(n) == [i \in 1 .. n |-> (3 * i) % Modulus]
MCSections ==
    BoundedSeq({0, 1, 4}, 2) \cup {Counting(n) : n \in {3, 4, 5, 8, 9, 17}}

Statement(addr) == [kind |-> "addressed", addr |-> addr, bits |-> <<1, 0, 1>>]
PlainBits == [kind |-> "bits", bits |-> <<1, 1, 0>>]
Ignored == [kind |-> "ignored"]
Junk == [kind |-> "junk"]
Cell == [kind |-> "cell", word |-> 5]

MCOtherFiles == {
    <<>>,
    <<Ignored, Statement(0), Ignored, Statement(1), Statement(2)>>,
    <<Statement(0), Statement(2)>>,
    <<Statement(1)>>,
    <<Statement(0), Junk>>,
    <<PlainBits, Ignored, PlainBits, PlainBits, PlainBits, PlainBits>>,
    <<Ignored>>,
    <<Cell>>,
    <<Cell, Cell, Cell, Cell, Cell>>
  }

(* Four characters make a word; a line has a digit for each bit, or one, and *)
(* its newline, and an address has three more characters.                    *)
Characters(item) ==
    CASE item.kind = "bits" -> WordBits + 1
      [] item.kind = "addressed" -> WordBits + 4
      [] item.kind = "hex" -> 2
      [] OTHER -> 4

MCAsWords(f) ==
    [i \in 1 .. SumFunction([j \in DOMAIN f |-> Characters(f[j])]) \div 4 |-> 3]

(* Words with no newline among their bytes are one line, and one that ends   *)
(* at its first zero byte; one of the sections happens to be a line of bits. *)
MCAsLines(f) ==
    IF f = <<>> THEN <<>>
    ELSE IF \A i \in DOMAIN f : f[i].kind = "cell" /\ f[i].word = 0 THEN <<Ignored>>
    ELSE IF f = BinaryFile(Counting(4)) THEN <<PlainBits>>
    ELSE <<Junk>>

(* Up to half of the addresses, which a power of two can cover, and beyond;  *)
(* and one of more than an addr_t holds.                                     *)
MCRequests == {<<>>, <<1>>, <<4>>, <<8, 3>>, <<3, 5>>, <<16>>, <<3, 17>>, <<35>>}
=============================================================================
