----------------------------- MODULE Reassembly -----------------------------
(* What bdump prints, read as a source by bas.                               *)
EXTENDS Disassembler, SourceMeaning

(* The statements of a line of the listing.  The comment is none, and the    *)
(* signed decimal of NUM is read as the word it was printed for.             *)
Statements(line) ==
    (IF line.label THEN <<[t |-> "label", name |-> "_start"]>> ELSE <<>>)
    \o (IF line.org THEN <<[t |-> "org", n |-> line.addr]>> ELSE <<>>)
    \o <<[t |-> "instr", id |-> line.addr, m |-> line.instr.m,
          args |-> [i \in DOMAIN line.instr.operands |->
                      [t |-> "number", n |-> line.instr.operands[i]]]]>>

Source == FlattenSeq([i \in DOMAIN listing |-> Statements(listing[i])])
Items == Expansion(Source)

(* Assembled again, the listing is the segment, word for word and no longer, *)
(* and _start is the second word of it, where a program begins.              *)
Reassembles ==
    pc = "done" =>
        /\ ~Erroneous(Items)
        /\ Image(Items) = words
        /\ \A k \in LabelsOf(Items, Outermost, "_start") : Address(Items, k) = 1
=============================================================================
