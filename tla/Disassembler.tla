---------------------------- MODULE Disassembler ----------------------------
(* bdump.c's disassemble_section().  It decodes all words of the segment,    *)
(* then decides for each, in order, whether it looks like data or like an    *)
(* instruction, then prints each: the reading decided for as a line of       *)
(* assembly, the other one behind it as a comment.                           *)
EXTENDS OpcodeIndex

CONSTANTS
    Segments,       \* the loaded segments: functions from 0 .. length - 1
    Indexes         \* the indexes of mnemonics that arch_init() may make

ASSUME DisassemblerAssumption ==
    /\ \A segment \in Segments :
           LET length == Cardinality(DOMAIN segment)
           IN  length \in 0 .. Modulus /\ segment \in [0 .. length - 1 -> Word]
    /\ \A array \in Indexes : IsIndex(array)

VARIABLES
    pc,             \* "decode", "classify", "print", "done", "crashed"
    words,          \* the segment
    index,          \* arch_state.instr_index
    addr,           \* the word a loop has come to
    ad,             \* the abstract disassembly
    type,           \* type[0]: what the word before looked like
    listing         \* the lines that have been printed

vars == <<pc, words, index, addr, ad, type, listing>>

Length == Cardinality(DOMAIN words)

(* struct dis_abstract, as calloc() clears it.                               *)
Blank == [w |-> 0, operand |-> 0, data |-> 0, instrs |-> <<>>, alts |-> <<>>,
          has_label |-> FALSE, has_org |-> FALSE]

Init ==
    /\ pc = "decode"
    /\ words \in Segments
    /\ index \in Indexes
    /\ addr = 0
    /\ ad = [a \in DOMAIN words |-> Blank]
    /\ type = "DATA"
    /\ listing = <<>>

InLoop(loop) == pc = loop /\ addr < Length

(* disassemble_instruction().                                                *)
Decode ==
    /\ InLoop("decode")
    /\ \E instrs \in arch_find_opcode(index, OpcodeOf(words[addr]), 2) :
           ad' = [ad EXCEPT ![addr] =
                    [@ EXCEPT !.w = words[addr],
                              !.operand = OperandOf(words[addr]),
                              !.data = DataOf(words[addr]),
                              !.instrs = instrs]]
    /\ addr' = addr + 1
    /\ UNCHANGED <<pc, words, index, type, listing>>

(* The end of one of the first two loops.                                    *)
NextLoop ==
    /\ pc \in {"decode", "classify"} /\ addr = Length
    /\ pc' = IF pc = "decode" THEN "classify" ELSE "print"
    /\ addr' = 0
    /\ UNCHANGED <<words, index, ad, type, listing>>

d == ad[addr]
m == Head(d.instrs)

(* A word looks like data if it is zero or has bits where an instruction has *)
(* none - in the operand, if the first word of the segment has a mnemonic.   *)
(* Mutant: an operand that is not wanted is not looked for.                  *)
LooksLikeDataNoOperand == d.data # 0 \/ d.w = 0

LooksLikeData ==
    \/ d.data # 0
    \/ Len(ad[0].instrs) > 0 /\ ~TakesOperand(m) /\ d.operand # 0
    \/ d.w = 0

Opposite(t) == IF t = "DATA" THEN "INSTR" ELSE "DATA"

(* struct asm_abstract for either reading of the word.                       *)
Reading(t) ==
    CASE t = "DATA" -> [instr |-> "NUM", opr_effective |-> d.w]
      [] t = "INSTR" -> [instr |-> m, opr_effective |-> d.operand]

(* The second word gets the label _start, it and every change from data to   *)
(* instructions or back an origin.                                           *)
Classify ==
    /\ InLoop("classify") /\ d.instrs # <<>>
    /\ LET t == IF LooksLikeData THEN "DATA" ELSE "INSTR"
       IN  /\ type' = t
           /\ ad' = [ad EXCEPT ![addr] =
                       [@ EXCEPT !.alts = <<Reading(t), Reading(Opposite(t))>>,
                                 !.has_label = (addr = 1),
                                 !.has_org = (addr = 1 \/ t # type)]]
    /\ addr' = addr + 1
    /\ UNCHANGED <<pc, words, index, listing>>

(* A word with an opcode that has no mnemonic: both readings are made, and   *)
(* the one as an instruction goes through a null pointer.                    *)
ClassifyNull ==
    /\ InLoop("classify") /\ d.instrs = <<>>
    /\ pc' = "crashed"
    /\ UNCHANGED <<words, index, addr, ad, type, listing>>

(* render_instr(): the name, and the operand if the mnemonic takes one.      *)
Rendered(a) ==
    [m |-> a.instr,
     operands |-> IF TakesOperand(a.instr) THEN <<a.opr_effective>> ELSE <<>>]

(* Mutant: the origin printed is that of the next word.                      *)
PrintLineNext ==
    /\ InLoop("print")
    /\ listing' = Append(listing,
           [label |-> d.has_label, org |-> d.has_org, addr |-> addr + 1,
            instr |-> Rendered(d.alts[1]), comment |-> Rendered(d.alts[2])])
    /\ addr' = addr + 1
    /\ UNCHANGED <<pc, words, index, ad, type>>

PrintLine ==
    /\ InLoop("print")
    /\ listing' = Append(listing,
           [label |-> d.has_label, org |-> d.has_org, addr |-> addr,
            instr |-> Rendered(d.alts[1]), comment |-> Rendered(d.alts[2])])
    /\ addr' = addr + 1
    /\ UNCHANGED <<pc, words, index, ad, type>>

PrintLinesEnd ==
    /\ pc = "print" /\ addr = Length
    /\ pc' = "done"
    /\ UNCHANGED <<words, index, addr, ad, type, listing>>

Terminated == pc \in {"done", "crashed"} /\ UNCHANGED vars

Next ==
    \/ Decode \/ Classify \/ ClassifyNull \/ PrintLine \/ NextLoop \/ PrintLinesEnd
    \/ Terminated

Spec == Init /\ [][Next]_vars

-----------------------------------------------------------------------------
(* Properties.                                                               *)

(* The type invariant.                                                       *)
Reads == [instr : Instructions \cup {"NUM"}, opr_effective : Word]
Entry == [w : Word, operand : 0 .. OperandSpan - 1, data : 0 .. DataSpan - 1,
          instrs : Seq(Instructions), alts : Seq(Reads),
          has_label : BOOLEAN, has_org : BOOLEAN]

Rendering == [m : Instructions \cup {"NUM"}, operands : Seq(Word)]
Line == [label : BOOLEAN, org : BOOLEAN, addr : Nat,
         instr : Rendering, comment : Rendering]

TypeOK ==
    /\ pc \in {"decode", "classify", "print", "done", "crashed"}
    /\ words \in Segments /\ index \in Indexes
    /\ addr \in 0 .. Length
    /\ ad \in [DOMAIN words -> Entry]
    /\ type \in {"DATA", "INSTR"}
    /\ listing \in Seq(Line)

(* Whatever disassemble_section() takes a word for, the line it prints for   *)
(* it is one that bas assembles to that word.                                *)
Encoding(line) ==
    WordFor(line.m, IF line.operands = <<>> THEN 0 ELSE line.operands[1])

LinesEncode ==
    \A i \in DOMAIN listing : Encoding(listing[i].instr) = words[i - 1]

(* disassemble_section() fails for words of opcode 5 only.  In particular it *)
(* does no harm that the number of mnemonics it asks for is not that of the  *)
(* word in hand but of the first word of the segment: a first word that has  *)
(* none is not gone past.                                                    *)
OnlyAliasCrashes == pc = "crashed" => OpcodeOf(words[addr]) = OP_SUB_ALIAS
=============================================================================
