------------------------- MODULE DisassemblerProofs -------------------------
(* Theorems of the disassembler and of what its listing means, for every     *)
(* word width, segment and index of mnemonics.                               *)
EXTENDS Reassembly, SequenceTheorems, FiniteSetTheorems, WellFoundedInduction, TLAPS

-----------------------------------------------------------------------------
(* Words and their fields.                                                   *)

LEMMA RemainderBound ==
    ASSUME NEW n \in Nat, NEW k \in Nat \ {0}
    PROVE  n % k \in 0 .. k - 1
  OBVIOUS

LEMMA ProductPositive ==
    ASSUME NEW a \in Nat \ {0}, NEW b \in Nat \ {0}
    PROVE  a * b \in Nat \ {0}
  OBVIOUS

LEMMA Division ==
    ASSUME NEW n \in Nat, NEW k \in Nat \ {0}
    PROVE  n \div k \in Nat /\ n = (k * (n \div k)) + (n % k)
  OBVIOUS

(* A quotient is small when the dividend is.                                 *)
LEMMA QuotientBound ==
    ASSUME NEW n \in Nat, NEW k \in Nat \ {0}, NEW q \in Nat, n < q * k
    PROVE  n \div k < q
  OBVIOUS

LEMMA SmallRemainder ==
    ASSUME NEW k \in Nat \ {0}, NEW r \in 0 .. k - 1
    PROVE  r % k = r
  OBVIOUS

LEMMA WordsAre ==
    /\ OperandSpan \in Nat \ {0} /\ DataSpan \in Nat \ {0}
    /\ 8 * OperandSpan \in Nat \ {0}
    /\ Modulus = DataSpan * (8 * OperandSpan)
    /\ Word \subseteq Nat
<1>1. OperandSpan \in Nat \ {0} /\ DataSpan \in Nat \ {0}
  BY WordsAssumption
<1>2. 8 * OperandSpan \in Nat \ {0}
  BY <1>1
<1>3. Modulus = DataSpan * (8 * OperandSpan)
  BY <1>1, <1>2 DEF Modulus
<1>. QED
  BY <1>1, <1>2, <1>3 DEF Word

(* The fields of a word, and that without data they make up the word.        *)
LEMMA Fields ==
    ASSUME NEW w \in Word
    PROVE  /\ OperandOf(w) \in 0 .. OperandSpan - 1
           /\ DataOf(w) \in 0 .. DataSpan - 1
           /\ DataOf(w) = 0 => w = OpcodeOf(w) * OperandSpan + OperandOf(w)
<1>. DEFINE S == OperandSpan
<1>. USE WordsAre
<1>1. w \in Nat /\ w < DataSpan * (8 * S)
  BY DEF Word
<1>2. OperandOf(w) \in 0 .. S - 1
  BY <1>1, RemainderBound DEF OperandOf
<1>3. DataOf(w) \in Nat /\ DataOf(w) < DataSpan
  BY <1>1, Division, QuotientBound DEF DataOf
<1>4. ASSUME DataOf(w) = 0
      PROVE  w = OpcodeOf(w) * S + OperandOf(w)
  <2>1. w < 8 * S
    <3>1. w = ((8 * S) * DataOf(w)) + (w % (8 * S))
      BY <1>1, Division DEF DataOf
    <3>2. w % (8 * S) < 8 * S
      BY <1>1, RemainderBound
    <3>. QED
      BY <3>1, <3>2, <1>4, <1>1
  <2>2. w \div S \in Nat /\ w = (S * (w \div S)) + (w % S)
    BY <1>1, Division
  <2>3. w \div S < 8
    BY <1>1, <2>1, QuotientBound
  <2>4. OpcodeOf(w) = w \div S
    BY <2>2, <2>3 DEF OpcodeOf
  <2>. QED
    BY <2>2, <2>4 DEF OperandOf
<1>. QED
  BY <1>2, <1>3, <1>4

-----------------------------------------------------------------------------
(* What loops over.                                                          *)

LEMMA SegmentShape ==
    ASSUME words \in Segments
    PROVE  Length \in Nat /\ words \in [0 .. Length - 1 -> Word]
  BY DisassemblerAssumption DEF Length

(* What arch_find_opcode() returns has the opcode asked for.                 *)
LEMMA FoundHaveOpcode ==
    ASSUME NEW array \in Indexes, NEW opcode,
           NEW found \in arch_find_opcode(array, opcode, 2)
    PROVE  /\ found \in Seq(Instructions)
           /\ \A i \in DOMAIN found : OpcodeFor(found[i]) = opcode
<1>1. IsIndex(array)
  BY DisassemblerAssumption
<1>2. array \in [1 .. 11 -> Mnemonics]
  BY <1>1 DEF IsIndex, Alphabetical
<1>3. array \in Seq(Mnemonics) /\ Len(array) = 11 /\ DOMAIN array = 1 .. 11
  <2>1. 11 \in Nat
    OBVIOUS
  <2>2. array \in Seq(Mnemonics)
    BY <2>1, <1>2, SeqDef
  <2>3. Len(array) = 11
    BY <2>2, <1>2, <2>1, LenProperties
  <2>. QED
    BY <2>2, <2>3, <1>2
<1>4. CASE Hits(array, opcode) = {}
  BY <1>4 DEF arch_find_opcode
<1>5. CASE Hits(array, opcode) # {}
  <2>1. PICK run \in Hits(array, opcode) \X DOMAIN array :
             /\ run[1] <= run[2]
             /\ StopsAfter(array, opcode, run[1], run[2], 2)
             /\ found = SubSeq(array, run[1], run[2])
    BY <1>5 DEF arch_find_opcode
  <2>. DEFINE first == run[1]
              last == run[2]
  <2>2. first \in 1 .. 11 /\ last \in 1 .. 11 /\ first <= last
    BY <2>1, <1>3 DEF Hits
  <2>3. /\ Len(found) = last - first + 1
        /\ DOMAIN found = 1 .. last - first + 1
        /\ \A i \in 1 .. last - first + 1 : found[i] = array[first + i - 1]
        /\ found \in Seq(Mnemonics)
    <3>1. found = SubSeq(array, first, last)
      BY <2>1
    <3>. HIDE DEF first, last
    <3>2. \A i \in first .. last : array[i] \in Mnemonics
      BY <1>2, <2>2
    <3>3. /\ found \in Seq(Mnemonics)
          /\ Len(found) = last - first + 1
          /\ \A i \in 1 .. last - first + 1 : found[i] = array[first + i - 1]
      BY <3>1, <3>2, <2>2, SubSeqProperties
    <3>. QED
      BY <3>3
  <2>4. \A k \in first .. last : HasOpcode(array[k], opcode)
    BY <2>1 DEF StopsAfter
  <2>5. ASSUME NEW i \in DOMAIN found PROVE HasOpcode(found[i], opcode)
    <3>. HIDE DEF first, last
    <3>1. first + i - 1 \in first .. last
      BY <2>2, <2>3
    <3>2. found[i] = array[first + i - 1]
      BY <2>3
    <3>. QED
      BY <3>1, <3>2, <2>4
  <2>. QED
    BY <2>3, <2>5 DEF HasOpcode
<1>. QED
  BY <1>4, <1>5

(* No two neighbours in the alphabet are aliases, so every mnemonic is the   *)
(* first of its opcode.                                                      *)
LEMMA NoNeighbours ==
    ASSUME NEW i \in DOMAIN Alphabetical, i > 1
    PROVE  ~Aliases(Alphabetical[i], Alphabetical[i - 1])
<1>1. i \in {2, 3, 4, 5, 6, 7, 8, 9, 10, 11}
  BY DEF Alphabetical
<1>. USE DEF Aliases, Alphabetical, Instructions, OpcodeFor, OP_JMP, OP_JRP,
         OP_SUB, OP_LDN, OP_STO, OP_SKN, OP_HLT
<1>2. CASE i = 2
  BY <1>2
<1>3. CASE i = 3
  BY <1>3
<1>4. CASE i = 4
  BY <1>4
<1>5. CASE i = 5
  BY <1>5
<1>6. CASE i = 6
  BY <1>6
<1>7. CASE i = 7
  BY <1>7
<1>8. CASE i = 8
  BY <1>8
<1>9. CASE i = 9
  BY <1>9
<1>10. CASE i = 10
  BY <1>10
<1>11. CASE i = 11
  BY <1>11
<1>. QED
  BY <1>1, <1>2, <1>3, <1>4, <1>5, <1>6, <1>7, <1>8, <1>9, <1>10, <1>11

LEMMA SubOrdersAreZero == SubOrder = [i \in DOMAIN Alphabetical |-> 0]
<1>. DEFINE D == DOMAIN Alphabetical
            Rec(f) == f = [i \in D |->
                        IF i > 1 /\ Aliases(Alphabetical[i], Alphabetical[i - 1])
                          THEN f[i - 1] + 1 ELSE 0]
<1>1. ASSUME NEW f PROVE Rec(f) <=> f = [i \in D |-> 0]
  BY NoNeighbours
<1>2. SubOrder = CHOOSE f : Rec(f)
  BY DEF SubOrder
<1>. HIDE DEF Rec, D
<1>3. \E f : Rec(f)
  BY <1>1
<1>4. Rec(SubOrder)
  BY <1>2, <1>3
<1>. QED
  BY <1>1, <1>4 DEF D

LEMMA OrdersAreZero ==
    ASSUME NEW n \in Mnemonics
    PROVE  OrderOf(n) = 0
<1>1. \E i \in DOMAIN Alphabetical : Alphabetical[i] = n
  <2>1. DOMAIN Alphabetical = 1 .. 11
    BY DEF Alphabetical
  <2>. QED
    BY <2>1 DEF Mnemonics, Instructions, Directives, Alphabetical
<1>2. (CHOOSE i \in DOMAIN Alphabetical : Alphabetical[i] = n) \in DOMAIN Alphabetical
  BY <1>1
<1>. QED
  BY <1>2, SubOrdersAreZero DEF OrderOf

(* An index has every mnemonic.                                              *)
LEMMA IndexIsComplete ==
    ASSUME NEW array \in Indexes, NEW n \in Mnemonics
    PROVE  \E k \in 1 .. 11 : array[k] = n
<1>1. DOMAIN Alphabetical = 1 .. 11 /\ Alphabetical \in [1 .. 11 -> Mnemonics]
  BY DEF Alphabetical, Mnemonics, Instructions, Directives
<1>2. Alphabetical \in Surjection(1 .. 11, Mnemonics)
  <2>1. \A t \in Mnemonics : \E s \in 1 .. 11 : Alphabetical[s] = t
    BY DEF Alphabetical, Mnemonics, Instructions, Directives
  <2>. QED
    BY <1>1, <2>1 DEF Surjection
<1>3. IsFiniteSet(1 .. 11) /\ Cardinality(1 .. 11) = 11
  <2>1. 1 \in Int /\ 11 \in Int /\ ~(1 > 11) /\ 11 - 1 + 1 = 11
    OBVIOUS
  <2>2. /\ IsFiniteSet(1 .. 11)
        /\ Cardinality(1 .. 11) = IF 1 > 11 THEN 0 ELSE 11 - 1 + 1
    BY ONLY <2>1, FS_Interval
  <2>. QED
    BY <2>1, <2>2
<1>4. IsFiniteSet(Mnemonics) /\ Cardinality(Mnemonics) <= 11
  BY <1>2, <1>3, FS_Surjection
<1>5. array \in Injection(1 .. 11, Mnemonics)
  <2>1. IsIndex(array)
    BY DisassemblerAssumption
  <2>2. array \in [1 .. 11 -> Mnemonics]
    BY <2>1, <1>1 DEF IsIndex
  <2>3. \A j, k \in 1 .. 11 : j < k => array[j] # array[k]
    BY <2>1, <2>2 DEF IsIndex
  <2>4. \A j, k \in 1 .. 11 : array[j] = array[k] => j = k
    <3>1. \A j, k \in 1 .. 11 : j < k \/ k < j \/ j = k
      OBVIOUS
    <3>. QED
      BY <2>3, <3>1
  <2>. QED
    BY <2>2, <2>4 DEF Injection, IsInjective
<1>6. 11 <= Cardinality(Mnemonics)
  BY <1>3, <1>4, <1>5, FS_Injection
<1>7. Cardinality(Mnemonics) \in Nat
  BY <1>4, FS_CardinalityType
<1>8. array \in Surjection(1 .. 11, Mnemonics)
  <2>1. Cardinality(1 .. 11) = Cardinality(Mnemonics)
    BY <1>3, <1>4, <1>6, <1>7
  <2>. QED
    BY <2>1, <1>4, <1>5, FS_Injection
<1>. QED
  BY <1>8 DEF Surjection

(* So every opcode but the second one of SUB is found.                       *)
LEMMA OpcodesAreFound ==
    ASSUME NEW array \in Indexes, NEW opcode \in 0 .. 7, opcode # OP_SUB_ALIAS
    PROVE  <<>> \notin arch_find_opcode(array, opcode, 2)
<1>1. \E n \in Instructions : OpcodeFor(n) = opcode
  <2>. USE DEF Instructions, OpcodeFor, OP_JMP, OP_JRP, OP_SUB, OP_LDN, OP_STO,
           OP_SKN, OP_HLT, OP_SUB_ALIAS
  <2>1. opcode \in {0, 1, 2, 3, 4, 6, 7}
    OBVIOUS
  <2>2. /\ OpcodeFor("JMP") = 0 /\ OpcodeFor("JRP") = 1 /\ OpcodeFor("LDN") = 2
        /\ OpcodeFor("STO") = 3 /\ OpcodeFor("SUB") = 4 /\ OpcodeFor("SKN") = 6
        /\ OpcodeFor("HLT") = 7
    OBVIOUS
  <2>3. {"JMP", "JRP", "LDN", "STO", "SUB", "SKN", "HLT"} \subseteq Instructions
    OBVIOUS
  <2>. QED
    BY ONLY <2>1, <2>2, <2>3
<1>2. PICK n \in Instructions : OpcodeFor(n) = opcode
  BY <1>1
<1>3. n \in Mnemonics
  BY DEF Mnemonics
<1>4. PICK k \in 1 .. 11 : array[k] = n
  BY <1>3, IndexIsComplete
<1>5. DOMAIN array = 1 .. 11 /\ array \in [1 .. 11 -> Mnemonics]
  BY DisassemblerAssumption DEF IsIndex, Alphabetical
<1>6. k \in Hits(array, opcode)
  BY <1>2, <1>3, <1>4, <1>5, OrdersAreZero DEF Hits, HasOpcode
<1>7. ASSUME NEW first \in 1 .. 11, NEW last \in 1 .. 11, first <= last
      PROVE  SubSeq(array, first, last) # <<>>
  <2>1. \A i \in first .. last : array[i] \in Mnemonics
    BY <1>5
  <2>2. Len(SubSeq(array, first, last)) = last - first + 1
    BY <1>7, <2>1, SubSeqProperties
  <2>3. last - first + 1 # 0
    BY <1>7
  <2>4. Len(<<>>) = 0
    OBVIOUS
  <2>. QED
    BY ONLY <2>2, <2>3, <2>4
<1>. QED
  BY <1>5, <1>6, <1>7 DEF arch_find_opcode, Hits

-----------------------------------------------------------------------------
(* The inductive invariant: what each loop has done to the words it has been *)
(* over, and that past the first word that word has a mnemonic.              *)

Decoded(a) ==
    /\ ad[a].w = words[a]
    /\ ad[a].operand = OperandOf(words[a])
    /\ ad[a].data = DataOf(words[a])
    /\ \A i \in DOMAIN ad[a].instrs :
           OpcodeFor(ad[a].instrs[i]) = OpcodeOf(words[a])
    /\ ad[a].instrs = <<>> => OpcodeOf(words[a]) = OP_SUB_ALIAS

DecodedInv ==
    \A a \in DOMAIN words : (pc = "decode" => a < addr) => Decoded(a)

FirstInv ==
    (pc \in {"print", "done"} \/ (pc = "classify" /\ addr > 0))
    /\ 0 \in DOMAIN words => Len(ad[0].instrs) > 0

Classified(a) == pc \in {"print", "done"} \/ (pc = "classify" /\ a < addr)

AltsInv ==
    \A a \in DOMAIN words : Classified(a) =>
        /\ Len(ad[a].alts) = 2
        /\ Encoding(Rendered(ad[a].alts[1])) = words[a]

ListingInv ==
    /\ pc \notin {"print", "done"} => Len(listing) = 0
    /\ pc = "print" => Len(listing) = addr
    /\ LinesEncode

CrashInv == pc = "crashed" => addr \in DOMAIN words /\ ad[addr].instrs = <<>>

Inv == TypeOK /\ DecodedInv /\ FirstInv /\ AltsInv /\ ListingInv /\ CrashInv

(* What the word in hand is made of.                                         *)
LEMMA InHand ==
    ASSUME TypeOK, NEW loop, InLoop(loop)
    PROVE  /\ addr \in DOMAIN words /\ 0 \in DOMAIN words
           /\ addr + 1 \in 0 .. Length
           /\ words[addr] \in Word
           /\ d \in Entry
           /\ DOMAIN words = 0 .. Length - 1 /\ Length \in Nat
<1>1. Length \in Nat /\ words \in [0 .. Length - 1 -> Word]
  BY SegmentShape DEF TypeOK
<1>2. addr \in 0 .. Length /\ addr < Length
  BY DEF TypeOK, InLoop
<1>3. addr \in 0 .. Length - 1
  BY <1>1, <1>2
<1>. QED
  BY <1>1, <1>2, <1>3 DEF TypeOK, d

(* The first mnemonic found is an instruction.                               *)
LEMMA FirstMnemonic ==
    ASSUME d \in Entry, d.instrs # <<>>
    PROVE  m \in Instructions /\ m = d.instrs[1] /\ 1 \in DOMAIN d.instrs
<1>1. d.instrs \in Seq(Instructions)
  BY DEF Entry
<1>. QED
  BY <1>1 DEF m

(* Both readings of a word are well typed.                                   *)
LEMMA ReadingType ==
    ASSUME d \in Entry, d.instrs # <<>>, NEW t \in {"DATA", "INSTR"}
    PROVE  Reading(t) \in Reads /\ Opposite(t) \in {"DATA", "INSTR"}
<1>1. \A n \in 0 .. OperandSpan - 1 : n \in Word
  <2>1. OperandSpan <= DataSpan * (8 * OperandSpan)
    <3>1. ASSUME NEW a \in Nat \ {0}, NEW b \in Nat \ {0}
          PROVE  b <= a * b
      OBVIOUS
    <3>2. 8 * OperandSpan <= DataSpan * (8 * OperandSpan)
      BY <3>1, WordsAre
    <3>. QED
      BY <3>2, WordsAre, ProductPositive
  <2>. QED
    BY <2>1, WordsAre, ProductPositive DEF Word
<1>2. d.w \in Word /\ d.operand \in Word
  BY <1>1 DEF Entry
<1>3. Opposite(t) \in {"DATA", "INSTR"}
  BY DEF Opposite
<1>. QED
  BY <1>2, <1>3, FirstMnemonic DEF Reading, Reads

LEMMA RenderedType ==
    ASSUME NEW a \in Reads
    PROVE  Rendered(a) \in Rendering
<1>1. a.opr_effective \in Word
  BY DEF Reads
<1>2. <<a.opr_effective>> \in Seq(Word) /\ <<>> \in Seq(Word)
  BY <1>1
<1>. QED
  BY <1>2 DEF Reads, Rendered, Rendering

(* The line of the reading decided for encodes the word.                     *)
LEMMA ReadingEncodes ==
    ASSUME TypeOK, InLoop("classify"), d.instrs # <<>>, DecodedInv, FirstInv
    PROVE  Encoding(Rendered(Reading(IF LooksLikeData THEN "DATA" ELSE "INSTR")))
             = words[addr]
<1>. DEFINE w == words[addr]
<1>1. w \in Word /\ d \in Entry /\ addr \in Nat
  BY InHand, WordsAre DEF TypeOK
<1>2. Decoded(addr)
  BY InHand DEF DecodedInv, InLoop
<1>3. d.w = w /\ d.operand = OperandOf(w) /\ d.data = DataOf(w)
  BY <1>2 DEF Decoded, d
<1>4. CASE LooksLikeData
  <2>1. Reading("DATA") = [instr |-> "NUM", opr_effective |-> w]
    BY <1>3 DEF Reading
  <2>2. Rendered(Reading("DATA")) = [m |-> "NUM", operands |-> <<w>>]
    BY <2>1 DEF Rendered, TakesOperand
  <2>3. Encoding([m |-> "NUM", operands |-> <<w>>]) = w
    BY DEF Encoding, WordFor
  <2>. QED
    BY <2>2, <2>3, <1>4
<1>5. CASE ~LooksLikeData
  <2>1. m \in Instructions /\ OpcodeFor(m) = OpcodeOf(w)
    BY <1>1, <1>2, FirstMnemonic DEF Decoded, d
  <2>2. Len(ad[0].instrs) > 0
    <3>1. CASE addr = 0
      <4>1. d.instrs \in Seq(Instructions)
        BY <1>1 DEF Entry
      <4>2. Len(d.instrs) > 0
        BY <4>1
      <4>. QED
        BY <4>2, <3>1 DEF d
    <3>2. CASE addr # 0
      <4>1. 0 \in DOMAIN words
        BY InHand
      <4>. QED
        BY <3>2, <4>1, <1>1 DEF FirstInv, InLoop
    <3>. QED
      BY <3>1, <3>2
  <2>3. DataOf(w) = 0 /\ (TakesOperand(m) \/ OperandOf(w) = 0)
    BY <1>5, <2>2, <1>3 DEF LooksLikeData
  <2>4. w = OpcodeOf(w) * OperandSpan + OperandOf(w)
    BY <1>1, <2>3, Fields
  <2>5. OperandOf(OperandOf(w)) = OperandOf(w)
    BY <1>1, Fields, SmallRemainder, WordsAre DEF OperandOf
  <2>6. Reading("INSTR") = [instr |-> m, opr_effective |-> OperandOf(w)]
    BY <1>3 DEF Reading
  <2>7. m # "NUM" /\ m # "EJA"
    BY <2>1 DEF Instructions
  <2>8. WordFor(m, IF TakesOperand(m) THEN OperandOf(w) ELSE 0) = w
    <3>1. WordFor(m, OperandOf(w)) = OpcodeFor(m) * OperandSpan
             + (IF TakesOperand(m) THEN OperandOf(OperandOf(w)) ELSE 0)
      BY <2>7 DEF WordFor
    <3>2. CASE TakesOperand(m)
      BY <3>1, <3>2, <2>1, <2>4, <2>5
    <3>3. CASE ~TakesOperand(m)
      BY <3>1, <3>3, <2>1, <2>3, <2>4
    <3>. QED
      BY <3>2, <3>3
  <2>9. Rendered(Reading("INSTR"))
          = [m |-> m, operands |-> IF TakesOperand(m) THEN <<OperandOf(w)>> ELSE <<>>]
    BY <2>6 DEF Rendered
  <2>10. Encoding(Rendered(Reading("INSTR")))
           = WordFor(m, IF TakesOperand(m) THEN OperandOf(w) ELSE 0)
    BY <2>9 DEF Encoding
  <2>. QED
    BY <2>8, <2>10, <1>5
<1>. QED
  BY <1>4, <1>5

-----------------------------------------------------------------------------
(* The steps.                                                                *)

LEMMA InitInv == Init => Inv
<1> SUFFICES ASSUME Init PROVE Inv
  OBVIOUS
<1>1. Length \in Nat /\ words \in [0 .. Length - 1 -> Word]
  BY SegmentShape DEF Init
<1>2. Blank \in Entry
  <2>1. 0 \in Word /\ 0 \in 0 .. OperandSpan - 1 /\ 0 \in 0 .. DataSpan - 1
    BY WordsAre, ProductPositive DEF Word
  <2>2. <<>> \in Seq(Instructions) /\ <<>> \in Seq(Reads)
    OBVIOUS
  <2>. QED
    BY <2>1, <2>2 DEF Blank, Entry
<1>3. TypeOK
  BY <1>1, <1>2 DEF Init, TypeOK
<1>4. listing = <<>> /\ pc = "decode" /\ addr = 0
  BY DEF Init
<1>5. DecodedInv
  BY <1>1, <1>4 DEF DecodedInv
<1>6. FirstInv /\ AltsInv /\ ListingInv
  BY <1>4 DEF FirstInv, AltsInv, Classified, ListingInv, LinesEncode
<1>. QED
  BY <1>3, <1>4, <1>5, <1>6 DEF Inv, CrashInv

LEMMA DecodeKeeps == Inv /\ Decode => Inv'
<1> SUFFICES ASSUME Inv, Decode PROVE Inv'
  OBVIOUS
<1>1. /\ addr \in DOMAIN words /\ words[addr] \in Word /\ d \in Entry
      /\ addr + 1 \in 0 .. Length /\ DOMAIN words \subseteq Nat
  BY InHand DEF Inv, Decode
<1>2. TypeOK /\ addr \in Nat
  BY <1>1 DEF Inv
<1>3. PICK instrs \in arch_find_opcode(index, OpcodeOf(words[addr]), 2) :
        ad' = [ad EXCEPT ![addr] =
                 [@ EXCEPT !.w = words[addr],
                           !.operand = OperandOf(words[addr]),
                           !.data = DataOf(words[addr]),
                           !.instrs = instrs]]
  BY DEF Decode
<1>4. /\ instrs \in Seq(Instructions)
      /\ \A i \in DOMAIN instrs : OpcodeFor(instrs[i]) = OpcodeOf(words[addr])
      /\ instrs = <<>> => OpcodeOf(words[addr]) = OP_SUB_ALIAS
  <2>1. OpcodeOf(words[addr]) \in 0 .. 7
    <3>1. \A n \in Nat : n % 8 \in 0 .. 7
      OBVIOUS
    <3>2. words[addr] \div OperandSpan \in Nat
      BY <1>1, WordsAre, Division
    <3>. QED
      BY <3>1, <3>2 DEF OpcodeOf
  <2>2. index \in Indexes
    BY <1>2 DEF TypeOK
  <2>. QED
    BY <1>3, <2>1, <2>2, FoundHaveOpcode, OpcodesAreFound
<1>5. pc = "decode" /\ addr' = addr + 1
      /\ UNCHANGED <<pc, words, index, type, listing>>
  BY DEF Decode, InLoop
<1>6. ad' \in [DOMAIN words -> Entry]
  <2>1. ad \in [DOMAIN words -> Entry]
    BY <1>2 DEF TypeOK
  <2>2. /\ OperandOf(words[addr]) \in 0 .. OperandSpan - 1
        /\ DataOf(words[addr]) \in 0 .. DataSpan - 1
    BY <1>1, Fields
  <2>3. [d EXCEPT !.w = words[addr], !.operand = OperandOf(words[addr]),
                  !.data = DataOf(words[addr]), !.instrs = instrs] \in Entry
    BY <1>1, <1>4, <2>2 DEF Entry
  <2>. QED
    BY <1>1, <1>3, <2>1, <2>3 DEF d
<1>7. TypeOK'
  BY <1>1, <1>2, <1>5, <1>6 DEF TypeOK, Length
<1>8. ASSUME NEW a \in DOMAIN words, a < addr + 1
      PROVE  Decoded(a)'
  <2>1. CASE a = addr
    <3>1. ad[addr] \in Entry
      BY <1>1 DEF d
    <3>2. /\ ad'[addr].w = words[addr]
          /\ ad'[addr].operand = OperandOf(words[addr])
          /\ ad'[addr].data = DataOf(words[addr])
          /\ ad'[addr].instrs = instrs
      BY <1>1, <1>2, <1>3, <3>1 DEF TypeOK, Entry
    <3>. QED
      BY <2>1, <3>2, <1>4, <1>5 DEF Decoded
  <2>2. CASE a # addr
    <3>1. a < addr
      BY <1>1, <1>2, <1>8, <2>2
    <3>2. Decoded(a)
      BY <3>1 DEF Inv, DecodedInv
    <3>3. ad'[a] = ad[a]
      BY <1>2, <1>3, <2>2 DEF TypeOK
    <3>. QED
      BY <3>2, <3>3, <1>5 DEF Decoded
  <2>. QED
    BY <2>1, <2>2
<1>9. DecodedInv'
  BY <1>5, <1>8 DEF DecodedInv
<1>10. FirstInv' /\ AltsInv' /\ ListingInv' /\ CrashInv'
  BY <1>5 DEF Inv, CrashInv, FirstInv, AltsInv, Classified, ListingInv, LinesEncode
<1>. QED
  BY <1>7, <1>9, <1>10 DEF Inv

LEMMA ClassifyKeeps == Inv /\ Classify => Inv'
<1> SUFFICES ASSUME Inv, Classify PROVE Inv'
  OBVIOUS
<1>. DEFINE t == IF LooksLikeData THEN "DATA" ELSE "INSTR"
            alts == <<Reading(t), Reading(Opposite(t))>>
            entry == [d EXCEPT !.alts = alts, !.has_label = (addr = 1),
                               !.has_org = (addr = 1 \/ t # type)]
<1>1. /\ addr \in DOMAIN words /\ d \in Entry /\ d.instrs # <<>>
      /\ addr + 1 \in 0 .. Length /\ DOMAIN words \subseteq Nat
      /\ 0 \in DOMAIN words
  BY InHand DEF Inv, Classify
<1>2. TypeOK /\ addr \in Nat
  BY <1>1 DEF Inv
<1>3. pc = "classify" /\ addr' = addr + 1 /\ type' = t
      /\ ad' = [ad EXCEPT ![addr] = entry]
      /\ UNCHANGED <<pc, words, index, listing>>
  BY DEF Classify, InLoop, d
<1>4. t \in {"DATA", "INSTR"} /\ alts \in Seq(Reads) /\ Len(alts) = 2
      /\ alts[1] = Reading(t)
  <2>1. t \in {"DATA", "INSTR"}
    OBVIOUS
  <2>. HIDE DEF t
  <2>2. Reading(t) \in Reads /\ Reading(Opposite(t)) \in Reads
    BY <1>1, <2>1, ReadingType
  <2>. QED
    BY <2>1, <2>2
<1>5. Encoding(Rendered(Reading(t))) = words[addr]
  BY ReadingEncodes, <1>1 DEF Inv, Classify
<1>. HIDE DEF t, alts
<1>6. /\ entry \in Entry /\ entry.instrs = d.instrs /\ entry.alts = alts
      /\ entry.w = d.w /\ entry.operand = d.operand /\ entry.data = d.data
  BY <1>1, <1>4 DEF Entry
<1>. HIDE DEF entry
<1>7. ad \in [DOMAIN words -> Entry] /\ ad' \in [DOMAIN words -> Entry]
      /\ ad'[addr] = entry
      /\ \A a \in DOMAIN words \ {addr} : ad'[a] = ad[a]
  BY <1>1, <1>2, <1>3, <1>6 DEF TypeOK
<1>8. TypeOK'
  BY <1>1, <1>2, <1>3, <1>4, <1>7 DEF TypeOK, Length
<1>9. DecodedInv'
  <2> SUFFICES ASSUME NEW a \in DOMAIN words PROVE Decoded(a)'
    BY <1>3 DEF DecodedInv
  <2>1. Decoded(a)
    BY <1>3 DEF Inv, DecodedInv
  <2>2. ad'[a].w = ad[a].w /\ ad'[a].operand = ad[a].operand
        /\ ad'[a].data = ad[a].data /\ ad'[a].instrs = ad[a].instrs
    BY <1>6, <1>7 DEF d
  <2>. QED
    BY <1>3, <2>1, <2>2 DEF Decoded
<1>10. FirstInv'
  <2>1. Len(ad[0].instrs) > 0
    <3>1. CASE addr = 0
      <4>1. d.instrs \in Seq(Instructions)
        BY <1>1 DEF Entry
      <4>. QED
        BY <4>1, <3>1, <1>1 DEF d
    <3>2. CASE addr # 0
      BY <3>2, <1>1, <1>2, <1>3 DEF Inv, FirstInv
    <3>. QED
      BY <3>1, <3>2
  <2>2. ad'[0].instrs = ad[0].instrs
    BY <1>1, <1>6, <1>7 DEF d
  <2>. QED
    BY <2>1, <2>2 DEF FirstInv
<1>11. AltsInv'
  <2> SUFFICES ASSUME NEW a \in DOMAIN words, a < addr + 1
               PROVE  /\ Len(ad'[a].alts) = 2
                      /\ Encoding(Rendered(ad'[a].alts[1])) = words[a]
    BY <1>3 DEF AltsInv, Classified, Encoding, Rendered
  <2>1. CASE a = addr
    BY <2>1, <1>4, <1>5, <1>6, <1>7
  <2>2. CASE a # addr
    <3>1. Classified(a)
      BY <1>1, <1>2, <1>3, <2>2 DEF Classified
    <3>. QED
      BY <3>1, <2>2, <1>7 DEF Inv, AltsInv
  <2>. QED
    BY <2>1, <2>2
<1>12. ListingInv' /\ CrashInv'
  BY <1>3 DEF Inv, CrashInv, ListingInv, LinesEncode
<1>. QED
  BY <1>8, <1>9, <1>10, <1>11, <1>12 DEF Inv

LEMMA PrintKeeps == Inv /\ PrintLine => Inv'
<1> SUFFICES ASSUME Inv, PrintLine PROVE Inv'
  OBVIOUS
<1>. DEFINE line == [label |-> d.has_label, org |-> d.has_org, addr |-> addr,
                     instr |-> Rendered(d.alts[1]),
                     comment |-> Rendered(d.alts[2])]
<1>1. /\ addr \in DOMAIN words /\ d \in Entry
      /\ addr + 1 \in 0 .. Length /\ DOMAIN words \subseteq Nat
  BY InHand DEF Inv, PrintLine
<1>2. TypeOK /\ addr \in Nat /\ Len(listing) = addr /\ LinesEncode
  BY <1>1 DEF Inv, ListingInv, PrintLine, InLoop
<1>3. pc = "print" /\ addr' = addr + 1 /\ listing' = Append(listing, line)
      /\ UNCHANGED <<pc, words, index, ad, type>>
  BY DEF PrintLine, InLoop
<1>4. Len(d.alts) = 2 /\ Encoding(Rendered(d.alts[1])) = words[addr]
  BY <1>1, <1>3 DEF Inv, AltsInv, Classified, d
<1>5. line \in Line
  <2>1. d.alts \in Seq(Reads)
    BY <1>1 DEF Entry
  <2>2. d.alts[1] \in Reads /\ d.alts[2] \in Reads
    BY <2>1, <1>4
  <2>3. Rendered(d.alts[1]) \in Rendering /\ Rendered(d.alts[2]) \in Rendering
    BY <2>2, RenderedType
  <2>. QED
    BY <2>3, <1>1, <1>2 DEF Line, Entry
<1>6. line.instr = Rendered(d.alts[1])
  OBVIOUS
<1>. HIDE DEF line
<1>7. /\ listing \in Seq(Line) /\ listing' \in Seq(Line)
      /\ Len(listing') = addr + 1 /\ listing'[addr + 1] = line
      /\ \A i \in 1 .. addr : listing'[i] = listing[i]
  BY <1>2, <1>3, <1>5 DEF TypeOK
<1>8. TypeOK'
  BY <1>1, <1>2, <1>3, <1>7 DEF TypeOK, Length
<1>9. LinesEncode'
  <2> SUFFICES ASSUME NEW i \in 1 .. addr + 1
               PROVE  Encoding(listing'[i].instr) = words[i - 1]
    BY <1>3, <1>7 DEF LinesEncode, Encoding
  <2>1. CASE i = addr + 1
    BY <2>1, <1>2, <1>4, <1>6, <1>7
  <2>2. CASE i # addr + 1
    BY <2>2, <1>2, <1>7 DEF LinesEncode
  <2>. QED
    BY <2>1, <2>2
<1>10. ListingInv' /\ CrashInv'
  BY <1>3, <1>7, <1>9 DEF ListingInv, CrashInv
<1>11. DecodedInv' /\ FirstInv' /\ AltsInv'
  BY <1>3 DEF Inv, DecodedInv, Decoded, FirstInv, AltsInv, Classified
<1>. QED
  BY <1>8, <1>10, <1>11 DEF Inv

LEMMA NextInv == Inv /\ [Next]_vars => Inv'
<1> SUFFICES ASSUME Inv, [Next]_vars PROVE Inv'
  OBVIOUS
<1>1. Length \in Nat /\ words \in [0 .. Length - 1 -> Word]
  BY SegmentShape DEF Inv, TypeOK
<1>2. ASSUME ClassifyNull PROVE Inv'
  <2>1. addr \in DOMAIN words
    BY <1>2, InHand DEF Inv, ClassifyNull
  <2>. QED
    BY <1>2, <2>1 DEF Inv, ClassifyNull, InLoop, TypeOK, Length, DecodedInv,
       Decoded, FirstInv, AltsInv, Classified, ListingInv, LinesEncode, CrashInv, d
<1>3. ASSUME NextLoop PROVE Inv'
  <2>1. TypeOK'
    BY <1>1, <1>3 DEF Inv, NextLoop, TypeOK, Length
  <2>2. DecodedInv'
    BY <1>1, <1>3 DEF Inv, NextLoop, DecodedInv, Decoded
  <2>3. FirstInv'
    <3>1. SUFFICES ASSUME 0 \in DOMAIN words, pc # "decode" PROVE Len(ad[0].instrs) > 0
      BY <1>3 DEF NextLoop, FirstInv
    <3>2. pc = "classify" /\ addr > 0
      BY <1>1, <1>3, <3>1 DEF NextLoop
    <3>. QED
      BY <3>1, <3>2 DEF Inv, FirstInv
  <2>4. AltsInv' /\ ListingInv' /\ CrashInv'
    BY <1>1, <1>3 DEF Inv, NextLoop, AltsInv, Classified, ListingInv,
       LinesEncode, CrashInv
  <2>. QED
    BY <2>1, <2>2, <2>3, <2>4 DEF Inv
<1>4. ASSUME PrintLinesEnd PROVE Inv'
  BY <1>4 DEF Inv, PrintLinesEnd, TypeOK, Length, DecodedInv, Decoded,
     FirstInv, AltsInv, Classified, ListingInv, LinesEncode, CrashInv
<1>5. ASSUME UNCHANGED vars PROVE Inv'
  BY <1>5 DEF Inv, vars, TypeOK, Length, DecodedInv, Decoded,
     FirstInv, AltsInv, Classified, ListingInv, LinesEncode, CrashInv
<1>. QED
  BY <1>2, <1>3, <1>4, <1>5, DecodeKeeps, ClassifyKeeps, PrintKeeps
     DEF Next, Terminated

LEMMA Invariant == Spec => []Inv
  BY InitInv, NextInv, PTL DEF Spec

(* Addresses stay in the segment, readings and lines are of mnemonics and    *)
(* words, in every reachable state.                                          *)
THEOREM TypeCorrect == Spec => []TypeOK
<1>1. Inv => TypeOK
  BY DEF Inv
<1>. QED
  BY <1>1, Invariant, PTL

(* Every line bdump prints encodes its word, for every word width, segment   *)
(* and order of aliases: no bit of the object file is lost in the listing.   *)
THEOREM EveryLineEncodes == Spec => []LinesEncode
<1>1. Inv => LinesEncode
  BY DEF Inv, ListingInv
<1>. QED
  BY <1>1, Invariant, PTL

(* bdump fails for words of opcode 5 only, in whatever order qsort() leaves  *)
(* the aliases: every other opcode is found in every index.                  *)
THEOREM OnlyAliasIsFatal == Spec => []OnlyAliasCrashes
<1>1. Inv => OnlyAliasCrashes
  BY DEF Inv, CrashInv, DecodedInv, Decoded, OnlyAliasCrashes
<1>. QED
  BY <1>1, Invariant, PTL

-----------------------------------------------------------------------------
(* What the listing means: sequences put together, addresses, and the        *)
(* meaning of a number.                                                      *)

(* Every nonempty set of numbers has a least one.                            *)
LEMMA LeastNumber ==
    ASSUME NEW T, T \subseteq Nat, T # {}
    PROVE  \E n \in T : \A k \in T : n <= k
<1>1. IsWellFoundedOn(OpToRel(<, Nat), Nat)
  BY NatLessThanWellFounded
<1>2. PICK n \in T : \A k \in T : ~(<<k, n>> \in OpToRel(<, Nat))
  BY <1>1, WFMin
<1>3. ASSUME NEW k \in T PROVE n <= k
  <2>1. ~(<<k, n>> \in OpToRel(<, Nat)) /\ <<k, n>> \in Nat \X Nat
    BY <1>2
  <2>2. ~(k < n)
    BY <2>1 DEF OpToRel
  <2>. QED
    BY <2>2
<1>. QED
  BY <1>3

(* Induction up to n, on a set of numbers.                                   *)
LEMMA UpTo ==
    ASSUME NEW n \in Nat, NEW T, 0 \in T,
           \A k \in 1 .. n : k - 1 \in T => k \in T
    PROVE  0 .. n \subseteq T
<1>. DEFINE U == {k \in 0 .. n : k \notin T}
<1>1. U = {}
  <2> SUFFICES ASSUME U # {} PROVE FALSE
    OBVIOUS
  <2>0. U \subseteq Nat
    OBVIOUS
  <2>. HIDE DEF U
  <2>1. PICK k \in U : \A j \in U : k <= j
    BY <2>0, LeastNumber
  <2>. USE DEF U
  <2>2. k \in 1 .. n /\ k - 1 \in 0 .. n /\ ~(k <= k - 1)
    OBVIOUS
  <2>3. k - 1 \in T
    BY <2>1, <2>2
  <2>. QED
    BY <2>2, <2>3
<1>. QED
  BY <1>1

(* A function can be defined by recursion up to n.                           *)
Iterations(A, n, a, G) ==
    {f \in [0 .. n -> A] : f[0] = a /\ \A i \in 1 .. n : f[i] = G[<<f[i - 1], i>>]}

LEMMA Iterated ==
    ASSUME NEW A, NEW n \in Nat, NEW a \in A, NEW G \in [A \X (1 .. n) -> A]
    PROVE  Iterations(A, n, a, G) # {}
<1>. DEFINE Until(k) == {f \in [0 .. k -> A] :
                            f[0] = a /\ \A i \in 1 .. k : f[i] = G[<<f[i - 1], i>>]}
            T == {k \in 0 .. n : Until(k) # {}}
<1>1. 0 \in T
  <2>1. [i \in 0 .. 0 |-> a] \in Until(0)
    OBVIOUS
  <2>. QED
    BY <2>1
<1>2. ASSUME NEW k \in 1 .. n, k - 1 \in T PROVE k \in T
  <2>1. PICK f \in [0 .. k - 1 -> A] :
           f[0] = a /\ \A i \in 1 .. k - 1 : f[i] = G[<<f[i - 1], i>>]
    BY <1>2
  <2>. DEFINE g == [i \in 0 .. k |-> IF i = k THEN G[<<f[k - 1], k>>] ELSE f[i]]
  <2>2. k - 1 \in 0 .. k - 1 /\ f[k - 1] \in A /\ <<f[k - 1], k>> \in A \X (1 .. n)
    BY <2>1
  <2>3. g \in [0 .. k -> A]
    <3>1. ASSUME NEW i \in 0 .. k PROVE g[i] \in A
      <4>1. i = k \/ i \in 0 .. k - 1
        OBVIOUS
      <4>. QED
        BY <2>1, <2>2, <4>1
    <3>. QED
      BY <3>1
  <2>4. g[0] = a /\ \A i \in 1 .. k : g[i] = G[<<g[i - 1], i>>]
    <3>1. 0 \in 0 .. k /\ 0 # k /\ g[0] = a
      BY <2>1
    <3>2. ASSUME NEW i \in 1 .. k PROVE g[i] = G[<<g[i - 1], i>>]
      <4>1. i - 1 \in 0 .. k /\ i - 1 # k /\ g[i - 1] = f[i - 1]
        OBVIOUS
      <4>2. i = k \/ (i \in 1 .. k - 1 /\ i # k /\ i \in 0 .. k)
        OBVIOUS
      <4>. QED
        BY <2>1, <4>1, <4>2
    <3>. QED
      BY <3>1, <3>2
  <2>. HIDE DEF g
  <2>5. g \in Until(k)
    BY <2>3, <2>4
  <2>6. k \in 0 .. n
    OBVIOUS
  <2>. HIDE DEF Until
  <2>. QED
    BY <2>5, <2>6
<1>3. n \in T
  <2>. HIDE DEF T
  <2>1. 0 .. n \subseteq T
    BY <1>1, <1>2, UpTo
  <2>. QED
    BY <2>1
<1>. QED
  BY <1>3 DEF Iterations

(* FlattenSeq puts sequences one after the other: where each ends, that its  *)
(* elements are there, and that there are no others.                         *)
Flatten(seqs, f) ==
    f = [i \in 1 .. Len(seqs) |-> IF i = 1 THEN seqs[i] ELSE f[i - 1] \o seqs[i]]

IsJoin(r, s, t) ==
    /\ Len(r) = Len(s) + Len(t)
    /\ \A p \in 1 .. Len(s) : r[p] = s[p]
    /\ \A j \in 1 .. Len(t) : r[Len(s) + j] = t[j]

LEMMA Joined ==
    ASSUME NEW S, NEW s \in Seq(S), NEW t \in Seq(S)
    PROVE  IsJoin(s \o t, s, t)
<1>1. Len(s) \in Nat /\ Len(t) \in Nat
  OBVIOUS
<1>2. /\ Len(s \o t) = Len(s) + Len(t)
      /\ \A i \in 1 .. Len(s) + Len(t) :
             (s \o t)[i] = IF i <= Len(s) THEN s[i] ELSE t[i - Len(s)]
  BY ConcatProperties
<1>. QED
  BY <1>1, <1>2 DEF IsJoin

LEMMA FlattenDef ==
    ASSUME NEW S, NEW seqs \in Seq(Seq(S)), Len(seqs) > 0
    PROVE  \E f \in [0 .. Len(seqs) -> Seq(S)] :
               /\ f[0] = <<>>
               /\ \A i \in 1 .. Len(seqs) : f[i] = f[i - 1] \o seqs[i]
               /\ FlattenSeq(seqs) = f[Len(seqs)]
<1>. DEFINE n == Len(seqs)
            A == Seq(S)
            G == [x \in A \X (1 .. n) |-> x[1] \o seqs[x[2]]]
<1>1. n \in Nat /\ n > 0 /\ n \in 1 .. n /\ \A i \in 1 .. n : seqs[i] \in Seq(S)
  OBVIOUS
<1>. HIDE DEF n
<1>2. <<>> \in A /\ G \in [A \X (1 .. n) -> A]
  <2>1. ASSUME NEW x \in A \X (1 .. n) PROVE x[1] \o seqs[x[2]] \in A
    BY <1>1
  <2>. QED
    BY <2>1
<1>3. PICK f \in [0 .. n -> A] :
         f[0] = <<>> /\ \A i \in 1 .. n : f[i] = G[<<f[i - 1], i>>]
  <2>. HIDE DEF G, A
  <2>1. n \in Nat
    BY <1>1
  <2>2. Iterations(A, n, <<>>, G) # {}
    BY <1>2, <2>1, Iterated, Zenon
  <2>. QED
    BY <2>2 DEF Iterations
<1>4. ASSUME NEW i \in 1 .. n
      PROVE  i - 1 \in 0 .. n /\ f[i - 1] \in A /\ f[i] = f[i - 1] \o seqs[i]
  <2>1. i - 1 \in 0 .. n
    BY <1>1
  <2>2. f[i - 1] \in A
    BY <1>3, <2>1
  <2>. HIDE DEF A
  <2>3. <<f[i - 1], i>> \in A \X (1 .. n)
    BY <2>2
  <2>. QED
    BY <1>3, <2>1, <2>2, <2>3
<1>. HIDE DEF G
<1>5. PICK g : Flatten(seqs, g) /\ FlattenSeq(seqs) = g[n]
  <2>. DEFINE h == [i \in 1 .. n |-> f[i]]
  <2>1. ASSUME NEW i \in 1 .. n
        PROVE  h[i] = IF i = 1 THEN seqs[i] ELSE h[i - 1] \o seqs[i]
    <3>1. CASE i = 1
      <4>1. 1 \in 1 .. n /\ 1 - 1 = 0
        BY <1>1
      <4>2. f[1] = f[0] \o seqs[1] /\ seqs[1] \in Seq(S)
        BY <1>1, <1>4, <4>1
      <4>3. f[1] = seqs[1]
        BY <1>3, <4>2, ConcatEmptySeq
      <4>. QED
        BY <3>1, <4>3
    <3>2. CASE i # 1
      <4>1. i - 1 \in 1 .. n
        BY <1>1, <3>2
      <4>. QED
        BY <1>4, <3>2, <4>1
    <3>. QED
      BY <3>1, <3>2
  <2>2. h = [i \in 1 .. n |-> IF i = 1 THEN seqs[i] ELSE h[i - 1] \o seqs[i]]
    BY <2>1
  <2>. HIDE DEF h
  <2>3. Flatten(seqs, h)
    BY <2>2 DEF Flatten, n
  <2>4. Flatten(seqs, CHOOSE g : Flatten(seqs, g))
    BY <2>3
  <2>5. FlattenSeq(seqs) = (CHOOSE g : Flatten(seqs, g))[n]
    BY <1>1 DEF FlattenSeq, Flatten, n
  <2>. QED
    BY <2>4, <2>5
<1>6. \A i \in 1 .. n : g[i] = IF i = 1 THEN seqs[i] ELSE g[i - 1] \o seqs[i]
  <2>1. g = [i \in 1 .. n |-> IF i = 1 THEN seqs[i] ELSE g[i - 1] \o seqs[i]]
    BY <1>5 DEF Flatten, n
  <2>. QED
    BY <2>1
<1>7. \A i \in 1 .. n : g[i] = f[i]
  <2>. DEFINE T == {i \in 0 .. n : i = 0 \/ g[i] = f[i]}
  <2>1. 0 \in T
    BY <1>1
  <2>2. ASSUME NEW i \in 1 .. n, i - 1 \in T PROVE i \in T
    <3>1. CASE i = 1
      <4>1. 1 \in 1 .. n /\ 1 - 1 = 0
        BY <1>1
      <4>2. f[1] = f[0] \o seqs[1] /\ seqs[1] \in Seq(S)
        BY <1>1, <1>4, <4>1
      <4>3. f[1] = seqs[1] /\ g[1] = seqs[1]
        BY <1>3, <1>6, <4>1, <4>2, ConcatEmptySeq
      <4>4. g[i] = f[i] /\ i \in 0 .. n
        BY <3>1, <4>3
      <4>. QED
        BY <4>4
    <3>2. CASE i # 1
      <4>1. i - 1 # 0 /\ g[i - 1] = f[i - 1]
        BY <2>2, <3>2
      <4>2. f[i] = f[i - 1] \o seqs[i] /\ g[i] = g[i - 1] \o seqs[i]
        BY <1>4, <1>6, <3>2
      <4>3. g[i] = f[i]
        BY <4>1, <4>2
      <4>4. i \in 0 .. n
        OBVIOUS
      <4>. QED
        BY <4>3, <4>4
    <3>. QED
      BY <3>1, <3>2
  <2>. HIDE DEF T
  <2>3. 0 .. n \subseteq T
    BY <1>1, <2>1, <2>2, UpTo
  <2>4. ASSUME NEW i \in 1 .. n PROVE g[i] = f[i]
    <3>1. i \in T
      BY <2>3
    <3>. QED
      BY <3>1 DEF T
  <2>. QED
    BY <2>4
<1>. QED
  BY <1>1, <1>3, <1>4, <1>5, <1>7 DEF n

IsFlattened(S, seqs, flat, e) ==
    LET n == Len(seqs)
    IN  /\ e \in [0 .. n -> Nat] /\ e[0] = 0
        /\ \A i \in 1 .. n : e[i] = e[i - 1] + Len(seqs[i])
        /\ flat \in Seq(S) /\ Len(flat) = e[n]
        /\ \A i \in 1 .. n : \A j \in 1 .. Len(seqs[i]) :
               e[i - 1] + j \in 1 .. e[n] /\ flat[e[i - 1] + j] = seqs[i][j]
        /\ \A k \in 1 .. e[n] : \E i \in 1 .. n : \E j \in 1 .. Len(seqs[i]) :
               k = e[i - 1] + j

LEMMA Flattened ==
    ASSUME NEW S, NEW seqs \in Seq(Seq(S))
    PROVE  \E e : IsFlattened(S, seqs, FlattenSeq(seqs), e)
<1>. DEFINE n == Len(seqs)
<1>1. n \in Nat /\ n \in 0 .. n
      /\ \A i \in 1 .. n : seqs[i] \in Seq(S) /\ Len(seqs[i]) \in Nat
  OBVIOUS
<1>2. PICK f \in [0 .. n -> Seq(S)] :
         /\ f[0] = <<>>
         /\ \A i \in 1 .. n : f[i] = f[i - 1] \o seqs[i]
         /\ FlattenSeq(seqs) = f[n]
  <2>1. CASE n > 0
    BY <2>1, FlattenDef
  <2>2. CASE n = 0
    <3>1. seqs = <<>> /\ <<>> \in Seq(S) /\ 0 .. 0 = {0}
      BY <2>2, EmptySeq
    <3>2. FlattenSeq(seqs) = <<>>
      BY <2>2, <3>1 DEF FlattenSeq
    <3>. DEFINE f == [i \in {0} |-> <<>>]
    <3>3. f \in [0 .. n -> Seq(S)] /\ f[0] = <<>> /\ 1 .. n = {}
      BY <2>2, <3>1
    <3>. HIDE DEF f
    <3>4. f[0] = f[n]
      BY <2>2
    <3>5. FlattenSeq(seqs) = f[n] /\ \A i \in 1 .. n : f[i] = f[i - 1] \o seqs[i]
      BY <3>2, <3>3, <3>4
    <3>. QED
      BY <3>3, <3>5
  <2>3. n > 0 \/ n = 0
    BY <1>1
  <2>. QED
    BY <2>1, <2>2, <2>3, Zenon
<1>. HIDE DEF n
<1>. DEFINE e == [i \in 0 .. n |-> Len(f[i])]
            Holds(i, k) ==
                \E j \in 1 .. Len(seqs[i]) : k = e[i - 1] + j
            Good2(k) ==
                /\ \A i \in 1 .. k : \A j \in 1 .. Len(seqs[i]) :
                       e[i - 1] + j \in 1 .. e[k] /\ f[k][e[i - 1] + j] = seqs[i][j]
                /\ \A p \in 1 .. e[k] : \E i \in 1 .. k : Holds(i, p)
            T == {k \in 0 .. n : Good2(k)}
<1>3. e \in [0 .. n -> Nat] /\ e[0] = 0
      /\ \A i \in 0 .. n : f[i] \in Seq(S) /\ Len(f[i]) = e[i]
  BY <1>1, <1>2
<1>4. ASSUME NEW i \in 1 .. n
      PROVE  /\ i - 1 \in 0 .. n /\ i \in 0 .. n /\ e[i] = e[i - 1] + Len(seqs[i])
             /\ \A p \in 1 .. e[i - 1] : f[i][p] = f[i - 1][p]
             /\ \A j \in 1 .. Len(seqs[i]) : f[i][e[i - 1] + j] = seqs[i][j]
  <2>1. i - 1 \in 0 .. n /\ i \in 0 .. n
    BY <1>1
  <2>2. f[i - 1] \in Seq(S) /\ seqs[i] \in Seq(S) /\ f[i] = f[i - 1] \o seqs[i]
        /\ Len(f[i]) = e[i] /\ Len(f[i - 1]) = e[i - 1]
    BY <1>1, <1>2, <1>3, <2>1
  <2>. DEFINE u == f[i - 1]
              v == seqs[i]
  <2>3. u \in Seq(S) /\ v \in Seq(S) /\ f[i] = u \o v /\ Len(f[i]) = e[i] /\ Len(u) = e[i - 1]
    BY <2>2
  <2>. HIDE DEF e, u, v
  <2>4. IsJoin(f[i], u, v)
    BY <2>3, Joined, Zenon
  <2>5. /\ e[i] = e[i - 1] + Len(v)
        /\ \A p \in 1 .. e[i - 1] : f[i][p] = u[p]
        /\ \A j \in 1 .. Len(v) : f[i][e[i - 1] + j] = v[j]
    BY <2>3, <2>4 DEF IsJoin
  <2>. QED
    BY <2>1, <2>5 DEF u, v
<1>5. \A i \in 0 .. n : e[i] \in Nat
  BY <1>3
<1>. HIDE DEF e
<1>6. 0 \in T
  BY <1>1, <1>3
<1>7. ASSUME NEW k \in 1 .. n, k - 1 \in T PROVE k \in T
  <2>1. /\ e[k] = e[k - 1] + Len(seqs[k]) /\ e[k - 1] \in Nat /\ e[k] \in Nat
        /\ Len(seqs[k]) \in Nat /\ k \in 0 .. n
    BY <1>1, <1>4, <1>5
  <2>2. Good2(k - 1)
    BY <1>7
  <2>3. ASSUME NEW i \in 1 .. k, NEW j \in 1 .. Len(seqs[i])
        PROVE  e[i - 1] + j \in 1 .. e[k] /\ f[k][e[i - 1] + j] = seqs[i][j]
    <3>1. CASE i = k
      <4>1. f[k][e[k - 1] + j] = seqs[k][j]
        BY <1>4, <3>1
      <4>. QED
        BY <2>1, <3>1, <4>1
    <3>2. CASE i # k
      <4>1. i \in 1 .. k - 1
        BY <3>2
      <4>2. e[i - 1] + j \in 1 .. e[k - 1] /\ f[k - 1][e[i - 1] + j] = seqs[i][j]
        BY <2>2, <4>1
      <4>3. f[k][e[i - 1] + j] = f[k - 1][e[i - 1] + j]
        BY <1>4, <4>2
      <4>4. \A p \in 1 .. e[k - 1] : p \in 1 .. e[k]
        BY <2>1
      <4>. QED
        BY <4>2, <4>3, <4>4
    <3>. QED
      BY <3>1, <3>2
  <2>4. ASSUME NEW p \in 1 .. e[k] PROVE \E i \in 1 .. k : Holds(i, p)
    <3>1. CASE p \in 1 .. e[k - 1]
      <4>1. PICK i \in 1 .. k - 1 : Holds(i, p)
        BY <2>2, <3>1
      <4>2. i \in 1 .. k
        OBVIOUS
      <4>. QED
        BY <4>1, <4>2
    <3>2. CASE p \notin 1 .. e[k - 1]
      <4>1. p - e[k - 1] \in 1 .. Len(seqs[k]) /\ p = e[k - 1] + (p - e[k - 1])
        BY <2>1, <3>2
      <4>2. Holds(k, p) /\ k \in 1 .. k
        BY <4>1
      <4>. QED
        BY <4>2
    <3>. QED
      BY <3>1, <3>2
  <2>5. Good2(k)
    BY <2>3, <2>4
  <2>. HIDE DEF Good2
  <2>. QED
    BY <2>1, <2>5
<1>8. n \in T
  <2>. HIDE DEF T
  <2>1. 0 .. n \subseteq T
    BY <1>1, <1>6, <1>7, UpTo
  <2>. QED
    BY <1>1, <2>1
<1>9. Good2(n)
  BY <1>8
<1>10. FlattenSeq(seqs) \in Seq(S) /\ Len(FlattenSeq(seqs)) = e[n]
  BY <1>1, <1>2, <1>3
<1>11. /\ \A i \in 1 .. n : \A j \in 1 .. Len(seqs[i]) :
              /\ e[i - 1] + j \in 1 .. e[n]
              /\ FlattenSeq(seqs)[e[i - 1] + j] = seqs[i][j]
       /\ \A k \in 1 .. e[n] : \E i \in 1 .. n : \E j \in 1 .. Len(seqs[i]) :
              k = e[i - 1] + j
  BY <1>2, <1>9
<1>12. /\ e \in [0 .. n -> Nat] /\ e[0] = 0
       /\ \A i \in 1 .. n : e[i] = e[i - 1] + Len(seqs[i])
  BY <1>3, <1>4
<1>. QED
  <2>1. IsFlattened(S, seqs, FlattenSeq(seqs), e)
    BY ONLY <1>10, <1>11, <1>12 DEF n, IsFlattened
  <2>. QED
    BY <2>1

(* Where assembly is after each item, when origins are numbers.              *)
Step(items, after, k) ==
    LET s == items[k].stmt
    IN  CASE s.t = "org" -> s.n
          [] s.t = "instr" -> Wrap(after[k - 1] + 1)
          [] OTHER -> after[k - 1]

IsAfter(items, after) ==
    after = [k \in 0 .. Len(items) |-> IF k = 0 THEN 0 ELSE Step(items, after, k)]

LEMMA WrapNat ==
    ASSUME NEW n \in Nat
    PROVE  Wrap(n) \in Nat
<1>1. Modulus \in Nat \ {0}
  BY WordsAre, ProductPositive
<1>. QED
  BY <1>1, RemainderBound DEF Wrap

LEMMA AfterIs ==
    ASSUME NEW items, Len(items) \in Nat,
           \A k \in 1 .. Len(items) : items[k].stmt.t = "org" => items[k].stmt.n \in Nat
    PROVE  /\ After(items)[0] = 0
           /\ \A k \in 1 .. Len(items) : After(items)[k] = Step(items, After(items), k)
<1>. DEFINE n == Len(items)
            G == [x \in Nat \X (1 .. n) |->
                    LET s == items[x[2]].stmt
                    IN  CASE s.t = "org" -> s.n
                          [] s.t = "instr" -> Wrap(x[1] + 1)
                          [] OTHER -> x[1]]
<1>1. n \in Nat
  OBVIOUS
<1>. HIDE DEF n
<1>2. G \in [Nat \X (1 .. n) -> Nat]
  <2>1. ASSUME NEW x \in Nat \X (1 .. n)
        PROVE  LET s == items[x[2]].stmt
               IN  (CASE s.t = "org" -> s.n
                      [] s.t = "instr" -> Wrap(x[1] + 1)
                      [] OTHER -> x[1]) \in Nat
    <3>1. x[1] \in Nat /\ x[2] \in 1 .. n /\ x[1] + 1 \in Nat
      OBVIOUS
    <3>2. Wrap(x[1] + 1) \in Nat
      BY <3>1, WrapNat
    <3>3. items[x[2]].stmt.t = "org" => items[x[2]].stmt.n \in Nat
      BY <3>1 DEF n
    <3>. QED
      BY <3>1, <3>2, <3>3
  <2>. QED
    BY <2>1
<1>3. PICK f \in [0 .. n -> Nat] :
         f[0] = 0 /\ \A i \in 1 .. n : f[i] = G[<<f[i - 1], i>>]
  <2>. HIDE DEF G
  <2>1. Iterations(Nat, n, 0, G) # {}
    BY <1>1, <1>2, Iterated
  <2>. QED
    BY <2>1 DEF Iterations
<1>4. ASSUME NEW k \in 1 .. n PROVE f[k] = Step(items, f, k)
  <2>1. k - 1 \in 0 .. n /\ f[k - 1] \in Nat
    BY <1>1, <1>3
  <2>2. <<f[k - 1], k>> \in Nat \X (1 .. n)
    BY <2>1
  <2>3. f[k] = G[<<f[k - 1], k>>]
    BY <1>3
  <2>. QED
    BY <2>2, <2>3 DEF Step
<1>5. IsAfter(items, f)
  <2>1. \A k \in 0 .. n : f[k] = IF k = 0 THEN 0 ELSE Step(items, f, k)
    <3>1. ASSUME NEW k \in 0 .. n PROVE k = 0 \/ k \in 1 .. n
      OBVIOUS
    <3>. QED
      BY <1>3, <1>4, <3>1
  <2>2. f = [k \in 0 .. n |-> IF k = 0 THEN 0 ELSE Step(items, f, k)]
    BY <1>3, <2>1
  <2>. QED
    BY <2>2 DEF IsAfter, n
<1>6. After(items) = CHOOSE g : IsAfter(items, g)
  BY DEF After, IsAfter, Step
<1>7. IsAfter(items, After(items))
  BY <1>5, <1>6
<1>8. ASSUME NEW k \in 0 .. n
      PROVE  After(items)[k] = IF k = 0 THEN 0 ELSE Step(items, After(items), k)
  BY <1>7 DEF IsAfter, n
<1>9. \A k \in 1 .. n : k \in 0 .. n /\ k # 0
  OBVIOUS
<1>. QED
  BY <1>1, <1>8, <1>9 DEF n

(* A number means itself, wherever it stands.                                *)
LEMMA NumberIsRead ==
    ASSUME NEW p, p.e.t = "number"
    PROVE  Reached(p) = {p}
<1>. DEFINE Next1(before) == before \cup UNION {ReadThrough(q) : q \in before}
            Reach(f) == f = [n \in Nat |-> IF n = 0 THEN {p} ELSE Next1(f[n - 1])]
            reached == CHOOSE f : Reach(f)
            Settle(f) == f = [n \in Nat |-> IF reached[n + 1] = reached[n] THEN reached[n]
                                            ELSE f[n + 1]]
            settled == CHOOSE f : Settle(f)
<1>1. Reached(p) = settled[0]
  BY DEF Reached
<1>2. Next1({p}) = {p}
  BY DEF ReadThrough
<1>. HIDE DEF Next1
<1>3. Reach(reached)
  <2>1. \A n \in Nat : n = 0 \/ n - 1 \in Nat
    OBVIOUS
  <2>2. Reach([n \in Nat |-> {p}])
    BY <1>2, <2>1
  <2>. HIDE DEF Reach
  <2>. QED
    BY <2>2
<1>4. \A n \in Nat : reached[n] = IF n = 0 THEN {p} ELSE Next1(reached[n - 1])
  <2>. HIDE DEF reached
  <2>. QED
    BY <1>3
<1>. HIDE DEF reached
<1>5. ASSUME NEW n \in Nat PROVE reached[n] = {p}
  <2>. DEFINE T == {k \in Nat : reached[k] = {p}}
  <2>1. 0 \in T
    BY <1>4
  <2>2. ASSUME NEW k \in 1 .. n, k - 1 \in T PROVE k \in T
    <3>1. k \in Nat /\ k # 0 /\ reached[k - 1] = {p}
      BY <2>2
    <3>. QED
      BY <1>2, <1>4, <3>1
  <2>. HIDE DEF T
  <2>3. 0 .. n \subseteq T
    BY <2>1, <2>2, UpTo
  <2>4. n \in T
    BY <2>3
  <2>. QED
    BY <2>4 DEF T
<1>6. Settle(settled)
  <2>1. \A n \in Nat : n + 1 \in Nat
    OBVIOUS
  <2>2. Settle([n \in Nat |-> {p}])
    BY <1>5, <2>1
  <2>. HIDE DEF Settle
  <2>. QED
    BY <2>2
<1>7. settled[0] = {p}
  <2>. HIDE DEF settled
  <2>1. reached[0] = {p} /\ reached[0 + 1] = {p}
    BY <1>5
  <2>2. settled[0] = IF reached[0 + 1] = reached[0] THEN reached[0] ELSE settled[0 + 1]
    BY <1>6
  <2>. QED
    BY <2>1, <2>2
<1>. QED
  BY <1>1, <1>7

LEMMA NumberMeans ==
    ASSUME NEW items, NEW scope, NEW e, e.t = "number", NEW here
    PROVE  Meaning(items, scope, e, here) = e.n
<1>. DEFINE P == In(scope, e)
            Body(f, p) ==
                LET labels == LabelsOf(items, p.scope, p.e.name)
                    l == f[In(p.scope, p.e.l)]
                    r == f[In(p.scope, p.e.r)]
                IN  CASE p.e.t = "number" -> p.e.n
                      [] p.e.t \in {"plus", "minus"} ->
                           IF Undefined \in {l, r} THEN Undefined
                           ELSE Wrap(IF p.e.t = "plus" THEN l + r ELSE l - r)
                      [] OTHER ->
                           IF p.e.name = "$" THEN here
                           ELSE IF labels # {} /\ ~IsFormal(p.scope, p.e.name)
                             THEN Address(items, Max(labels))
                           ELSE IF p.scope.path # <<>> THEN f[Outside(p.scope, p.e)]
                           ELSE Undefined
            Value(f) == f = [p \in Reached(P) |-> Body(f, p)]
            value == CHOOSE f : Value(f)
<1>1. Meaning(items, scope, e, here) = value[P]
  BY DEF Meaning
<1>2. P.e = e
  BY DEF In
<1>. HIDE DEF P
<1>3. Reached(P) = {P}
  BY <1>2, NumberIsRead
<1>4. ASSUME NEW f PROVE Value(f) <=> f = [p \in {P} |-> e.n]
  <2>1. Body(f, P) = e.n
    BY <1>2
  <2>. HIDE DEF Body
  <2>. QED
    BY <1>3, <2>1
<1>. HIDE DEF Value
<1>5. value = [p \in {P} |-> e.n]
  BY <1>4
<1>. QED
  BY <1>1, <1>5

(* A source without macros is its own expansion.                             *)
LEMMA NothingToExpand ==
    ASSUME NEW source, \A i \in DOMAIN source : source[i].t # "macro"
    PROVE  Expansion(source)
             = [i \in DOMAIN source |->
                    Item(source, i, Outermost, SubSeq(source, 1, i - 1))]
<1>. DEFINE outer == [i \in DOMAIN source |->
                         Item(source, i, Outermost, SubSeq(source, 1, i - 1))]
            N == Cardinality(MacrosIn(source))
            Rec(f) == f = [n \in 0 .. N |->
                IF n = 0 THEN outer
                ELSE LET items == f[n - 1]
                     IN  FlattenSeq([i \in DOMAIN items |-> Applied(items[i])])]
            round == CHOOSE f : Rec(f)
<1>1. Expansion(source) = round[N]
  BY DEF Expansion
<1>2. N = 0
  <2>1. MacrosIn(source) = {}
    BY DEF MacrosIn
  <2>. QED
    BY <2>1, FS_EmptySet
<1>. HIDE DEF N, outer
<1>3. 0 .. N = {0}
  BY <1>2
<1>4. ASSUME NEW f PROVE Rec(f) <=> f = [n \in {0} |-> outer]
  BY <1>3
<1>. HIDE DEF Rec
<1>5. round = [n \in {0} |-> outer]
  BY <1>4
<1>. QED
  BY <1>1, <1>2, <1>5 DEF outer

-----------------------------------------------------------------------------
(* The listing as a source.                                                  *)

LabelStmt == [t |-> "label", name |-> "_start"]
OrgStmt(line) == [t |-> "org", n |-> line.addr]
InstrStmt(line) ==
    [t |-> "instr", id |-> line.addr, m |-> line.instr.m,
     args |-> [i \in DOMAIN line.instr.operands |->
                 [t |-> "number", n |-> line.instr.operands[i]]]]

(* A line is an instruction, after a label and an origin perhaps.            *)
IsLine(s, line) ==
    /\ Len(s) \in 1 .. 3 /\ s \in Seq({LabelStmt, OrgStmt(line), InstrStmt(line)})
    /\ s[Len(s)] = InstrStmt(line)
    /\ \A j \in 1 .. Len(s) - 1 : s[j] = OrgStmt(line) \/ (line.label /\ s[j] = LabelStmt)

LEMMA PairIs ==
    ASSUME NEW a, NEW b
    PROVE  <<a>> \o <<b>> = <<a, b>>
<1>. DEFINE S == {a, b}
            r == <<a>> \o <<b>>
<1>1. <<a>> \in Seq(S) /\ <<b>> \in Seq(S) /\ <<a, b>> \in Seq(S)
      /\ Len(<<a>>) = 1 /\ Len(<<b>>) = 1 /\ Len(<<a, b>>) = 2
  OBVIOUS
<1>. HIDE DEF S
<1>2. IsJoin(r, <<a>>, <<b>>) /\ r \in Seq(S)
  BY <1>1, Joined, ConcatProperties
<1>. HIDE DEF r
<1>3. Len(r) = 2 /\ r[1] = a /\ r[2] = b
  <2>1. 1 \in 1 .. Len(<<a>>) /\ 1 \in 1 .. Len(<<b>>) /\ Len(<<a>>) + 1 = 2
    BY <1>1
  <2>2. <<a>>[1] = a /\ <<b>>[1] = b
    OBVIOUS
  <2>3. r[1] = <<a>>[1] /\ r[Len(<<a>>) + 1] = <<b>>[1]
    BY <1>2, <2>1, Zenon DEF IsJoin
  <2>4. Len(r) = 2
    BY <1>1, <1>2 DEF IsJoin
  <2>. QED
    BY <2>1, <2>2, <2>3, <2>4
<1>4. \A i \in 1 .. Len(r) : r[i] = <<a, b>>[i]
  <2>1. \A i \in 1 .. 2 : i = 1 \/ i = 2
    OBVIOUS
  <2>. QED
    BY <1>3, <2>1
<1>. QED
  BY <1>1, <1>2, <1>3, <1>4, SeqEqual DEF r

LEMMA TripleIs ==
    ASSUME NEW a, NEW b, NEW c
    PROVE  <<a, b>> \o <<c>> = <<a, b, c>>
<1>. DEFINE S == {a, b, c}
            r == <<a, b>> \o <<c>>
<1>1. <<a, b>> \in Seq(S) /\ <<c>> \in Seq(S) /\ <<a, b, c>> \in Seq(S)
      /\ Len(<<a, b>>) = 2 /\ Len(<<c>>) = 1 /\ Len(<<a, b, c>>) = 3
  OBVIOUS
<1>. HIDE DEF S
<1>2. IsJoin(r, <<a, b>>, <<c>>) /\ r \in Seq(S)
  BY <1>1, Joined, ConcatProperties
<1>. HIDE DEF r
<1>3. Len(r) = 3 /\ r[1] = a /\ r[2] = b /\ r[3] = c
  BY <1>1, <1>2 DEF IsJoin
<1>4. \A i \in 1 .. Len(r) : r[i] = <<a, b, c>>[i]
  <2>1. \A i \in 1 .. 3 : i = 1 \/ i = 2 \/ i = 3
    OBVIOUS
  <2>. QED
    BY <1>3, <2>1
<1>. QED
  BY <1>1, <1>2, <1>3, <1>4, SeqEqual DEF r

LEMMA UpToTwo ==
    ASSUME NEW a, NEW b, NEW c
    PROVE  /\ (<<a>> \o <<>>) \o <<c>> = <<a, c>>
           /\ (<<>> \o <<b>>) \o <<c>> = <<b, c>>
           /\ (<<>> \o <<>>) \o <<c>> = <<c>>
<1>. DEFINE S == {a, b, c}
<1>1. <<>> \in Seq(S) /\ <<a>> \in Seq(S) /\ <<b>> \in Seq(S) /\ <<c>> \in Seq(S)
  OBVIOUS
<1>. HIDE DEF S
<1>2. <<a>> \o <<>> = <<a>> /\ <<>> \o <<b>> = <<b>> /\ <<>> \o <<>> = <<>>
      /\ <<>> \o <<c>> = <<c>>
  BY <1>1, ConcatEmptySeq
<1>. QED
  BY <1>2, PairIs, Zenon

LEMMA StatementsAre ==
    ASSUME NEW line, line.label \in BOOLEAN, line.org \in BOOLEAN
    PROVE  IsLine(Statements(line), line)
<1>. DEFINE L == LabelStmt
            O == OrgStmt(line)
            I == InstrStmt(line)
            s == Statements(line)
<1>1. s = ((IF line.label THEN <<L>> ELSE <<>>) \o (IF line.org THEN <<O>> ELSE <<>>)) \o <<I>>
  BY DEF Statements, LabelStmt, OrgStmt, InstrStmt
<1>. HIDE DEF L, O, I, s
<1>2. CASE line.label /\ line.org
  <2>1. s = (<<L>> \o <<O>>) \o <<I>>
    BY <1>1, <1>2
  <2>2. s = <<L, O, I>>
    <3>1. <<L>> \o <<O>> = <<L, O>>
      BY PairIs, Zenon
    <3>2. <<L, O>> \o <<I>> = <<L, O, I>>
      BY TripleIs, Zenon
    <3>. QED
      BY <2>1, <3>1, <3>2
  <2>. QED
    BY <2>2, <1>2 DEF IsLine, L, O, I, s
<1>3. CASE line.label /\ ~line.org
  <2>1. s = <<L, I>>
    BY <1>1, <1>3, UpToTwo
  <2>. QED
    BY <2>1, <1>3 DEF IsLine, L, O, I, s
<1>4. CASE ~line.label /\ line.org
  <2>1. s = <<O, I>>
    BY <1>1, <1>4, UpToTwo
  <2>. QED
    BY <2>1, <1>4 DEF IsLine, L, O, I, s
<1>5. CASE ~line.label /\ ~line.org
  <2>1. s = <<I>>
    BY <1>1, <1>5, UpToTwo
  <2>. QED
    BY <2>1, <1>5 DEF IsLine, L, O, I, s
<1>. QED
  BY <1>2, <1>3, <1>4, <1>5

(* Lines are of consecutive words, the second has the label, none has two    *)
(* operands.                                                                 *)
LinesInv ==
    \A i \in DOMAIN listing :
        /\ listing[i].addr = i - 1
        /\ listing[i].label = (i = 2)
        /\ Len(listing[i].instr.operands) <= 1

Complete ==
    /\ listing \in Seq(Line) /\ Len(listing) = Length
    /\ Length \in 0 .. Modulus /\ words \in [0 .. Length - 1 -> Word]
    /\ LinesEncode /\ LinesInv

(* Where the statements of each line are among the items, and at which       *)
(* address.                                                                  *)
LineItems(e) ==
    /\ e \in [0 .. Length -> Nat]
    /\ \A i \in 1 .. Length :
           /\ e[i] \in DOMAIN Items
           /\ Items[e[i]].stmt = InstrStmt(listing[i])
           /\ Items[e[i]].scope = Outermost
           /\ Address(Items, e[i]) = i - 1
    /\ \A k \in DOMAIN Items :
           \/ \E i \in 1 .. Length : k = e[i]
           \/ Items[k].stmt.t = "org"
           \/ Items[k].stmt.t = "label" /\ Address(Items, k) = 1

LEMMA ItemsOfLines ==
    ASSUME Complete
    PROVE  \E e : LineItems(e)
<1>. DEFINE n == Length
            seqs == [i \in DOMAIN listing |-> Statements(listing[i])]
            S == UNION {{LabelStmt, OrgStmt(listing[i]), InstrStmt(listing[i])} : i \in 1 .. n}
<1>1. n \in Nat /\ n <= Modulus /\ Modulus \in Nat \ {0}
      /\ listing \in Seq(Line) /\ Len(listing) = n /\ DOMAIN listing = 1 .. n
  <2>1. Modulus \in Nat \ {0}
    BY WordsAre, ProductPositive
  <2>. QED
    BY <2>1 DEF Complete
<1>. HIDE DEF n
<1>2. ASSUME NEW i \in 1 .. n
      PROVE  /\ seqs[i] = Statements(listing[i]) /\ IsLine(seqs[i], listing[i])
             /\ seqs[i] \in Seq(S) /\ Len(seqs[i]) \in 1 .. 3
             /\ Len(seqs[i]) \in 1 .. Len(seqs[i])
             /\ seqs[i][Len(seqs[i])] = InstrStmt(listing[i])
             /\ listing[i].addr = i - 1 /\ (listing[i].label => (i = 2))
  <2>1. listing[i] \in Line
    BY <1>1
  <2>2. IsLine(seqs[i], listing[i])
    BY <1>1, <2>1, StatementsAre DEF Line
  <2>3. {LabelStmt, OrgStmt(listing[i]), InstrStmt(listing[i])} \subseteq S
    OBVIOUS
  <2>. HIDE DEF S, seqs
  <2>4. seqs[i] \in Seq(S)
    BY <2>2, <2>3 DEF IsLine
  <2>5. listing[i].addr = i - 1 /\ (listing[i].label => (i = 2))
    BY <1>1 DEF Complete, LinesInv
  <2>. QED
    <3>1. seqs[i] = Statements(listing[i])
      BY <1>1 DEF seqs
    <3>2. Len(seqs[i]) \in 1 .. 3 /\ seqs[i][Len(seqs[i])] = InstrStmt(listing[i])
      BY <2>2 DEF IsLine
    <3>3. \A l \in 1 .. 3 : l \in 1 .. l
      OBVIOUS
    <3>. QED
      BY <2>2, <2>4, <2>5, <3>1, <3>2, <3>3
<1>3. seqs \in Seq(Seq(S)) /\ Len(seqs) = n
  <2>1. seqs \in [1 .. n -> Seq(S)]
    BY <1>1, <1>2
  <2>. HIDE DEF seqs
  <2>. QED
    BY <1>1, <2>1
<1>. HIDE DEF S
<1>4. Source = FlattenSeq(seqs)
  BY DEF Source
<1>. HIDE DEF seqs
<1>5. PICK e \in [0 .. n -> Nat] :
         /\ e[0] = 0
         /\ \A i \in 1 .. n : e[i] = e[i - 1] + Len(seqs[i])
         /\ Source \in Seq(S) /\ Len(Source) = e[n]
         /\ \A i \in 1 .. n : \A j \in 1 .. Len(seqs[i]) :
                e[i - 1] + j \in 1 .. e[n] /\ Source[e[i - 1] + j] = seqs[i][j]
         /\ \A k \in 1 .. e[n] : \E i \in 1 .. n : \E j \in 1 .. Len(seqs[i]) :
                k = e[i - 1] + j
  <2>1. PICK e : IsFlattened(S, seqs, FlattenSeq(seqs), e)
    BY <1>3, Flattened, Zenon
  <2>. QED
    BY <1>3, <1>4, <2>1 DEF IsFlattened
<1>6. DOMAIN Source = 1 .. e[n] /\ e[n] \in Nat
  BY <1>1, <1>5
<1>7. ASSUME NEW i \in 1 .. n
      PROVE  i - 1 \in 0 .. n /\ i \in 0 .. n /\ e[i - 1] \in Nat /\ e[i] \in Nat
  <2>1. i - 1 \in 0 .. n /\ i \in 0 .. n
    BY <1>1
  <2>. QED
    BY <1>5, <2>1
(* The items are the statements.                                             *)
<1>8. ASSUME NEW k \in 1 .. e[n]
      PROVE  \/ Source[k].t = "instr"
             \/ Source[k].t = "label"
             \/ Source[k].t = "org" /\ Source[k].n \in Nat
  <2>1. PICK i \in 1 .. n : Source[k] \in
               {LabelStmt, OrgStmt(listing[i]), InstrStmt(listing[i])}
    <3>1. Source[k] \in S
      BY <1>5
    <3>. QED
      BY <3>1 DEF S
  <2>2. OrgStmt(listing[i]).n \in Nat
    BY <1>2, <1>7 DEF OrgStmt
  <2>. QED
    BY <2>1, <2>2 DEF LabelStmt, OrgStmt, InstrStmt
<1>9. Items = [k \in DOMAIN Source |->
                  Item(Source, k, Outermost, SubSeq(Source, 1, k - 1))]
  <2>1. \A k \in DOMAIN Source : Source[k].t # "macro"
    BY <1>6, <1>8
  <2>. QED
    BY <2>1, NothingToExpand DEF Items
<1>10. /\ DOMAIN Items = 1 .. e[n] /\ Len(Items) = e[n]
       /\ \A k \in 1 .. e[n] : Items[k].stmt = Source[k] /\ Items[k].scope = Outermost
  BY <1>6, <1>9 DEF Item
<1>. DEFINE A == After(Items)
<1>11. A[0] = 0 /\ \A k \in 1 .. e[n] : A[k] = Step(Items, A, k)
  BY <1>6, <1>8, <1>10, AfterIs
<1>. HIDE DEF A
(* Nothing but the instruction of a line moves the address.                  *)
<1>12. ASSUME NEW i \in 1 .. n, A[e[i - 1]] = i - 1
       PROVE  /\ \A j \in 1 .. Len(seqs[i]) : A[(e[i - 1] + j) - 1] = i - 1
              /\ A[e[i]] = Wrap(i)
  <2>. DEFINE L == Len(seqs[i])
              p == e[i - 1]
  <2>1. L \in 1 .. 3 /\ p \in Nat /\ e[i] = p + L /\ A[p] = i - 1
    BY <1>2, <1>5, <1>7, <1>12
  <2>2. ASSUME NEW j \in 1 .. L
        PROVE  /\ p + j \in 1 .. e[n] /\ Items[p + j].stmt = seqs[i][j]
               /\ A[p + j] = Step(Items, A, p + j)
    BY <1>5, <1>10, <1>11
  <2>3. IsLine(seqs[i], listing[i]) /\ listing[i].addr = i - 1
    BY <1>2
  <2>. HIDE DEF p
  <2>4. ASSUME NEW j \in 1 .. L - 1 PROVE A[p + j] = i - 1 \/ A[p + j] = A[(p + j) - 1]
    <3>1. j \in 1 .. L
      BY <2>1
    <3>2. seqs[i][j] = OrgStmt(listing[i]) \/ seqs[i][j] = LabelStmt
      BY <2>3 DEF IsLine
    <3>. QED
      BY <2>2, <2>3, <3>1, <3>2 DEF Step, OrgStmt, LabelStmt
  <2>5. A[p + L] = Wrap(A[(p + L) - 1] + 1)
    <3>1. L \in 1 .. L /\ seqs[i][L] = InstrStmt(listing[i])
      BY <1>2
    <3>. QED
      BY <2>2, <3>1 DEF Step, InstrStmt
  <2>. HIDE DEF L
  <2>6. \A j \in 1 .. L : A[(p + j) - 1] = i - 1
    <3>. DEFINE T == {j \in 0 .. L - 1 : A[p + j] = i - 1}
    <3>1. 0 \in T /\ L - 1 \in Nat
      BY <2>1
    <3>2. ASSUME NEW j \in 1 .. L - 1, j - 1 \in T PROVE j \in T
      <4>1. (p + j) - 1 = p + (j - 1) /\ j \in 0 .. L - 1
        BY <2>1
      <4>. QED
        BY <2>4, <3>2, <4>1
    <3>. HIDE DEF T
    <3>3. 0 .. L - 1 \subseteq T
      BY <3>1, <3>2, UpTo
    <3>4. ASSUME NEW j \in 1 .. L PROVE A[(p + j) - 1] = i - 1
      <4>1. j - 1 \in T /\ (p + j) - 1 = p + (j - 1)
        BY <2>1, <3>3
      <4>. QED
        BY <4>1 DEF T
    <3>. QED
      BY <3>4
  <2>7. A[(p + L) - 1] = i - 1 /\ (i - 1) + 1 = i
    BY <2>1, <2>6
  <2>8. A[e[i]] = Wrap(i)
    BY <2>1, <2>5, <2>7
  <2>. QED
    BY <2>6, <2>8, Zenon DEF p, L
<1>13. \A i \in 0 .. n : A[e[i]] = Wrap(i)
  <2>. DEFINE T == {i \in 0 .. n : A[e[i]] = Wrap(i)}
  <2>1. 0 \in T
    <3>1. Wrap(0) = 0
      BY <1>1, SmallRemainder DEF Wrap
    <3>. QED
      BY <1>1, <1>5, <1>11, <3>1
  <2>2. ASSUME NEW i \in 1 .. n, i - 1 \in T PROVE i \in T
    <3>1. i - 1 \in 0 .. Modulus - 1
      BY <1>1
    <3>2. Wrap(i - 1) = i - 1
      BY <1>1, <3>1, SmallRemainder DEF Wrap
    <3>3. A[e[i]] = Wrap(i)
      BY <1>12, <2>2, <3>2
    <3>. QED
      BY <1>7, <3>3
  <2>. HIDE DEF T
  <2>3. 0 .. n \subseteq T
    BY <1>1, <2>1, <2>2, UpTo
  <2>. QED
    BY <2>3 DEF T
<1>14. ASSUME NEW i \in 1 .. n, NEW j \in 1 .. Len(seqs[i])
       PROVE  /\ Address(Items, e[i - 1] + j) = i - 1
              /\ Items[e[i - 1] + j].stmt = seqs[i][j] /\ e[i - 1] + j \in DOMAIN Items
  <2>1. i - 1 \in 0 .. Modulus - 1 /\ i - 1 \in 0 .. n
    BY <1>1
  <2>2. A[e[i - 1]] = i - 1
    BY <1>1, <1>13, <2>1, SmallRemainder DEF Wrap
  <2>3. A[(e[i - 1] + j) - 1] = i - 1
    BY <1>12, <2>2
  <2>4. Address(Items, e[i - 1] + j) = i - 1
    BY <2>3 DEF Address, A
  <2>5. e[i - 1] + j \in 1 .. e[n] /\ Source[e[i - 1] + j] = seqs[i][j]
    BY <1>5
  <2>. QED
    BY <2>4, <2>5, <1>10
<1>15. ASSUME NEW i \in 1 .. n
       PROVE  /\ e[i] \in DOMAIN Items /\ Items[e[i]].stmt = InstrStmt(listing[i])
              /\ Items[e[i]].scope = Outermost /\ Address(Items, e[i]) = i - 1
  <2>1. Len(seqs[i]) \in 1 .. Len(seqs[i]) /\ seqs[i][Len(seqs[i])] = InstrStmt(listing[i])
    BY <1>2
  <2>2. e[i] = e[i - 1] + Len(seqs[i])
    BY <1>5
  <2>. QED
    BY <2>1, <2>2, <1>10, <1>14
<1>16. ASSUME NEW k \in DOMAIN Items
       PROVE  \/ \E i \in 1 .. n : k = e[i]
              \/ Items[k].stmt.t = "org"
              \/ Items[k].stmt.t = "label" /\ Address(Items, k) = 1
  <2>1. PICK i \in 1 .. n : \E j \in 1 .. Len(seqs[i]) : k = e[i - 1] + j
    BY <1>5, <1>10
  <2>5. PICK j \in 1 .. Len(seqs[i]) : k = e[i - 1] + j
    BY <2>1
  <2>2. Items[k].stmt = seqs[i][j] /\ Address(Items, k) = i - 1
    BY <1>14, <2>5
  <2>3. CASE j = Len(seqs[i])
    BY <1>5, <2>5, <2>3
  <2>4. CASE j # Len(seqs[i])
    <3>1. j \in 1 .. Len(seqs[i]) - 1
      BY <1>2, <2>4
    <3>2. seqs[i][j] = OrgStmt(listing[i]) \/ (i = 2 /\ seqs[i][j] = LabelStmt)
      BY <1>2, <3>1 DEF IsLine
    <3>. QED
      BY <2>2, <3>2 DEF OrgStmt, LabelStmt
  <2>. QED
    BY <2>3, <2>4
<1>17. LineItems(e)
  BY <1>5, <1>15, <1>16 DEF LineItems, n
<1>. QED
  BY <1>17

(* The items, assembled, are the segment.                                    *)
LEMMA ListingMeans ==
    ASSUME Complete
    PROVE  /\ ~Erroneous(Items)
           /\ Image(Items) = words
           /\ \A k \in LabelsOf(Items, Outermost, "_start") : Address(Items, k) = 1
<1>. DEFINE n == Length
<1>1. n \in Nat /\ words \in [0 .. n - 1 -> Word]
      /\ listing \in Seq(Line) /\ DOMAIN listing = 1 .. n
  <2>1. Modulus \in Nat
    BY WordsAre, ProductPositive
  <2>. QED
    BY <2>1 DEF Complete
<1>2. PICK e : LineItems(e)
  BY ItemsOfLines
<1>. HIDE DEF n
<1>3. ASSUME NEW i \in 1 .. n
      PROVE  /\ e[i] \in DOMAIN Items /\ Items[e[i]].stmt = InstrStmt(listing[i])
             /\ Items[e[i]].stmt.t = "instr"
             /\ Items[e[i]].scope = Outermost /\ Address(Items, e[i]) = i - 1
  <2>1. InstrStmt(listing[i]).t = "instr"
    BY DEF InstrStmt
  <2>. QED
    BY <1>2, <2>1 DEF LineItems, n
<1>4. Instrs(Items) = {e[i] : i \in 1 .. n}
  <2>1. ASSUME NEW k \in Instrs(Items) PROVE \E i \in 1 .. n : k = e[i]
    BY <1>2 DEF LineItems, Instrs, n
  <2>2. ASSUME NEW i \in 1 .. n PROVE e[i] \in Instrs(Items)
    BY <1>3 DEF Instrs
  <2>. QED
    BY <2>1, <2>2
(* Each instruction has its mnemonic, and its operand for what it means.     *)
<1>5. ASSUME NEW i \in 1 .. n
      PROVE  LET s == Items[e[i]].stmt
             IN  /\ s.m \in Mnemonics /\ ~(Len(s.args) > 1)
                 /\ OperandMeaning(Items, e[i]) # Undefined
                 /\ WordFor(s.m, OperandMeaning(Items, e[i])) = words[i - 1]
  <2>. DEFINE line == listing[i]
              ops == line.instr.operands
              s == Items[e[i]].stmt
  <2>1. line \in Line /\ Len(ops) <= 1 /\ Encoding(line.instr) = words[i - 1]
    <3>1. i \in DOMAIN listing /\ line \in Line
      BY <1>1
    <3>. QED
      BY <3>1 DEF Complete, LinesInv, LinesEncode
  <2>2. line.instr.m \in Mnemonics /\ ops \in Seq(Word)
    <3>1. line.instr \in Rendering
      BY <2>1 DEF Line
    <3>. QED
      BY <3>1 DEF Rendering, Mnemonics, Directives
  <2>3. s = InstrStmt(line) /\ Items[e[i]].scope = Outermost
    BY <1>3
  <2>4. /\ s.m = line.instr.m
        /\ s.args = [j \in DOMAIN ops |-> [t |-> "number", n |-> ops[j]]]
    BY <2>3 DEF InstrStmt
  <2>. HIDE DEF line, s
  <2>5. CASE ops = <<>>
    <3>1. s.args = <<>>
      BY <2>4, <2>5
    <3>2. OperandMeaning(Items, e[i]) = 0
      BY <3>1 DEF OperandMeaning, s
    <3>3. WordFor(s.m, 0) = words[i - 1]
      BY <2>1, <2>4, <2>5 DEF Encoding
    <3>. QED
      BY <2>2, <2>4, <3>1, <3>2, <3>3 DEF Undefined, s
  <2>6. CASE ops # <<>>
    <3>1. Len(ops) = 1 /\ DOMAIN ops = {1} /\ ops[1] \in Word
      <4>1. Len(ops) \in Nat /\ DOMAIN ops = 1 .. Len(ops) /\ Len(ops) # 0
        BY <2>2, <2>6, EmptySeq
      <4>. HIDE DEF ops
      <4>2. Len(ops) = 1
        BY <2>1, <4>1
      <4>3. 1 .. 1 = {1}
        OBVIOUS
      <4>4. DOMAIN ops = {1}
        BY <4>1, <4>2, <4>3
      <4>5. ops[1] \in Word
        BY <2>2, <4>2, ElementOfSeq
      <4>. QED
        BY <4>2, <4>4, <4>5
    <3>2. s.args = <<[t |-> "number", n |-> ops[1]]>>
      BY <2>4, <3>1
    <3>3. OperandMeaning(Items, e[i]) = ops[1]
      <4>1. s.args # <<>> /\ s.args[1].t = "number" /\ s.args[1].n = ops[1]
        BY <3>2
      <4>. HIDE DEF ops
      <4>. QED
        BY <4>1, NumberMeans DEF OperandMeaning, s
    <3>4. ops[1] # Undefined
      BY <3>1, WordsAre DEF Word, Undefined
    <3>5. WordFor(s.m, ops[1]) = words[i - 1]
      BY <2>1, <2>4, <2>6 DEF Encoding
    <3>6. Len(s.args) = 1
      BY <3>2
    <3>. QED
      BY <2>2, <2>4, <3>3, <3>4, <3>5, <3>6 DEF s
  <2>. QED
    BY <2>5, <2>6
<1>6. ~Erroneous(Items)
  BY <1>4, <1>5 DEF Erroneous
<1>7. ImageLength(Items) = n
  <2>. DEFINE S == {0} \cup {Address(Items, k) + 1 : k \in Instrs(Items)}
  <2>1. \A x \in S : x \in 0 .. n
    BY <1>1, <1>3, <1>4
  <2>2. n \in S
    <3>1. CASE n = 0
      BY <3>1
    <3>2. CASE n # 0
      <4>1. n \in 1 .. n /\ (n - 1) + 1 = n
        BY <1>1, <3>2
      <4>2. Address(Items, e[n]) + 1 = n /\ e[n] \in Instrs(Items)
        BY <1>3, <1>4, <4>1
      <4>. QED
        BY <4>2
    <3>. QED
      BY <3>1, <3>2
  <2>. HIDE DEF S
  <2>3. Max(S) \in S /\ \A x \in S : Max(S) >= x
    <3>1. \E x \in S : \A y \in S : x >= y
      BY <1>1, <2>1, <2>2
    <3>. QED
      BY <3>1 DEF Max
  <2>4. Max(S) = n
    <3>1. Max(S) >= n /\ Max(S) \in 0 .. n
      BY <2>1, <2>2, <2>3
    <3>. QED
      BY <1>1, <3>1
  <2>. QED
    BY <2>4 DEF ImageLength, S
<1>8. ASSUME NEW a \in 0 .. n - 1
      PROVE  LET here == {k \in Instrs(Items) : Address(Items, k) = a}
             IN  (IF here = {} THEN 0
                  ELSE LET k == CHOOSE k \in here : TRUE
                       IN  WordFor(Items[k].stmt.m, OperandMeaning(Items, k)))
                 = words[a]
  <2>. DEFINE here == {k \in Instrs(Items) : Address(Items, k) = a}
              i == a + 1
  <2>1. i \in 1 .. n /\ i - 1 = a
    BY <1>1
  <2>2. \A j \in 1 .. n : j - 1 = a => j = i
    BY <1>1
  <2>. HIDE DEF i
  <2>3. here = {e[i]}
    BY <1>3, <1>4, <2>1, <2>2
  <2>4. (CHOOSE k \in here : TRUE) = e[i]
    BY <2>3
  <2>5. WordFor(Items[e[i]].stmt.m, OperandMeaning(Items, e[i])) = words[a]
    BY <1>5, <2>1
  <2>. QED
    BY <2>3, <2>4, <2>5
<1>9. Image(Items) = words
  <2>1. Image(Items) = [a \in 0 .. n - 1 |-> words[a]]
    BY <1>7, <1>8 DEF Image
  <2>. QED
    BY <1>1, <2>1
<1>10. ASSUME NEW k \in LabelsOf(Items, Outermost, "_start")
       PROVE  Address(Items, k) = 1
  <2>1. k \in DOMAIN Items /\ Items[k].stmt.t = "label"
    BY DEF LabelsOf
  <2>2. ~ \E i \in 1 .. n : k = e[i]
    BY <1>3, <2>1
  <2>. QED
    BY <1>2, <2>1, <2>2 DEF LineItems, n
<1>. QED
  BY <1>6, <1>9, <1>10

-----------------------------------------------------------------------------
(* What the loops leave for the listing: which words have the label, and, in *)
(* the end, a line for each.                                                 *)

LabelsInv ==
    \A a \in DOMAIN words : Classified(a) => ad[a].has_label = (a = 1)

DoneInv == pc = "done" => Len(listing) = Length

SourceInv == LabelsInv /\ LinesInv /\ DoneInv

LEMMA RenderedShort ==
    ASSUME NEW a
    PROVE  Len(Rendered(a).operands) <= 1
<1>1. Len(<<a.opr_effective>>) = 1 /\ Len(<<>>) = 0
  OBVIOUS
<1>. QED
  BY <1>1 DEF Rendered

LEMMA SourceInit == Init => SourceInv
  BY DEF Init, SourceInv, LabelsInv, LinesInv, DoneInv, Classified

LEMMA SourceNext == Inv /\ SourceInv /\ [Next]_vars => SourceInv'
<1> SUFFICES ASSUME Inv, SourceInv, [Next]_vars PROVE SourceInv'
  OBVIOUS
<1>1. Length \in Nat /\ words \in [0 .. Length - 1 -> Word]
  BY SegmentShape DEF Inv, TypeOK
<1>2. ASSUME Decode PROVE SourceInv'
  BY <1>2 DEF Decode, InLoop, SourceInv, LabelsInv, LinesInv, DoneInv, Classified, Length
<1>3. ASSUME Classify PROVE SourceInv'
  <2>1. /\ addr \in DOMAIN words /\ d \in Entry /\ DOMAIN words \subseteq Nat
    BY <1>3, InHand DEF Inv, Classify
  <2>2. TypeOK /\ addr \in Nat
    BY <2>1 DEF Inv
  <2>3. ASSUME NEW a \in DOMAIN words, a < addr + 1
        PROVE  ad'[a].has_label = (a = 1)
    <3>1. CASE a = addr
      BY <1>3, <2>1, <2>2, <3>1 DEF Classify, TypeOK, Entry, d
    <3>2. CASE a # addr
      <4>1. Classified(a)
        BY <1>3, <2>1, <2>2, <2>3, <3>2 DEF Classified, Classify, InLoop
      <4>2. ad'[a] = ad[a]
        BY <1>3, <2>1, <2>2, <3>2 DEF Classify, TypeOK
      <4>. QED
        BY <4>1, <4>2 DEF SourceInv, LabelsInv
    <3>. QED
      BY <3>1, <3>2
  <2>4. pc = "classify" /\ addr' = addr + 1 /\ UNCHANGED <<pc, words, listing>>
    BY <1>3 DEF Classify, InLoop
  <2>. QED
    BY <2>3, <2>4 DEF SourceInv, LabelsInv, LinesInv, DoneInv, Classified, Length
<1>4. ASSUME PrintLine PROVE SourceInv'
  <2>. DEFINE line == [label |-> d.has_label, org |-> d.has_org, addr |-> addr,
                       instr |-> Rendered(d.alts[1]),
                       comment |-> Rendered(d.alts[2])]
  <2>1. /\ addr \in DOMAIN words /\ d \in Entry /\ DOMAIN words \subseteq Nat
        /\ addr \in Nat
    BY <1>4, InHand DEF Inv, PrintLine
  <2>2. TypeOK /\ Len(listing) = addr /\ listing \in Seq(Line)
    BY <1>4 DEF Inv, ListingInv, PrintLine, InLoop, TypeOK
  <2>3. pc = "print" /\ listing' = Append(listing, line)
        /\ UNCHANGED <<pc, words, index, ad, type>>
    BY <1>4 DEF PrintLine, InLoop
  <2>4. line.addr = (addr + 1) - 1 /\ line.label = (addr + 1 = 2)
        /\ Len(line.instr.operands) <= 1
    <3>1. d.has_label = (addr = 1)
      BY <2>1, <2>3 DEF SourceInv, LabelsInv, Classified, d
    <3>2. (addr = 1) = (addr + 1 = 2) /\ addr = (addr + 1) - 1
      BY <2>1
    <3>. QED
      BY <3>1, <3>2, RenderedShort
  <2>. HIDE DEF line
  <2>5. \A i \in DOMAIN listing' : (i = addr + 1 /\ listing'[i] = line)
                                   \/ (i \in DOMAIN listing /\ listing'[i] = listing[i])
    BY <2>1, <2>2, <2>3, AppendProperties
  <2>6. LinesInv'
    BY <2>4, <2>5 DEF SourceInv, LinesInv
  <2>. QED
    BY <2>3, <2>6 DEF SourceInv, LabelsInv, DoneInv, Classified
<1>5. ASSUME ClassifyNull PROVE SourceInv'
  BY <1>5 DEF ClassifyNull, InLoop, SourceInv, LabelsInv, LinesInv, DoneInv, Classified, Length
<1>6. ASSUME NextLoop PROVE SourceInv'
  BY <1>1, <1>6 DEF NextLoop, SourceInv, LabelsInv, LinesInv, DoneInv, Classified, Length
<1>7. ASSUME PrintLinesEnd PROVE SourceInv'
  BY <1>7 DEF PrintLinesEnd, Inv, ListingInv, SourceInv, LabelsInv, LinesInv, DoneInv,
     Classified, Length
<1>8. ASSUME UNCHANGED vars PROVE SourceInv'
  BY <1>8 DEF vars, SourceInv, LabelsInv, LinesInv, DoneInv, Classified, Length
<1>. QED
  BY <1>2, <1>3, <1>4, <1>5, <1>6, <1>7, <1>8 DEF Next, Terminated

LEMMA SourceInvariant == Spec => [](Inv /\ SourceInv)
<1>1. Spec => []SourceInv
  BY SourceInit, SourceNext, Invariant, PTL DEF Spec
<1>. QED
  BY <1>1, Invariant, PTL

(* What bdump prints of a segment it disassembles, bas assembles to that     *)
(* segment, word for word and no longer, with _start at its second word: for *)
(* every word width, segment and order of aliases.                           *)
THEOREM ReassemblesAlways == Spec => []Reassembles
<1>1. Inv /\ SourceInv => Reassembles
  <2> SUFFICES ASSUME Inv, SourceInv, pc = "done" PROVE Complete
    BY ListingMeans DEF Reassembles
  <2>1. words \in Segments /\ listing \in Seq(Line)
    BY DEF Inv, TypeOK
  <2>2. Length \in 0 .. Modulus /\ words \in [0 .. Length - 1 -> Word]
    BY <2>1, DisassemblerAssumption DEF Length
  <2>. QED
    BY <2>1, <2>2 DEF Inv, ListingInv, SourceInv, DoneInv, Complete
<1>. QED
  BY <1>1, SourceInvariant, PTL
=============================================================================
