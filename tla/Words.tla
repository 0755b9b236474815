------------------------------- MODULE Words -------------------------------
(* Words of the Manchester Baby and the fields of an instruction word, as    *)
(* libbaby/arch.h lays them out:                                             *)
(*                                                                           *)
(*      31        16 15  13 12         0                                     *)
(*     [ data field | opcode | operand  ]                                    *)
(*                                                                           *)
(* word_t is int32_t and addr_t is uint32_t; both are modelled by the        *)
(* residue in 0 .. Modulus - 1 that their 32 bits spell, so converting one   *)
(* to the other changes nothing.  The widths are parameters.  In the code    *)
(* OperandSpan = 2^13 and DataSpan = 2^16, which makes Modulus 2^32.         *)
EXTENDS Integers

CONSTANTS
    OperandSpan,    \* how many values the operand field has  (2^13)
    DataSpan        \* how many values the data field has     (2^16)

ASSUME WordsAssumption ==
    /\ OperandSpan \in Nat \ {0}
    /\ DataSpan \in Nat \ {0}

Modulus == 8 * OperandSpan * DataSpan

Word == 0 .. Modulus - 1

(* The bits that two's complement arithmetic keeps.                          *)
Wrap(n) == n % Modulus

(* The sign bit, as in "ac < 0".                                             *)
Negative(w) == 2 * w >= Modulus

OP_JMP == 0
OP_JRP == 1
OP_LDN == 2
OP_STO == 3
OP_SUB == 4
OP_SUB_ALIAS == 5
OP_SKN == 6
OP_HLT == 7

(* arch_decode().                                                            *)
OperandOf(w) == w % OperandSpan
OpcodeOf(w) == (w \div OperandSpan) % 8
DataOf(w) == w \div (8 * OperandSpan)

(* The instructions that read the cell their operand names.                  *)
ReadsStore(w) == OpcodeOf(w) \in {OP_JMP, OP_JRP, OP_LDN, OP_SUB}
=============================================================================
