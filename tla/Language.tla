------------------------------ MODULE Language ------------------------------
(* The mnemonics of the assembly language, as libbaby/arch.c declares them,  *)
(* and the words they stand for.                                             *)
EXTENDS Words

(* baby_mnemonics: the opcodes and how many operands each has.               *)
Instructions == {"JMP", "JRP", "SUB", "LDN", "SKN", "STO", "HLT", "CMP", "STP"}
Directives == {"NUM", "EJA"}
Mnemonics == Instructions \cup Directives

OpcodeFor(m) ==
    CASE m = "JMP" -> OP_JMP [] m = "JRP" -> OP_JRP [] m = "SUB" -> OP_SUB
      [] m = "LDN" -> OP_LDN [] m = "STO" -> OP_STO
      [] m \in {"SKN", "CMP"} -> OP_SKN
      [] m \in {"HLT", "STP"} -> OP_HLT

TakesOperand(m) == m \notin {"SKN", "CMP", "HLT", "STP"}

(* The word a record stands for, given its operand.                          *)
WordFor(m, operand) ==
    CASE m = "NUM" -> operand
      [] m = "EJA" -> Wrap(operand - 1)
      [] OTHER -> OpcodeFor(m) * OperandSpan
                    + (IF TakesOperand(m) THEN OperandOf(operand) ELSE 0)
=============================================================================
