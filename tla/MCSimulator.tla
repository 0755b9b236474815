---------------------------- MODULE MCSimulator ----------------------------
(* Small programs for the simulator with signals: four words of store and    *)
(* operands 0 .. 7, so that every address has aliases.                       *)
EXTENDS Simulator

Ins(op, operand) == op * OperandSpan + operand

Program(w0, w1, w2, w3) ==
    [i \in 0 .. 3 |-> CASE i = 0 -> w0 [] i = 1 -> w1 [] i = 2 -> w2 [] i = 3 -> w3]

MCImages == {
    \* Loops for ever through aliases of its own cells.
    Program(1, Ins(OP_SUB, 4), Ins(OP_STO, 4), Ins(OP_JMP, 5)),
    \* Negates cell 3, skips on the sign and halts.
    Program(Ins(OP_HLT, 0), Ins(OP_LDN, 3), Ins(OP_SKN, 0), Ins(OP_JRP, 1)),
    \* Skips nothing and overflows before it halts.
    Program(Ins(OP_HLT, 7), Ins(OP_SKN, 0), Ins(OP_LDN, 0), Ins(OP_SUB, 3)),
    \* Uses the alias of SUB and overwrites its own halt: another loop.
    Program(Ins(OP_JRP, 3), Ins(OP_SUB_ALIAS, 1), Ins(OP_STO, 3), Ins(OP_HLT, 3))
  }
=============================================================================
