----------------------------- MODULE MCPrograms -----------------------------
(* The repository's own test programs in the simulator: test/test-jmp.asm,   *)
(* test/test-jrp.asm and test/ldiv.asm as bas assembles them, in a store of  *)
(* 32 words.  Words are 8 bits wide here (a 5-bit operand, a 3-bit opcode,   *)
(* no data field), which all the constants of the three programs fit but     *)
(* one: the unit of division d is 2^(width - 1 - n), n = 2, so 2^5 stands    *)
(* for the 2^29 of the listing.                                              *)
EXTENDS Simulator

Ins(op, operand) == op * OperandSpan + operand

(* Cells a program does not mention are zero, as calloc() leaves them.       *)
Image(cells) ==
    [i \in 0 .. 31 |-> IF i \in DOMAIN cells THEN Wrap(cells[i]) ELSE 0]

(* The two jump tests differ in one instruction and the cell it names.       *)
JumpTest(op, target) == Image([i \in 1 .. 31 |->
    CASE i = 1 -> Ins(OP_LDN, 10) [] i = 2 -> Ins(OP_STO, 28)
      [] i = 3 -> Ins(op, 11)     [] i = 4 -> Ins(OP_STO, 31)
      [] i = 5 -> Ins(OP_HLT, 0)  [] i = 6 -> Ins(OP_STO, 29)
      [] i = 7 -> Ins(OP_LDN, 12) [] i = 8 -> Ins(OP_STO, 30)
      [] i = 9 -> Ins(OP_HLT, 0)  [] i = 10 -> -17
      [] i = 11 -> target         [] i = 12 -> -34
      [] i = 13 -> -51            [] i \in 28 .. 31 -> i - 27
      [] OTHER -> 0])

Division(dividend, divisor) == Image([i \in 0 .. 31 |->
    CASE i = 0 -> 19              [] i = 1 -> Ins(OP_LDN, 31)
      [] i = 2 -> Ins(OP_STO, 31) [] i = 3 -> Ins(OP_LDN, 31)
      [] i = 4 -> Ins(OP_SUB, 30) [] i = 5 -> Ins(OP_SKN, 0)
      [] i = 6 -> Ins(OP_JMP, 0)  [] i = 7 -> Ins(OP_LDN, 31)
      [] i = 8 -> Ins(OP_STO, 31) [] i = 9 -> Ins(OP_LDN, 28)
      [] i = 10 -> Ins(OP_SUB, 28) [] i = 11 -> Ins(OP_STO, 28)
      [] i = 12 -> Ins(OP_LDN, 31) [] i = 13 -> Ins(OP_SUB, 31)
      [] i = 14 -> Ins(OP_STO, 31) [] i = 15 -> Ins(OP_LDN, 28)
      [] i = 16 -> Ins(OP_STO, 28) [] i = 17 -> Ins(OP_SKN, 0)
      [] i = 18 -> Ins(OP_JMP, 26) [] i = 19 -> Ins(OP_HLT, 0)
      [] i = 20 -> Ins(OP_STO, 31) [] i = 21 -> Ins(OP_LDN, 29)
      [] i = 22 -> Ins(OP_SUB, 28) [] i = 23 -> Ins(OP_SUB, 28)
      [] i = 24 -> Ins(OP_STO, 28) [] i = 25 -> Ins(OP_JMP, 27)
      [] i = 26 -> 2               [] i = 27 -> 11
      [] i = 28 -> 0               [] i = 29 -> 32
      [] i = 30 -> 4 * divisor     [] i = 31 -> dividend])

(* Quotients of three significant bits, so that the bit shifted in first     *)
(* reaches the sign after the n shifts the program counts by it.             *)
Quotients == { <<a, b>> \in (4 .. 63) \X {1, 5, 7} : 4 * b <= a /\ a < 8 * b }

MCImages ==
    {JumpTest(OP_JMP, 5), JumpTest(OP_JRP, 2)}
        \cup {Division(q[1], q[2]) : q \in Quotients}

VARIABLE image      \* history: what the loader left in the store

MCInit == Init /\ image = store
MCNext == Next /\ UNCHANGED image
MCSpec == MCInit /\ [][MCNext]_<<vars, image>> /\ WF_vars(MainThread)

(* Each program stops, and leaves in the store what its comments say: cells  *)
(* that "should become 0x11", "0x11" and "0x22" and one that "should stay 4" *)
(* in test-jmp.asm and test-jrp.asm; and in line 28 of ldiv.asm the quotient *)
(* in units of d.  The division program is the one whose cell 0 is not       *)
(* empty.                                                                    *)
ResultsRight ==
    IF image[0] = 19
      THEN store[28] = (image[31] \div (image[30] \div 4)) * image[29]
      ELSE /\ store[28] = 17 /\ store[29] = 17
           /\ store[30] = 34 /\ store[31] = 4

ProgramResults == <>(pc = "done" /\ ResultsRight)
=============================================================================
