-------------------------------- MODULE Baby --------------------------------
(* The machine bsim promises: one action per instruction of the Baby.  An    *)
(* instruction is fetched from the cell after ci, runs to its end and is     *)
(* counted, all in one step; signals, phases and the host process do not     *)
(* exist.  The effects are those of the three switch statements of           *)
(* sim_cycle() taken together.                                               *)
EXTENDS Store

CONSTANTS
    StoreSize,      \* words in the page
    Images,         \* the contents a loader may have left in the store
    CycleSpan       \* values of the cycle counter, a uint64_t  (2^64)

(* Simulator.tla, which declares the same constants, states what is assumed  *)
(* of them.                                                                  *)

VARIABLES store, ac, ci, pi, cycles, halted

babyVars == <<store, ac, ci, pi, cycles, halted>>

Cell(addr) == ReadWord(store, StoreSize, addr)

BabyInit ==
    /\ store \in Images
    /\ ac = 0 /\ ci = 0 /\ pi = 0
    /\ cycles = 0
    /\ halted = FALSE

(* The instruction the next step runs, and the cell it names.                *)
Incremented(n) == Wrap(n + 1)
Fetched == Cell(Incremented(ci))
Datum == Cell(OperandOf(Fetched))

Fetch(op) ==
    /\ ~halted
    /\ OpcodeOf(Fetched) = op
    /\ pi' = Fetched
    /\ cycles' = (cycles + 1) % CycleSpan

Jump ==
    /\ Fetch(OP_JMP)
    /\ ci' = Datum
    /\ UNCHANGED <<store, ac, halted>>

RelativeJump ==
    /\ Fetch(OP_JRP)
    /\ ci' = Wrap(Incremented(ci) + Datum)
    /\ UNCHANGED <<store, ac, halted>>

LoadNegative ==
    /\ Fetch(OP_LDN)
    /\ ac' = Wrap(-Datum)
    /\ ci' = Incremented(ci)
    /\ UNCHANGED <<store, halted>>

(* The cell a word is put in is the one it is read from.                     *)
Put ==
    /\ Fetch(OP_STO)
    /\ store' = [store EXCEPT ![ReadIndex(StoreSize, OperandOf(Fetched))] = ac]
    /\ ci' = Incremented(ci)
    /\ UNCHANGED <<ac, halted>>

Subtract ==
    /\ Fetch(OP_SUB)
    /\ ac' = Wrap(ac - Datum)
    /\ ci' = Incremented(ci)
    /\ UNCHANGED <<store, halted>>

(* No switch of sim_cycle() has a case for the other subtract opcode.        *)
Nothing ==
    /\ Fetch(OP_SUB_ALIAS)
    /\ ci' = Incremented(ci)
    /\ UNCHANGED <<store, ac, halted>>

SkipIfNegative ==
    /\ Fetch(OP_SKN)
    /\ ci' = IF Negative(ac) THEN Wrap(Incremented(ci) + 1) ELSE Incremented(ci)
    /\ UNCHANGED <<store, ac, halted>>

Halt ==
    /\ Fetch(OP_HLT)
    /\ halted' = TRUE
    /\ ci' = Incremented(ci)
    /\ UNCHANGED <<store, ac>>

BabyNext ==
    \/ Jump \/ RelativeJump \/ LoadNegative \/ Put
    \/ Subtract \/ Nothing \/ SkipIfNegative \/ Halt

BabySpec == BabyInit /\ [][BabyNext]_babyVars
=============================================================================
