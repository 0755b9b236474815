---------------------------- MODULE OpcodeIndex ----------------------------
(* libbaby/arch.c: the array of mnemonics that arch_init() sorts by opcode,  *)
(* and arch_find_opcode(), which looks all mnemonics of an opcode up in it.  *)
(*                                                                           *)
(* The C library sorts and searches.  Of entries that compare equal, qsort() *)
(* may leave either first, and bsearch() may find either.                    *)
EXTENDS Language, Sequences, FiniteSets

(* baby_mnemonics, as qsort() with instrsort() leaves it.                    *)
Alphabetical ==
    <<"CMP", "EJA", "HLT", "JMP", "JRP", "LDN", "NUM", "SKN", "STO", "STP", "SUB">>

(* Two instructions with one opcode.                                         *)
Aliases(m, n) == {m, n} \subseteq Instructions /\ OpcodeFor(m) = OpcodeFor(n)

(* The order of an entry among those of its opcode, which is counted while   *)
(* the neighbour in the alphabet is an alias.                                *)
SubOrder[i \in DOMAIN Alphabetical] ==
    IF i > 1 /\ Aliases(Alphabetical[i], Alphabetical[i - 1])
      THEN SubOrder[i - 1] + 1 ELSE 0

(* Mutant: the first alias counts as one.                                    *)
OrderFromOne(m) == 1 + SubOrder[CHOOSE i \in DOMAIN Alphabetical : Alphabetical[i] = m]

OrderOf(m) == SubOrder[CHOOSE i \in DOMAIN Alphabetical : Alphabetical[i] = m]

(* instrindexsort(): a before b is negative, b before a positive.            *)
Compare(a, b) ==
    IF (a \in Instructions) # (b \in Instructions)
      THEN IF a \in Instructions THEN -1 ELSE 1
    ELSE IF a \in Directives \/ OpcodeFor(a) = OpcodeFor(b)
      THEN OrderOf(a) - OrderOf(b)
      ELSE OpcodeFor(a) - OpcodeFor(b)

(* What the second qsort() of arch_init() may leave.                         *)
IsIndex(index) ==
    /\ index \in [DOMAIN Alphabetical -> Mnemonics]
    /\ \A j, k \in DOMAIN index : j < k =>
           index[j] # index[k] /\ Compare(index[j], index[k]) <= 0

HasOpcode(m, opcode) == m \in Instructions /\ OpcodeFor(m) = opcode

(* The entries that are equal to the key in instrindexsearch().              *)
Hits(index, opcode) ==
    {k \in DOMAIN index : HasOpcode(index[k], opcode) /\ OrderOf(index[k]) = 0}

(* Mutant: only the first entry is compared with the opcode.                 *)
StopsAfterTwo(index, opcode, first, last, max_results) ==
    last = first + max_results - 1 \/ last = Len(index)

(* The loop of arch_find_opcode(), from the entry first on: it has taken the *)
(* entries up to last when it stops.                                         *)
StopsAfter(index, opcode, first, last, max_results) ==
    /\ \A k \in first .. last : HasOpcode(index[k], opcode)
    /\ last < first + max_results
    /\ \/ last = first + max_results - 1
       \/ last = Len(index)
       \/ ~HasOpcode(index[last + 1], opcode)

(* arch_find_opcode(): the results there may be.                             *)
arch_find_opcode(index, opcode, max_results) ==
    LET Runs == {run \in Hits(index, opcode) \X DOMAIN index :
                   run[1] <= run[2]
                   /\ StopsAfter(index, opcode, run[1], run[2], max_results)}
    IN  IF Hits(index, opcode) = {} THEN {<<>>}
        ELSE {SubSeq(index, run[1], run[2]) : run \in Runs}
=============================================================================
