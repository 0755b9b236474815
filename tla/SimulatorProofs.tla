-------------------------- MODULE SimulatorProofs --------------------------
(* Theorems of the simulator's specification, for every word width, store    *)
(* size, set of images and width of the signal counters.                     *)
EXTENDS Simulator, DataProofs

USE DEF Counter, MaxAfterQuit

-----------------------------------------------------------------------------
(* Words and cells.                                                          *)

(* A remainder by a positive number lies below it.                           *)
LEMMA RemainderBound ==
    ASSUME NEW n \in Int, NEW m \in Nat \ {0}
    PROVE  n % m \in 0 .. m - 1
  OBVIOUS

(* There is at least one word, and every operand is one.                     *)
LEMMA ModulusPositive ==
    Modulus \in Nat \ {0} /\ OperandSpan <= Modulus
<1>1. OperandSpan \in Nat \ {0} /\ DataSpan \in Nat \ {0}
  BY WordsAssumption
<1>2. 8 * OperandSpan \in Nat \ {0}
  BY <1>1
<1>3. ASSUME NEW a \in Nat \ {0}, NEW b \in Nat \ {0}
      PROVE  a * b \in Nat \ {0} /\ a <= a * b
  OBVIOUS
<1>4. Modulus \in Nat \ {0} /\ 8 * OperandSpan <= Modulus
  BY <1>1, <1>2, <1>3 DEF Modulus
<1>. QED
  BY <1>1, <1>4

LEMMA WrapIsWord ==
    ASSUME NEW n \in Int
    PROVE  Wrap(n) \in Word
  BY ModulusPositive, RemainderBound DEF Wrap, Word

LEMMA WordIsInt == Word \subseteq Int /\ 0 \in Word
  BY ModulusPositive DEF Word

LEMMA OperandIsWord ==
    ASSUME NEW w \in Word
    PROVE  OperandOf(w) \in Word
<1>1. OperandOf(w) \in 0 .. OperandSpan - 1
  BY WordsAssumption, WordIsInt, RemainderBound DEF OperandOf
<1>. QED
  BY <1>1, ModulusPositive, WordsAssumption DEF Word

(* Reading any address of a page yields a word.                              *)
LEMMA CellIsWord ==
    ASSUME store \in Page(StoreSize), NEW addr \in Word
    PROVE  Cell(addr) \in Word
<1>1. ReadIndex(StoreSize, addr) \in 0 .. StoreSize - 1
  BY StoreAssumption, WordIsInt, RemainderBound DEF ReadIndex
<1>. QED
  BY <1>1 DEF Cell, ReadWord, Page

(* Writing a word to any address of a page leaves a page.                    *)
LEMMA WriteKeepsPage ==
    ASSUME NEW page \in Page(StoreSize), NEW addr, NEW w \in Word
    PROVE  WriteWord(page, StoreSize, addr, w) \in Page(StoreSize)
  BY DEF WriteWord, Page

LEMMA BumpIsCounter ==
    ASSUME NEW n \in Counter
    PROVE  Bump(n) \in Counter
  BY CounterAssumption DEF Bump

-----------------------------------------------------------------------------
(* Every state of the simulator is well typed: registers stay words whatever *)
(* the program computes, the store stays a page whatever address it writes,  *)
(* and the signal counters stay in the range of their C type.                *)
THEOREM TypeCorrect == Spec => []TypeOK
<1>1. Init => TypeOK
  <2> SUFFICES ASSUME Init PROVE TypeOK
    OBVIOUS
  <2>1. store \in Page(StoreSize)
    BY ImagesAssumption DEF Init
  <2>2. ac \in Word /\ ci \in Word /\ pi \in Word /\ data \in Word
    BY WordIsInt DEF Init
  <2>3. cycles \in 0 .. CycleSpan - 1 /\ 0 \in Counter /\ 0 \in 0 .. MaxSignals
    BY CounterAssumption DEF Init
  <2>4. 0 \in 0 .. MaxAfterQuit
    OBVIOUS
  <2>. QED
    BY <2>1, <2>2, <2>3, <2>4 DEF Init, TypeOK
<1>2. TypeOK /\ [Next]_vars => TypeOK'
  <2> SUFFICES ASSUME TypeOK, [Next]_vars PROVE TypeOK'
    OBVIOUS
  <2> USE DEF TypeOK, machineVars, signalVars, auxVars
  <2>1. ASSUME NEW s \in Signal, Handle(s) PROVE TypeOK'
    <3>1. Bump(sigReq[s]) \in Counter
      BY BumpIsCounter
    <3>2. sigReq' \in [Signal -> Counter]
      BY <2>1, <3>1 DEF Handle
    <3>3. handled' \in [Signal -> 0 .. MaxSignals]
      BY <2>1, CounterAssumption DEF Handle
    <3>. QED
      BY <2>1, <3>2, <3>3 DEF Handle
  <2>2. ASSUME NEW s \in Signal, Die(s) PROVE TypeOK'
    BY <2>2 DEF Die
  <2>3. CASE InstallInt
    BY <2>3 DEF InstallInt, Install, Signal
  <2>4. CASE InstallQuit
    BY <2>4 DEF InstallQuit, Install, Signal
  <2>5. CASE TestStopped
    BY <2>5 DEF TestStopped
  <2>6. CASE ReadQuit
    BY <2>6 DEF ReadQuit, Signal
  <2>7. CASE AckQuit
    BY <2>7 DEF AckQuit
  <2>8. CASE T1
    <3>1. Wrap(ci + 1) \in Word
      BY WrapIsWord, WordIsInt
    <3>2. Cell(Wrap(ci + 1)) \in Word
      BY <3>1, CellIsWord
    <3>. QED
      BY <2>8, <3>1, <3>2 DEF T1
  <2>9. CASE T3
    <3>1. OperandOf(pi) \in Word
      BY OperandIsWord
    <3>2. Datum \in Word
      BY <3>1, CellIsWord DEF Datum
    <3>3. WriteWord(store, StoreSize, OperandOf(pi), ac) \in Page(StoreSize)
      BY WriteKeepsPage
    <3>4. data' \in Word /\ store' \in Page(StoreSize)
      BY <2>9, <3>2, <3>3, WordIsInt DEF T3
    <3>. QED
      BY <2>9, <3>4 DEF T3
  <2>10. CASE T4
    <3>1. Wrap(-data) \in Word /\ Wrap(ac - data) \in Word
      BY WrapIsWord, WordIsInt
    <3>2. ac' \in Word
      BY <2>10, <3>1 DEF T4
    <3>3. stopped' \in BOOLEAN
      BY <2>10 DEF T4
    <3>4. pc' = "t5" /\ UNCHANGED <<store, ci, pi, data, cycles, signalVars, auxVars>>
      BY <2>10 DEF T4
    <3>5. /\ pc' = "t5"
          /\ store' = store /\ ci' = ci /\ pi' = pi /\ data' = data
          /\ cycles' = cycles
          /\ UNCHANGED signalVars /\ UNCHANGED auxVars
      BY <3>4
    <3>. QED
      BY <3>2, <3>3, <3>5
  <2>11. CASE T5
    <3>1. Wrap(ci + 1) \in Word /\ Wrap(ci + data) \in Word
      BY WrapIsWord, WordIsInt
    <3>2. ci' \in Word
      BY <2>11, <3>1 DEF T5
    <3>3. cycles' \in 0 .. CycleSpan - 1
      BY <2>11, RemainderBound, CounterAssumption DEF T5
    <3>. QED
      BY <2>11, <3>2, <3>3 DEF T5
  <2>12. CASE ReadInt
    BY <2>12 DEF ReadInt, Signal
  <2>13. CASE AckInt
    BY <2>13 DEF AckInt
  <2>14. CASE PrintState
    <3>1. prints' \in Nat
      BY <2>14 DEF PrintState
    <3>2. unanswered' \in BOOLEAN
      BY <2>14 DEF PrintState
    <3>3. /\ pc' = "test" /\ UNCHANGED machineVars /\ UNCHANGED signalVars
          /\ handled' = handled /\ afterQuit' = afterQuit
      BY <2>14 DEF PrintState
    <3>. QED
      BY <3>1, <3>2, <3>3
  <2>15. CASE RestoreInt
    BY <2>15 DEF RestoreInt, Restore
  <2>16. CASE RestoreQuit
    BY <2>16 DEF RestoreQuit, Restore
  <2>17. CASE Dump
    BY <2>17 DEF Dump
  <2>18. CASE UNCHANGED vars
    BY <2>18 DEF vars
  <2>. QED
    BY <2>1, <2>2, <2>3, <2>4, <2>5, <2>6, <2>7, <2>8, <2>9, <2>10, <2>11,
       <2>12, <2>13, <2>14, <2>15, <2>16, <2>17, <2>18
    DEF Next, MainThread, Terminated
<1>. QED
  BY <1>1, <1>2, PTL DEF Spec

-----------------------------------------------------------------------------
(* Where the main thread may still begin an instruction.                     *)
Looping == pc \in {"install_int", "install_quit", "test", "ack_quit", "t1",
                   "t3", "t4", "t5", "read_int", "ack_int", "print"}

(* What makes QuitPrompt inductive.  While the loop runs, no SIGQUIT has     *)
(* been acknowledged, so the counter differs from zero as soon as one was    *)
(* handled - the guard of Handle keeps it from coming round to zero again.   *)
(* A poll that read zero, and the instruction it lets through, are then the  *)
(* first since the signal.                                                   *)
QuitInv ==
    /\ Looping => sigAck["quit"] = 0
    /\ Looping => (handled["quit"] = 0 <=> sigReq["quit"] = 0)
    /\ handled["quit"] = 0 => afterQuit = 0
    /\ pc = "ack_quit" /\ req = 0 => afterQuit = 0
    /\ pc = "t1" => afterQuit = 0
    /\ afterQuit <= 1

(* bsim begins at most one more instruction once SIGQUIT was handled,        *)
(* however the signal and the poll interleave.                               *)
THEOREM QuitIsPrompt == Spec => []QuitPrompt
<1>1. Init => QuitInv
  BY DEF Init, QuitInv, Looping, Signal
<1>2. TypeOK /\ QuitInv /\ [Next]_vars => QuitInv'
  <2> SUFFICES ASSUME TypeOK, QuitInv, [Next]_vars PROVE QuitInv'
    OBVIOUS
  <2> USE DEF QuitInv, Looping, machineVars, signalVars, auxVars
  <2>1. ASSUME NEW s \in Signal, Handle(s) PROVE QuitInv'
    <3>1. CASE s = "int"
      BY <2>1, <3>1 DEF Handle, TypeOK, Signal
    <3>2. CASE s = "quit"
      <4>1. handled'["quit"] = handled["quit"] + 1
        BY <2>1, <3>2 DEF Handle, TypeOK
      <4>2. Looping => sigReq'["quit"] # 0
        BY <2>1, <3>2 DEF Handle, TypeOK
      <4>3. handled["quit"] \in Nat
        BY CounterAssumption DEF TypeOK, Signal
      <4>. QED
        BY <2>1, <4>1, <4>2, <4>3 DEF Handle
    <3>. QED
      BY <3>1, <3>2 DEF Signal
  <2>2. ASSUME NEW s \in Signal, Die(s) PROVE QuitInv'
    BY <2>2 DEF Die
  <2>3. CASE InstallInt
    BY <2>3 DEF InstallInt, Install
  <2>4. CASE InstallQuit
    BY <2>4 DEF InstallQuit, Install
  <2>5. CASE TestStopped
    BY <2>5 DEF TestStopped
  <2>6. CASE ReadQuit
    BY <2>6 DEF ReadQuit
  <2>7. CASE AckQuit
    BY <2>7 DEF AckQuit, TypeOK, Signal
  <2>8. CASE T1
    BY <2>8, CounterAssumption DEF T1, TypeOK, Signal
  <2>9. CASE T3
    BY <2>9 DEF T3
  <2>10. CASE T4
    BY <2>10 DEF T4
  <2>11. CASE T5
    BY <2>11 DEF T5
  <2>12. CASE ReadInt
    BY <2>12 DEF ReadInt
  <2>13. CASE AckInt
    BY <2>13 DEF AckInt, TypeOK, Signal
  <2>14. CASE PrintState
    BY <2>14 DEF PrintState
  <2>15. CASE RestoreInt
    BY <2>15 DEF RestoreInt, Restore
  <2>16. CASE RestoreQuit
    BY <2>16 DEF RestoreQuit, Restore
  <2>17. CASE Dump
    BY <2>17 DEF Dump
  <2>18. CASE UNCHANGED vars
    BY <2>18 DEF vars
  <2>. QED
    BY <2>1, <2>2, <2>3, <2>4, <2>5, <2>6, <2>7, <2>8, <2>9, <2>10, <2>11,
       <2>12, <2>13, <2>14, <2>15, <2>16, <2>17, <2>18
    DEF Next, MainThread, Terminated
<1>3. QuitInv => QuitPrompt
  BY DEF QuitInv, QuitPrompt
<1>. QED
  BY <1>1, <1>2, <1>3, TypeCorrect, PTL DEF Spec

-----------------------------------------------------------------------------
(* What makes PrintsBacked inductive.  A counter that differs from the value *)
(* it is compared with is good for one answer; between the read and the      *)
(* acknowledgement the copy stands between the two.  Answers given, the one  *)
(* being printed and those still good never exceed the signals handled.      *)
One(condition) == IF condition THEN 1 ELSE 0

Due ==
    IF pc = "ack_int"
      THEN One(sigAck["int"] # req) + One(req # sigReq["int"])
      ELSE One(sigAck["int"] # sigReq["int"])

PrintInv == prints + One(pc = "print") + Due <= handled["int"]

(* Every printing of the registers in the loop is paid for by a SIGINT of    *)
(* its own, although the handler runs between reading and acknowledging.     *)
THEOREM AnswersAreBacked == Spec => []PrintsBacked
<1>1. Init => PrintInv
  BY DEF Init, PrintInv, Due, One, Signal
<1>2. TypeOK /\ PrintInv /\ [Next]_vars => PrintInv'
  <2> SUFFICES ASSUME TypeOK, PrintInv, [Next]_vars PROVE PrintInv'
    OBVIOUS
  <2>0. prints \in Nat /\ handled["int"] \in Nat
    BY CounterAssumption DEF TypeOK, Signal
  <2> USE <2>0 DEF PrintInv, Due, One, machineVars, signalVars, auxVars
  <2>1. ASSUME NEW s \in Signal, Handle(s) PROVE PrintInv'
    <3>1. CASE s = "int"
      <4>1. handled'["int"] = handled["int"] + 1
        BY <2>1, <3>1 DEF Handle, TypeOK, Signal
      <4>2. prints' = prints /\ pc' = pc /\ sigAck' = sigAck /\ req' = req
        BY <2>1 DEF Handle
      <4>3. Due' <= Due + 1
        BY <4>2
      <4>. QED
        BY <4>1, <4>2, <4>3
    <3>2. CASE s = "quit"
      <4>1. handled'["int"] = handled["int"] /\ sigReq'["int"] = sigReq["int"]
        BY <2>1, <3>2 DEF Handle, TypeOK, Signal
      <4>. QED
        BY <2>1, <4>1 DEF Handle
    <3>. QED
      BY <3>1, <3>2 DEF Signal
  <2>2. ASSUME NEW s \in Signal, Die(s) PROVE PrintInv'
    BY <2>2 DEF Die
  <2>3. CASE InstallInt
    BY <2>3 DEF InstallInt, Install
  <2>4. CASE InstallQuit
    BY <2>4 DEF InstallQuit, Install
  <2>5. CASE TestStopped
    BY <2>5 DEF TestStopped
  <2>6. CASE ReadQuit
    BY <2>6 DEF ReadQuit
  <2>7. CASE AckQuit
    <3>1. sigAck'["int"] = sigAck["int"]
      BY <2>7 DEF AckQuit, TypeOK, Signal
    <3>. QED
      BY <2>7, <3>1 DEF AckQuit
  <2>8. CASE T1
    BY <2>8 DEF T1
  <2>9. CASE T3
    BY <2>9 DEF T3
  <2>10. CASE T4
    BY <2>10 DEF T4
  <2>11. CASE T5
    BY <2>11 DEF T5
  <2>12. CASE ReadInt
    BY <2>12 DEF ReadInt
  <2>13. CASE AckInt
    <3>1. sigAck'["int"] = req
      BY <2>13 DEF AckInt, TypeOK, Signal
    <3>. QED
      BY <2>13, <3>1 DEF AckInt
  <2>14. CASE PrintState
    BY <2>14 DEF PrintState
  <2>15. CASE RestoreInt
    BY <2>15 DEF RestoreInt, Restore
  <2>16. CASE RestoreQuit
    BY <2>16 DEF RestoreQuit, Restore
  <2>17. CASE Dump
    BY <2>17 DEF Dump
  <2>18. CASE UNCHANGED vars
    BY <2>18 DEF vars
  <2>. QED
    BY <2>1, <2>2, <2>3, <2>4, <2>5, <2>6, <2>7, <2>8, <2>9, <2>10, <2>11,
       <2>12, <2>13, <2>14, <2>15, <2>16, <2>17, <2>18
    DEF Next, MainThread, Terminated
<1>3. TypeOK /\ PrintInv => PrintsBacked
  <2> SUFFICES ASSUME TypeOK, PrintInv PROVE PrintsBacked
    OBVIOUS
  <2>1. prints \in Nat /\ handled["int"] \in Nat
    BY CounterAssumption DEF TypeOK, Signal
  <2>. QED
    BY <2>1 DEF PrintInv, PrintsBacked, Due, One
<1>. QED
  BY <1>1, <1>2, <1>3, TypeCorrect, PTL DEF Spec

-----------------------------------------------------------------------------
(* The simulator, with its phases and its signals, implements the machine of *)
(* Baby.tla: for every word width, store, set of images and bound.           *)
(* The operators of the instance are those of the simulator.                 *)
LEMMA SameWords ==
    /\ \A n : Machine!Wrap(n) = Wrap(n)
    /\ \A w : Machine!Negative(w) <=> Negative(w)
    /\ \A w : Machine!OperandOf(w) = OperandOf(w)
    /\ \A w : Machine!OpcodeOf(w) = OpcodeOf(w)
  BY DEF Machine!Wrap, Wrap, Machine!Negative, Negative, Machine!Modulus, Modulus,
         Machine!OperandOf, OperandOf, Machine!OpcodeOf, OpcodeOf

LEMMA SameStore ==
    /\ \A size, addr : Machine!ReadIndex(size, addr) = ReadIndex(size, addr)
    /\ \A page, size, addr : Machine!ReadWord(page, size, addr) = ReadWord(page, size, addr)
  BY DEF Machine!ReadWord, ReadWord, Machine!ReadIndex, ReadIndex

-----------------------------------------------------------------------------
(* What the mapped state is, said once for the proof.                        *)
AStore == IF pc = "t3" /\ Opcode = OP_STO
            THEN WriteWord(store, StoreSize, OperandOf(pi), ac)
            ELSE store
AAc == CASE Unexecuted /\ Opcode = OP_LDN -> Wrap(-Datum)
         [] Unexecuted /\ Opcode = OP_SUB -> Wrap(ac - Datum)
         [] OTHER -> ac
ACi == CASE InFlight /\ Opcode = OP_SKN /\ Negative(ac) -> Wrap(ci + 1)
         [] InFlight /\ Opcode = OP_JMP -> Datum
         [] InFlight /\ Opcode = OP_JRP -> Wrap(ci + Datum)
         [] OTHER -> ci
ACycles == IF InFlight THEN (cycles + 1) % CycleSpan ELSE cycles
AHalted == stopped \/ (Unexecuted /\ Opcode = OP_HLT)

LEMMA MappedVars == Machine!babyVars = <<AStore, AAc, ACi, pi, ACycles, AHalted>>
  BY DEF Machine!babyVars, AStore, AAc, ACi, ACycles, AHalted

(* The opcode of a word is one of eight.                                     *)
LEMMA OpcodeRange ==
    ASSUME NEW w \in Word
    PROVE  OpcodeOf(w) \in 0 .. 7
<1>1. w \div OperandSpan \in Int
  BY WordsAssumption, WordIsInt
<1>2. ASSUME NEW n \in Int PROVE n % 8 \in 0 .. 7
  OBVIOUS
<1>. QED
  BY <1>1, <1>2 DEF OpcodeOf

(* While an instruction is under way the stop flag is down, the data read is *)
(* still what is in the cell, and both signals are handled: neither can kill *)
(* the process half-way.                                                     *)
CycleInv ==
    /\ pc \in {"ack_quit", "t1", "t3", "t4"} => stopped = FALSE
    /\ pc \in {"t4", "t5"} /\ ReadsStore(pi) => data = Datum
    /\ pc = "install_quit" => "int" \in handler
    /\ Looping /\ pc \notin {"install_int", "install_quit"} => Signal \subseteq handler

LEMMA CycleInvariant == Spec => []CycleInv
<1>1. Init => CycleInv
  BY DEF Init, CycleInv, Looping
<1>2. TypeOK /\ CycleInv /\ [Next]_vars => CycleInv'
  <2> SUFFICES ASSUME TypeOK, CycleInv, [Next]_vars PROVE CycleInv'
    OBVIOUS
  <2> USE DEF CycleInv, Looping, Datum, Cell, machineVars, signalVars, auxVars
  <2>1. ASSUME NEW s \in Signal, Handle(s) PROVE CycleInv'
    BY <2>1 DEF Handle
  <2>2. ASSUME NEW s \in Signal, Die(s) PROVE CycleInv'
    BY <2>2 DEF Die
  <2>3. CASE InstallInt \/ InstallQuit
    BY <2>3 DEF InstallInt, InstallQuit, Install, Signal
  <2>4. CASE RestoreInt \/ RestoreQuit
    BY <2>4 DEF RestoreInt, RestoreQuit, Restore
  <2>5. CASE TestStopped
    BY <2>5 DEF TestStopped
  <2>6. CASE ReadQuit
    BY <2>6 DEF ReadQuit, TypeOK
  <2>7. CASE AckQuit
    BY <2>7 DEF AckQuit
  <2>8. CASE T1
    BY <2>8 DEF T1
  <2>9. CASE T3
    <3>1. ReadsStore(pi) => store' = store /\ data' = Datum
      BY <2>9 DEF T3, ReadsStore, Opcode, OP_STO, OP_JMP, OP_JRP, OP_LDN, OP_SUB
    <3>. QED
      BY <2>9, <3>1 DEF T3
  <2>10. CASE T4
    BY <2>10 DEF T4
  <2>11. CASE T5
    BY <2>11 DEF T5
  <2>12. CASE ReadInt \/ AckInt \/ PrintState \/ Dump
    BY <2>12 DEF ReadInt, AckInt, PrintState, Dump
  <2>13. CASE UNCHANGED vars
    BY <2>13 DEF vars
  <2>. QED
    BY <2>1, <2>2, <2>3, <2>4, <2>5, <2>6, <2>7, <2>8, <2>9, <2>10, <2>11,
       <2>12, <2>13
    DEF Next, MainThread, Terminated
<1>. QED
  BY <1>1, <1>2, TypeCorrect, PTL DEF Spec

-----------------------------------------------------------------------------
(* Between instructions the mapped state is the state; in the phases of an   *)
(* instruction it is what the instruction will have done.                    *)
Mapping ==
    /\ ~InFlight => /\ AStore = store /\ AAc = ac /\ ACi = ci /\ ACycles = cycles
                    /\ AHalted <=> stopped
    /\ InFlight =>
           /\ ACycles = (cycles + 1) % CycleSpan
           /\ Opcode = OP_JMP => ACi = Datum
           /\ Opcode = OP_JRP => ACi = Wrap(ci + Datum)
           /\ Opcode = OP_SKN /\ Negative(ac) => ACi = Wrap(ci + 1)
           /\ Opcode = OP_SKN /\ ~Negative(ac) => ACi = ci
           /\ Opcode \notin {OP_JMP, OP_JRP, OP_SKN} => ACi = ci
    /\ Unexecuted =>
           /\ Opcode = OP_LDN => AAc = Wrap(-Datum)
           /\ Opcode = OP_SUB => AAc = Wrap(ac - Datum)
           /\ Opcode \notin {OP_LDN, OP_SUB} => AAc = ac
           /\ AHalted <=> (stopped \/ Opcode = OP_HLT)
    /\ ~Unexecuted => AAc = ac /\ (AHalted <=> stopped)
    /\ pc = "t3" /\ Opcode = OP_STO => AStore = WriteWord(store, StoreSize, OperandOf(pi), ac)
    /\ ~(pc = "t3" /\ Opcode = OP_STO) => AStore = store

LEMMA MappingHolds == Mapping
<1>1. ASSUME ~InFlight
      PROVE  /\ AStore = store /\ AAc = ac /\ ACi = ci /\ ACycles = cycles
             /\ AHalted <=> stopped
  <2>1. pc # "t3" /\ ~Unexecuted
    BY <1>1 DEF InFlight, Unexecuted
  <2>. QED
    BY <1>1, <2>1 DEF AStore, AAc, ACi, ACycles, AHalted
<1>2. ASSUME InFlight
      PROVE  /\ ACycles = (cycles + 1) % CycleSpan
             /\ Opcode = OP_JMP => ACi = Datum
             /\ Opcode = OP_JRP => ACi = Wrap(ci + Datum)
             /\ Opcode = OP_SKN /\ Negative(ac) => ACi = Wrap(ci + 1)
             /\ Opcode = OP_SKN /\ ~Negative(ac) => ACi = ci
             /\ Opcode \notin {OP_JMP, OP_JRP, OP_SKN} => ACi = ci
  <2>1. OP_JMP # OP_JRP /\ OP_JMP # OP_SKN /\ OP_JRP # OP_SKN
    BY DEF OP_JMP, OP_JRP, OP_SKN
  <2>. QED
    BY <1>2, <2>1 DEF ACycles, ACi
<1>3. ASSUME Unexecuted
      PROVE  /\ Opcode = OP_LDN => AAc = Wrap(-Datum)
             /\ Opcode = OP_SUB => AAc = Wrap(ac - Datum)
             /\ Opcode \notin {OP_LDN, OP_SUB} => AAc = ac
             /\ AHalted <=> (stopped \/ Opcode = OP_HLT)
  <2>1. OP_LDN # OP_SUB
    BY DEF OP_LDN, OP_SUB
  <2>. QED
    BY <1>3, <2>1 DEF AAc, AHalted
<1>4. ASSUME ~Unexecuted
      PROVE  AAc = ac /\ (AHalted <=> stopped)
  BY <1>4 DEF AAc, AHalted
<1>5. /\ pc = "t3" /\ Opcode = OP_STO =>
             AStore = WriteWord(store, StoreSize, OperandOf(pi), ac)
      /\ ~(pc = "t3" /\ Opcode = OP_STO) => AStore = store
  BY DEF AStore
<1>. QED
  BY <1>1, <1>2, <1>3, <1>4, <1>5 DEF Mapping

LEMMA MappingHoldsNext == Mapping'
  BY MappingHolds, PTL

-----------------------------------------------------------------------------
(* The instance's initial predicate and actions in these terms.              *)
LEMMA InstanceFetch ==
    ASSUME NEW op
    PROVE  Machine!Fetch(op) <=>
               /\ ~AHalted
               /\ OpcodeOf(Machine!Fetched) = op
               /\ pi' = Machine!Fetched
               /\ ACycles' = (ACycles + 1) % CycleSpan
  BY SameWords DEF Machine!Fetch, AHalted, ACycles

LEMMA InstanceReads ==
    /\ Machine!Fetched = ReadWord(AStore, StoreSize, Wrap(ACi + 1))
    /\ Machine!Datum = ReadWord(AStore, StoreSize, OperandOf(Machine!Fetched))
    /\ Machine!Incremented(ACi) = Wrap(ACi + 1)
  BY SameWords, SameStore
  DEF Machine!Fetched, Machine!Datum, Machine!Cell, Machine!Incremented, AStore, ACi

LEMMA InstanceJumps ==
    /\ Machine!Jump <=>
           /\ Machine!Fetch(OP_JMP)
           /\ ACi' = Machine!Datum
           /\ UNCHANGED <<AStore, AAc, AHalted>>
    /\ Machine!RelativeJump <=>
           /\ Machine!Fetch(OP_JRP)
           /\ ACi' = Wrap(Machine!Incremented(ACi) + Machine!Datum)
           /\ UNCHANGED <<AStore, AAc, AHalted>>
    /\ Machine!SkipIfNegative <=>
           /\ Machine!Fetch(OP_SKN)
           /\ ACi' = IF Negative(AAc) THEN Wrap(Machine!Incremented(ACi) + 1)
                                      ELSE Machine!Incremented(ACi)
           /\ UNCHANGED <<AStore, AAc, AHalted>>
<1>1. Machine!OP_JMP = OP_JMP /\ Machine!OP_JRP = OP_JRP /\ Machine!OP_SKN = OP_SKN
  BY DEF Machine!OP_JMP, OP_JMP, Machine!OP_JRP, OP_JRP, Machine!OP_SKN, OP_SKN
<1>. QED
  BY <1>1, SameWords
  DEF Machine!Jump, Machine!RelativeJump, Machine!SkipIfNegative,
      AStore, AAc, ACi, AHalted

LEMMA InstanceOthers ==
    /\ Machine!LoadNegative <=>
           /\ Machine!Fetch(OP_LDN)
           /\ AAc' = Wrap(-Machine!Datum)
           /\ ACi' = Machine!Incremented(ACi)
           /\ UNCHANGED <<AStore, AHalted>>
    /\ Machine!Put <=>
           /\ Machine!Fetch(OP_STO)
           /\ AStore' = [AStore EXCEPT
                  ![ReadIndex(StoreSize, OperandOf(Machine!Fetched))] = AAc]
           /\ ACi' = Machine!Incremented(ACi)
           /\ UNCHANGED <<AAc, AHalted>>
    /\ Machine!Subtract <=>
           /\ Machine!Fetch(OP_SUB)
           /\ AAc' = Wrap(AAc - Machine!Datum)
           /\ ACi' = Machine!Incremented(ACi)
           /\ UNCHANGED <<AStore, AHalted>>
    /\ Machine!Nothing <=>
           /\ Machine!Fetch(OP_SUB_ALIAS)
           /\ ACi' = Machine!Incremented(ACi)
           /\ UNCHANGED <<AStore, AAc, AHalted>>
    /\ Machine!Halt <=>
           /\ Machine!Fetch(OP_HLT)
           /\ AHalted' = TRUE
           /\ ACi' = Machine!Incremented(ACi)
           /\ UNCHANGED <<AStore, AAc>>
<1>1. /\ Machine!OP_LDN = OP_LDN /\ Machine!OP_STO = OP_STO /\ Machine!OP_SUB = OP_SUB
      /\ Machine!OP_SUB_ALIAS = OP_SUB_ALIAS /\ Machine!OP_HLT = OP_HLT
  BY DEF Machine!OP_LDN, OP_LDN, Machine!OP_STO, OP_STO, Machine!OP_SUB, OP_SUB,
         Machine!OP_SUB_ALIAS, OP_SUB_ALIAS, Machine!OP_HLT, OP_HLT
<1>. QED
  BY <1>1, SameWords, SameStore
  DEF Machine!LoadNegative, Machine!Put, Machine!Subtract, Machine!Nothing,
      Machine!Halt, AStore, AAc, ACi, AHalted

LEMMA InitialStateRefined == Init => Machine!BabyInit
  BY DEF Init, Machine!BabyInit, InFlight, Unexecuted

-----------------------------------------------------------------------------
(* Fetching an instruction runs it in the abstract machine.                  *)
LEMMA FetchRefined ==
    ASSUME TypeOK, TypeOK', CycleInv, CycleInv', T1
    PROVE  Machine!BabyNext
<1>1. /\ AStore = store /\ AAc = ac /\ ACi = ci /\ ACycles = cycles /\ AHalted = FALSE
  <2>1. ~InFlight /\ stopped = FALSE
    BY DEF T1, InFlight, CycleInv
  <2>2. AHalted = stopped
    BY <2>1 DEF AHalted, InFlight, Unexecuted
  <2>. QED
    BY <2>1, <2>2, MappingHolds DEF Mapping
<1>2. InFlight' /\ Unexecuted' /\ pc' = "t3" /\ stopped' = FALSE
  BY DEF T1, InFlight, Unexecuted, CycleInv
<1>3. store' = store /\ ac' = ac /\ cycles' = cycles
  BY DEF T1
<1>4. ci' = Wrap(ci + 1) /\ pi' = Machine!Fetched /\ ci' = Machine!Incremented(ACi)
  BY <1>1, InstanceReads DEF T1, Cell
<1>5. Opcode' = OpcodeOf(Machine!Fetched) /\ Datum' = Machine!Datum
  BY <1>1, <1>3, <1>4, InstanceReads DEF Opcode, Datum, Cell
<1>6. ACycles' = (ACycles + 1) % CycleSpan
  BY <1>1, <1>2, <1>3, MappingHoldsNext DEF Mapping
<1>7. ASSUME NEW op, Opcode' = op PROVE Machine!Fetch(op)
  BY <1>1, <1>4, <1>5, <1>6, <1>7, InstanceFetch
<1> USE DEF OP_JMP, OP_JRP, OP_LDN, OP_STO, OP_SUB, OP_SUB_ALIAS, OP_SKN, OP_HLT
<1>8. /\ Opcode' = OP_JMP => ACi' = Machine!Datum
      /\ Opcode' = OP_JRP => ACi' = Wrap(Machine!Incremented(ACi) + Machine!Datum)
      /\ Opcode' = OP_SKN =>
             ACi' = IF Negative(AAc) THEN Wrap(Machine!Incremented(ACi) + 1)
                                     ELSE Machine!Incremented(ACi)
      /\ Opcode' \notin {OP_JMP, OP_JRP, OP_SKN} => ACi' = Machine!Incremented(ACi)
  <2>1. Negative(ac)' <=> Negative(AAc)
    BY <1>1, <1>3 DEF Negative, Modulus
  <2>. QED
    BY <1>1, <1>2, <1>3, <1>4, <1>5, <2>1, MappingHoldsNext DEF Mapping
<1>9. /\ Opcode' = OP_LDN => AAc' = Wrap(-Machine!Datum)
      /\ Opcode' = OP_SUB => AAc' = Wrap(AAc - Machine!Datum)
      /\ Opcode' \notin {OP_LDN, OP_SUB} => AAc' = AAc
  BY <1>1, <1>2, <1>3, <1>5, MappingHoldsNext DEF Mapping
<1>10. /\ Opcode' = OP_STO =>
              AStore' = [AStore EXCEPT
                  ![ReadIndex(StoreSize, OperandOf(Machine!Fetched))] = AAc]
       /\ Opcode' # OP_STO => AStore' = AStore
  <2>1. Machine!Fetched \in Word
    BY <1>4 DEF TypeOK
  <2>2. OperandOf(Machine!Fetched) \in Nat
    BY <2>1, OperandIsWord DEF Word
  <2>3. WriteIndex(StoreSize, OperandOf(Machine!Fetched))
            = ReadIndex(StoreSize, OperandOf(Machine!Fetched))
    BY <2>2, StoreAssumption, FoldsAgree
  <2>. QED
    BY <1>1, <1>2, <1>3, <1>4, <2>3, MappingHoldsNext DEF Mapping, WriteWord
<1>11. /\ Opcode' = OP_HLT => AHalted' = TRUE
       /\ Opcode' # OP_HLT => AHalted' = AHalted
  BY <1>1, <1>2 DEF AHalted
<1>12. Opcode' \in 0 .. 7
  BY OpcodeRange DEF Opcode, TypeOK
<1>13. CASE Opcode' = OP_JMP
  BY <1>13, <1>7, <1>8, <1>9, <1>10, <1>11, InstanceJumps DEF Machine!BabyNext
<1>14. CASE Opcode' = OP_JRP
  BY <1>14, <1>7, <1>8, <1>9, <1>10, <1>11, InstanceJumps DEF Machine!BabyNext
<1>15. CASE Opcode' = OP_LDN
  BY <1>15, <1>7, <1>8, <1>9, <1>10, <1>11, InstanceOthers DEF Machine!BabyNext
<1>16. CASE Opcode' = OP_STO
  BY <1>16, <1>7, <1>8, <1>9, <1>10, <1>11, InstanceOthers DEF Machine!BabyNext
<1>17. CASE Opcode' = OP_SUB
  BY <1>17, <1>7, <1>8, <1>9, <1>10, <1>11, InstanceOthers DEF Machine!BabyNext
<1>18. CASE Opcode' = OP_SUB_ALIAS
  BY <1>18, <1>7, <1>8, <1>9, <1>10, <1>11, InstanceOthers DEF Machine!BabyNext
<1>19. CASE Opcode' = OP_SKN
  BY <1>19, <1>7, <1>8, <1>9, <1>10, <1>11, InstanceJumps DEF Machine!BabyNext
<1>20. CASE Opcode' = OP_HLT
  BY <1>20, <1>7, <1>8, <1>9, <1>10, <1>11, InstanceOthers DEF Machine!BabyNext
<1>. QED
  BY <1>12, <1>13, <1>14, <1>15, <1>16, <1>17, <1>18, <1>19, <1>20

-----------------------------------------------------------------------------
(* Every other step leaves the abstract machine where it is.                 *)
Mapped == <<AStore, AAc, ACi, pi, ACycles, AHalted>>

(* A step between instructions that does not touch the machine.              *)
LEMMA Between ==
    ASSUME UNCHANGED machineVars, ~InFlight, ~InFlight'
    PROVE  UNCHANGED Mapped
<1>1. ~Unexecuted /\ ~Unexecuted' /\ pc # "t3" /\ pc' # "t3"
  BY DEF InFlight, Unexecuted
<1>2. /\ AStore = store /\ AAc = ac /\ ACi = ci /\ ACycles = cycles
      /\ AStore' = store' /\ AAc' = ac' /\ ACi' = ci' /\ ACycles' = cycles'
  BY MappingHolds, MappingHoldsNext DEF Mapping
<1>3. AHalted' = AHalted
  BY <1>1 DEF AHalted, machineVars
<1>. QED
  BY <1>2, <1>3 DEF Mapped, machineVars

(* The handler runs between two instructions or between two phases.          *)
LEMMA HandlerStutters ==
    ASSUME UNCHANGED <<pc, machineVars>>
    PROVE  UNCHANGED Mapped
<1>1. /\ pc' = pc /\ store' = store /\ ac' = ac /\ ci' = ci /\ pi' = pi
      /\ stopped' = stopped /\ cycles' = cycles
  BY DEF machineVars
<1>2. Opcode' = Opcode /\ Datum' = Datum /\ InFlight' = InFlight /\ Unexecuted' = Unexecuted
  BY <1>1 DEF Opcode, Datum, Cell, InFlight, Unexecuted
<1>3. AStore' = AStore /\ ACycles' = ACycles /\ AHalted' = AHalted
  BY <1>1, <1>2 DEF AStore, ACycles, AHalted
<1>4. AAc' = AAc
  BY <1>1, <1>2 DEF AAc
<1>5. ACi' = ACi
  BY <1>1, <1>2 DEF ACi
<1>. QED
  BY <1>1, <1>3, <1>4, <1>5 DEF Mapped

(* The phases after the fetch do what the mapped state has already done.     *)
LEMMA DataAccessStutters ==
    ASSUME TypeOK, T3
    PROVE  UNCHANGED Mapped
<1>1. /\ pc = "t3" /\ pc' = "t4"
      /\ InFlight /\ InFlight' /\ Unexecuted /\ Unexecuted'
      /\ ac' = ac /\ ci' = ci /\ pi' = pi /\ stopped' = stopped /\ cycles' = cycles
  BY DEF T3, InFlight, Unexecuted
<1>2. Opcode' = Opcode
  BY <1>1 DEF Opcode
<1>3. AStore' = AStore
  BY <1>1, MappingHolds, MappingHoldsNext DEF Mapping, T3
<1>4. Opcode # OP_STO => Datum' = Datum
  BY <1>1 DEF T3, Datum, Cell
<1>5. ACycles' = ACycles /\ AHalted' = AHalted
  BY <1>1, <1>2 DEF ACycles, AHalted
<1>6. AAc' = AAc
  BY <1>1, <1>2, <1>4, MappingHolds, MappingHoldsNext
  DEF Mapping, OP_LDN, OP_SUB, OP_STO
<1>7. Negative(ac)' = Negative(ac)
  BY <1>1 DEF Negative, Modulus
<1>8. ACi' = ACi
  BY <1>1, <1>2, <1>4, <1>7, MappingHolds, MappingHoldsNext
  DEF Mapping, OP_JMP, OP_JRP, OP_SKN, OP_STO
<1>. QED
  BY <1>1, <1>3, <1>5, <1>6, <1>8 DEF Mapped

LEMMA ExecuteStutters ==
    ASSUME TypeOK, CycleInv, T4
    PROVE  UNCHANGED Mapped
<1>1. /\ pc = "t4" /\ pc' = "t5"
      /\ InFlight /\ InFlight' /\ Unexecuted /\ ~Unexecuted'
      /\ store' = store /\ ci' = ci /\ pi' = pi /\ data' = data /\ cycles' = cycles
  BY DEF T4, InFlight, Unexecuted
<1>2. Opcode' = Opcode /\ Datum' = Datum
  BY <1>1 DEF Opcode, Datum, Cell
<1>3. AStore' = AStore /\ ACycles' = ACycles
  BY <1>1, MappingHolds, MappingHoldsNext DEF Mapping
<1>4. AHalted' = AHalted
  BY <1>1, <1>2 DEF AHalted, T4
<1>5. Opcode = OP_LDN \/ Opcode = OP_SUB => data = Datum
  BY <1>1 DEF CycleInv, ReadsStore, Opcode
<1>6. /\ Opcode = OP_LDN => ac' = Wrap(-data)
      /\ Opcode = OP_SUB => ac' = Wrap(ac - data)
      /\ Opcode \notin {OP_LDN, OP_SUB} => ac' = ac
  <2>1. OP_LDN # OP_SUB
    BY DEF OP_LDN, OP_SUB
  <2>. QED
    BY <2>1 DEF T4
<1>7. AAc' = AAc
  BY <1>1, <1>2, <1>5, <1>6, MappingHolds, MappingHoldsNext DEF Mapping
<1>8. Opcode = OP_SKN => Negative(ac)' = Negative(ac)
  BY <1>6 DEF Negative, Modulus, OP_SKN, OP_LDN, OP_SUB
<1>9. ACi' = ACi
  BY <1>1, <1>2, <1>8, MappingHolds, MappingHoldsNext DEF Mapping
<1>. QED
  BY <1>1, <1>3, <1>4, <1>7, <1>9 DEF Mapped

LEMMA NextPcStutters ==
    ASSUME TypeOK, CycleInv, T5
    PROVE  UNCHANGED Mapped
<1>1. /\ pc = "t5" /\ pc' = "read_int"
      /\ InFlight /\ ~InFlight' /\ ~Unexecuted /\ ~Unexecuted'
      /\ store' = store /\ ac' = ac /\ pi' = pi /\ stopped' = stopped
      /\ cycles' = (cycles + 1) % CycleSpan
  BY DEF T5, InFlight, Unexecuted
<1>2. AStore' = AStore /\ AAc' = AAc /\ ACycles' = ACycles
  BY <1>1, MappingHolds, MappingHoldsNext DEF Mapping
<1>3. AHalted' = AHalted
  BY <1>1 DEF AHalted
<1>4. Opcode = OP_JMP \/ Opcode = OP_JRP => data = Datum
  BY <1>1 DEF CycleInv, ReadsStore, Opcode
<1>5. OP_JMP # OP_JRP /\ OP_JMP # OP_SKN /\ OP_JRP # OP_SKN
  BY DEF OP_JMP, OP_JRP, OP_SKN
<1>6. /\ Opcode = OP_JMP => ci' = data
      /\ Opcode = OP_JRP => ci' = Wrap(ci + data)
      /\ Opcode = OP_SKN /\ Negative(ac) => ci' = Wrap(ci + 1)
      /\ Opcode = OP_SKN /\ ~Negative(ac) => ci' = ci
      /\ Opcode \notin {OP_JMP, OP_JRP, OP_SKN} => ci' = ci
  BY <1>5 DEF T5
<1>7. ACi' = ACi
  BY <1>1, <1>4, <1>6, MappingHolds, MappingHoldsNext DEF Mapping
<1>. QED
  BY <1>1, <1>2, <1>3, <1>7 DEF Mapped

LEMMA MappedUnchanged == UNCHANGED Mapped => UNCHANGED Machine!babyVars
<1>1. Machine!babyVars = Mapped
  BY MappedVars DEF Mapped
<1>2. (Machine!babyVars = Mapped)'
  BY <1>1, PTL
<1>. QED
  BY <1>1, <1>2

(* Each step of the simulator is a step of the Baby or none at all.          *)
LEMMA StepRefined ==
    ASSUME TypeOK, TypeOK', CycleInv, CycleInv', [Next]_vars
    PROVE  [Machine!BabyNext]_(Machine!babyVars)
<1>1. SUFFICES Machine!BabyNext \/ UNCHANGED Mapped
  BY MappedUnchanged
<1>2. ASSUME NEW s \in Signal, Handle(s) PROVE UNCHANGED Mapped
  BY <1>2, HandlerStutters DEF Handle
<1>3. ASSUME NEW s \in Signal, Die(s) PROVE UNCHANGED Mapped
  BY <1>3, Between DEF Die, CycleInv, Looping, InFlight
<1>4. CASE InstallInt \/ InstallQuit \/ RestoreInt \/ RestoreQuit
  BY <1>4, Between
  DEF InstallInt, InstallQuit, RestoreInt, RestoreQuit, Install, Restore, InFlight
<1>5. CASE TestStopped \/ ReadQuit \/ AckQuit
  BY <1>5, Between DEF TestStopped, ReadQuit, AckQuit, InFlight
<1>6. CASE ReadInt \/ AckInt \/ PrintState \/ Dump
  BY <1>6, Between DEF ReadInt, AckInt, PrintState, Dump, InFlight
<1>7. CASE T1
  BY <1>7, FetchRefined
<1>8. CASE T3
  BY <1>8, DataAccessStutters
<1>9. CASE T4
  BY <1>9, ExecuteStutters
<1>10. CASE T5
  BY <1>10, NextPcStutters
<1>11. CASE UNCHANGED vars
  BY <1>11, HandlerStutters DEF vars
<1>. QED
  BY <1>2, <1>3, <1>4, <1>5, <1>6, <1>7, <1>8, <1>9, <1>10, <1>11
  DEF Next, MainThread, Terminated

(* Whatever the program in the store, and whatever signals arrive when, what *)
(* bsim computes is what the Baby computes in a whole number of              *)
(* instructions, each of them counted once.                                  *)
THEOREM SimulatorImplementsBaby == Spec => ImplementsBaby
<1>1. TypeOK /\ TypeOK' /\ CycleInv /\ CycleInv' /\ [Next]_vars
        => [Machine!BabyNext]_(Machine!babyVars)
  BY StepRefined
<1>. QED
  BY <1>1, InitialStateRefined, TypeCorrect, CycleInvariant, PTL
  DEF Spec, ImplementsBaby, Machine!BabySpec
=============================================================================
