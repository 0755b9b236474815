----------------------------- MODULE Simulator -----------------------------
(* bsim.c from the moment the image is in the store: installing the signal   *)
(* handlers, the loop that alternates between a machine cycle and polling    *)
(* for signals, putting the old dispositions back, and the final dump.       *)
(* A signal may arrive between any two steps of the main thread.  Before the *)
(* handlers are installed and after they are removed it kills the process;   *)
(* in between it increments a request counter that the main thread compares  *)
(* with the last value it acknowledged.                                      *)
EXTENDS Store

CONSTANTS
    StoreSize,      \* words in the page
    Images,         \* the contents a loader may have left in the store
    CycleSpan,      \* values of the cycle counter, a uint64_t  (2^64)
    SigSpan,        \* values of a request counter, an int  (2^32)
    MaxSignals      \* bound: signals of each kind that arrive in a run

(* memory_checks() has passed.                                               *)
ASSUME StoreAssumption == StoreSize \in Nat \ {0} /\ MemoryChecks(StoreSize)

ASSUME ImagesAssumption == Images \subseteq Page(StoreSize)

ASSUME CounterAssumption ==
    /\ CycleSpan \in Nat \ {0}
    /\ SigSpan \in Nat \ {0, 1}
    /\ MaxSignals \in Nat

Signal == {"int", "quit"}

(* Bound: instructions after a SIGQUIT are counted up to two.                *)
MaxAfterQuit == 2

VARIABLES
    pc,             \* where the main thread is
    store,          \* page0.data
    ac, ci, pi,     \* mc.regs
    data,           \* the local of sim_cycle
    stopped,        \* mc.stopped
    cycles,         \* mc.cycles
    handler,        \* the signals signal_handler is installed for
    sigReq,         \* sig_req, incremented by the handler
    sigAck,         \* sig_ack, a local of main
    req             \* the local of the poll_* call in progress

(* Auxiliary variables: what arrived and what was answered.                  *)
VARIABLES
    handled,        \* how many signals of each kind the handler has taken
    prints,         \* how often the loop has printed the registers
    unanswered,     \* a SIGINT was handled and nothing printed since
    afterQuit       \* instructions begun since the first SIGQUIT

machineVars == <<store, ac, ci, pi, data, stopped, cycles>>
signalVars == <<handler, sigReq, sigAck, req>>
auxVars == <<handled, prints, unanswered, afterQuit>>
vars == <<pc, machineVars, signalVars, auxVars>>

Init ==
    /\ pc = "install_int"
    /\ store \in Images
    /\ ac = 0 /\ ci = 0 /\ pi = 0 /\ data = 0
    /\ stopped = FALSE
    /\ cycles = 0
    /\ handler = {}
    /\ sigReq = [s \in Signal |-> 0]
    /\ sigAck = [s \in Signal |-> 0]
    /\ req = 0
    /\ handled = [s \in Signal |-> 0]
    /\ prints = 0
    /\ unanswered = FALSE
    /\ afterQuit = 0

-----------------------------------------------------------------------------
(* Signals.                                                                  *)

Running == pc \notin {"done", "killed"}

(* Mutant: a request counter wider than the one it is compared with.         *)
BumpUnbounded(n) == n + 1

(* An int that counts up wraps, built as the Makefile builds it.             *)
Bump(n) == IF n = SigSpan - 1 THEN 0 ELSE n + 1

(* signal_handler().  The guard bounds the signals of a run, and leaves out  *)
(* the arrival of 2^32 signals between two polls, which would make the       *)
(* counters equal again.                                                     *)
Handle(s) ==
    /\ Running
    /\ s \in handler
    /\ handled[s] < MaxSignals
    /\ Bump(sigReq[s]) # sigAck[s]
    /\ sigReq' = [sigReq EXCEPT ![s] = Bump(sigReq[s])]
    /\ handled' = [handled EXCEPT ![s] = @ + 1]
    /\ unanswered' = (unanswered \/ s = "int")
    /\ UNCHANGED <<pc, machineVars, handler, sigAck, req, prints, afterQuit>>

(* The default disposition of SIGINT and of SIGQUIT ends the process.        *)
Die(s) ==
    /\ Running
    /\ s \notin handler
    /\ MaxSignals > 0
    /\ pc' = "killed"
    /\ UNCHANGED <<machineVars, signalVars, auxVars>>

(* sigaction() either way round.                                             *)
Install(s, from, to) ==
    /\ pc = from
    /\ handler' = handler \cup {s}
    /\ pc' = to
    /\ UNCHANGED <<machineVars, sigReq, sigAck, req, auxVars>>

Restore(s, from, to) ==
    /\ pc = from
    /\ handler' = handler \ {s}
    /\ pc' = to
    /\ UNCHANGED <<machineVars, sigReq, sigAck, req, auxVars>>

InstallInt == Install("int", "install_int", "install_quit")
InstallQuit == Install("quit", "install_quit", "test")
RestoreInt == Restore("int", "restore_int", "restore_quit")
RestoreQuit == Restore("quit", "restore_quit", "dump")

-----------------------------------------------------------------------------
(* The loop condition, !mc.stopped && !poll_sigquit(&sig_ack).  A poll reads *)
(* the request counter once and works on the copy.                           *)

TestStopped ==
    /\ pc = "test"
    /\ stopped
    /\ pc' = "restore_int"
    /\ UNCHANGED <<machineVars, signalVars, auxVars>>

(* Mutant: polls the counter of the other signal.                            *)
ReadQuitOfInt ==
    /\ pc = "test"
    /\ ~stopped
    /\ req' = sigReq["int"]
    /\ pc' = "ack_quit"
    /\ UNCHANGED <<machineVars, handler, sigReq, sigAck, auxVars>>

ReadQuit ==
    /\ pc = "test"
    /\ ~stopped
    /\ req' = sigReq["quit"]
    /\ pc' = "ack_quit"
    /\ UNCHANGED <<machineVars, handler, sigReq, sigAck, auxVars>>

(* Mutant: acknowledges what is in the counter now, not what was read.       *)
AckQuitRereads ==
    /\ pc = "ack_quit"
    /\ sigAck' = [sigAck EXCEPT !["quit"] = sigReq["quit"]]
    /\ pc' = IF sigAck["quit"] # req THEN "restore_int" ELSE "t1"
    /\ UNCHANGED <<machineVars, handler, sigReq, req, auxVars>>

AckQuit ==
    /\ pc = "ack_quit"
    /\ sigAck' = [sigAck EXCEPT !["quit"] = req]
    /\ pc' = IF sigAck["quit"] # req THEN "restore_int" ELSE "t1"
    /\ UNCHANGED <<machineVars, handler, sigReq, req, auxVars>>

(* if (poll_sigint(&sig_ack)) dump_state(&mc)                                *)
ReadInt ==
    /\ pc = "read_int"
    /\ req' = sigReq["int"]
    /\ pc' = "ack_int"
    /\ UNCHANGED <<machineVars, handler, sigReq, sigAck, auxVars>>

(* Mutant: answers without acknowledging.                                    *)
AckIntForgets ==
    /\ pc = "ack_int"
    /\ pc' = IF sigAck["int"] # req THEN "print" ELSE "test"
    /\ UNCHANGED <<machineVars, signalVars, auxVars>>

(* Mutant: acknowledges what is in the counter now, not what was read.       *)
AckIntRereads ==
    /\ pc = "ack_int"
    /\ sigAck' = [sigAck EXCEPT !["int"] = sigReq["int"]]
    /\ pc' = IF sigAck["int"] # req THEN "print" ELSE "test"
    /\ UNCHANGED <<machineVars, handler, sigReq, req, auxVars>>

AckInt ==
    /\ pc = "ack_int"
    /\ sigAck' = [sigAck EXCEPT !["int"] = req]
    /\ pc' = IF sigAck["int"] # req THEN "print" ELSE "test"
    /\ UNCHANGED <<machineVars, handler, sigReq, req, auxVars>>

PrintState ==
    /\ pc = "print"
    /\ prints' = prints + 1
    /\ unanswered' = FALSE
    /\ pc' = "test"
    /\ UNCHANGED <<machineVars, signalVars, handled, afterQuit>>

-----------------------------------------------------------------------------
(* sim_cycle(), in the phases its comments name.                             *)

Cell(addr) == ReadWord(store, StoreSize, addr)
Opcode == OpcodeOf(pi)
Datum == Cell(OperandOf(pi))

(* t1: Fetch.  Decoding (t2) has no state of its own: the fields are read    *)
(* off pi where they are used.                                               *)
T1 ==
    /\ pc = "t1"
    /\ ci' = Wrap(ci + 1)
    /\ pi' = Cell(Wrap(ci + 1))
    /\ afterQuit' = IF handled["quit"] > 0 /\ afterQuit < MaxAfterQuit
                      THEN afterQuit + 1 ELSE afterQuit
    /\ pc' = "t3"
    /\ UNCHANGED <<store, ac, data, stopped, cycles, signalVars,
                   handled, prints, unanswered>>

(* t3: Execute - data access.  data is zero in a cycle that reads nothing.   *)
T3 ==
    /\ pc = "t3"
    /\ data' = IF ReadsStore(pi) THEN Datum ELSE 0
    /\ store' = IF Opcode = OP_STO
                  THEN WriteWord(store, StoreSize, OperandOf(pi), ac)
                  ELSE store
    /\ pc' = "t4"
    /\ UNCHANGED <<ac, ci, pi, stopped, cycles, signalVars, auxVars>>

(* t4: Execute.                                                              *)
T4 ==
    /\ pc = "t4"
    /\ ac' = CASE Opcode = OP_LDN -> Wrap(-data)
               [] Opcode = OP_SUB -> Wrap(ac - data)
               [] OTHER -> ac
    /\ stopped' = (stopped \/ Opcode = OP_HLT)
    /\ pc' = "t5"
    /\ UNCHANGED <<store, ci, pi, data, cycles, signalVars, auxVars>>

(* Mutant: a jump goes to its operand, not to what the cell there holds.     *)
T5JumpsDirectly ==
    /\ pc = "t5"
    /\ ci' = CASE Opcode = OP_SKN /\ Negative(ac) -> Wrap(ci + 1)
               [] Opcode = OP_JMP -> OperandOf(pi)
               [] Opcode = OP_JRP -> Wrap(ci + data)
               [] OTHER -> ci
    /\ cycles' = (cycles + 1) % CycleSpan
    /\ pc' = "read_int"
    /\ UNCHANGED <<store, ac, pi, data, stopped, signalVars, auxVars>>

(* Mutant: a relative jump is absolute.                                      *)
T5JumpsAbsolutely ==
    /\ pc = "t5"
    /\ ci' = CASE Opcode = OP_SKN /\ Negative(ac) -> Wrap(ci + 1)
               [] Opcode \in {OP_JMP, OP_JRP} -> data
               [] OTHER -> ci
    /\ cycles' = (cycles + 1) % CycleSpan
    /\ pc' = "read_int"
    /\ UNCHANGED <<store, ac, pi, data, stopped, signalVars, auxVars>>

(* t5: Next-PC.                                                              *)
T5 ==
    /\ pc = "t5"
    /\ ci' = CASE Opcode = OP_SKN /\ Negative(ac) -> Wrap(ci + 1)
               [] Opcode = OP_JMP -> data
               [] Opcode = OP_JRP -> Wrap(ci + data)
               [] OTHER -> ci
    /\ cycles' = (cycles + 1) % CycleSpan
    /\ pc' = "read_int"
    /\ UNCHANGED <<store, ac, pi, data, stopped, signalVars, auxVars>>

-----------------------------------------------------------------------------
(* dump_vm() and dump_state() print where the machine ended.                 *)
Dump ==
    /\ pc = "dump"
    /\ unanswered' = FALSE
    /\ pc' = "done"
    /\ UNCHANGED <<machineVars, signalVars, handled, prints, afterQuit>>

MainThread ==
    \/ InstallInt \/ InstallQuit
    \/ TestStopped \/ ReadQuit \/ AckQuit
    \/ T1 \/ T3 \/ T4 \/ T5
    \/ ReadInt \/ AckInt \/ PrintState
    \/ RestoreInt \/ RestoreQuit \/ Dump

Terminated == ~Running /\ UNCHANGED vars

Next ==
    \/ MainThread
    \/ \E s \in Signal : Handle(s) \/ Die(s)
    \/ Terminated

(* The main thread is scheduled; nobody is obliged to send a signal.         *)
Spec == Init /\ [][Next]_vars /\ WF_vars(MainThread)

-----------------------------------------------------------------------------
(* Properties.                                                               *)

Counter == 0 .. SigSpan - 1

(* The type invariant.                                                       *)
TypeOK ==
    /\ pc \in {"install_int", "install_quit", "test", "ack_quit", "t1", "t3",
               "t4", "t5", "read_int", "ack_int", "print", "restore_int",
               "restore_quit", "dump", "done", "killed"}
    /\ store \in Page(StoreSize)
    /\ ac \in Word /\ ci \in Word /\ pi \in Word /\ data \in Word
    /\ stopped \in BOOLEAN
    /\ cycles \in 0 .. CycleSpan - 1
    /\ handler \in SUBSET Signal
    /\ sigReq \in [Signal -> Counter]
    /\ sigAck \in [Signal -> Counter]
    /\ req \in Counter
    /\ handled \in [Signal -> 0 .. MaxSignals]
    /\ prints \in Nat
    /\ unanswered \in BOOLEAN
    /\ afterQuit \in 0 .. MaxAfterQuit

(* bsim's usage text promises that SIGQUIT stops it "after current           *)
(* instruction".  The poll and the signal race: the signal may arrive after  *)
(* the counter was read and before the instruction is fetched.  That         *)
(* instruction is then the current one; no second one is ever begun.         *)
QuitPrompt == afterQuit <= 1

(* Each printing of the registers inside the loop answers a SIGINT of its    *)
(* own: signals may be merged into one answer, never answered twice.         *)
PrintsBacked == prints <= handled["int"]

(* A cycle is never cut short by a signal: the machine halts or is stopped   *)
(* only between instructions, so what bsim dumps is where the Baby was after *)
(* a whole number of instructions, those it counts.  Stated as refinement:   *)
(* the abstract machine runs the instruction when it is fetched, and what    *)
(* the later phases have still to do is done in the mapped state.            *)
InFlight == pc \in {"t3", "t4", "t5"}
Unexecuted == pc \in {"t3", "t4"}

Machine == INSTANCE Baby WITH
    store <- IF pc = "t3" /\ Opcode = OP_STO
               THEN WriteWord(store, StoreSize, OperandOf(pi), ac)
               ELSE store,
    ac <- CASE Unexecuted /\ Opcode = OP_LDN -> Wrap(-Datum)
            [] Unexecuted /\ Opcode = OP_SUB -> Wrap(ac - Datum)
            [] OTHER -> ac,
    ci <- CASE InFlight /\ Opcode = OP_SKN /\ Negative(ac) -> Wrap(ci + 1)
            [] InFlight /\ Opcode = OP_JMP -> Datum
            [] InFlight /\ Opcode = OP_JRP -> Wrap(ci + Datum)
            [] OTHER -> ci,
    cycles <- IF InFlight THEN (cycles + 1) % CycleSpan ELSE cycles,
    halted <- stopped \/ (Unexecuted /\ Opcode = OP_HLT)

ImplementsBaby == Machine!BabySpec

(* A SIGINT the handler has taken is answered with a printing of the         *)
(* registers, in the loop or at the end, unless a signal kills the process   *)
(* in the window after the handlers are removed.                             *)
SigintAnswered == unanswered ~> (~unanswered \/ pc = "killed")

(* A SIGQUIT the handler has taken ends the process, even when the program   *)
(* in the store never halts.                                                 *)
QuitStops == (handled["quit"] > 0) ~> (pc \in {"done", "killed"})
=============================================================================
