----------------------------- MODULE Assembler -----------------------------
(* bas.c between the parser and the writer.  For every source file in turn:  *)
(* parse_stmts() flattens the syntax tree into a buffer of records, entering *)
(* itself for the body of each macro applied; pass_one() walks the buffer to *)
(* find the addresses of the labels; assemble() walks it again to evaluate   *)
(* the operands and put the words into the section.  One action is one       *)
(* statement or one record.                                                  *)
EXTENDS Labels, Section, Language, SequencesExt

CONSTANTS
    Programs,       \* sequences of source files, each a list of statements
    StackDepth,     \* the activations of parse_stmts() the stack has room for
    EvalExpr(_, _, _, _)    \* eval_expr() of tables, context, tree, partial

ASSUME StackDepthAssumption == StackDepth \in Nat \ {0}

(* A statement is a record with a field t:                                   *)
(*   [t |-> "label", name]           [t |-> "org", n]                        *)
(*   [t |-> "macro", name, formals, body]                                    *)
(*   [t |-> "instr", id, m, args]    a mnemonic and its operands             *)
(* The id is the identity of the operand trees: the statements in the body   *)
(* of a macro are the same nodes however often the macro is applied.         *)

NoName == ""
NoOrg == -1

VARIABLES
    pc,             \* "parse", "pass_one", "assemble", "done", "failed", "crashed"
    sources,        \* the source files still to be read, the current one first
    frames,         \* the activations of parse_stmts(), the innermost last
    trees,          \* operand trees by statement id
    macros,         \* the mnemonics defined by macros
    contexts,       \* label tables by context
    records,        \* the buffer, asm_buf
    section,        \* the section being assembled
    at,             \* the record a pass has come to
    saved           \* saved_cursor of pass_one

(* Auxiliary variables.                                                      *)
VARIABLES
    program,        \* all the source files
    homes,          \* where pass one had the cursor at each record
    complained      \* put_word() has reported an error

parseVars == <<sources, frames, trees, macros>>
passVars == <<section, at, saved>>
auxVars == <<program, homes, complained>>
vars == <<pc, parseVars, contexts, records, passVars, auxVars>>

(* A record under construction ("a" in parse_stmts), or a fresh one.         *)
Fresh(c) == [context |-> c, org |-> NoOrg, label |-> NoName, m |-> NoName, id |-> 0]
Located(r) == r.org # NoOrg \/ r.label # NoName

Frame(c, list) == [context |-> c, list |-> list, i |-> 1, pending |-> Fresh(c)]

(* A source and the bodies of its macros, and all the statements in them.    *)
(* (What is in the body of a macro defined in a body, bas never comes to.)   *)
MacrosOf(list) == {s \in Range(list) : s.t = "macro"}
ListsOf(source) == {source} \cup {d.body : d \in MacrosOf(source)}
StatementsOf(source) == UNION {Range(list) : list \in ListsOf(source)}

IsList(list) == list \in Seq(Range(list))

(* The lexer makes no empty name or mnemonic, and an org that is a word.     *)
ASSUME ProgramsAssumption ==
    \A p \in Programs :
        /\ IsList(p) /\ p # <<>>
        /\ \A source \in Range(p) :
               /\ \A list \in ListsOf(source) : IsList(list)
               /\ \A s \in StatementsOf(source) :
                      /\ s.t = "org" => s.n \in Word
                      /\ s.t = "label" => s.name # NoName
                      /\ s.t = "instr" => s.m # NoName
                      /\ s.t = "macro" => IsList(s.formals)

(* The operand trees as the parser leaves them.                              *)
TreesOf(p) ==
    LET instrs == {s \in UNION {StatementsOf(source) : source \in Range(p)} :
                      s.t = "instr"}
    IN  [id \in {s.id : s \in instrs} |->
            (CHOOSE s \in instrs : s.id = id).args]

Init ==
    /\ program \in Programs
    /\ pc = "parse"
    /\ sources = program
    /\ frames = <<Frame(Root, Head(program))>>
    /\ trees = TreesOf(program)
    /\ macros = [name \in {} |-> NoName]
    /\ contexts = [c \in {Root} |-> Context(NoContext)]
    /\ records = <<>>
    /\ section = EmptySection
    /\ at = 1 /\ saved = 0
    /\ homes = <<>>
    /\ complained = FALSE

-----------------------------------------------------------------------------
(* parse_stmts().                                                            *)

Top == Last(frames)
Stmt == Top.list[Top.i]
Pending == Top.pending

Parsing(type) == pc = "parse" /\ Top.i <= Len(Top.list) /\ Stmt.t = type

(* Go on to the next statement of the innermost list.                        *)
NextFrame(pending) ==
    [frames EXCEPT ![Len(frames)] = [Top EXCEPT !.i = Top.i + 1, !.pending = pending]]

(* A location flushes the one before it, which has had no instruction.       *)
Locate(record) ==
    /\ records' = IF Located(Pending) THEN Append(records, Pending) ELSE records
    /\ frames' = NextFrame(record)
    /\ UNCHANGED <<pc, sources, trees, macros, contexts, passVars, auxVars>>

ParseLabel ==
    /\ Parsing("label")
    /\ Locate([Fresh(Top.context) EXCEPT !.label = Stmt.name])

ParseOrg ==
    /\ Parsing("org")
    /\ Locate([Fresh(Top.context) EXCEPT !.org = Stmt.n])

(* Only the root context has a table of mnemonics: a macro defined in the    *)
(* body of a macro, whose context is never that one, goes through a null     *)
(* pointer.                                                                  *)
DefineMacro ==
    /\ Parsing("macro")
    /\ IF Len(frames) = 1
         THEN /\ macros' = [name \in DOMAIN macros \cup {Stmt.name} |->
                               IF name = Stmt.name THEN Stmt ELSE macros[name]]
              /\ frames' = NextFrame(Pending)
              /\ pc' = pc
         ELSE pc' = "crashed" /\ UNCHANGED <<macros, frames>>
    /\ UNCHANGED <<sources, trees, contexts, records, passVars, auxVars>>

IsMacro(name) == name \in DOMAIN macros
Known(name) == IsMacro(name) \/ name \in Mnemonics

(* A new context within the current one.                                     *)
NewContext == 1 + Cardinality(DOMAIN contexts)
Entered == WithContext(contexts, NewContext, Top.context)

(* The arguments are bound one by one; each is evaluated as far as it goes   *)
(* in the new context, which knows the formals bound before it: the tables   *)
(* after so many of them.                                                    *)
Bound(formals, args) ==
    LET After[i \in 0 .. Len(formals)] ==
            IF i = 0 THEN Entered
            ELSE LET arg == EvalExpr(After[i - 1], NewContext, args[i], TRUE)
                 IN  WithLabel(arg.contexts, NewContext, formals[i], arg.node)
    IN  After

Argument(formals, args, i) ==
    EvalExpr(Bound(formals, args)[i - 1], NewContext, args[i], TRUE)

(* Too many arguments, too few, or one that cannot be evaluated at all.      *)
BadArguments(formals, args) ==
    \/ Len(args) # Len(formals)
    \/ \E i \in DOMAIN formals : Argument(formals, args, i).rc = "error"

(* parse_stmts() enters itself for the body; a macro applied in its own body *)
(* is entered until the stack is full.                                       *)
ApplyMacro ==
    /\ Parsing("instr") /\ IsMacro(Stmt.m)
    /\ LET macro == macros[Stmt.m]
       IN  IF BadArguments(macro.formals, trees[Stmt.id])
             THEN /\ pc' = "failed"
                  /\ UNCHANGED <<records, frames, contexts>>
             ELSE IF Len(frames) = StackDepth
             THEN /\ pc' = "crashed"
                  /\ UNCHANGED <<records, frames, contexts>>
             ELSE /\ contexts' = Bound(macro.formals, trees[Stmt.id])[Len(macro.formals)]
                  /\ records' = IF Located(Pending)
                                  THEN Append(records, Pending)
                                  ELSE records
                  /\ frames' = Append(NextFrame(Fresh(Top.context)),
                                      Frame(NewContext, macro.body))
                  /\ pc' = pc
    /\ UNCHANGED <<sources, trees, macros, passVars, auxVars>>

ParseInstr ==
    /\ Parsing("instr") /\ ~IsMacro(Stmt.m)
    /\ records' = Append(records, [Pending EXCEPT !.m = Stmt.m, !.id = Stmt.id])
    /\ frames' = NextFrame(Fresh(Top.context))
    /\ UNCHANGED <<pc, sources, trees, macros, contexts, passVars, auxVars>>

(* The entry mk_symbol() makes for an unknown mnemonic has no value: what is *)
(* read from it may be a null pointer, which the action above takes it for,  *)
(* or any other.                                                             *)
ParseUnknown ==
    /\ Parsing("instr") /\ ~Known(Stmt.m)
    /\ pc' = "crashed"
    /\ UNCHANGED <<parseVars, contexts, records, passVars, auxVars>>

(* The end of a list.  A location that is still pending is forgotten.        *)
EndOfList ==
    /\ pc = "parse" /\ Top.i > Len(Top.list)
    /\ frames' = Front(frames)
    /\ IF Len(frames) = 1
         THEN pc' = "pass_one" /\ saved' = section.cursor /\ at' = 1
         ELSE UNCHANGED <<pc, saved, at>>
    /\ homes' = IF Len(frames) = 1 THEN <<>> ELSE homes
    /\ UNCHANGED <<sources, trees, macros, contexts, records, section,
                   program, complained>>

-----------------------------------------------------------------------------
(* assemble_one(), for either pass.                                          *)

Current == records[at]
HasInstr == Current.m # NoName

(* The section with the cursor where the record belongs.                     *)
Placed == IF Current.org = NoOrg THEN section
                                 ELSE [section EXCEPT !.cursor = Current.org]

(* Whatever put_word() answers in this pass, nobody looks.                   *)
Put(word, debug) ==
    /\ section' = PutWord(Placed, word, debug)
    /\ complained' = (complained \/ PutResult(Placed) = "EEXIST")

PassOne ==
    /\ pc = "pass_one" /\ at <= Len(records)
    /\ contexts' = IF Current.label = NoName THEN contexts
                   ELSE WithLabel(contexts, Current.context, Current.label,
                                  Num(section.cursor))
    /\ IF HasInstr THEN Put(0, NoDebug)
                   ELSE section' = Placed /\ UNCHANGED complained
    /\ homes' = Append(homes, section.cursor)
    /\ at' = at + 1
    /\ pc' = IF HasInstr /\ PutResult(Placed) = "wild" THEN "crashed" ELSE pc
    /\ UNCHANGED <<parseVars, records, saved, program>>

(* Mutant: the cursor is not put back.                                       *)
PassOneStaysPut ==
    /\ pc = "pass_one" /\ at > Len(records)
    /\ contexts' = WithContext(contexts, Assembling, NoContext)
    /\ at' = 1
    /\ pc' = "assemble"
    /\ UNCHANGED <<parseVars, records, section, saved, auxVars>>

PassOneEnds ==
    /\ pc = "pass_one" /\ at > Len(records)
    /\ section' = [section EXCEPT !.cursor = saved]
    /\ contexts' = WithContext(contexts, Assembling, NoContext)
    /\ at' = 1
    /\ pc' = "assemble"
    /\ UNCHANGED <<parseVars, records, saved, auxVars>>

(* The label tables with "$" set to the current location and the scope of    *)
(* the record behind them.                                                   *)
(* Mutant: "$" is taken before the org of the record is.                     *)
ScopeBeforeOrg ==
    WithLabel([contexts EXCEPT ![Assembling].parent = Current.context],
              Assembling, "$", Num(section.cursor))

Scope ==
    WithLabel([contexts EXCEPT ![Assembling].parent = Current.context],
              Assembling, "$", Num(Placed.cursor))

Locating ==
    /\ pc = "assemble" /\ at <= Len(records) /\ ~HasInstr
    /\ section' = Placed
    /\ contexts' = WithLabel(contexts, Assembling, "$", Num(Placed.cursor))
    /\ at' = at + 1
    /\ UNCHANGED <<pc, parseVars, records, saved, auxVars>>

(* An operand that is not there counts as zero; a second one is an error.    *)
Operands == trees[Current.id]
Evaluated == IF Operands = <<>> THEN Outcome("ok", Num(0), Scope)
             ELSE EvalExpr(Scope, Assembling, Operands[1], FALSE)

BadRecord == Len(Operands) > 1 \/ Evaluated.rc # "ok" \/ Current.m \notin Mnemonics

(* Mutant: the loop of assemble() counts only the records that succeed.      *)
AssembleFailsRetries ==
    /\ pc = "assemble" /\ at <= Len(records) /\ HasInstr /\ BadRecord
    /\ UNCHANGED vars

AssembleFails ==
    /\ pc = "assemble" /\ at <= Len(records) /\ HasInstr /\ BadRecord
    /\ section' = Placed
    /\ pc' = "failed"
    /\ UNCHANGED <<parseVars, contexts, records, at, saved, auxVars>>

(* The operand tree is rewritten in place.  For an instruction the answer of *)
(* put_word() is ignored, for a directive it ends the assembly.              *)
Assemble ==
    /\ pc = "assemble" /\ at <= Len(records) /\ HasInstr /\ ~BadRecord
    /\ trees' = [trees EXCEPT ![Current.id] =
                    IF Operands = <<>> THEN @ ELSE <<Evaluated.node>>]
    /\ contexts' = Evaluated.contexts
    /\ Put(WordFor(Current.m, Evaluated.node.n), at)
    /\ at' = at + 1
    /\ pc' = CASE PutResult(Placed) = "wild" -> "crashed"
               [] PutResult(Placed) = "EEXIST" /\ Current.m \in Directives -> "failed"
               [] OTHER -> pc
    /\ UNCHANGED <<sources, frames, macros, records, saved, program, homes>>

(* On to the next source file, with everything as it is; or to the writer.   *)
AssembleEnds ==
    /\ pc = "assemble" /\ at > Len(records)
    /\ sources' = Tail(sources)
    /\ contexts' = [c \in DOMAIN contexts \ {Assembling} |-> contexts[c]]
    /\ IF Len(sources) = 1
         THEN pc' = "done" /\ UNCHANGED frames
         ELSE pc' = "parse" /\ frames' = <<Frame(Root, sources[2])>>
    /\ UNCHANGED <<trees, macros, records, passVars, auxVars>>

Terminated == pc \in {"done", "failed", "crashed"} /\ UNCHANGED vars

Next ==
    \/ ParseLabel \/ ParseOrg \/ DefineMacro \/ ApplyMacro
    \/ ParseInstr \/ ParseUnknown \/ EndOfList
    \/ PassOne \/ PassOneEnds
    \/ Locating \/ Assemble \/ AssembleFails \/ AssembleEnds
    \/ Terminated

Spec == Init /\ [][Next]_vars
-----------------------------------------------------------------------------
(* Properties.                                                               *)

(* The type invariant, with what every section satisfies.                    *)
TypeOK ==
    /\ pc \in {"parse", "pass_one", "assemble", "done", "failed", "crashed"}
    /\ SectionOK(section)
    /\ at \in 1 .. Len(records) + 1
    /\ saved \in Word
    /\ \A c \in DOMAIN contexts : contexts[c].parent \in DOMAIN contexts \cup {NoContext}
    /\ \A i \in DOMAIN records :
           /\ records[i].context \in DOMAIN contexts
           /\ records[i].id \in DOMAIN trees \cup {0}
    /\ Len(homes) <= Len(records)
    /\ complained \in BOOLEAN

(* Both passes put a record at the same address, so that the labels found by *)
(* the first name the cells filled by the second.  Once put_word() has       *)
(* refused a cell the passes may part.                                       *)
PassesAgree ==
    pc = "assemble" /\ at <= Len(records) /\ ~complained =>
        section.cursor = homes[at]

(* A word once assembled stays: neither the growing of the array nor a later *)
(* record with the same address, in either pass, changes a cell that an      *)
(* instruction has taken.                                                    *)
TakenKept ==
    [][\A a \in DOMAIN section.data : section.data[a].debug # NoDebug =>
          a \in DOMAIN section'.data /\ section'.data[a] = section.data[a]]_vars

(* What bas goes down on while it parses, if an unset entry of the table of  *)
(* mnemonics counts as a null pointer: a mnemonic that nobody has defined    *)
(* yet; a macro defined in the body of another; and macros that do not end,  *)
(* or are stacked too high, so that they cannot be given levels.             *)

(* The statements and the macros before the j-th of the p-th source.         *)
Before(p, j) ==
    {program[p][i] : i \in 1 .. j - 1} \cup UNION {Range(program[q]) : q \in 1 .. p - 1}
MacrosBefore(p, j) == {s \in Before(p, j) : s.t = "macro"}
AllMacros == UNION {MacrosOf(source) : source \in Range(program)}
NamesOf(defs) == {d.name : d \in defs}

(* An unknown mnemonic in a statement, or in a body that it may apply.       *)
UnknownUsed ==
    \E p \in DOMAIN program : \E j \in DOMAIN program[p] :
        /\ program[p][j].t = "instr"
        /\ \E s \in {program[p][j]} \cup UNION {Range(d.body) : d \in MacrosBefore(p, j)} :
               s.t = "instr" /\ s.m \notin Mnemonics \cup NamesOf(MacrosBefore(p, j))

DefinedInBody == \E d \in AllMacros : MacrosOf(d.body) # {}

Layered ==
    \E level \in [NamesOf(AllMacros) -> 1 .. StackDepth - 1] :
        \A d \in AllMacros : \A s \in Range(d.body) :
            s.t = "instr" /\ s.m \in NamesOf(AllMacros) => level[s.m] < level[d.name]

(* In parse_stmts() bas goes down on nothing else, and in the passes only if *)
(* it has a word to put less than 0x400 cells from the last address, where   *)
(* the capacity overflows: everywhere below, put_word() stays in its array,  *)
(* however far an org is beyond what has been filled in.  (The assertion of  *)
(* strtab.c:80, for sources of very many names, is not in here but in        *)
(* StringTable; memory is taken to suffice.)                                 *)
CrashesOnly ==
    pc = "crashed" =>
        IF frames # <<>> THEN UnknownUsed \/ DefinedInBody \/ ~Layered
                         ELSE ~Roomy(section)
=============================================================================
