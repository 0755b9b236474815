# TLA+ models of babyutils

babyutils is a tool chain for the Manchester Baby, a machine of one register
and seven instructions: an assembler (`bas`), a simulator (`bsim`) and a
disassembler (`bdump`) around a small library (`libbaby`). This directory holds
TLA+ modules that model the code, TLC configurations that check them on small
instances, and theorems that the TLA+ proof system checks. `PROJECT.json` lists
components, runs, mutants, hazards, findings and theorems, and maps every
definition to the lines it stands for.

## Inventory

| Component | State | Operations | Works with |
|---|---|---|---|
| Simulator core, `bsim.c` 68-183, 281-319 | registers, store, cycle count, stop flag; two request counters a signal handler increments, two acknowledged values | machine cycle in phases t1-t5, handler, polls, installing and restoring dispositions, final dump | store; the kernel's signals |
| Store, `memory.h`, `memory.c` | one page that all addresses alias | `read_word`, `write_word`, `memory_checks` | simulator, loaders |
| Object loading, `loader.c`, `objfile.c`, mains of `bsim.c` and `bdump.c` | requested and rounded memory size, page size, segment length, position in the file | option parsing, first pass (size), mapping, second pass (load) | store; the object file on disk |
| Object writing, `writer.c` | the stream and the file | five formats, closing | section; the object file on disk |
| Section, `section.c` | growing array with length, capacity, cursor, and the record each cell came from | `put_word` | assembler, writer |
| Symbols, `symbols.c`, and expressions, `bas.c` 97-166 | tables of mnemonics and labels in a chain of contexts, sorted when searched; operand trees | `sym_add`, `sym_getref`, `sym_setval`, `sym_lookup_with_context`, `sym_print_table`, `eval_expr`, which rewrites the trees | assembler, parser, mnemonics |
| Assembler, `bas.c` | buffer of records, record under construction, cursor, index of source lines | `parse_stmts` with macro application, `pass_one`, `assemble`, the loop over sources, the listing | symbols, section, writer |
| Mnemonics, `arch.c`, `arch.h` | sorted mnemonics and an index by opcode | find by name, find by opcode, decode | assembler, disassembler |
| Disassembler, `bdump.c` | two readings of each word, a data/code state | `disassemble_section` in three loops | loaders, opcode index |
| String table, `strtab.c` | buffer that grows, hash table whose keys belong to the callers | put, rebuild | parser, symbols |
| Lexer, parser | place of the token in hand, semantic values | a token; an action per rule of the grammar | string table, syntax trees |
| Syntax trees, `asm-ast.c`, `asm-parse.y` | nodes in memory, some of them in the arrays of lists | make, turn around, copy, evaluate, free | parser, assembler |
| Build files, manual pages, test programs | none | - | quoted, and three programs run |

Nothing runs concurrently but the signal handler and, for the tools that read
an object file, whoever writes it. What is hard in this code:

- **signals**: a handler that may run between any two steps of the main loop,
  and windows before and after it is installed in which the signal kills;
- **two passes over the same thing**: the loaders read a file twice, the
  assembler its records; the passes must agree, and for a file the world may
  change in between;
- **sharing**: operand trees are rewritten when evaluated, and the trees of a
  macro's body are shared by all of its applications; a hash table has keys in
  a buffer that goes on to hold other text; a pointer into a table is held
  while the table is searched, and so sorted, by others;
- **laziness**: a table is sorted when it is looked into and an index grows by
  one doubling at most, whatever has been entered since;
- **width**: sizes double in 32 bits until they suffice, a capacity wraps,
  `%` and `&` fold addresses differently unless a size is a power of two;
- **failure**: a report without the exit that should follow; results of calls
  that nobody looks at; reads and disks that give out in the middle.

What makes each component correct:

- simulator: whole instructions only, as the abstract machine runs them; every
  SIGINT answered and not twice; SIGQUIT obeyed within one instruction;
- loading: the least page that will do; the right verdict on a file; what was
  written in a format is what is loaded in it; no access outside the page;
- writing: success means a file on the disk; a file cut short is refused or
  loads as a beginning of the program;
- section: order kept by every call; nothing taken is overwritten;
- symbols: tables are maps, whatever their order is at the time;
- assembler: both passes place alike; an accepted source is assembled to what
  it means, a refused one is erroneous; the listing shows where words are from;
- disassembler: its listing, as a source, means the words it was printed for,
  which are those of the section if its length is a power of two;
- string table: an index keeps meaning its string, and strings are stored once;
- scanner: the place of a token is where it is, however newlines fall, but for
  the newline after an empty comment;
- syntax trees: nothing is used after it was freed, no two trees share a node,
  statements keep their order.

## Modules

| Module | Models |
|---|---|
| `Words` | word arithmetic and instruction fields; widths are parameters |
| `Language` | mnemonics and the words they stand for |
| `Store` | the aliased page and the power-of-two check |
| `Baby` | the abstract machine, an action per instruction |
| `Simulator` | `bsim` from the loaded store to the end, with signals |
| `ObjectFile` | what a format looks like and how the loaders classify a line |
| `Loading` | `bsim` and `bdump` from their options to the loaded store |
| `Writing` | `write_section()` and the writers, a call of the C library at a time, onto a disk with so much room |
| `Section` | `put_word()` as operators |
| `NameMap` | what a symbol table promises: a map from names in each context |
| `SymbolTable` | `symbols.c` with its arrays and lazy sorting; implements `NameMap` |
| `Labels` | label tables in chained contexts, as maps |
| `Symbols` | lookup and expression evaluation (recursive), on `Labels` |
| `Assembler` | `bas` between parser and writer, on `Labels` and `Section`; the evaluator is a constant operator, `Symbols!Eval` in the runs |
| `SourceMeaning` | what a source means: macros expanded by substitution, in as many rounds as there are macros, and terms read through scopes |
| `AssemblerMeaning` | the assembler's properties |
| `LineIndex` | the index from lines to places in the source, as operators |
| `Listing` | `Assembler` with the place of every statement, the index and the listing |
| `OpcodeIndex` | the sorted index of mnemonics by opcode and its search |
| `Disassembler` | `disassemble_section()` |
| `Reassembly` | the listing of `bdump` as a source for `bas` |
| `StringTable` | `strtab.c` with the places its callers' pointers lead to |
| `Scanner` | the places of tokens |
| `SyntaxTrees` | the grammar's actions, copying, evaluating and freeing, on nodes in memory |
| `DataProofs` | theorems about store and object files, and induction; used by the next three |
| `SimulatorProofs`, `LoadingProofs`, `WritingProofs` | theorems about the component they are named for |
| `AssemblerProofs` | theorems about `Section`, `LineIndex`, `Assembler`, `Listing` and `AssemblerMeaning` |
| `ParserProofs` | theorems about `StringTable`, `Scanner` and `SyntaxTrees` |
| `DisassemblerProofs` | theorems about `Disassembler` and `Reassembly` |
| `SymbolTableProofs` | theorems about `SymbolTable` |
| `MC*` | instances for TLC |

`Assembler` composes labels, section and statements, `Listing` adds to each of
its steps what happens to the places of statements; the two are checked
together. `ObjectFile` is where writer and loaders meet, `SourceMeaning` where
assembler and disassembler do. A definition written just before another and
commented "Mutant" is a plausible mistake in the code: put in the place of the
definition it makes the property named in `PROJECT.json` fail.

### How the models correspond to the code

`Simulator`. One action is a step in which the handler cannot intervene to any
effect: a phase of `sim_cycle()`, reading a request counter, comparing and
acknowledging the copy, one `sigaction()`. `pc` is the place in `main`. `req`
is the local of the poll, `data` that of the cycle. `Handle` is the handler,
`Die` the default disposition outside the window in which it is installed.
`handled`, `prints`, `unanswered`, `afterQuit` are auxiliary. Words are
residues, so a conversion between `word_t` and `addr_t` does nothing.

`Loading`. One action is a turn of a loop: of the rounding loop, of the sizing
loop, of `bits_read()`, of `binary_load()`. A file is a sequence of items with
a kind instead of characters: the regular expressions of the loader partition
lines into statements with and without address, ignorable lines and the rest.
No loader asks what a file was written as: what `fread()` makes of the
characters of a text (`AsWords`) and `getline()` of the bytes of words
(`AsLines`) are parameters, and `Seen` puts them in.
`Rewrite` is another process writing the file between the passes, or removing
it, at a point before the second pass has begun; `StatFails`, `OpenFails` and
`ReadFails` are the calls that may fail.

`Writing`. A piece is what one call puts into the stream. The stream holds
`BufSize` pieces and writes them out when it is full or closed; the disk takes
what it has room for. What a full disk did not take stays in the stream or is
dropped (C leaves it open). `Checked` says of which calls the result is looked
at. `FileOf` reads the pieces on the disk as lines again, for the loader.

`Assembler`. One action is a statement of a list or a record of the buffer.
`frames` is the stack of activations of `parse_stmts()`, each with its record
under construction; the machine's stack has room for `StackDepth` of them and
the process dies when there is one more. Operand trees live in `trees` under
the identity of their statement, because evaluation rewrites them in place and
the statements of a macro's body are the same however often it is applied.
Contexts are numbered; `Assembling` is the one that holds `$`, relinked for
each record.

`Listing`. Every statement has the place of its first token and of the token
after it, which is where `yylloc` is when the statement is saved. `lines` has
the line of the record under construction, by frame; `index` is what the
listing seeks by, absent for standard input. `Overrun` is a write beyond it,
after which nothing is known.

`SymbolTable`. An array of entries with a capacity and a mark whether it is
sorted; an action is a call of `symbols.c`, but for a lookup, which is one
action for each context it looks in, since evaluation may stop in one. `qsort()` leaves open
how entries with equal keys come out, `bsearch()` which of them it finds.
`held` is the pointer `eval_expr()` keeps.

`StringTable`. Strings by where they start in the buffer; an entry of the hash
table has the caller's pointer for a key, the string it was hashed as, and the
index. `Scan` is the scanner filling its buffer with the next token.

`Scanner`. `update_loc()` for each piece of text taken. Outside of comments any
piece of one character or more may be a token. The mark of a comment (`;` or
`--`) is a token that changes the start condition; the rule `[^\n]*$` then takes
the rest of the line, and takes nothing, but runs `update_loc()` all the same,
if a newline follows the mark. On a last line without a newline it does not
match, since `$` asks for one, and the default rule takes a character at a time.

`SyntaxTrees`. A node has a type, the nodes it points to, the `heap` flag and
the block of memory it is in: its own, or the array of a list. Nodes are numbered
so that each is larger than those it points to, copies included, so that the
nodes below one are a recursive function of it. A walk through a tree is the
set of the nodes it comes by; one that comes by a freed node, or by a node a
second time after freeing it, or frees an element of an array, sets `fault`.
The stack of semantic values stands for the parser; an action is a rule of the
grammar, the copy of an argument, an evaluation, or the end of `main()`.

`Disassembler`. The three loops of `disassemble_section()`, a word at a time.
`OpcodeIndex` has the alphabetical table and the search through mnemonics of
one opcode, for every order that `qsort()` may leave equal ones in.

## Runs

| Run | Shows | Bounds |
|---|---|---|
| `sim_signals` | refinement of `Baby`; SIGQUIT stops within one instruction; SIGINT answered, never twice; SIGQUIT always ends the process | 4 words of store, operands 0-7, 3 signals of each kind, request counters modulo 3, cycle counter modulo 2 |
| `sim_programs` | test-jmp, test-jrp and ldiv stop and leave what their comments say | 32 words of 8 bits; 52 divisions |
| `loading` | least page, right verdict, round trip, the text formats told apart by their loaders, accesses confined; loading ends unless a request or the length of a file cannot be rounded up, and then never | 3-bit words, pages of 2, 4 and 8 of 32 addresses, all sections of up to 2 words and six longer, the longest of 17; 9 other files, every file read in every format, 8 option lists, one fault of each kind |
| `writing` | a file cut short is refused or a beginning; success means complete but for the last buffer | 3-bit words, sections of up to 3 of them, streams of 3 pieces, disks from empty to larger than any file |
| `assembler` | passes agree, meaning kept, taken cells kept; the parser crashes on three kinds of source only, `put_word()` only near the last address; lines and text of the listing, index in bounds; all comes to an end | 6-bit words, growth by 2, 4 activations, index of 2; sources of up to 4 statements out of 9; up to 3 out of 4 at distances of 0 to 5 lines; up to 6 instructions around an org to each of the last five addresses; 20 or so with macros, three faulty |
| `macros`, `errors` | findings | one macro applied twice; as `assembler` |
| `symbol_tables` | arrays are maps; sorted where marked so; a held symbol stays | 2 contexts, 3 names of which 2 differ in case only, capacity 1 at first |
| `strtab` | an index keeps its string; one index until the text behind the key changes | 3 strings, one longer than a fourfold buffer adds, 2 places that change and 1 that does not, room for 5 entries |
| `scanner` | places of tokens, with the one exception | all texts of up to 6 characters out of newline, `;`, `-` and one other, all ways to cut them |
| `syntax_trees` | nothing dangles, no sharing, order kept | sources that begin with fewer than 9 nodes, 17 nodes in all |
| `disassembler` | lines encode their words; only opcode 5 crashes; the listing reassembles | 5-bit words: all segments of up to 2, those of 3 out of 8; 8 orders of aliases |

Why the bounds suffice. *Signals*: two in a row can fall on one poll, a third
tells acknowledging the copy from acknowledging the counter; counters modulo 3
wrap within a run. `Handle` leaves out the one case in which a wrapped counter
means nothing was asked for (as many signals between two polls as an int has
values). *Programs*: one loops for ever, one halts, one overflows, one rewrites
itself; operands exceed the store so that each address has an alias. *Division*
is scaled: the unit of its quotient is 2^5 for 2^29, since it counts
significant bits against the sign; the quotients are those of three bits.
*Loading*: there is a section for no page, for a part of one, for exactly one,
for the largest and for one too many; option lists ask for less, the same and
more, in both orders, for more than half of the addresses and for more than
there are; the section of 17 words is more than half of the 32 addresses, so
that the loop that grows the page overflows. *Writing*: the
stream is shorter than a line and no divisor of one, so that disks end in every
piece of a line, and files are several streams long. *Assembler*: four
statements are enough for two labels, an org back into taken cells and a
reference in each direction, and an array that grows by two words grows more
than once; an org to one of the last addresses leaves room for the next growth
or does not, with cells taken before it or none; one chain of macros uses all
four activations; the index doubles twice, and there are sources it is too
small for. *Symbol tables*: a table of
one entry grows twice, and two spellings of one name meet in each order.
*String table*: buffer and table both grow or fill up, in either order; with the
constants of the code the first growth rebuilds the table, and as the assertion
aborts then, growth that is survived is that of smaller sizes only; every string
is put before and after the text behind its key has changed. *Scanner*: the mark
of a comment has one character or two, with a newline, a comment, another mark
or the end behind it. *Trees*: nine nodes are
enough for a sum in the operand of a macro's second statement, and the rest for
its copy.

The passing assembler run states what the code does under: every macro applied
once, sources that end in an instruction, arguments that do not share names
with formals. Outside of these the code is wrong, as told below.

Deadlock is checked in every run; a finished tool stutters.

### Fairness

`WF_vars(MainThread)` and `WF_vars(Main)`: the process is scheduled (and so
without signals `sim_programs` shows that each program comes to its end). Nobody is
obliged to send a signal or to write a file, so neither `Handle`, `Die` nor
`Rewrite` is fair. `QuitStops` needs no more, although the signal races the
poll, because a request stays visible in the counter. `SigintAnswered` excepts
the kill in the window after the dispositions are restored, which the code has.
`ListingSpec` has weak fairness of its whole next-state relation: `bas` is one
sequential program and goes on as long as it can.

## Findings and other divergences

Two have a run whose property TLC violates: a macro applied twice keeps its
first operands (`macros`); an instruction on a taken cell is reported, dropped
and the object written (`errors`). `PROJECT.json` quotes the sentences they
contradict.

Others are part of the models and bound what the passing runs say:

- `bsim -m` with more than half of the addresses never gets past its options
  (bsim.c:220), and a file with more words than that is never loaded
  (bsim.c:256): both sizes are doubled in 32 bits until they suffice, and become
  zero. `LoadingEnds` says that these two do not end and all else does;
- the binary loader takes any file, and makes words of what is a text
  (loader.c:85): the formats are told apart by the loaders of text only, and a
  binary file may happen to be a text (`FormatsTold`);
- an empty comment is a token without characters, for which `update_loc()`
  counts a column all the same (asm-lex.l:30,87): the column of the newline
  after it is one too high (`PlacesRight`). test/macro.asm:3 and
  test/subroutines.asm:3 have such comments; what comes after is placed right;
- opcode 5, `OP_SUB_ALIAS` in arch.h:66, does nothing in the simulator, as
  `Baby` has it, and crashes the disassembler, which `OnlyAliasCrashes` says of
  nothing else (bdump.c:120);
- `bdump` maps a page as long as the file, for which `read_word()` and
  `write_word()` use different cells unless the length is a power of two
  (memory.h:29,37);
- each source file after the first assembles all before it once more
  (bas.c:602); the runs have one file;
- a label at the end of a source, or of a macro, is dropped (bas.c:337); an
  argument named like an earlier formal is captured by it (bas.c:415); `$` as an
  argument is undefined (bas.c:127); the runs leave such sources out;
- a macro defined in a macro, an unknown mnemonic and macros that recur without
  end or are stacked too high crash `bas` while it parses; and a word to be put
  less than 0x400 cells from the last address (section.c:21) has `put_word()`
  write outside its array. `CrashesOnly` says that nothing else in this model
  does; the assertion at strtab.c:80, which a source with enough names meets, is
  in `StringTable`;
- a name from the scanner is stored again once the text behind its key has
  changed, although strtab.c:137 says "Return index of string if already
  stored": `OneIndex` says until when. When the hash table is full the
  assertion at strtab.c:80 fails, since `n_entries` is never incremented;
- "Put preferred aliases first" (arch.c:22) has no effect: which alias `bdump`
  shows is up to `qsort()`; the runs check all orders;
- the text beside a word in the listing is not that of its statement: it begins
  with the token after the last statement that was noted for the line, so that
  what is to the left of it is missing. The line is that where the statement
  before left off, which is where the word's own begins, and for the first word
  that where the first statement left off (asm-parse.y:213). `NotedLine` and
  `LinesRight` say so exactly;
- an empty section is listed as an empty source, which the grammar refuses:
  `Reassembles` is about what a listing means, and takes the leading zeros and
  signs in it as the numbers they are printed for;
- `mk_node()` overwrites the flag "node is heap allocated" (asm-ast.h:53), so
  that freeing the tree frees no node the grammar made: nothing dangles, most of
  it is lost;
- `fclose()` is not checked (writer.c:124): `bas` may say it has written what
  the disk had no room for, by no more than `SuccessAlmostTold` allows.

## Proofs

TLAPS proves what follows for every value of the constants that meets the
assumptions, and TLC evaluates the assumptions in the runs. They say that word
widths are positive (`WordsAssumption`), that counters have at least two values
(`CounterAssumption`), that the store passes `memory_checks()`
(`StoreAssumption`), which the loader is proved to give it (`PageIsLeast`),
that the largest memory and the span of addresses are powers of two, as
`1 << 31` and the range of `addr_t` are (`LoadingAssumption`), and that a segment
to disassemble has no more words than there are addresses
(`DisassemblerAssumption`). The rest say
what kind of values the constants of a component are (`ProgramsAssumption`,
`OrderAssumption`, ...), in its module.

Recursive functions (masks, checks, bits, lines) are reasoned about by
`DataProofs`: an induction over naturals by least elements, from which a
recursive definition is shown to have a value and to meet its equation.

### Simulator

- `TypeCorrect` is inductive as it stands; its weight is in the arithmetic.
- `QuitIsPrompt`: `QuitPrompt` alone is not inductive. `QuitInv` adds that no
  SIGQUIT has been acknowledged while the loop can still begin an instruction,
  and that whoever has polled and read zero has begun none since the signal.
- `AnswersAreBacked`: a counter that differs from the value it is compared with
  is good for one answer; during a poll the copy stands between the two and
  each difference is good for one. `PrintInv`: answers given, under way and due
  never exceed the signals handled.
- `SimulatorImplementsBaby`: initial states map to initial states, fetching is
  the abstract step (a case for each opcode), all else stutters. `CycleInv` is
  what the phases rely on: the datum read in t3 is still in its cell in t4 and
  t5, and no signal kills in the middle of an instruction. `Mapping` restates
  the mapping phase by phase; the lemmas `Instance...` unfold the instance.

### Store and files

- `FoldsAgree`, `WritesLandInside`, `WrittenIsRead`: sizes `memory_checks()`
  lets through are powers of two, for these masking is taking a remainder, and
  so the two halves of memory.h mean the same cell.
- `BitsRoundTrip`: writer and reader agree on the bits of a word.
- `PageIsLeast`, `WritesConfined` follow from `SizeInv` and `PageInv`, the
  roundings while they are under way. That requests are taken modulo the span
  of addresses (bsim.c:220) came out of an attempt that failed: the invariant
  did not hold for what was asked, only for what was left of it.
- `VerdictIsRight` rests on `VerdictInv`: both passes count the statements of
  the lines behind them, and none of these was bad. `RoundTrips` adds in
  `TripInv` that the cells loaded so far are the section's; `FormatsAreTold` is
  about the shape of lines. `LoadingTypes` holds whatever happens to the file.
- `SuccessIsAlmostTold`: disk and stream together are the beginning of the file
  (`Intact`) until the disk is full, and afterwards as long as no error was
  seen, in formats without addresses, where the one other call nobody checks is
  the first (`UncheckedIsFirst`), when the stream is empty.
- `LoadsBeginnings`: in the formats of bits the pieces on the disk are whole
  lines and at most one that is cut short (`Begins`). Cut before its last bit it
  is a line no loader takes, so the file is refused; cut only before its newline
  it is read as the word it is. In the binary format the words that are there
  are a beginning.

### Assembler

`put_word()` stays in its array only if the capacity does not overflow: `Roomy`
says that as many addresses as it grows by are left above the cursor, or that it
need not grow. If it does not, the process dies on the spot ("wild"), and the
section is what it was. So no theorem needs a hypothesis about where the words
of a source are: what is said of sections holds up to then.

- `PutWordInBounds` (given room), `PutWordKeepsSection`, `PutWordKeepsTakenCells` are about
  one call; `SectionInOrder` and `TakenKeptAlways` about whole assemblies.
- `PassesAgreeAlways` needs no hypothesis, and nothing about the evaluator,
  which is a constant operator. `PassesAgree` is about assemblies in which
  `put_word()` has refused no word so far; once it has, the passes may part, and
  nothing is said (`errors` is about such a source). `ParseInv` is about the
  parser's stack and the buffer; `AgreeInv` says that homes form a chain, in
  which each follows from the one before and the record between, and that in
  either pass the cursor is where the chain is.
- `CrashesOnlyAlways`: if macros can be put on levels, fewer than there are
  activations, so that each applies only macros of lower levels, then stack
  and level together never exceed the depth. `CrashInv` says what the stack
  of frames looks like and which macros are known at each place of a source,
  and of the passes that there are no frames then, and that they go down on a
  word without room for it only.
- `AssemblerTypes`: contexts stay linked among each other and records keep to
  contexts and trees that exist (`ScopeInv`). It has one more hypothesis,
  `[]OnlyResolves`: evaluation changes nothing of the tables but their labels
  and yields a word. That `eval_expr()` does so cannot be proved here, because
  it is recursive on trees (`Symbols!Eval`); TLC finds `OnlyResolves` to hold on the
  instance of `assembler`.
- `ListingIsAssembly` carries these results over to the listing. `NotedInBounds`
  and `NotedIsSought` are about one statement. `IndexHoldsAlways`: `PlainInv`
  relates the line the record under construction has to the statements behind
  it, which it lags by one, or by two if a label or an org is pending.
- `LinesAreRight`: what is noted of a line leads to a statement, always
  (`PlacesInv`); a cell belongs to the record whose number it has (`CellsInv`);
  what is listed is what is then in the records and in the index (`ListedInv`).
  For sources without macros `NotedInv` adds that the line with the record under
  construction is the one `NotedLine` has for the next statement, that each line
  noted so far leads to the last statement it was noted for (`Leads`), and that
  each record has the line noted for its instruction (`Recorded`). For sources
  with macros the theorem says of a text only that it is found and where it may
  begin.
- `MeaningKeptAlways`: one source without macros, of any length and for words of
  any width, is assembled as it means. `FlatInv` says how far assembly has come.
  While parsing, the records are those of the first k statements: each ends
  with a statement, f[i], and begins with it or with the location before it
  (`IsBuffer`), and what is pending is the location that no record has yet. In
  the first pass the cursor is where the meaning has it after f[at - 1]
  statements (`Past`), and the labels are those of these statements, each with
  the address of the last that has its name, because `putVal` overwrites. In
  the second the cells are those of the instructions so far and all others are
  empty (`CellsAt`), and the operands to come are as they were parsed. The
  theorem is about the sections that are written, so it needs no condition on
  where words are, and it is conditional on three things:
  - `Plain`: one source, and no macros in it.
  - `EndsInNoLabel`: the parser drops a label with nothing behind it, so that
    what refers to it is refused although it has a meaning.
  - `[]EvaluatesAsMeant`: given the labels of the source and `$`, `eval_expr()`
    answers with what the operand means, or with an error if that is nothing,
    and leaves the labels alone. Like `OnlyResolves`, this is about a definition
    that recurs on trees; TLC finds it to hold on the instance of `assembler`,
    and `FlatInv` with it.

### Disassembler, tables, lexer

- `DisassemblerProofs`: the invariant follows each word through the three
  loops. `EveryLineEncodes` puts words together from their fields (`Fields`).
  `OnlyAliasIsFatal` needs that sorting loses no mnemonic: an index onto the
  table is one-to-one, so the search comes by every opcode.
- `ReassemblesAlways` joins the disassembler to what its listing means to the
  assembler, for every width, segment and order of aliases. `SourceInv` is what
  the loops leave for it: lines are of consecutive words, only the second has
  `_start`, no instruction has two operands, and in the end there is a line for
  each word. The rest is about the listing as a source (`ListingMeans`): the
  statements of its lines follow each other (`Flattened`), nothing in it is to
  be expanded, and the one instruction of line i is at i - 1, since a label does
  not move it and an origin is that of its own line (`ItemsOfLines`). So the
  image has the word of each line in its place, which is the word the line was
  printed for (`LinesEncode`). Functions that recur along a sequence exist by
  `Iterated`. It is about the meaning of the listing; that `bas` gives a source
  its meaning is `MeaningKeptAlways`, since a listing has no macros.
- `SymbolTableProofs`: a table is in order when marked as sorted and has no key
  twice; the table of the symbol held is sorted, so that the next lookup does
  not move it. A lemma for each call (`SortingKeeps`, `NewKeeps`, `ValueKeeps`).
  `TablesImplementMaps`: entering and setting a name are the abstract steps,
  sorting and growing stutter, and so does a search until its last context. `SearchInv` says that the contexts
  behind it hold nothing nearer.
- `ParserProofs`: strings lie one after the other and entries lead to them, for
  all sizes (`TypeCorrect`, `AnswersAreRight`). `StringsHaveOneIndex` needs
  `Findable`: every string that is not stale has one place and an entry whose
  key reads as it. `PlacesAreRight`: between two tokens the location is that of
  the last character, a column beyond it after an empty comment, and the flag
  tells whether it was a newline (`ScanInv`); `TokenPlaces` carries that across a
  token with newlines anywhere in it or with no characters.

### Syntax trees

`NothingDanglesAlways`, `ApartAlways` and `InOrderAlways`, in `ParserProofs`,
are for all sources, however long, all orders of copies and evaluations, and
all sets of symbols known when one happens. They assume that symbols and types
of nodes are different things (`NamesAssumption`), and come from one inductive
invariant, `TreesInv`, about the nodes below those the program goes on from:

- `Forest`: no two pointers lead to one node, and none to the node the program
  goes on from. This is `Apart`, and it is why a walk does not come by a node
  again, so that it cannot free one twice.
- `Whole` and `Blocks`: none of them is freed; each is its own block, or an
  element of the array of one list. Elements are not marked as on the heap
  (`mk_list()` clears the flag), and freeing a list frees its array.
- `Ordered`: the statements of a list are in their order. `Descends`: while they
  are still tuples, the next one is older. Hence `mk_list()` has to reverse them.
- `Instrs`: below an operand are no statements and no lists. So there are no
  arrays in what is copied or evaluated, which the model of `ast_copy_tree()`
  supposes, and evaluation frees no element of one.
- `ParsingOK`, `RunningOK`, `EndOK`: what kind of tree is at each place of the
  stack, in each phase.

Each operation has a lemma that says what it does to any memory with this
invariant (`NodeMade`, `ListMade`, `TreeCopied`, `TreeEvaluated`, `TreeFreed`),
and each action one that applies it. Facts about the nodes below a node are
proved by the least number that would be an exception, since the prover has no
induction.

### Only model-checked

Liveness, which is out of the prover's reach; what rests on recursive operators
on expressions, which the prover does not take: that evaluation meets
`OnlyResolves` and `EvaluatesAsMeant`; `MeaningKept` for sources with macros,
whose statements stand in the trees of others, which TLC finds to hold on the
sources of `assembler`; and what is about given programs (`sim_programs`).
Evaluation is not a recursive function on the nodes, as the syntax trees are: it
goes on from symbols to their values. It does come back from there: a label that
stands for a term is the formal of a macro, and the term, the argument, is
evaluated in the context the formal was found in, which is skipped when a name
in it is looked up (`SYM_LU_SCOPE_EXCLUDE_SPECIFIED_UNDEF`) unless it has a
number there; so it goes on in contexts further out only. A proof would be along
the chain of contexts, and in each along the terms.

## Not modelled, and why

The patterns of tokens and the conversion of digits to numbers (with it, that
an operand with a leading zero is read as decimal); failures of `malloc()` and
`realloc()`, after which all programs give up at once; options other than `-m`,
`-I` and `-O`; what `-v`, `-m` of `bas`, `dump_vm()` and the plots of syntax
trees print; writing an object to standard output; a write of the simulator
interrupted by a signal; `sig_req` kept in a register by an optimising
compiler, since it is not volatile and the Makefile does not optimise; hash
collisions and the rounding of `hcreate_r()`; calls that only free at exit.

## Plan

Done: all components, and theorems about each.

Left, in this order:

1. that `eval_expr()` meets `OnlyResolves` and `EvaluatesAsMeant`, along the
   rank of contexts in their chain, and of terms in each;
2. the meaning of sources with several applications of a macro, late labels and
   captured arguments, stated as what the code does, so that the assembler's
   run need not leave them out;
3. several source files in `Listing`, with the buffer of records moving under
   the section's pointers;
4. the conversion of numbers, between scanner and trees.
