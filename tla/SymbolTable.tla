---------------------------- MODULE SymbolTable ----------------------------
(* libbaby/symbols.c: in each context a table of symbols, an array that is   *)
(* appended to, grown by doubling, and sorted only when the next lookup      *)
(* comes, which searches it by bisection.                                    *)
(*                                                                           *)
(* A lookup that goes on to outer contexts is a step for each; all else is   *)
(* a step for each function.                                                 *)
EXTENDS Integers, Sequences, Functions

CONSTANTS
    Names, Key, Contexts, Parent, Words, Trees, Undef,      \* as in NameMap
    InitialCapacity                                         \* 32

ASSUME SymbolTableAssumption ==
    /\ Contexts \subseteq Nat \ {0}
    /\ Parent \in [Contexts -> Contexts \cup {0}]
    /\ \A c \in Contexts : Parent[c] < c
    /\ Key \in [Names -> Nat]
    /\ Undef \notin Words
    /\ InitialCapacity \in Nat \ {0}

VARIABLES
    tables,         \* struct sym_table by context
    search,         \* the lookup under way, or NoSearch
    answer,         \* what a lookup that has just ended found, or NoAnswer
    held,           \* where: the pointer it returned, or NoSymbol
    status          \* "running", or "aborted" by an assertion

vars == <<tables, search, answer, held, status>>

Values == Words \cup Trees \cup {Undef}
NoSearch == [context |-> 0]
NoSymbol == [context |-> 0]
NoAnswer == [from |-> 0]

(* Where a text was looked up from, where it was found, and its value there. *)
Answer(lookup, holder, value) ==
    [from |-> lookup.from, text |-> Key[lookup.name], specific |-> lookup.specific,
     context |-> holder, value |-> value]

(* sym_table_create(), sym_context_create().                                 *)
Init ==
    /\ tables = [c \in Contexts |->
                    [symbols |-> <<>>, capacity |-> 0, sorted |-> FALSE]]
    /\ search = NoSearch
    /\ answer = NoAnswer
    /\ held = NoSymbol
    /\ status = "running"

KeyAt(table, i) == Key[table.symbols[i].name]

InOrder(table) ==
    \A i, j \in DOMAIN table.symbols : i < j => KeyAt(table, i) <= KeyAt(table, j)

(* sym_sort(): the array as qsort() may leave it.                            *)
Sortings(table) ==
    {t \in {[table EXCEPT !.symbols = [i \in DOMAIN @ |-> @[p[i]]], !.sorted = TRUE] :
               p \in Bijection(DOMAIN table.symbols, DOMAIN table.symbols)} :
        InOrder(t)}

(* A lookup sorts a table that is not marked as sorted.                      *)
ReadyTables(table) == IF table.sorted THEN {table} ELSE Sortings(table)

(* bsearch(): any of the entries that are equal; none, if there is none, or  *)
(* if the array it was given is out of order.                                *)
Equal(table, name) == {i \in DOMAIN table.symbols : KeyAt(table, i) = Key[name]}
Hits(table, name) ==
    IF InOrder(table) /\ Equal(table, name) # {} THEN Equal(table, name)
                                                 ELSE Equal(table, name) \cup {0}

(* Mutant: a table without an array does not get one.                        *)
GrownTwice(table) ==
    IF Len(table.symbols) < table.capacity THEN table.capacity
                                           ELSE 2 * table.capacity

Grown(table) ==
    IF Len(table.symbols) < table.capacity THEN table.capacity
    ELSE IF table.capacity = 0 THEN InitialCapacity ELSE 2 * table.capacity

(* Mutant: the table stays marked as sorted.                                 *)
WithNewSorted(table, name) ==
    [symbols |-> Append(table.symbols, [name |-> name, value |-> Undef]),
     capacity |-> Grown(table),
     sorted |-> table.sorted]

(* A new entry at the end of the array.                                      *)
WithNew(table, name) ==
    [symbols |-> Append(table.symbols, [name |-> name, value |-> Undef]),
     capacity |-> Grown(table),
     sorted |-> FALSE]

WithValue(table, i, v) == [table EXCEPT !.symbols = [@ EXCEPT ![i].value = v]]

Idle == search = NoSearch /\ status = "running"

(* Mutant: a pointer is used after another symbol was added.                 *)
ReleasedNever(c) == held

(* A pointer into a table is not kept when the table gets a new entry.       *)
Released(c) == IF held.context = c THEN NoSymbol ELSE held

(* sym_getref(): the entry there is, or a new one.                           *)
GetRef(c, name) ==
    /\ Idle
    /\ \E t \in ReadyTables(tables[c]) : \E i \in Hits(t, name) :
           IF i # 0 THEN /\ tables' = [tables EXCEPT ![c] = t]
                         /\ UNCHANGED held
                    ELSE /\ tables' = [tables EXCEPT ![c] = WithNew(t, name)]
                         /\ held' = Released(c)
    /\ answer' = NoAnswer /\ UNCHANGED <<search, status>>

(* sym_setval(), for an entry sym_getref() or a lookup has returned.  It is  *)
(* asserted that the lookup finds it again.                                  *)
SetVal(c, name, v) ==
    /\ Idle
    /\ Equal(tables[c], name) # {}
    /\ \E t \in ReadyTables(tables[c]) : \E i \in Hits(t, name) :
           IF i # 0 THEN /\ tables' = [tables EXCEPT ![c] = WithValue(t, i, v)]
                         /\ UNCHANGED status
                    ELSE /\ tables' = [tables EXCEPT ![c] = t]
                         /\ status' = "aborted"
    /\ answer' = NoAnswer /\ UNCHANGED <<search, held>>

(* sym_add(): sym_getref(), then sym_setval().                               *)
Add(c, name, v) ==
    /\ Idle
    /\ \E t \in ReadyTables(tables[c]) : \E i \in Hits(t, name) :
         LET u == IF i # 0 THEN t ELSE WithNew(t, name)
         IN  /\ held' = IF i # 0 THEN held ELSE Released(c)
             /\ \E w \in ReadyTables(u) : \E j \in Hits(w, name) :
                    IF j # 0 THEN /\ tables' = [tables EXCEPT ![c] = WithValue(w, j, v)]
                                  /\ UNCHANGED status
                             ELSE /\ tables' = [tables EXCEPT ![c] = w]
                                  /\ status' = "aborted"
    /\ answer' = NoAnswer /\ UNCHANGED search

(* sym_print_table() sorts as well.                                          *)
PrintTable(c) ==
    /\ Idle
    /\ \E t \in ReadyTables(tables[c]) : tables' = [tables EXCEPT ![c] = t]
    /\ answer' = NoAnswer /\ UNCHANGED <<search, held, status>>

(* sym_lookup_with_context() from a context on, in the default scope or with *)
(* that context specified; sym_getval() is the former.                       *)
Lookup(c, name, specific) ==
    /\ Idle
    /\ search' = [context |-> c, from |-> c, name |-> name, specific |-> specific]
    /\ answer' = NoAnswer /\ UNCHANGED <<tables, held, status>>

(* Mutant: a value that is no word counts in every context.                  *)
AcceptedAny(t, i) == i # 0

(* A symbol of the context specified counts if it is a word.                 *)
Accepted(t, i) ==
    i # 0 /\ (search.context = search.specific => t.symbols[i].value \in Words)

(* One round of its loop.                                                    *)
LookIn ==
    /\ search # NoSearch /\ status = "running"
    /\ LET c == search.context
       IN  \E t \in ReadyTables(tables[c]) : \E i \in Hits(t, search.name) :
             /\ tables' = [tables EXCEPT ![c] = t]
             /\ IF Accepted(t, i)
                  THEN /\ answer' = Answer(search, c, t.symbols[i].value)
                       /\ held' = [context |-> c, slot |-> i, name |-> search.name]
                       /\ search' = NoSearch
                ELSE IF Parent[c] = 0
                  THEN /\ answer' = Answer(search, 0, Undef)
                       /\ held' = NoSymbol
                       /\ search' = NoSearch
                ELSE /\ search' = [search EXCEPT !.context = Parent[c]]
                     /\ UNCHANGED <<answer, held>>
    /\ UNCHANGED status

Next ==
    \/ \E c \in Contexts, name \in Names :
         \/ GetRef(c, name)
         \/ \E v \in Words \cup Trees : SetVal(c, name, v) \/ Add(c, name, v)
         \/ \E specific \in {0, c} : Lookup(c, name, specific)
    \/ \E c \in Contexts : PrintTable(c)
    \/ LookIn

Spec == Init /\ [][Next]_vars

-----------------------------------------------------------------------------
(* Properties.                                                               *)

(* The type invariant, with the room in the array.                           *)
Table == [symbols : Seq([name : Names, value : Values]),
          capacity : Nat, sorted : BOOLEAN]

TypeOK ==
    /\ tables \in [Contexts -> Table]
    /\ \A c \in Contexts : Len(tables[c].symbols) <= tables[c].capacity
    /\ \/ search = NoSearch
       \/ search \in [context : Contexts, from : Contexts, name : Names,
                      specific : Contexts \cup {0}]
    /\ held = NoSymbol \/ held \in [context : Contexts, slot : Nat, name : Names]
    /\ status \in {"running", "aborted"}

(* A table marked as sorted is in order, and no text has two entries, so     *)
(* that bisection finds the one there is: sym_setval() never fails its       *)
(* assertion, and nothing is entered a second time behind an entry that was  *)
(* missed.                                                                   *)
Searchable ==
    /\ status = "running"
    /\ \A c \in Contexts :
           /\ tables[c].sorted => InOrder(tables[c])
           /\ \A i, j \in DOMAIN tables[c].symbols :
                  KeyAt(tables[c], i) = KeyAt(tables[c], j) => i = j

(* The symbol a lookup returned stays where it is until the table gets a new *)
(* entry: eval_expr() uses it after it has evaluated the value, which looks  *)
(* up and sets other symbols, in this table too.                             *)
HeldStays ==
    held # NoSymbol =>
        held.slot \in Equal(tables[held.context], held.name)

(* The tables implement maps from names to values.                           *)
AsMap(table) ==
    [k \in {KeyAt(table, i) : i \in DOMAIN table.symbols} |->
        LET i == CHOOSE i \in DOMAIN table.symbols : KeyAt(table, i) = k
        IN  table.symbols[i].value]

Maps == INSTANCE NameMap WITH map <- [c \in Contexts |-> AsMap(tables[c])]

ImplementsMaps == Maps!Spec
=============================================================================
