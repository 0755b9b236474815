------------------------- MODULE SymbolTableProofs -------------------------
(* Theorems of the symbol tables, for any tree of contexts, any names and    *)
(* any initial capacity.                                                     *)
EXTENDS SymbolTable, SequenceTheorems, WellFoundedInduction, TLAPS

Symbol == [name : Names, value : Values]

(* A table as it is between two steps.                                       *)
Unique(t) ==
    \A i, j \in DOMAIN t.symbols : KeyAt(t, i) = KeyAt(t, j) => i = j

TableOK(t) ==
    /\ t \in Table
    /\ Len(t.symbols) <= t.capacity
    /\ t.sorted => InOrder(t)
    /\ Unique(t)

-----------------------------------------------------------------------------
(* The operations on a table.                                                *)

LEMMA TableShape ==
    ASSUME NEW t, TableOK(t)
    PROVE  /\ t.symbols \in Seq(Symbol) /\ Len(t.symbols) \in Nat
           /\ DOMAIN t.symbols = 1 .. Len(t.symbols)
           /\ \A i \in DOMAIN t.symbols : t.symbols[i] \in Symbol
           /\ \A i \in DOMAIN t.symbols : KeyAt(t, i) \in Nat
           /\ t.capacity \in Nat /\ t.sorted \in BOOLEAN
<1>1. t.symbols \in Seq(Symbol)
  BY DEF TableOK, Table, Symbol
<1>2. \A i \in DOMAIN t.symbols : t.symbols[i] \in Symbol
  BY <1>1
<1>. QED
  BY <1>1, <1>2, SymbolTableAssumption DEF TableOK, Table, KeyAt, Symbol

(* Sorting keeps the entries.                                                *)
LEMMA SortingKeeps ==
    ASSUME NEW t, TableOK(t), NEW u \in Sortings(t)
    PROVE  /\ TableOK(u) /\ u.sorted /\ InOrder(u)
           /\ \A n \in Names : Equal(u, n) = {} <=> Equal(t, n) = {}
<1>. DEFINE D == DOMAIN t.symbols
<1>1. PICK p \in Bijection(D, D) :
        u = [t EXCEPT !.symbols = [i \in DOMAIN @ |-> @[p[i]]], !.sorted = TRUE]
  BY DEF Sortings
<1>2. InOrder(u)
  BY DEF Sortings
<1>3. /\ p \in [D -> D]
      /\ \A i, j \in D : p[i] = p[j] => i = j
      /\ \A k \in D : \E i \in D : p[i] = k
  BY DEF Bijection, Injection, Surjection, IsInjective
<1>4. /\ u.symbols = [i \in D |-> t.symbols[p[i]]]
      /\ u.sorted = TRUE /\ u.capacity = t.capacity
      /\ u = [symbols |-> u.symbols, capacity |-> u.capacity, sorted |-> u.sorted]
  BY <1>1 DEF TableOK, Table
<1>5. D = 1 .. Len(t.symbols) /\ Len(t.symbols) \in Nat
  BY TableShape
<1>6. u.symbols \in [1 .. Len(t.symbols) -> Symbol]
  BY <1>3, <1>4, <1>5, TableShape
<1>7. u.symbols \in Seq(Symbol) /\ DOMAIN u.symbols = D
  BY <1>5, <1>6, SeqDef
<1>8. Len(u.symbols) = Len(t.symbols)
  BY <1>5, <1>7, LenProperties
<1>9. \A i \in D : p[i] \in D /\ KeyAt(u, i) = KeyAt(t, p[i])
  BY <1>3, <1>4 DEF KeyAt
<1>10. Unique(u)
  BY <1>3, <1>7, <1>9 DEF Unique, TableOK
<1>11. u \in Table
  BY <1>4, <1>7, TableShape DEF Table, Symbol
<1>12. \A n \in Names : Equal(u, n) = {} <=> Equal(t, n) = {}
  <2> SUFFICES ASSUME NEW n \in Names
               PROVE  Equal(u, n) = {} <=> Equal(t, n) = {}
    OBVIOUS
  <2>1. ASSUME NEW i \in Equal(u, n) PROVE p[i] \in Equal(t, n)
    BY <1>7, <1>9 DEF Equal
  <2>2. ASSUME NEW k \in Equal(t, n) PROVE \E i \in D : i \in Equal(u, n)
    <3>1. PICK i \in D : p[i] = k
      BY <1>3 DEF Equal
    <3>. QED
      BY <3>1, <1>7, <1>9 DEF Equal
  <2>. QED
    BY <2>1, <2>2
<1>. QED
  BY <1>2, <1>4, <1>8, <1>10, <1>11, <1>12 DEF TableOK

(* So does a lookup, which leaves a table in order.                          *)
LEMMA ReadyKeeps ==
    ASSUME NEW t, TableOK(t), NEW u \in ReadyTables(t)
    PROVE  /\ TableOK(u) /\ u.sorted /\ InOrder(u)
           /\ \A n \in Names : Equal(u, n) = {} <=> Equal(t, n) = {}
           /\ t.sorted => u = t
<1>1. CASE t.sorted
  BY <1>1 DEF ReadyTables, TableOK
<1>2. CASE ~t.sorted
  BY <1>2, SortingKeeps DEF ReadyTables
<1>. QED
  BY <1>1, <1>2

(* Bisection in a table in order finds what there is.                        *)
LEMMA HitsExact ==
    ASSUME NEW t, TableOK(t), InOrder(t), NEW n, NEW i \in Hits(t, n)
    PROVE  /\ i = 0 => Equal(t, n) = {}
           /\ i # 0 => i \in DOMAIN t.symbols /\ KeyAt(t, i) = Key[n]
                       /\ i \in Equal(t, n)
<1>1. 0 \notin Equal(t, n)
  BY TableShape DEF Equal
<1>. QED
  BY <1>1 DEF Hits, Equal

(* A name that is not there can be entered.                                  *)
LEMMA NewKeeps ==
    ASSUME NEW t, TableOK(t), NEW n \in Names, Equal(t, n) = {}
    PROVE  TableOK(WithNew(t, n)) /\ Equal(WithNew(t, n), n) # {}
<1>. DEFINE u == WithNew(t, n)
            new == [name |-> n, value |-> Undef]
            len == Len(t.symbols)
<1>1. /\ t.symbols \in Seq(Symbol) /\ len \in Nat /\ t.capacity \in Nat
      /\ DOMAIN t.symbols = 1 .. len /\ len <= t.capacity
  BY TableShape DEF TableOK
<1>2. /\ u.symbols = Append(t.symbols, new) /\ u.capacity = Grown(t)
      /\ u.sorted = FALSE
      /\ u = [symbols |-> u.symbols, capacity |-> u.capacity, sorted |-> u.sorted]
  BY DEF WithNew, TableOK, Table
<1>3. new \in Symbol
  BY DEF Symbol, Values
<1>4. /\ u.symbols \in Seq(Symbol) /\ Len(u.symbols) = len + 1
      /\ DOMAIN u.symbols = 1 .. len + 1
      /\ u.symbols[len + 1] = new
      /\ \A i \in 1 .. len : u.symbols[i] = t.symbols[i]
  BY <1>1, <1>2, <1>3
<1>5. Grown(t) \in Nat /\ len + 1 <= Grown(t)
  BY <1>1, SymbolTableAssumption DEF Grown
<1>6. /\ KeyAt(u, len + 1) = Key[n]
      /\ \A i \in 1 .. len : KeyAt(u, i) = KeyAt(t, i)
  BY <1>4 DEF KeyAt
<1>7. \A i \in 1 .. len : KeyAt(t, i) # Key[n]
  BY <1>1 DEF Equal
<1>. HIDE DEF u, new, len
<1>8. Unique(u)
  <2> SUFFICES ASSUME NEW i \in 1 .. len + 1, NEW j \in 1 .. len + 1,
                      KeyAt(u, i) = KeyAt(u, j)
               PROVE  i = j
    BY <1>4 DEF Unique
  <2>1. CASE i = len + 1 \/ j = len + 1
    BY <2>1, <1>1, <1>6, <1>7
  <2>2. CASE i \in 1 .. len /\ j \in 1 .. len
    BY <2>2, <1>1, <1>6 DEF Unique, TableOK
  <2>. QED
    BY <2>1, <2>2, <1>1
<1>9. TableOK(u)
  BY <1>2, <1>4, <1>5, <1>8 DEF TableOK, Table, Symbol
<1>10. len + 1 \in Equal(u, n)
  BY <1>1, <1>4, <1>6 DEF Equal
<1>. QED
  BY <1>9, <1>10 DEF u

(* A value can be set.                                                       *)
LEMMA ValueKeeps ==
    ASSUME NEW t, TableOK(t), NEW i \in DOMAIN t.symbols, NEW v \in Values
    PROVE  /\ TableOK(WithValue(t, i, v))
           /\ WithValue(t, i, v).sorted = t.sorted
           /\ \A n : Equal(WithValue(t, i, v), n) = Equal(t, n)
<1>. DEFINE u == WithValue(t, i, v)
<1>1. /\ t.symbols \in Seq(Symbol) /\ Len(t.symbols) \in Nat
      /\ DOMAIN t.symbols = 1 .. Len(t.symbols)
      /\ \A j \in DOMAIN t.symbols : t.symbols[j] \in Symbol
  BY TableShape
<1>2. /\ u.symbols = [t.symbols EXCEPT ![i].value = v]
      /\ u.capacity = t.capacity /\ u.sorted = t.sorted
      /\ u = [symbols |-> u.symbols, capacity |-> u.capacity, sorted |-> u.sorted]
  <2>1. ASSUME NEW s
        PROVE  LET w == [t EXCEPT !.symbols = s]
               IN  /\ w.symbols = s /\ w.capacity = t.capacity /\ w.sorted = t.sorted
                   /\ w = [symbols |-> s, capacity |-> w.capacity, sorted |-> w.sorted]
    BY DEF TableOK, Table
  <2>2. u = [t EXCEPT !.symbols = [t.symbols EXCEPT ![i].value = v]]
    BY DEF WithValue
  <2>. HIDE DEF u
  <2>. QED
    BY <2>1, <2>2
<1>3. [t.symbols[i] EXCEPT !.value = v] \in Symbol
      /\ [t.symbols[i] EXCEPT !.value = v].name = t.symbols[i].name
  BY <1>1 DEF Symbol
<1>4. /\ u.symbols \in Seq(Symbol) /\ Len(u.symbols) = Len(t.symbols)
      /\ DOMAIN u.symbols = DOMAIN t.symbols
      /\ \A j \in DOMAIN t.symbols : u.symbols[j].name = t.symbols[j].name
  <2>1. u.symbols = [t.symbols EXCEPT ![i] = [t.symbols[i] EXCEPT !.value = v]]
    BY <1>2
  <2>. HIDE DEF u
  <2>. QED
    BY <1>1, <1>3, <2>1, ExceptSeq
<1>. HIDE DEF u
<1>5. \A j \in DOMAIN t.symbols : KeyAt(u, j) = KeyAt(t, j)
  BY <1>4 DEF KeyAt
<1>6. TableOK(u)
  BY <1>2, <1>4, <1>5 DEF TableOK, Table, Symbol, Unique, InOrder
<1>7. \A n : Equal(u, n) = Equal(t, n)
  BY <1>4, <1>5 DEF Equal
<1>. QED
  BY <1>2, <1>6, <1>7 DEF u

-----------------------------------------------------------------------------
(* The inductive invariant: every table is as above, no assertion has        *)
(* failed, and a pointer that is held leads into a sorted table, which the   *)
(* next lookup leaves alone.                                                 *)

HeldOK ==
    \/ held = NoSymbol
    \/ /\ held \in [context : Contexts, slot : Nat, name : Names]
       /\ tables[held.context].sorted
       /\ held.slot \in Equal(tables[held.context], held.name)

SearchOK ==
    \/ search = NoSearch
    \/ search \in [context : Contexts, from : Contexts, name : Names,
                   specific : Contexts \cup {0}]

TablesOK ==
    /\ tables \in [Contexts -> Table]
    /\ \A c \in Contexts : TableOK(tables[c])

Inv == TablesOK /\ SearchOK /\ HeldOK /\ status = "running"

LEMMA InvProperties == Inv => TypeOK /\ Searchable /\ HeldStays
<1>1. Inv => TypeOK
  BY DEF Inv, TablesOK, TableOK, SearchOK, HeldOK, TypeOK
<1>2. Inv => Searchable
  BY DEF Inv, TablesOK, TableOK, Unique, Searchable
<1>3. Inv => HeldStays
  BY DEF Inv, HeldOK, HeldStays
<1>. QED
  BY <1>1, <1>2, <1>3

LEMMA InitInv == Init => Inv
<1> SUFFICES ASSUME Init PROVE Inv
  OBVIOUS
<1>. DEFINE t == [symbols |-> <<>>, capacity |-> 0, sorted |-> FALSE]
<1>1. TableOK(t)
  BY DEF TableOK, Table, Unique, InOrder
<1>. HIDE DEF t
<1>2. \A c \in Contexts : tables[c] = t
  BY DEF Init, t
<1>3. t \in Table
  BY <1>1 DEF TableOK
<1>. QED
  BY <1>1, <1>2, <1>3 DEF Init, t, Inv, TablesOK, SearchOK, HeldOK

(* A table may be replaced by one that is well formed: what is held in other *)
(* tables stays, and in this one what is held there if it is as before.      *)
LEMMA ReplaceKeeps ==
    ASSUME Inv, NEW c \in Contexts, NEW t, TableOK(t),
           tables' = [tables EXCEPT ![c] = t],
           \/ held' = Released(c)
           \/ /\ held' = held
              /\ tables[c].sorted =>
                    t.sorted /\ \A n \in Names : Equal(tables[c], n) \subseteq Equal(t, n)
    PROVE  TablesOK' /\ HeldOK'
<1>1. TablesOK'
  BY DEF Inv, TablesOK, TableOK
<1>2. /\ tables'[c] = t
      /\ \A b \in Contexts \ {c} : tables'[b] = tables[b]
  BY DEF Inv, TablesOK
<1>3. ASSUME held' = Released(c) PROVE HeldOK'
  BY <1>2, <1>3 DEF Inv, HeldOK, Released, Equal, KeyAt
<1>4. ASSUME held' = held,
             tables[c].sorted =>
                t.sorted /\ \A n \in Names : Equal(tables[c], n) \subseteq Equal(t, n)
      PROVE  HeldOK'
  <2>1. CASE held = NoSymbol
    BY <2>1, <1>4 DEF HeldOK
  <2>2. CASE held # NoSymbol
    <3>1. /\ held \in [context : Contexts, slot : Nat, name : Names]
          /\ tables[held.context].sorted
          /\ held.slot \in Equal(tables[held.context], held.name)
      BY <2>2 DEF Inv, HeldOK
    <3>2. tables'[held.context].sorted
          /\ held.slot \in Equal(tables'[held.context], held.name)
      BY <3>1, <1>2, <1>4
    <3>. QED
      BY <3>1, <3>2, <1>4 DEF HeldOK, Equal, KeyAt
  <2>. QED
    BY <2>1, <2>2
<1>. QED
  BY <1>1, <1>3, <1>4

(* A new entry or the one there is, in a table that is ready: sym_getref().  *)
LEMMA EnterKeeps ==
    ASSUME NEW t, TableOK(t), InOrder(t), NEW n \in Names, NEW i \in Hits(t, n),
           NEW u, u = IF i # 0 THEN t ELSE WithNew(t, n)
    PROVE  TableOK(u) /\ Equal(u, n) # {}
<1>1. CASE i # 0
  BY <1>1, HitsExact
<1>2. CASE i = 0
  BY <1>2, HitsExact, NewKeeps
<1>. QED
  BY <1>1, <1>2

LEMMA GetRefKeeps ==
    ASSUME Inv, NEW c \in Contexts, NEW n \in Names, GetRef(c, n)
    PROVE  Inv'
<1>1a. PICK t \in ReadyTables(tables[c]) : \E i \in Hits(t, n) :
           IF i # 0 THEN /\ tables' = [tables EXCEPT ![c] = t]
                         /\ UNCHANGED held
                    ELSE /\ tables' = [tables EXCEPT ![c] = WithNew(t, n)]
                         /\ held' = Released(c)
  BY DEF GetRef
<1>1. PICK i \in Hits(t, n) :
         IF i # 0 THEN /\ tables' = [tables EXCEPT ![c] = t]
                       /\ UNCHANGED held
                  ELSE /\ tables' = [tables EXCEPT ![c] = WithNew(t, n)]
                       /\ held' = Released(c)
  BY <1>1a
<1>2. /\ TableOK(t) /\ t.sorted /\ InOrder(t)
      /\ tables[c].sorted => t = tables[c]
  BY ReadyKeeps DEF Inv, TablesOK
<1>3. TablesOK' /\ HeldOK'
  <2>1. CASE i # 0
    BY <2>1, <1>1, <1>2, ReplaceKeeps
  <2>2. CASE i = 0
    <3>1. TableOK(WithNew(t, n))
      BY <2>2, <1>2, HitsExact, NewKeeps
    <3>. QED
      BY <2>2, <3>1, <1>1, ReplaceKeeps
  <2>. QED
    BY <2>1, <2>2
<1>. QED
  BY <1>3 DEF GetRef, Inv, SearchOK

LEMMA SetValKeeps ==
    ASSUME Inv, NEW c \in Contexts, NEW n \in Names, NEW v \in Values,
           SetVal(c, n, v)
    PROVE  Inv'
<1>1a. PICK t \in ReadyTables(tables[c]) : \E i \in Hits(t, n) :
           IF i # 0 THEN /\ tables' = [tables EXCEPT ![c] = WithValue(t, i, v)]
                         /\ UNCHANGED status
                    ELSE /\ tables' = [tables EXCEPT ![c] = t]
                         /\ status' = "aborted"
  BY DEF SetVal
<1>1. PICK i \in Hits(t, n) :
         IF i # 0 THEN /\ tables' = [tables EXCEPT ![c] = WithValue(t, i, v)]
                       /\ UNCHANGED status
                  ELSE /\ tables' = [tables EXCEPT ![c] = t]
                       /\ status' = "aborted"
  BY <1>1a
<1>2. /\ TableOK(t) /\ t.sorted /\ InOrder(t)
      /\ tables[c].sorted => t = tables[c]
      /\ Equal(t, n) # {}
  BY ReadyKeeps DEF Inv, TablesOK, SetVal
<1>3. i # 0 /\ i \in DOMAIN t.symbols
  BY <1>2, HitsExact
<1>4. /\ TableOK(WithValue(t, i, v)) /\ WithValue(t, i, v).sorted
      /\ \A k : Equal(WithValue(t, i, v), k) = Equal(t, k)
  BY <1>2, <1>3, ValueKeeps
<1>5. tables' = [tables EXCEPT ![c] = WithValue(t, i, v)]
      /\ UNCHANGED <<search, held, status>>
  BY <1>1, <1>3 DEF SetVal
<1>6. TablesOK' /\ HeldOK'
  BY <1>2, <1>4, <1>5, ReplaceKeeps
<1>. QED
  BY <1>5, <1>6 DEF Inv, SearchOK

LEMMA AddKeeps ==
    ASSUME Inv, NEW c \in Contexts, NEW n \in Names, NEW v \in Values,
           Add(c, n, v)
    PROVE  Inv'
<1>1a. PICK t \in ReadyTables(tables[c]) : \E i \in Hits(t, n) :
           LET u == IF i # 0 THEN t ELSE WithNew(t, n)
           IN  /\ held' = IF i # 0 THEN held ELSE Released(c)
               /\ \E w \in ReadyTables(u) : \E j \in Hits(w, n) :
                      IF j # 0 THEN /\ tables' = [tables EXCEPT ![c] = WithValue(w, j, v)]
                                    /\ UNCHANGED status
                               ELSE /\ tables' = [tables EXCEPT ![c] = w]
                                    /\ status' = "aborted"
  BY DEF Add
<1>1. PICK i \in Hits(t, n) :
         LET u == IF i # 0 THEN t ELSE WithNew(t, n)
         IN  /\ held' = IF i # 0 THEN held ELSE Released(c)
             /\ \E w \in ReadyTables(u) : \E j \in Hits(w, n) :
                    IF j # 0 THEN /\ tables' = [tables EXCEPT ![c] = WithValue(w, j, v)]
                                  /\ UNCHANGED status
                             ELSE /\ tables' = [tables EXCEPT ![c] = w]
                                  /\ status' = "aborted"
  BY <1>1a
<1>. DEFINE u == IF i # 0 THEN t ELSE WithNew(t, n)
<1>2. /\ TableOK(t) /\ t.sorted /\ InOrder(t)
      /\ tables[c].sorted => t = tables[c]
  BY ReadyKeeps DEF Inv, TablesOK
<1>3. TableOK(u) /\ Equal(u, n) # {}
  BY <1>2, EnterKeeps
<1>4a. PICK w \in ReadyTables(u) : \E j \in Hits(w, n) :
           IF j # 0 THEN /\ tables' = [tables EXCEPT ![c] = WithValue(w, j, v)]
                         /\ UNCHANGED status
                    ELSE /\ tables' = [tables EXCEPT ![c] = w]
                         /\ status' = "aborted"
  BY <1>1
<1>4. PICK j \in Hits(w, n) :
         IF j # 0 THEN /\ tables' = [tables EXCEPT ![c] = WithValue(w, j, v)]
                       /\ UNCHANGED status
                  ELSE /\ tables' = [tables EXCEPT ![c] = w]
                       /\ status' = "aborted"
  BY <1>4a
<1>5. /\ TableOK(w) /\ w.sorted /\ InOrder(w) /\ Equal(w, n) # {}
      /\ u.sorted => w = u
  <2>. HIDE DEF u
  <2>. QED
    BY <1>3, ReadyKeeps
<1>6. j # 0 /\ j \in DOMAIN w.symbols
  BY <1>5, HitsExact
<1>7. /\ TableOK(WithValue(w, j, v)) /\ WithValue(w, j, v).sorted
      /\ \A k : Equal(WithValue(w, j, v), k) = Equal(w, k)
  BY <1>5, <1>6, ValueKeeps
<1>8. tables' = [tables EXCEPT ![c] = WithValue(w, j, v)]
      /\ UNCHANGED <<search, status>>
  BY <1>4, <1>6 DEF Add
<1>9. TablesOK' /\ HeldOK'
  <2>1. CASE i # 0
    <3>1. u = t /\ w = t /\ held' = held
      BY <2>1, <1>1, <1>2, <1>5
    <3>. QED
      BY <3>1, <1>2, <1>7, <1>8, ReplaceKeeps
  <2>2. CASE i = 0
    <3>1. held' = Released(c)
      BY <2>2, <1>1
    <3>. QED
      BY <3>1, <1>7, <1>8, ReplaceKeeps
  <2>. QED
    BY <2>1, <2>2
<1>. QED
  BY <1>8, <1>9 DEF Inv, SearchOK

LEMMA PrintKeeps ==
    ASSUME Inv, NEW c \in Contexts, PrintTable(c)
    PROVE  Inv'
<1>1. PICK t \in ReadyTables(tables[c]) : tables' = [tables EXCEPT ![c] = t]
  BY DEF PrintTable
<1>2. /\ TableOK(t) /\ t.sorted /\ InOrder(t)
      /\ tables[c].sorted => t = tables[c]
  BY ReadyKeeps DEF Inv, TablesOK
<1>3. held' = held
  BY DEF PrintTable
<1>4. TablesOK' /\ HeldOK'
  BY <1>1, <1>2, <1>3, ReplaceKeeps
<1>. QED
  BY <1>4 DEF PrintTable, Inv, SearchOK

LEMMA LookInKeeps == ASSUME Inv, LookIn PROVE Inv'
<1>. DEFINE c == search.context
<1>1. search \in [context : Contexts, from : Contexts, name : Names,
                  specific : Contexts \cup {0}]
  BY DEF Inv, SearchOK, LookIn
<1>2a. PICK t \in ReadyTables(tables[c]) : \E i \in Hits(t, search.name) :
           /\ tables' = [tables EXCEPT ![c] = t]
           /\ IF Accepted(t, i)
                THEN /\ answer' = Answer(search, c, t.symbols[i].value)
                     /\ held' = [context |-> c, slot |-> i, name |-> search.name]
                     /\ search' = NoSearch
              ELSE IF Parent[c] = 0
                THEN /\ answer' = Answer(search, 0, Undef)
                     /\ held' = NoSymbol
                     /\ search' = NoSearch
              ELSE /\ search' = [search EXCEPT !.context = Parent[c]]
                   /\ UNCHANGED <<answer, held>>
  BY DEF LookIn
<1>2. PICK i \in Hits(t, search.name) :
         /\ tables' = [tables EXCEPT ![c] = t]
         /\ IF Accepted(t, i)
              THEN /\ answer' = Answer(search, c, t.symbols[i].value)
                   /\ held' = [context |-> c, slot |-> i, name |-> search.name]
                   /\ search' = NoSearch
            ELSE IF Parent[c] = 0
              THEN /\ answer' = Answer(search, 0, Undef)
                   /\ held' = NoSymbol
                   /\ search' = NoSearch
            ELSE /\ search' = [search EXCEPT !.context = Parent[c]]
                 /\ UNCHANGED <<answer, held>>
  BY <1>2a
<1>3. c \in Contexts /\ search.name \in Names
  BY <1>1
<1>4. /\ TableOK(t) /\ t.sorted /\ InOrder(t)
      /\ tables[c].sorted => t = tables[c]
  BY <1>3, ReadyKeeps DEF Inv, TablesOK
<1>5. status' = "running"
  BY DEF LookIn, Inv
<1>. HIDE DEF c
<1>6. CASE Accepted(t, i)
  <2>1. i # 0 /\ i \in DOMAIN t.symbols /\ i \in Equal(t, search.name)
    BY <1>4, <1>6, HitsExact DEF Accepted
  <2>2. i \in Nat
    BY <1>4, <2>1, TableShape
  <2>3. TablesOK'
    BY <1>2, <1>4 DEF Inv, TablesOK, TableOK
  <2>4. tables'[c] = t
    BY <1>2, <1>3 DEF Inv, TablesOK
  <2>5. held' = [context |-> c, slot |-> i, name |-> search.name]
        /\ search' = NoSearch
    BY <1>2, <1>6
  <2>6. HeldOK'
    BY <1>3, <1>4, <2>1, <2>2, <2>4, <2>5 DEF HeldOK, Equal, KeyAt
  <2>. QED
    BY <1>5, <2>3, <2>5, <2>6 DEF Inv, SearchOK
<1>7. CASE ~Accepted(t, i) /\ Parent[c] = 0
  <2>1. held' = NoSymbol /\ search' = NoSearch
    BY <1>2, <1>7
  <2>2. TablesOK'
    BY <1>2, <1>4 DEF Inv, TablesOK, TableOK
  <2>. QED
    BY <1>5, <2>1, <2>2 DEF Inv, HeldOK, SearchOK
<1>8. CASE ~Accepted(t, i) /\ Parent[c] # 0
  <2>1. search' = [search EXCEPT !.context = Parent[c]] /\ held' = held
    BY <1>2, <1>8
  <2>2. Parent[c] \in Contexts
    BY <1>3, <1>8, SymbolTableAssumption
  <2>3. SearchOK'
    BY <1>1, <2>1, <2>2 DEF SearchOK
  <2>4. TablesOK' /\ HeldOK'
    BY <1>2, <1>3, <1>4, <2>1, ReplaceKeeps
  <2>. QED
    BY <1>5, <2>3, <2>4 DEF Inv
<1>. QED
  BY <1>6, <1>7, <1>8

LEMMA NextInv == Inv /\ [Next]_vars => Inv'
<1> SUFFICES ASSUME Inv, [Next]_vars PROVE Inv'
  OBVIOUS
<1>1. ASSUME NEW c \in Contexts, NEW n \in Names, NEW v \in Words \cup Trees,
             SetVal(c, n, v) \/ Add(c, n, v)
      PROVE  Inv'
  <2>1. v \in Values
    BY DEF Values
  <2>. QED
    BY <1>1, <2>1, SetValKeeps, AddKeeps
<1>2. ASSUME NEW c \in Contexts, NEW n \in Names, NEW specific \in {0, c},
             Lookup(c, n, specific)
      PROVE  Inv'
  BY <1>2 DEF Lookup, Inv, TablesOK, SearchOK, HeldOK, Equal, KeyAt
<1>3. ASSUME UNCHANGED vars PROVE Inv'
  BY <1>3 DEF vars, Inv, TablesOK, SearchOK, HeldOK, Equal, KeyAt
<1>. QED
  BY <1>1, <1>2, <1>3, GetRefKeeps, PrintKeeps, LookInKeeps DEF Next

LEMMA Invariant == Spec => []Inv
  BY InitInv, NextInv, PTL DEF Spec

(* Tables are arrays of symbols that fit their capacity.                     *)
THEOREM TypeCorrect == Spec => []TypeOK
  BY Invariant, InvProperties, PTL

(* Whatever sequence of calls, lazy sorting leaves every lookup an array in  *)
(* order without duplicates, and the assertion of sym_setval() holds.        *)
THEOREM TablesAreSearchable == Spec => []Searchable
  BY Invariant, InvProperties, PTL

(* The symbol eval_expr() holds while it evaluates stays in its place.       *)
THEOREM HeldInPlace == Spec => []HeldStays
  BY Invariant, InvProperties, PTL

-----------------------------------------------------------------------------
(* The maps of NameMap have the nearest context that knows a text by         *)
(* recursion over the contexts around one.  That there is a function with    *)
(* that equation: the nearest one is the largest of the contexts around that *)
(* count, and a context has finitely many around it.                         *)

Scopes == Contexts \cup {0}

Closed(S) == \A c \in S \ {0} : Parent[c] \in S

Around(c) == {b \in Scopes : \A S \in SUBSET Scopes : c \in S /\ Closed(S) => b \in S}

LEMMA Largest ==
    ASSUME NEW c \in Nat, NEW T, T \subseteq 0 .. c, T # {}
    PROVE  \E n \in T : \A k \in T : k <= n
<1>. DEFINE U == {c - k : k \in T}
<1>1. U \subseteq Nat /\ U # {}
  <2>1. \A k \in 0 .. c : c - k \in Nat
    OBVIOUS
  <2>2. \A k \in T : c - k \in Nat
    BY <2>1
  <2>. QED
    BY <2>2
<1>2. IsWellFoundedOn(OpToRel(<, Nat), Nat)
  BY NatLessThanWellFounded
<1>3. PICK u \in U : \A v \in U : ~(<<v, u>> \in OpToRel(<, Nat))
  <2>. HIDE DEF U
  <2>. QED
    BY <1>1, <1>2, WFMin
<1>4. ASSUME NEW v \in U PROVE u <= v
  <2>1. ~(<<v, u>> \in OpToRel(<, Nat))
    BY <1>3
  <2>2. u \in Nat /\ v \in Nat /\ <<v, u>> \in Nat \X Nat
    BY <1>1
  <2>3. ~(v < u)
    BY <2>1, <2>2 DEF OpToRel
  <2>. QED
    BY <2>2, <2>3
<1>5. PICK n \in T : u = c - n
  OBVIOUS
<1>6. ASSUME NEW k \in T PROVE k <= n
  <2>1. c - n <= c - k
    BY <1>4, <1>5
  <2>2. k \in 0 .. c /\ n \in 0 .. c
    OBVIOUS
  <2>3. \A i, j \in 0 .. c : c - j <= c - i => i <= j
    OBVIOUS
  <2>. QED
    BY ONLY <2>1, <2>2, <2>3
<1>. QED
  BY <1>6

LEMMA ScopesAre ==
    /\ Scopes \subseteq Nat /\ 0 \in Scopes
    /\ \A c \in Contexts : Parent[c] \in Scopes /\ Parent[c] < c /\ c # 0
  BY SymbolTableAssumption DEF Scopes

(* What is around a context: itself and what is around its parent.           *)
LEMMA AroundIs ==
    ASSUME NEW c \in Scopes
    PROVE  /\ c \in Around(c) /\ Closed(Around(c)) /\ Around(c) \subseteq Scopes
           /\ Around(c) \subseteq 0 .. c
           /\ 0 \in Around(c)
           /\ c # 0 => Around(c) = {c} \cup Around(Parent[c])
<1>. USE ScopesAre
<1>1. \A b \in Scopes : b \in Around(b) /\ Closed(Around(b)) /\ Around(b) \subseteq Scopes
  BY DEF Around, Closed, Scopes
<1>2. Around(c) \subseteq 0 .. c
  <2>. DEFINE S == {b \in Scopes : b <= c}
  <2>1. S \in SUBSET Scopes /\ c \in S
    OBVIOUS
  <2>2. Closed(S)
    BY DEF Closed, Scopes
  <2>. HIDE DEF S
  <2>3. Around(c) \subseteq S
    BY <2>1, <2>2 DEF Around
  <2>4. \A b \in Nat : b <= c => b \in 0 .. c
    OBVIOUS
  <2>5. S \subseteq Nat /\ \A b \in S : b <= c
    BY DEF S
  <2>. QED
    BY ONLY <2>3, <2>4, <2>5
<1>3. 0 \in Around(c)
  <2>1. Around(c) # {} /\ Around(c) \subseteq Nat
    BY <1>1
  <2>2. IsWellFoundedOn(OpToRel(<, Nat), Nat)
    BY NatLessThanWellFounded
  <2>3. PICK n \in Around(c) : \A k \in Around(c) : ~(<<k, n>> \in OpToRel(<, Nat))
    BY <2>1, <2>2, WFMin
  <2>4. ASSUME n # 0 PROVE FALSE
    <3>1. n \in Contexts /\ Parent[n] \in Around(c)
      BY <1>1, <2>4 DEF Closed, Scopes
    <3>2. Parent[n] < n /\ Parent[n] \in Nat /\ n \in Nat
      BY <3>1, ScopesAre, SymbolTableAssumption
    <3>3. <<Parent[n], n>> \in OpToRel(<, Nat)
      BY <3>2 DEF OpToRel
    <3>. QED
      BY <2>3, <3>1, <3>3
  <2>. QED
    BY <2>3, <2>4
<1>4. ASSUME c # 0 PROVE Around(c) = {c} \cup Around(Parent[c])
  <2>. DEFINE p == Parent[c]
  <2>1. c \in Contexts /\ p \in Scopes
    BY <1>4 DEF Scopes
  <2>2. p \in Around(c)
    BY <1>1, <1>4 DEF Closed
  <2>3. ASSUME NEW b \in Around(p) PROVE b \in Around(c)
    BY <1>1, <2>2, <2>3 DEF Around
  <2>4. {c} \cup Around(p) \in SUBSET Scopes
    BY <1>1, <2>1
  <2>5. Closed({c} \cup Around(p))
    BY <1>1, <2>1 DEF Closed
  <2>6. Around(c) \subseteq {c} \cup Around(p)
    BY <2>4, <2>5 DEF Around
  <2>. QED
    BY <1>1, <2>3, <2>6
<1>. QED
  BY <1>1, <1>2, <1>3, <1>4

LEMMA NearestExists ==
    ASSUME NEW K \in SUBSET Contexts
    PROVE  \E f : f = [c \in Scopes |-> IF c = 0 \/ c \in K THEN c ELSE f[Parent[c]]]
<1>. DEFINE M(c) == {b \in Around(c) : b = 0 \/ b \in K}
            Top(c, n) == n \in M(c) /\ \A k \in M(c) : k <= n
            f == [c \in Scopes |-> CHOOSE n : Top(c, n)]
<1>1. ASSUME NEW c \in Scopes PROVE Top(c, f[c])
  <2>1. \E n \in M(c) : \A k \in M(c) : k <= n
    <3>1. c \in Nat /\ M(c) # {} /\ M(c) \subseteq 0 .. c
      BY AroundIs, ScopesAre
    <3>. HIDE DEF M
    <3>. QED
      BY <3>1, Largest
  <2>2. \E n : Top(c, n)
    BY <2>1
  <2>. HIDE DEF Top
  <2>. QED
    BY <2>2
<1>2. ASSUME NEW c \in Scopes, NEW n, Top(c, n) PROVE f[c] = n
  <2>1. f[c] \in Nat /\ n \in Nat
    BY <1>1, <1>2, AroundIs, ScopesAre
  <2>2. f[c] <= n /\ n <= f[c]
    BY <1>1, <1>2
  <2>. HIDE DEF f
  <2>. QED
    BY <2>1, <2>2
<1>3. ASSUME NEW c \in Scopes, c = 0 \/ c \in K PROVE f[c] = c
  <2>1. Top(c, c)
    BY <1>3, AroundIs, ScopesAre
  <2>. HIDE DEF f, Top
  <2>. QED
    BY <2>1, <1>2
<1>4. ASSUME NEW c \in Scopes, ~(c = 0 \/ c \in K) PROVE f[c] = f[Parent[c]]
  <2>1. c \in Contexts /\ Parent[c] \in Scopes
    BY <1>4, ScopesAre DEF Scopes
  <2>2. M(c) = M(Parent[c])
    BY <1>4, <2>1, AroundIs
  <2>. QED
    BY <2>1, <2>2
<1>5. f = [c \in Scopes |-> IF c = 0 \/ c \in K THEN c ELSE f[Parent[c]]]
  <2>1. f = [c \in Scopes |-> f[c]]
    OBVIOUS
  <2>. HIDE DEF f
  <2>. QED
    BY <1>3, <1>4, <2>1
<1>. QED
  BY <1>5

LEMMA NearestIs ==
    ASSUME NEW k, NEW specific, NEW c \in Scopes
    PROVE  Maps!Nearest(k, specific)[c]
             = IF c = 0 \/ Maps!Counts(c, k, specific) THEN c
               ELSE Maps!Nearest(k, specific)[Parent[c]]
<1>. DEFINE K == {b \in Contexts : Maps!Counts(b, k, specific)}
            Rec(f) == f = [b \in Contexts \cup {0} |->
                             IF b = 0 \/ Maps!Counts(b, k, specific) THEN b
                             ELSE f[Parent[b]]]
            near == Maps!Nearest(k, specific)
<1>1. PICK g : g = [b \in Scopes |-> IF b = 0 \/ b \in K THEN b ELSE g[Parent[b]]]
  BY NearestExists
<1>2. Rec(g)
  <2>1. \A b \in Scopes : (b = 0 \/ b \in K) <=> (b = 0 \/ Maps!Counts(b, k, specific))
    BY DEF Scopes
  <2>. HIDE DEF K
  <2>. QED
    BY <1>1, <2>1 DEF Scopes
<1>3. near = CHOOSE f : Rec(f)
  BY DEF Maps!Nearest
<1>. HIDE DEF Rec, near
<1>4. Rec(near)
  BY <1>2, <1>3
<1>. QED
  BY <1>4 DEF Rec, near, Scopes

-----------------------------------------------------------------------------
(* What the operations on a table do to the map it is read as.               *)

LEMMA AsMapIs ==
    ASSUME NEW t, TableOK(t)
    PROVE  /\ AsMap(t) = [k \in DOMAIN AsMap(t) |-> AsMap(t)[k]]
           /\ DOMAIN AsMap(t) = {KeyAt(t, i) : i \in DOMAIN t.symbols}
           /\ \A k \in DOMAIN AsMap(t) : \E i \in DOMAIN t.symbols : k = KeyAt(t, i)
           /\ \A i \in DOMAIN t.symbols :
                  /\ KeyAt(t, i) \in DOMAIN AsMap(t)
                  /\ AsMap(t)[KeyAt(t, i)] = t.symbols[i].value
<1>1. DOMAIN AsMap(t) = {KeyAt(t, i) : i \in DOMAIN t.symbols}
      /\ AsMap(t) = [k \in DOMAIN AsMap(t) |-> AsMap(t)[k]]
  BY DEF AsMap
<1>2. ASSUME NEW i \in DOMAIN t.symbols
      PROVE  AsMap(t)[KeyAt(t, i)] = t.symbols[i].value
  <2>. DEFINE k == KeyAt(t, i)
              j == CHOOSE j \in DOMAIN t.symbols : KeyAt(t, j) = k
  <2>1. j \in DOMAIN t.symbols /\ KeyAt(t, j) = k
    OBVIOUS
  <2>2. j = i
    BY <2>1 DEF TableOK, Unique
  <2>3. AsMap(t)[k] = t.symbols[j].value
    BY DEF AsMap
  <2>. QED
    BY <2>2, <2>3
<1>3. /\ \A k \in DOMAIN AsMap(t) : \E i \in DOMAIN t.symbols : k = KeyAt(t, i)
      /\ \A i \in DOMAIN t.symbols : KeyAt(t, i) \in DOMAIN AsMap(t)
  BY <1>1
<1>. QED
  BY <1>1, <1>2, <1>3

(* A table with the same entries in another order is the same map.           *)
LEMMA ReadyIsSameMap ==
    ASSUME NEW t, TableOK(t), NEW u \in ReadyTables(t)
    PROVE  AsMap(u) = AsMap(t)
<1>1. CASE t.sorted
  BY <1>1 DEF ReadyTables
<1>2. CASE ~t.sorted
  <2>. DEFINE D == DOMAIN t.symbols
  <2>1. u \in Sortings(t)
    BY <1>2 DEF ReadyTables
  <2>2. PICK p \in Bijection(D, D) :
          u = [t EXCEPT !.symbols = [i \in DOMAIN @ |-> @[p[i]]], !.sorted = TRUE]
    BY <2>1 DEF Sortings
  <2>3. p \in [D -> D] /\ \A k \in D : \E i \in D : p[i] = k
    BY DEF Bijection, Injection, Surjection
  <2>4. u.symbols = [i \in D |-> t.symbols[p[i]]]
    BY <2>2 DEF TableOK, Table
  <2>5. /\ DOMAIN u.symbols = D
        /\ \A i \in D : KeyAt(u, i) = KeyAt(t, p[i])
        /\ \A i \in D : u.symbols[i].value = t.symbols[p[i]].value
    BY <2>3, <2>4 DEF KeyAt
  <2>6. TableOK(u)
    BY <2>1, SortingKeeps
  <2>6a. /\ \A k \in DOMAIN AsMap(u) : \E i \in DOMAIN u.symbols : k = KeyAt(u, i)
         /\ \A i \in DOMAIN u.symbols :
                /\ KeyAt(u, i) \in DOMAIN AsMap(u)
                /\ AsMap(u)[KeyAt(u, i)] = u.symbols[i].value
         /\ AsMap(u) = [k \in DOMAIN AsMap(u) |-> AsMap(u)[k]]
    <3>. HIDE DEF D
    <3>. QED
      BY ONLY <2>6, AsMapIs
  <2>7. DOMAIN AsMap(u) = DOMAIN AsMap(t)
    <3>1. ASSUME NEW k \in DOMAIN AsMap(u) PROVE k \in DOMAIN AsMap(t)
      <4>1. PICK i \in D : k = KeyAt(u, i)
        BY <2>5, <2>6a
      <4>2. p[i] \in D /\ k = KeyAt(t, p[i])
        BY <4>1, <2>3, <2>5
      <4>. QED
        BY <4>2, AsMapIs
    <3>2. ASSUME NEW k \in DOMAIN AsMap(t) PROVE k \in DOMAIN AsMap(u)
      <4>1. PICK i \in D : k = KeyAt(t, i)
        BY AsMapIs
      <4>2. PICK j \in D : p[j] = i
        BY <2>3
      <4>. QED
        BY <4>1, <4>2, <2>5, <2>6a
    <3>. QED
      BY <3>1, <3>2
  <2>8. ASSUME NEW k \in DOMAIN AsMap(u) PROVE AsMap(u)[k] = AsMap(t)[k]
    <3>1. PICK i \in D : k = KeyAt(u, i)
      BY <2>5, <2>6a
    <3>2. p[i] \in D /\ k = KeyAt(t, p[i])
      BY <3>1, <2>3, <2>5
    <3>3. AsMap(u)[k] = u.symbols[i].value
      BY <3>1, <2>5, <2>6a
    <3>4. AsMap(t)[k] = t.symbols[p[i]].value
      BY <3>2, AsMapIs
    <3>. QED
      BY <3>1, <3>3, <3>4, <2>5
  <2>. QED
    BY <2>6a, <2>7, <2>8, AsMapIs
<1>. QED
  BY <1>1, <1>2

(* A name is in the map if it has an entry, with its value.                  *)
LEMMA EntryIsMapped ==
    ASSUME NEW t, TableOK(t), NEW n
    PROVE  /\ Key[n] \in DOMAIN AsMap(t) <=> Equal(t, n) # {}
           /\ \A i \in Equal(t, n) : AsMap(t)[Key[n]] = t.symbols[i].value
  BY AsMapIs DEF Equal

(* A new entry is a new name without a value.                                *)
LEMMA NewIsMapped ==
    ASSUME NEW t, TableOK(t), NEW n \in Names, Equal(t, n) = {}
    PROVE  AsMap(WithNew(t, n)) = Maps!With(AsMap(t), Key[n], Undef)
<1>. DEFINE u == WithNew(t, n)
            new == [name |-> n, value |-> Undef]
            len == Len(t.symbols)
<1>1. t.symbols \in Seq(Symbol) /\ len \in Nat /\ DOMAIN t.symbols = 1 .. len
  BY TableShape
<1>2. u.symbols = Append(t.symbols, new) /\ TableOK(u)
  BY NewKeeps DEF WithNew
<1>3. new \in Symbol
  BY DEF Symbol, Values
<1>4. /\ DOMAIN u.symbols = 1 .. len + 1
      /\ u.symbols[len + 1] = new
      /\ \A i \in 1 .. len : u.symbols[i] = t.symbols[i]
  BY <1>1, <1>2, <1>3
<1>5. /\ KeyAt(u, len + 1) = Key[n] /\ u.symbols[len + 1].value = Undef
      /\ \A i \in 1 .. len : KeyAt(u, i) = KeyAt(t, i)
  BY <1>4 DEF KeyAt
<1>. HIDE DEF u, new, len
<1>6. Key[n] \notin DOMAIN AsMap(t)
  BY EntryIsMapped
<1>7. DOMAIN AsMap(u) = DOMAIN AsMap(t) \cup {Key[n]}
  <2>1. DOMAIN AsMap(u) = {KeyAt(u, i) : i \in 1 .. len + 1}
    BY <1>2, <1>4, AsMapIs
  <2>2. DOMAIN AsMap(t) = {KeyAt(t, i) : i \in 1 .. len}
    BY <1>1, AsMapIs
  <2>3. 1 .. len + 1 = 1 .. len \cup {len + 1}
    BY <1>1
  <2>. QED
    BY <2>1, <2>2, <2>3, <1>5
<1>8. AsMap(u)[Key[n]] = Undef
  <2>1. len + 1 \in DOMAIN u.symbols
    BY <1>1, <1>4
  <2>. QED
    BY <2>1, <1>2, <1>5, AsMapIs
<1>9. ASSUME NEW k \in DOMAIN AsMap(t) PROVE AsMap(u)[k] = AsMap(t)[k]
  <2>1. PICK i \in 1 .. len : k = KeyAt(t, i)
    BY <1>1, AsMapIs
  <2>2. i \in DOMAIN u.symbols /\ k = KeyAt(u, i)
    BY <2>1, <1>1, <1>4, <1>5
  <2>3. AsMap(u)[k] = u.symbols[i].value
    BY <2>2, <1>2, AsMapIs
  <2>4. AsMap(t)[k] = t.symbols[i].value
    BY <2>1, <1>1, AsMapIs
  <2>. QED
    BY <2>3, <2>4, <1>4
<1>10. AsMap(u) = [j \in DOMAIN AsMap(u) |-> AsMap(u)[j]]
  BY <1>2, AsMapIs
<1>11. AsMap(u) = Maps!With(AsMap(t), Key[n], Undef)
  BY <1>6, <1>7, <1>8, <1>9, <1>10 DEF Maps!With
<1>. QED
  BY <1>11 DEF u

(* Setting the value of an entry sets that of its name.                      *)
LEMMA ValueIsMapped ==
    ASSUME NEW t, TableOK(t), NEW n \in Names, NEW i \in Equal(t, n), NEW v \in Values
    PROVE  AsMap(WithValue(t, i, v)) = Maps!With(AsMap(t), Key[n], v)
<1>. DEFINE u == WithValue(t, i, v)
<1>1. i \in DOMAIN t.symbols /\ KeyAt(t, i) = Key[n]
  BY DEF Equal
<1>2. TableOK(u) /\ \A k : Equal(u, k) = Equal(t, k)
  BY <1>1, ValueKeeps
<1>3. u.symbols = [t.symbols EXCEPT ![i].value = v]
  BY DEF WithValue, TableOK, Table
<1>4. \A j \in DOMAIN t.symbols : t.symbols[j] \in Symbol
  BY TableShape
<1>5. /\ DOMAIN u.symbols = DOMAIN t.symbols
      /\ u.symbols[i].value = v
      /\ \A j \in DOMAIN t.symbols : u.symbols[j].name = t.symbols[j].name
      /\ \A j \in DOMAIN t.symbols \ {i} : u.symbols[j] = t.symbols[j]
  <2>1. [t.symbols[i] EXCEPT !.value = v].value = v
        /\ [t.symbols[i] EXCEPT !.value = v].name = t.symbols[i].name
    BY <1>1, <1>4 DEF Symbol
  <2>2. u.symbols = [t.symbols EXCEPT ![i] = [t.symbols[i] EXCEPT !.value = v]]
    BY <1>3
  <2>. HIDE DEF u
  <2>. QED
    BY <1>1, <2>1, <2>2
<1>. HIDE DEF u
<1>6. \A j \in DOMAIN t.symbols : KeyAt(u, j) = KeyAt(t, j)
  BY <1>5 DEF KeyAt
<1>6a. /\ \A k \in DOMAIN AsMap(u) : \E j \in DOMAIN t.symbols : k = KeyAt(t, j)
       /\ \A j \in DOMAIN t.symbols :
              /\ KeyAt(t, j) \in DOMAIN AsMap(u)
              /\ AsMap(u)[KeyAt(t, j)] = u.symbols[j].value
  <2>1. /\ \A k \in DOMAIN AsMap(u) : \E j \in DOMAIN u.symbols : k = KeyAt(u, j)
        /\ \A j \in DOMAIN u.symbols :
               /\ KeyAt(u, j) \in DOMAIN AsMap(u)
               /\ AsMap(u)[KeyAt(u, j)] = u.symbols[j].value
    BY ONLY <1>2, AsMapIs
  <2>. QED
    BY <2>1, <1>5, <1>6
<1>7. DOMAIN AsMap(u) = DOMAIN AsMap(t) /\ Key[n] \in DOMAIN AsMap(t)
  <2>1. DOMAIN AsMap(u) \subseteq DOMAIN AsMap(t)
    BY <1>6a, AsMapIs
  <2>2. DOMAIN AsMap(t) \subseteq DOMAIN AsMap(u)
    BY <1>6a, AsMapIs
  <2>. QED
    BY <2>1, <2>2, <1>1, AsMapIs
<1>8. AsMap(u)[Key[n]] = v
  BY <1>1, <1>5, <1>6a
<1>9. ASSUME NEW k \in DOMAIN AsMap(t), k # Key[n]
      PROVE  AsMap(u)[k] = AsMap(t)[k]
  <2>1. PICK j \in DOMAIN t.symbols : k = KeyAt(t, j)
    BY AsMapIs
  <2>2. j # i
    BY <2>1, <1>1, <1>9
  <2>3. AsMap(u)[k] = u.symbols[j].value
    BY <2>1, <1>6a
  <2>4. AsMap(t)[k] = t.symbols[j].value
    BY <2>1, AsMapIs
  <2>. QED
    BY <2>2, <2>3, <2>4, <1>5
<1>10. AsMap(u) = [j \in DOMAIN AsMap(u) |-> AsMap(u)[j]]
  BY <1>2, AsMapIs
<1>11. AsMap(u) = Maps!With(AsMap(t), Key[n], v)
  BY <1>7, <1>8, <1>9, <1>10 DEF Maps!With
<1>. QED
  BY <1>11 DEF u

-----------------------------------------------------------------------------
(* The tables implement the maps.  A lookup is a step of NameMap when it     *)
(* ends; what it went through before are contexts that do not count, so that *)
(* the nearest one is still the same, and no other call comes between.       *)

Mapped == [c \in Contexts |-> AsMap(tables[c])]

SearchInv ==
    search # NoSearch =>
        /\ search.specific \in {0, search.from}
        /\ Maps!Nearest(Key[search.name], search.specific)[search.from]
             = Maps!Nearest(Key[search.name], search.specific)[search.context]

(* Of the tables only the maps they stand for matter to the maps.            *)
LEMMA NearestOfMaps ==
    ASSUME Mapped' = Mapped, NEW k, NEW specific
    PROVE  Maps!Nearest(k, specific)' = Maps!Nearest(k, specific)
  BY DEF Mapped, Maps!Nearest, Maps!Counts

(* What becomes of the maps when one table is replaced.                      *)
LEMMA ReplaceMaps ==
    ASSUME TablesOK, NEW c \in Contexts, NEW t,
           tables' = [tables EXCEPT ![c] = t]
    PROVE  /\ Mapped' = [Mapped EXCEPT ![c] = AsMap(t)]
           /\ AsMap(t) = AsMap(tables[c]) => Mapped' = Mapped
<1>1. tables \in [Contexts -> Table]
  BY DEF TablesOK
<1>2. Mapped' = [b \in Contexts |-> AsMap(tables'[b])]
  BY DEF Mapped, AsMap, KeyAt
<1>3. tables'[c] = t /\ \A b \in Contexts \ {c} : tables'[b] = tables[b]
  BY <1>1
<1>4. /\ Mapped \in [Contexts -> {AsMap(tables[b]) : b \in Contexts}]
      /\ \A b \in Contexts : Mapped[b] = AsMap(tables[b])
  BY DEF Mapped
<1>. HIDE DEF Mapped
<1>5. Mapped' = [Mapped EXCEPT ![c] = AsMap(t)]
  <2>1. \A b \in Contexts : AsMap(tables'[b]) = IF b = c THEN AsMap(t) ELSE Mapped[b]
    BY <1>3, <1>4
  <2>. QED
    BY <1>2, <1>4, <2>1
<1>6. ASSUME AsMap(t) = AsMap(tables[c]) PROVE Mapped' = Mapped
  BY <1>4, <1>5, <1>6
<1>. QED
  BY <1>5, <1>6

LEMMA InitMaps == Init => Maps!Init /\ SearchInv
<1> SUFFICES ASSUME Init PROVE Maps!Init /\ SearchInv
  OBVIOUS
<1>1. ASSUME NEW c \in Contexts PROVE AsMap(tables[c]) = [k \in {} |-> Undef]
  <2>1. tables[c].symbols = <<>>
    BY DEF Init
  <2>2. DOMAIN AsMap(tables[c]) = {}
    BY <2>1 DEF AsMap
  <2>3. AsMap(tables[c]) = [k \in {} |-> AsMap(tables[c])[k]]
    BY <2>1 DEF AsMap
  <2>. QED
    BY <2>2, <2>3
<1>2. answer = Maps!NoAnswer
  BY DEF Init, NoAnswer, Maps!NoAnswer
<1>3. SearchInv
  BY DEF Init, SearchInv
<1>. QED
  BY <1>1, <1>2, <1>3 DEF Maps!Init

LEMMA GetRefMaps ==
    ASSUME Inv, NEW c \in Contexts, NEW n \in Names, GetRef(c, n)
    PROVE  Maps!Enter(c, n) \/ Maps!Forget
<1>1a. PICK t \in ReadyTables(tables[c]) : \E i \in Hits(t, n) :
           IF i # 0 THEN tables' = [tables EXCEPT ![c] = t]
                    ELSE tables' = [tables EXCEPT ![c] = WithNew(t, n)]
  BY DEF GetRef
<1>1. PICK i \in Hits(t, n) :
           IF i # 0 THEN tables' = [tables EXCEPT ![c] = t]
                    ELSE tables' = [tables EXCEPT ![c] = WithNew(t, n)]
  BY <1>1a
<1>2. TableOK(t) /\ InOrder(t) /\ AsMap(t) = AsMap(tables[c])
  BY ReadyKeeps, ReadyIsSameMap DEF Inv, TablesOK
<1>3. answer' = Maps!NoAnswer
  BY DEF GetRef, NoAnswer, Maps!NoAnswer
<1>4. CASE i # 0
  <2>1. Mapped' = Mapped
    BY <1>1, <1>2, <1>4, ReplaceMaps DEF Inv
  <2>. QED
    BY <2>1, <1>3 DEF Maps!Forget, Mapped
<1>5. CASE i = 0
  <2>1. Equal(t, n) = {}
    BY <1>2, <1>5, HitsExact
  <2>2. AsMap(WithNew(t, n)) = Maps!With(AsMap(tables[c]), Key[n], Undef)
    BY <1>2, <2>1, NewIsMapped
  <2>3. Key[n] \notin DOMAIN AsMap(tables[c])
    BY <1>2, <2>1, EntryIsMapped
  <2>4. Mapped' = [Mapped EXCEPT ![c] = Maps!With(AsMap(tables[c]), Key[n], Undef)]
    BY <1>1, <1>5, <2>2, ReplaceMaps DEF Inv
  <2>5. Mapped[c] = AsMap(tables[c])
    BY DEF Mapped
  <2>. QED
    BY <2>3, <2>4, <2>5, <1>3 DEF Maps!Enter, Mapped
<1>. QED
  BY <1>4, <1>5

(* sym_setval() in a table that has the name.                                *)
LEMMA ValueMaps ==
    ASSUME Inv, NEW c \in Contexts, NEW n \in Names, NEW v \in Values,
           NEW t, TableOK(t), NEW i \in Equal(t, n),
           \/ AsMap(t) = AsMap(tables[c])
           \/ AsMap(t) = Maps!With(AsMap(tables[c]), Key[n], Undef),
           tables' = [tables EXCEPT ![c] = WithValue(t, i, v)],
           answer' = NoAnswer
    PROVE  Maps!SetTo(c, n, v)
<1>1. AsMap(WithValue(t, i, v)) = Maps!With(AsMap(t), Key[n], v)
  BY ValueIsMapped
<1>2. Maps!With(AsMap(t), Key[n], v) = Maps!With(AsMap(tables[c]), Key[n], v)
  <2>1. ASSUME NEW f, NEW k
        PROVE  Maps!With(Maps!With(f, k, Undef), k, v) = Maps!With(f, k, v)
    <3>1. DOMAIN f \cup {k} \cup {k} = DOMAIN f \cup {k}
      OBVIOUS
    <3>2. ASSUME NEW j \in DOMAIN f, j # k PROVE Maps!With(f, k, Undef)[j] = f[j]
      BY <3>2 DEF Maps!With
    <3>3. DOMAIN Maps!With(f, k, Undef) = DOMAIN f \cup {k}
      BY DEF Maps!With
    <3>. QED
      BY <3>1, <3>2, <3>3 DEF Maps!With
  <2>. QED
    BY <2>1
<1>3. Mapped' = [Mapped EXCEPT ![c] = Maps!With(AsMap(tables[c]), Key[n], v)]
  BY <1>1, <1>2, ReplaceMaps DEF Inv
<1>4. Mapped[c] = AsMap(tables[c])
  BY DEF Mapped
<1>5. answer' = Maps!NoAnswer
  BY DEF NoAnswer, Maps!NoAnswer
<1>. QED
  BY <1>3, <1>4, <1>5 DEF Maps!SetTo, Mapped

LEMMA SetValMaps ==
    ASSUME Inv, NEW c \in Contexts, NEW n \in Names, NEW v \in Values,
           SetVal(c, n, v)
    PROVE  Maps!SetTo(c, n, v)
<1>1a. PICK t \in ReadyTables(tables[c]) : \E i \in Hits(t, n) :
           i # 0 => tables' = [tables EXCEPT ![c] = WithValue(t, i, v)]
  BY DEF SetVal
<1>1. PICK i \in Hits(t, n) :
           i # 0 => tables' = [tables EXCEPT ![c] = WithValue(t, i, v)]
  BY <1>1a
<1>2. /\ TableOK(t) /\ InOrder(t) /\ Equal(t, n) # {}
      /\ AsMap(t) = AsMap(tables[c])
  BY ReadyKeeps, ReadyIsSameMap DEF Inv, TablesOK, SetVal
<1>3. i # 0 /\ i \in Equal(t, n)
  BY <1>2, HitsExact
<1>4. answer' = NoAnswer
  BY DEF SetVal
<1>. QED
  BY <1>1, <1>2, <1>3, <1>4, ValueMaps

LEMMA AddMaps ==
    ASSUME Inv, NEW c \in Contexts, NEW n \in Names, NEW v \in Values,
           Add(c, n, v)
    PROVE  Maps!SetTo(c, n, v)
<1>1a. PICK t \in ReadyTables(tables[c]) : \E i \in Hits(t, n) :
           LET u == IF i # 0 THEN t ELSE WithNew(t, n)
           IN  \E w \in ReadyTables(u) : \E j \in Hits(w, n) :
                   j # 0 => tables' = [tables EXCEPT ![c] = WithValue(w, j, v)]
  BY DEF Add
<1>1. PICK i \in Hits(t, n) :
           LET u == IF i # 0 THEN t ELSE WithNew(t, n)
           IN  \E w \in ReadyTables(u) : \E j \in Hits(w, n) :
                   j # 0 => tables' = [tables EXCEPT ![c] = WithValue(w, j, v)]
  BY <1>1a
<1>. DEFINE u == IF i # 0 THEN t ELSE WithNew(t, n)
<1>2. TableOK(t) /\ InOrder(t) /\ AsMap(t) = AsMap(tables[c])
  BY ReadyKeeps, ReadyIsSameMap DEF Inv, TablesOK
<1>3. TableOK(u) /\ Equal(u, n) # {}
  BY <1>2, EnterKeeps
<1>4. \/ AsMap(u) = AsMap(tables[c])
      \/ AsMap(u) = Maps!With(AsMap(tables[c]), Key[n], Undef)
  <2>1. CASE i # 0
    BY <2>1, <1>2
  <2>2. CASE i = 0
    <3>1. Equal(t, n) = {}
      BY <1>2, <2>2, HitsExact
    <3>2. AsMap(WithNew(t, n)) = Maps!With(AsMap(t), Key[n], Undef)
      BY <1>2, <3>1, NewIsMapped
    <3>. QED
      BY <2>2, <3>2, <1>2
  <2>. QED
    BY <2>1, <2>2
<1>5a. PICK w \in ReadyTables(u) : \E j \in Hits(w, n) :
           j # 0 => tables' = [tables EXCEPT ![c] = WithValue(w, j, v)]
  BY <1>1
<1>5. PICK j \in Hits(w, n) :
           j # 0 => tables' = [tables EXCEPT ![c] = WithValue(w, j, v)]
  BY <1>5a
<1>. HIDE DEF u
<1>6. TableOK(w) /\ InOrder(w) /\ Equal(w, n) # {} /\ AsMap(w) = AsMap(u)
  BY <1>3, ReadyKeeps, ReadyIsSameMap
<1>7. j # 0 /\ j \in Equal(w, n)
  BY <1>6, HitsExact
<1>8. answer' = NoAnswer
  BY DEF Add
<1>. QED
  BY <1>4, <1>5, <1>6, <1>7, <1>8, ValueMaps

LEMMA PrintMaps ==
    ASSUME Inv, NEW c \in Contexts, PrintTable(c)
    PROVE  Maps!Forget
<1>1. PICK t \in ReadyTables(tables[c]) : tables' = [tables EXCEPT ![c] = t]
  BY DEF PrintTable
<1>2. AsMap(t) = AsMap(tables[c])
  BY ReadyIsSameMap DEF Inv, TablesOK
<1>3. Mapped' = Mapped
  BY <1>1, <1>2, ReplaceMaps DEF Inv
<1>. QED
  BY <1>3 DEF PrintTable, NoAnswer, Maps!NoAnswer, Maps!Forget, Mapped

(* A round of a lookup: the context counts for NameMap if what it has is     *)
(* accepted.                                                                 *)
LEMMA LookInMaps ==
    ASSUME Inv, SearchInv, LookIn
    PROVE  /\ \/ Maps!Find(search.from, search.name, search.specific)
              \/ Mapped' = Mapped /\ answer' = answer
           /\ SearchInv'
           /\ search.specific \in {0, search.from}
           /\ search.from \in Contexts /\ search.name \in Names
<1>. DEFINE c == search.context
            k == Key[search.name]
            near == Maps!Nearest(k, search.specific)
<1>1. /\ search # NoSearch
      /\ search \in [context : Contexts, from : Contexts, name : Names,
                     specific : Contexts \cup {0}]
      /\ search.specific \in {0, search.from} /\ near[search.from] = near[c]
  BY DEF Inv, SearchOK, SearchInv, LookIn
<1>2a. PICK t \in ReadyTables(tables[c]) : \E i \in Hits(t, search.name) :
           /\ tables' = [tables EXCEPT ![c] = t]
           /\ IF Accepted(t, i)
                THEN /\ answer' = Answer(search, c, t.symbols[i].value)
                     /\ search' = NoSearch
              ELSE IF Parent[c] = 0
                THEN /\ answer' = Answer(search, 0, Undef)
                     /\ search' = NoSearch
              ELSE /\ search' = [search EXCEPT !.context = Parent[c]]
                   /\ answer' = answer
  BY DEF LookIn
<1>2. PICK i \in Hits(t, search.name) :
           /\ tables' = [tables EXCEPT ![c] = t]
           /\ IF Accepted(t, i)
                THEN /\ answer' = Answer(search, c, t.symbols[i].value)
                     /\ search' = NoSearch
              ELSE IF Parent[c] = 0
                THEN /\ answer' = Answer(search, 0, Undef)
                     /\ search' = NoSearch
              ELSE /\ search' = [search EXCEPT !.context = Parent[c]]
                   /\ answer' = answer
  BY <1>2a
<1>3. /\ c \in Contexts /\ c \in Scopes /\ c # 0 /\ Parent[c] \in Scopes
      /\ search.from \in Contexts /\ search.name \in Names
  BY <1>1, ScopesAre DEF Scopes
<1>4. /\ TableOK(t) /\ InOrder(t) /\ AsMap(t) = AsMap(tables[c])
      /\ Mapped[c] = AsMap(t)
  BY <1>3, ReadyKeeps, ReadyIsSameMap DEF Inv, TablesOK, Mapped
<1>5. Mapped' = Mapped
  BY <1>2, <1>3, <1>4, ReplaceMaps DEF Inv
<1>6. /\ i # 0 <=> k \in DOMAIN AsMap(t)
      /\ i # 0 => AsMap(t)[k] = t.symbols[i].value
  <2>1. i = 0 => Equal(t, search.name) = {}
    BY <1>4, HitsExact
  <2>2. i # 0 => i \in Equal(t, search.name)
    BY <1>4, HitsExact
  <2>. QED
    BY <2>1, <2>2, <1>4, EntryIsMapped
<1>7. Accepted(t, i) <=> Maps!Counts(c, k, search.specific)
  <2>1. Maps!Counts(c, k, search.specific)
          <=> k \in DOMAIN Mapped[c] /\ (c = search.specific => Mapped[c][k] \in Words)
    BY DEF Maps!Counts, Mapped
  <2>. QED
    BY <2>1, <1>4, <1>6 DEF Accepted
<1>8. near[c] = IF Accepted(t, i) THEN c ELSE near[Parent[c]]
  BY <1>3, <1>7, NearestIs
<1>9. near[0] = 0
  BY ScopesAre, NearestIs
<1>10. Maps!Find(search.from, search.name, search.specific)
         <=> /\ answer' = Maps!Answer(search.from, k, search.specific, near[c],
                             IF near[c] = 0 THEN Undef ELSE Mapped[near[c]][k])
             /\ Mapped' = Mapped
  BY <1>1 DEF Maps!Find, Mapped
<1>. HIDE DEF c, k, near
<1>11. CASE Accepted(t, i)
  <2>1. i # 0 /\ Mapped[c][k] = t.symbols[i].value
    BY <1>4, <1>6, <1>11 DEF Accepted
  <2>2. answer' = Maps!Answer(search.from, k, search.specific, c, Mapped[c][k])
    BY <1>2, <1>11, <2>1 DEF Answer, Maps!Answer, k
  <2>3. search' = NoSearch
    BY <1>2, <1>11
  <2>. QED
    BY <2>2, <2>3, <1>1, <1>3, <1>5, <1>8, <1>10, <1>11 DEF SearchInv
<1>12. CASE ~Accepted(t, i) /\ Parent[c] = 0
  <2>1. near[c] = 0
    BY <1>8, <1>9, <1>12
  <2>2. answer' = Maps!Answer(search.from, k, search.specific, 0, Undef)
    BY <1>2, <1>12 DEF Answer, Maps!Answer, k
  <2>3. search' = NoSearch
    BY <1>2, <1>12
  <2>. QED
    BY <2>1, <2>2, <2>3, <1>1, <1>3, <1>5, <1>10 DEF SearchInv
<1>13. CASE ~Accepted(t, i) /\ Parent[c] # 0
  <2>1. search' = [search EXCEPT !.context = Parent[c]] /\ answer' = answer
    BY <1>2, <1>13
  <2>2. /\ search'.context = Parent[c] /\ search'.from = search.from
        /\ search'.name = search.name /\ search'.specific = search.specific
    BY <1>1, <2>1
  <2>3. near[search.from] = near[Parent[c]]
    BY <1>1, <1>8, <1>13
  <2>4. Maps!Nearest(k, search.specific)' = near
    <3>1. \A a, b : Maps!Nearest(a, b)' = Maps!Nearest(a, b)
      BY <1>5, NearestOfMaps
    <3>. QED
      BY <3>1, <2>2 DEF near, k
  <2>5. SearchInv'
    BY <2>2, <2>3, <2>4, <1>1 DEF SearchInv, near, k
  <2>. QED
    BY <2>1, <2>5, <1>1, <1>3, <1>5
<1>. QED
  BY <1>11, <1>12, <1>13

LEMMA NextMaps ==
    ASSUME Inv, SearchInv, [Next]_vars
    PROVE  SearchInv' /\ [Maps!Next]_<<Mapped, answer>>
<1>1. ASSUME Idle, search' = search PROVE SearchInv'
  BY <1>1 DEF Idle, SearchInv
<1>2. ASSUME NEW c \in Contexts, NEW n \in Names, GetRef(c, n)
      PROVE  SearchInv' /\ Maps!Next
  <2>1. SearchInv'
    BY <1>1, <1>2 DEF GetRef
  <2>2. Maps!Enter(c, n) \/ Maps!Forget
    BY <1>2, GetRefMaps
  <2>. QED
    BY <2>1, <2>2 DEF Maps!Next
<1>3. ASSUME NEW c \in Contexts, NEW n \in Names, NEW v \in Words \cup Trees,
             SetVal(c, n, v) \/ Add(c, n, v)
      PROVE  SearchInv' /\ Maps!Next
  <2>1. SearchInv'
    BY <1>1, <1>3 DEF SetVal, Add
  <2>2. Maps!SetTo(c, n, v)
    BY <1>3, SetValMaps, AddMaps DEF Values
  <2>. QED
    BY <2>1, <2>2 DEF Maps!Next
<1>4. ASSUME NEW c \in Contexts, NEW n \in Names, NEW specific \in {0, c},
             Lookup(c, n, specific)
      PROVE  SearchInv' /\ Maps!Next
  <2>1. search' = [context |-> c, from |-> c, name |-> n, specific |-> specific]
        /\ answer' = NoAnswer /\ tables' = tables
    BY <1>4 DEF Lookup
  <2>2. SearchInv'
    BY <2>1 DEF SearchInv
  <2>3. Maps!Forget
    BY <2>1 DEF Maps!Forget, NoAnswer, Maps!NoAnswer, AsMap, KeyAt
  <2>. QED
    BY <1>4, <2>2, <2>3 DEF Maps!Next
<1>5. ASSUME NEW c \in Contexts, PrintTable(c)
      PROVE  SearchInv' /\ [Maps!Next]_<<Mapped, answer>>
  <2>1. SearchInv'
    BY <1>1, <1>5 DEF PrintTable
  <2>2. Maps!Forget
    BY <1>5, PrintMaps
  <2>. QED
    BY <2>1, <2>2 DEF Maps!Next
<1>6. ASSUME LookIn PROVE SearchInv' /\ [Maps!Next]_<<Mapped, answer>>
  <2>1. /\ \/ Maps!Find(search.from, search.name, search.specific)
           \/ Mapped' = Mapped /\ answer' = answer
        /\ SearchInv'
        /\ search.specific \in {0, search.from}
        /\ search.from \in Contexts /\ search.name \in Names
    BY <1>6, LookInMaps
  <2>. QED
    BY <2>1 DEF Maps!Next
<1>7. ASSUME UNCHANGED vars PROVE SearchInv' /\ Mapped' = Mapped /\ answer' = answer
  <2>1. tables' = tables /\ search' = search /\ answer' = answer
    BY <1>7 DEF vars
  <2>2. Mapped' = Mapped
    BY <2>1 DEF Mapped, AsMap, KeyAt
  <2>3. \A k, s : Maps!Nearest(k, s)' = Maps!Nearest(k, s)
    BY <2>2, NearestOfMaps
  <2>4. SearchInv'
    BY <2>1, <2>3 DEF SearchInv
  <2>. QED
    BY <2>1, <2>2, <2>4
<1>. QED
  BY <1>2, <1>3, <1>4, <1>5, <1>6, <1>7 DEF Next

(* Whatever calls are made in whatever order, what is looked up in the       *)
(* tables is what maps would answer, in the nearest context that counts:     *)
(* neither the lazy sorting nor the growth of the arrays nor the value a     *)
(* search goes past can be seen.                                             *)
THEOREM TablesImplementMaps == Spec => ImplementsMaps
<1>1. Inv /\ SearchInv /\ [Next]_vars => SearchInv' /\ [Maps!Next]_<<Mapped, answer>>
  BY NextMaps
<1>2. Spec => []SearchInv
  BY <1>1, InitMaps, Invariant, PTL DEF Spec
<1>. QED
  BY <1>1, <1>2, InitMaps, Invariant, PTL DEF Spec, ImplementsMaps, Maps!Spec, Mapped
=============================================================================
