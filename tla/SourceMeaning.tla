---------------------------- MODULE SourceMeaning ---------------------------
(* What a source means, said without passes, buffers or rewriting: macros    *)
(* are expanded by substitution, each expansion a scope of its own inside    *)
(* the scope it is applied in; every instruction has an address; every name  *)
(* a value.                                                                  *)
EXTENDS Language, SequencesExt

(* A statement is a record with a field t:                                   *)
(*   [t |-> "label", name]           [t |-> "org", n]                        *)
(*   [t |-> "macro", name, formals, body]                                    *)
(*   [t |-> "instr", id, m, args]    a mnemonic and its operands             *)

(* A scope: the path of the expansion, what its formals stand for and where, *)
(* and the scope outside.                                                    *)
Outermost == [path |-> <<>>]
Inner(outer, step, formals, args) ==
    [path |-> Append(outer.path, step), outer |-> outer,
     formals |-> [f \in Range(formals) |->
                     args[CHOOSE i \in DOMAIN formals : formals[i] = f]]]

IsFormal(scope, name) == scope.path # <<>> /\ name \in DOMAIN scope.formals

(* The macros of a source; the last definition of a name counts.             *)
MacrosIn(list) == {i \in DOMAIN list : list[i].t = "macro"}
Defining(list, name) == {i \in MacrosIn(list) : list[i].name = name}
MacroNamed(list, name) == list[Max(Defining(list, name))]

(* An item is a statement with its place in the list it is from, the scope   *)
(* it is in, and the source as far as its macros are known: to where it is   *)
(* or, in an expansion, to where that is.                                    *)
Item(list, i, scope, known) ==
    [stmt |-> list[i], step |-> i, scope |-> scope, known |-> known]

(* An application with the wrong number of arguments stays as it is.         *)
IsApplication(item) ==
    /\ item.stmt.t = "instr"
    /\ Defining(item.known, item.stmt.m) # {}
    /\ Len(item.stmt.args) = Len(MacroNamed(item.known, item.stmt.m).formals)

Applied(item) ==
    LET macro == MacroNamed(item.known, item.stmt.m)
        scope == Inner(item.scope, item.step, macro.formals, item.stmt.args)
    IN  IF IsApplication(item)
          THEN [i \in DOMAIN macro.body |-> Item(macro.body, i, scope, item.known)]
          ELSE <<item>>

(* The items of a source with its macros expanded, in as many rounds as it   *)
(* has macros: no macro applies itself.                                      *)
Expansion(source) ==
    LET round[n \in 0 .. Cardinality(MacrosIn(source))] ==
            IF n = 0
              THEN [i \in DOMAIN source |->
                       Item(source, i, Outermost, SubSeq(source, 1, i - 1))]
              ELSE LET items == round[n - 1]
                   IN  FlattenSeq([i \in DOMAIN items |-> Applied(items[i])])
    IN  round[Cardinality(MacrosIn(source))]

(* Where assembly is after each number of items, and where an item lies.     *)
After(items) ==
    LET after[k \in 0 .. Len(items)] ==
            IF k = 0 THEN 0
            ELSE LET s == items[k].stmt
                 IN  CASE s.t = "org" -> s.n
                       [] s.t = "instr" -> Wrap(after[k - 1] + 1)
                       [] OTHER -> after[k - 1]
    IN  after

Address(items, k) == After(items)[k - 1]

Instrs(items) == {k \in DOMAIN items : items[k].stmt.t = "instr"}

LabelsOf(items, scope, name) ==
    {k \in DOMAIN items : /\ items[k].stmt.t = "label"
                          /\ items[k].stmt.name = name
                          /\ items[k].scope.path = scope.path}

Undefined == -1

(* A term with its scope is read through those of its terms, a name through  *)
(* the argument it stands for, or through the same name, in the scope        *)
(* outside.                                                                  *)
In(scope, e) == [scope |-> scope, e |-> e]
Outside(scope, e) ==
    In(scope.outer, IF IsFormal(scope, e.name) THEN scope.formals[e.name] ELSE e)

ReadThrough(p) ==
    CASE p.e.t = "number" -> {}
      [] p.e.t \in {"plus", "minus"} -> {In(p.scope, p.e.l), In(p.scope, p.e.r)}
      [] OTHER -> IF p.scope.path = <<>> THEN {} ELSE {Outside(p.scope, p.e)}

(* All that a term is read through.                                          *)
Reached(p) ==
    LET reached[n \in Nat] ==
            IF n = 0 THEN {p}
            ELSE LET before == reached[n - 1]
                 IN  before \cup UNION {ReadThrough(q) : q \in before}
        settled[n \in Nat] ==
            IF reached[n + 1] = reached[n] THEN reached[n] ELSE settled[n + 1]
    IN  settled[0]

(* What a term means.  A name is in an expansion the formal, else the label  *)
(* of the scope, else what it is outside.                                    *)
Meaning(items, scope, e, here) ==
    LET value[p \in Reached(In(scope, e))] ==
            LET labels == LabelsOf(items, p.scope, p.e.name)
                l == value[In(p.scope, p.e.l)]
                r == value[In(p.scope, p.e.r)]
            IN  CASE p.e.t = "number" -> p.e.n
                  [] p.e.t \in {"plus", "minus"} ->
                       IF Undefined \in {l, r} THEN Undefined
                       ELSE Wrap(IF p.e.t = "plus" THEN l + r ELSE l - r)
                  [] OTHER ->
                       IF p.e.name = "$" THEN here
                       ELSE IF labels # {} /\ ~IsFormal(p.scope, p.e.name)
                         THEN Address(items, Max(labels))
                       ELSE IF p.scope.path # <<>> THEN value[Outside(p.scope, p.e)]
                       ELSE Undefined
    IN  value[In(scope, e)]

OperandMeaning(items, k) ==
    IF items[k].stmt.args = <<>> THEN 0
    ELSE Meaning(items, items[k].scope, items[k].stmt.args[1], Address(items, k))

(* A source is erroneous when one of its instructions is.                    *)
Erroneous(items) ==
    \E k \in Instrs(items) :
        \/ items[k].stmt.m \notin Mnemonics
        \/ Len(items[k].stmt.args) > 1
        \/ OperandMeaning(items, k) = Undefined

(* Two instructions want the same cell.                                      *)
Overlapping(items) ==
    \E j, k \in Instrs(items) : j # k /\ Address(items, j) = Address(items, k)

(* The image of a source: the words at their addresses, zero in between.     *)
ImageLength(items) == Max({0} \cup {Address(items, k) + 1 : k \in Instrs(items)})

Image(items) ==
    [a \in 0 .. ImageLength(items) - 1 |->
        LET here == {k \in Instrs(items) : Address(items, k) = a}
        IN  IF here = {} THEN 0
            ELSE LET k == CHOOSE k \in here : TRUE
                 IN  WordFor(items[k].stmt.m, OperandMeaning(items, k))]
=============================================================================
