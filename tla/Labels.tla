------------------------------- MODULE Labels ------------------------------
(* libbaby/symbols.c: label tables in contexts that form a chain of scopes.  *)
(*                                                                           *)
(* A symbol is an expression: a number when it is resolved (SYM_ST_WORD), or *)
(* a tree (SYM_ST_AST) when it is a macro argument that is not.  The empty   *)
(* entries mk_symbol() makes for every name in the root table are left out:  *)
(* no lookup for a value accepts one.                                        *)
EXTENDS Words, Sequences

NoContext == -1
Assembling == 0         \* assembler_context, which holds "$"
Root == 1               \* sym_root_context()

Num(n) == [t |-> "number", n |-> n]
Sym(name) == [t |-> "symbol", name |-> name]
Plus(l, r) == [t |-> "plus", l |-> l, r |-> r]
Minus(l, r) == [t |-> "minus", l |-> l, r |-> r]

IsNumber(e) == e.t = "number"

(* A new context with an empty label table.                                  *)
NoLabels == [name \in {} |-> Num(0)]
Context(parent) == [parent |-> parent, labels |-> NoLabels]

(* sym_context_create() and sym_table_create().                              *)
WithContext(contexts, c, parent) ==
    [d \in DOMAIN contexts \cup {c} |-> IF d = c THEN Context(parent) ELSE contexts[d]]

(* sym_add(): enter a value, or replace the one there is.                    *)
WithLabel(contexts, c, name, e) ==
    [contexts EXCEPT ![c].labels =
        [n \in DOMAIN @ \cup {name} |-> IF n = name THEN e ELSE @[n]]]

(* What eval_expr() hands back: how far it got, the tree as it has rewritten *)
(* it, and the tables with the symbols it has resolved.                      *)
Outcome(rc, node, contexts) == [rc |-> rc, node |-> node, contexts |-> contexts]
=============================================================================
