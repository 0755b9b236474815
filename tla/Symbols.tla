------------------------------ MODULE Symbols ------------------------------
(* Looking names up in the label tables: libbaby/symbols.c, and bas.c's      *)
(* eval_expr().                                                              *)
EXTENDS Labels

(* sym_lookup_with_context() in the scope EXCLUDE_SPECIFIED_UNDEF: the       *)
(* nearest context that knows the name, but of the one the search is made    *)
(* for only resolved symbols count - an argument is not to find the formal   *)
(* that it is itself bound to.                                               *)
RECURSIVE Holder(_, _, _, _)
Holder(contexts, c, name, specific) ==
    IF c = NoContext THEN NoContext
    ELSE IF /\ name \in DOMAIN contexts[c].labels
            /\ c # specific \/ IsNumber(contexts[c].labels[name])
      THEN c
      ELSE Holder(contexts, contexts[c].parent, name, specific)

(* eval_expr().  It rewrites the tree it is given, resolves the symbols it   *)
(* comes by, and returns how far it got.                                     *)
RECURSIVE Eval(_, _, _, _)

EvalSymbol(contexts, c, node, partial) ==
    LET holder == Holder(contexts, c, node.name, c)
        value == contexts[holder].labels[node.name]
        Deferred == IF partial THEN "partial" ELSE "error"
    IN  IF holder = NoContext THEN Outcome(Deferred, node, contexts)
        ELSE IF IsNumber(value) THEN Outcome("ok", value, contexts)
        ELSE IF partial THEN Outcome("partial", node, contexts)
        ELSE LET inner == Eval(contexts, holder, value, FALSE)
                 after == WithLabel(inner.contexts, holder, node.name, inner.node)
             IN  IF inner.rc = "ok"
                   THEN Outcome("ok", inner.node, after)
                   ELSE Outcome("error", node, after)

EvalSum(contexts, c, node, partial) ==
    LET left == Eval(contexts, c, node.l, partial)
        right == Eval(left.contexts, c, node.r, partial)
        sum == IF node.t = "plus" THEN left.node.n + right.node.n
                                  ELSE left.node.n - right.node.n
        kept == [node EXCEPT !.l = left.node, !.r = right.node]
    IN  IF left.rc = "ok" /\ right.rc = "ok"
          THEN Outcome("ok", Num(Wrap(sum)), right.contexts)
        ELSE IF partial /\ "partial" \in {left.rc, right.rc}
          THEN Outcome("partial", kept, right.contexts)
          ELSE Outcome("error", kept, right.contexts)

Eval(contexts, c, node, partial) ==
    CASE node.t = "number" -> Outcome("ok", node, contexts)
      [] node.t = "symbol" -> EvalSymbol(contexts, c, node, partial)
      [] OTHER -> EvalSum(contexts, c, node, partial)
=============================================================================
