---------------------------- MODULE SyntaxTrees ----------------------------
(* The nodes of syntax trees in memory: how the actions of the grammar build *)
(* them (asm-parse.y), how bas copies, evaluates and frees them (asm-ast.c   *)
(* and eval_expr() in bas.c), and whether a node is then still there.        *)
EXTENDS Integers, SequencesExt

CONSTANTS
    Names,          \* symbols in operands
    MaxParsed,      \* no leaf is made when there are so many nodes
    MaxNodes        \* and no copy when there are so many

(* Symbols are of the type of their name.                                    *)
Types == {"number", "sum", "tuple", "instr", "macro", "list", "label", "mnemonic", "name"}
ASSUME NamesAssumption == Names \cap Types = {}

VARIABLES
    memory,         \* all nodes and what has been freed
    stack,          \* the parser's semantic values
    root,           \* the tree of the source, or Nil
    held            \* copies that are values of symbols

treeVars == <<memory, stack, root, held>>

(* A node is a number, larger than those of the nodes it points to.  It has  *)
(* its type, the nodes it points to, its heap flag, the block of memory it   *)
(* is in, and an auxiliary rank in the order of creation.  A block is a      *)
(* single node, with the number of the node, or the array of list n, with    *)
(* the number -n.                                                            *)
Nil == 0                \* &ast_nil_node

Content(t, kids) == [t |-> t, kids |-> kids]
Node(content, heap, block, rank) ==
    [t |-> content.t, kids |-> content.kids, heap |-> heap, block |-> block, rank |-> rank]

NoMemory == [nodes |-> [n \in {} |-> Nil], last |-> 0, freed |-> {}, fault |-> FALSE]

TreesInit ==
    /\ memory = NoMemory
    /\ stack = <<>>
    /\ root = Nil
    /\ held = {}

-----------------------------------------------------------------------------
(* The operations on nodes.  Each returns the memory it leaves.              *)

Newest(m) == m.last

(* Nodes are added, up to a new last number, or replaced.                    *)
Extended(m, more, last) ==
    [m EXCEPT !.last = last,
              !.nodes = [n \in DOMAIN @ \cup DOMAIN more |->
                            IF n \in DOMAIN more THEN more[n] ELSE @[n]]]

(* calloc() of a single node.                                                *)
Allocated(m, content, heap) ==
    LET new == Newest(m) + 1
    IN  Extended(m, [n \in {new} |-> Node(content, heap, n, n)], new)

(* mk_node(): the flag ast_alloc() sets is overwritten with the contents.    *)
mk_node(m, t, kids) == Allocated(m, Content(t, kids), FALSE)

(* The nodes of the tree under each node, itself included.                   *)
Below(m) ==
    LET below[n \in DOMAIN m.nodes \cup {Nil}] ==
            IF n = Nil THEN {}
            ELSE {n} \cup UNION {below[kid] : kid \in Range(m.nodes[n].kids)}
    IN  below

(* What a walk through some nodes comes by more than once: the nodes to      *)
(* which two of their pointers lead, and what is below those.                *)
Shared(m, walk, n) ==
    \E a, b \in walk : \E i \in DOMAIN m.nodes[a].kids, j \in DOMAIN m.nodes[b].kids :
        <<a, i>> # <<b, j>> /\ m.nodes[a].kids[i] = n /\ m.nodes[b].kids[j] = n
Again(m, walk) == UNION {Below(m)[n] : n \in {k \in walk : Shared(m, walk, k)}}

(* A walk that frees some of the blocks it comes by.  It is at fault when it *)
(* comes to a node that has been freed, before or, if it comes by again, by  *)
(* itself; and when it frees an element of an array, which is no block.      *)
Walked(m, walk, spent) ==
    LET again == Again(m, walk)
    IN  [m EXCEPT !.freed = @ \cup spent,
                  !.fault = @ \/ \E n \in walk :
                      \/ m.nodes[n].block \in m.freed
                      \/ n \in again /\ m.nodes[n].block \in spent
                      \/ n \in spent /\ m.nodes[n].block # n]

(* The tuples of a list, (val1, (val2, ...)), from its head on.              *)
Chain(m) ==
    LET chain[n \in DOMAIN m.nodes \cup {Nil}] ==
            IF n = Nil \/ m.nodes[n].t # "tuple" THEN <<>>
            ELSE <<n>> \o chain[m.nodes[n].kids[2]]
    IN  chain

Listed(m, chain, order) ==
    LET value(i) == m.nodes[chain[i]].kids[1]
        element(i) == Newest(m) + i
        list == element(Len(chain) + 1)
        spent == Range(chain) \cup {value(i) : i \in DOMAIN chain}
        elements ==
            [n \in {element(i) : i \in DOMAIN chain} |->
                [m.nodes[value(order[n - Newest(m)])] EXCEPT !.heap = FALSE, !.block = -list]]
        node == Node(Content("list", [i \in DOMAIN chain |-> element(i)]), TRUE, list, list)
    IN  Extended(Extended(Walked(m, spent, spent), elements, list),
                 [n \in {list} |-> node], list)

(* Mutant: the array is filled from its beginning.                           *)
mk_list_forwards(m, head) ==
    LET chain == Chain(m)[head] IN Listed(m, chain, [i \in DOMAIN chain |-> i])

(* mk_list(): the values of the tuples go into an array, in the opposite     *)
(* order; tuples and values are freed.  The list itself keeps its flag.      *)
mk_list(m, head) ==
    LET chain == Chain(m)[head]
    IN  Listed(m, chain, [i \in DOMAIN chain |-> Len(chain) + 1 - i])

(* ast_free_tree(): the arrays of the lists, and what has the flag.          *)
ast_free_tree(m, n) ==
    LET tree == Below(m)[n]
        arrays == {-k : k \in {j \in tree : m.nodes[j].t = "list"}}
    IN  Walked(m, tree, {k \in tree : m.nodes[k].heap} \cup arrays)

(* Mutant: a copy points to the subtrees of the original.                    *)
ast_copy_shallow(m, n) ==
    LET copy == Newest(m) + 1
    IN  Extended(Walked(m, {n}, {}),
                 [k \in {copy} |-> Node(m.nodes[n], TRUE, copy, copy)], copy)

(* ast_copy_tree() of an expression.  The copies are as far from each other  *)
(* as the originals, so that the newest is that of the whole.                *)
ast_copy_tree(m, n) ==
    LET tree == Below(m)[n]
        distance == Newest(m) + 1 - Min(tree)
        copy(k) == IF k = Nil THEN Nil ELSE k + distance
        copied(c) ==
            LET node == m.nodes[c - distance]
            IN  Node(Content(node.t, [i \in DOMAIN node.kids |-> copy(node.kids[i])]), TRUE, c, c)
    IN  Extended(Walked(m, tree, {}), [c \in {copy(k) : k \in tree} |-> copied(c)], copy(n))

(* eval_expr(), as far as nodes go, when some of the symbols are known.      *)
(* These become numbers, and so do sums of numbers; what was below them is   *)
(* freed.                                                                    *)
BecomesNumber(m, n, known) ==
    \A k \in Below(m)[n] : m.nodes[k].t \in known \cup {"number", "sum"}

(* Mutant: the sum is freed with its terms.                                  *)
SumsAndTerms(m, numbers) ==
    UNION {Below(m)[k] : k \in {j \in numbers : m.nodes[j].t = "sum"}}

Terms(m, numbers) == UNION {Below(m)[k] \ {k} : k \in numbers}

eval_expr(m, n, known) ==
    LET tree == Below(m)[n]
        numbers == {k \in tree : BecomesNumber(m, k, known)}
    IN  Extended(Walked(m, tree, {k \in Terms(m, numbers) : m.nodes[k].heap}),
                 [k \in numbers |-> [m.nodes[k] EXCEPT !.t = "number", !.kids = <<>>]],
                 Newest(m))

-----------------------------------------------------------------------------
(* The actions of the grammar.  A semantic value has a kind and a node.      *)

Value(kind, n) == [kind |-> kind, node |-> n]
Top(k) == stack[Len(stack) + 1 - k]
TopKinds(kinds) ==
    Len(stack) >= Len(kinds)
        /\ [k \in DOMAIN kinds |-> Top(Len(kinds) + 1 - k).kind] = kinds

(* The top n values are replaced by one, of the memory's newest node.        *)
Reduce(n, kind, m) ==
    /\ memory' = m
    /\ stack' = Append(SubSeq(stack, 1, Len(stack) - n), Value(kind, Newest(m)))
    /\ UNCHANGED <<root, held>>

Parsing == root = Nil /\ Newest(memory) < MaxParsed
AtStatement == Parsing /\ (stack # <<>> => Top(1).kind \in {"stmts", "head"})

Leaf(m, t) == mk_node(m, t, <<>>)

Mnemonic == AtStatement /\ Reduce(0, "mnemonic", Leaf(memory, "mnemonic"))

Location == AtStatement /\ Reduce(0, "stmt", Leaf(memory, "label"))

(* A symbol or a number.                                                     *)
Operand(t) ==
    /\ Parsing /\ stack # <<>> /\ Top(1).kind \in {"mnemonic", "expr"}
    /\ Reduce(0, "expr", Leaf(memory, t))

(* Sums associate to the left.                                               *)
Term(t) ==
    /\ Parsing /\ TopKinds(<<"expr">>)
    /\ LET m == Leaf(memory, t)
       IN  Reduce(1, "expr", mk_node(m, "sum", <<Top(1).node, Newest(m)>>))

LastOperand ==
    /\ TopKinds(<<"expr">>)
    /\ Reduce(1, "operands", mk_node(memory, "tuple", <<Top(1).node, Nil>>))

MoreOperands ==
    /\ TopKinds(<<"expr", "operands">>)
    /\ Reduce(2, "operands", mk_node(memory, "tuple", <<Top(2).node, Top(1).node>>))

Instr ==
    \/ /\ TopKinds(<<"mnemonic", "operands">>)
       /\ Reduce(2, "stmt", mk_node(memory, "instr", <<Top(2).node, Top(1).node>>))
    \/ /\ TopKinds(<<"mnemonic">>)
       /\ Reduce(1, "stmt", mk_node(memory, "instr", <<Top(1).node, Nil>>))

Statement ==
    \/ /\ TopKinds(<<"stmts", "stmt">>)
       /\ Reduce(2, "stmts", mk_node(memory, "tuple", <<Top(1).node, Top(2).node>>))
    \/ /\ TopKinds(<<"stmt">>) /\ ~TopKinds(<<"stmts", "stmt">>)
       /\ Reduce(1, "stmts", mk_node(memory, "tuple", <<Top(1).node, Nil>>))

(* NAME MACRO, with one formal argument.                                     *)
MacroHead ==
    /\ AtStatement
    /\ LET m == Leaf(memory, "name")
       IN  Reduce(0, "head", mk_node(m, "tuple", <<Newest(m), Nil>>))

EndMacro ==
    /\ TopKinds(<<"head", "stmts">>)
    /\ LET named == Leaf(memory, "name")
           listed == mk_list(named, Top(1).node)
           pair == mk_node(listed, "tuple", <<Top(2).node, Newest(listed)>>)
       IN  Reduce(2, "stmt", mk_node(pair, "macro", <<Newest(named), Newest(pair)>>))

Accept ==
    /\ TopKinds(<<"stmts">>) /\ Len(stack) = 1
    /\ memory' = mk_list(memory, Top(1).node)
    /\ root' = Newest(memory')
    /\ stack' = <<>>
    /\ UNCHANGED held

-----------------------------------------------------------------------------
(* What bas does with the tree.                                              *)

(* The operands in the source, macro bodies included.                        *)
Operands ==
    LET lists == {memory.nodes[n].kids[2] :
                     n \in {k \in Below(memory)[root] : memory.nodes[k].t = "instr"}}
        tuples == UNION {Below(memory)[n] : n \in lists}
    IN  {memory.nodes[n].kids[1] : n \in {k \in tuples : memory.nodes[k].t = "tuple"}}

(* An argument of a macro is copied and evaluated as far as it goes; what is *)
(* not a number is kept.                                                     *)
CopyArgument(n, known) ==
    /\ root # Nil /\ stack = <<>> /\ n \in Operands
    /\ Cardinality(DOMAIN memory.nodes) < MaxNodes
    /\ LET copied == ast_copy_tree(memory, n)
           copy == Newest(copied)
       IN  /\ memory' = eval_expr(copied, copy, known)
           /\ held' = IF memory'.nodes[copy].t = "number" THEN held ELSE held \cup {copy}
    /\ UNCHANGED <<stack, root>>

(* An operand, or the tree a symbol has for a value, is evaluated.           *)
Evaluate(n, known) ==
    /\ root # Nil /\ stack = <<>> /\ n \in Operands \cup held
    /\ memory' = eval_expr(memory, n, known)
    /\ held' = IF memory'.nodes[n].t = "number" THEN held \ {n} ELSE held
    /\ UNCHANGED <<stack, root>>

(* main() frees the tree in the end.                                         *)
Finish ==
    /\ root # Nil /\ stack = <<>>
    /\ memory' = ast_free_tree(memory, root)
    /\ stack' = <<Value("finished", root)>>
    /\ root' = Nil
    /\ UNCHANGED held

Finished == TopKinds(<<"finished">>) /\ UNCHANGED treeVars
GivenUp == root = Nil /\ Newest(memory) >= MaxParsed /\ UNCHANGED treeVars

TreesNext ==
    \/ Mnemonic \/ Location \/ LastOperand \/ MoreOperands \/ Instr \/ Statement
    \/ MacroHead \/ EndMacro \/ Accept \/ Finish \/ Finished \/ GivenUp
    \/ \E t \in Names \cup {"number"} : Operand(t) \/ Term(t)
    \/ \E n \in Operands \cup held, known \in SUBSET Names :
         CopyArgument(n, known) \/ Evaluate(n, known)

TreesSpec == TreesInit /\ [][TreesNext]_treeVars

-----------------------------------------------------------------------------
(* Properties.                                                               *)

(* The nodes from which the program goes on: what the parser has on its      *)
(* stack, the tree of the source, and the copies symbols have for values.    *)
Owned ==
    held \cup ({root} \ {Nil})
         \cup {stack[i].node : i \in {k \in DOMAIN stack : stack[k].kind # "finished"}}

Gone(n) == memory.nodes[n].block \in memory.freed

(* No node is used after it was freed or freed twice: the tuples that lists  *)
(* are made from, the terms of a sum that became a number, the tree in the   *)
(* end.  What was not freed in time is only lost.                            *)
NothingDangles ==
    /\ ~memory.fault
    /\ \A n \in Owned : \A k \in Below(memory)[n] : ~Gone(k)

(* No node is in two trees: since evaluation rewrites trees in place, the    *)
(* argument of a macro must not be evaluated in the source it was copied     *)
(* from, nor in another application.                                         *)
Apart ==
    \A m, n \in Owned : m # n => Below(memory)[m] \cap Below(memory)[n] = {}

(* asm-parse.y: mk_list() "returns a list in the opposite order to the       *)
(* supplied tree", which has the last statement first: statements are in the *)
(* order of the source, in the bodies of macros too.                         *)
InOrder ==
    \A n \in UNION {Below(memory)[o] : o \in Owned} :
        LET kids == memory.nodes[n].kids
        IN  memory.nodes[n].t = "list" =>
                \A i, j \in DOMAIN kids :
                    i < j => memory.nodes[kids[i]].rank < memory.nodes[kids[j]].rank
=============================================================================
