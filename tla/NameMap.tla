------------------------------ MODULE NameMap ------------------------------
(* What symbols.c promises of its tables: in each context of a tree of       *)
(* scopes a map from names to values, without tables, orders or capacities.  *)
EXTENDS Integers

CONSTANTS
    Names,          \* names of symbols, indexes into the string table
    Key,            \* the text of a name, with its case folded if the table does
    Contexts,       \* a set of positive numbers
    Parent,         \* the context around each, a smaller number; 0 is none
    Words,          \* values of resolved symbols, SYM_ST_WORD
    Trees,          \* other values
    Undef           \* the value of a symbol that has none yet, SYM_ST_UNDEF

VARIABLES
    map,            \* the values by context and text
    answer          \* what was just looked up and found, or NoAnswer

(* Where a text was looked up from, where it was found, and its value there. *)
NoAnswer == [from |-> 0]
Answer(c, k, specific, holder, value) ==
    [from |-> c, text |-> k, specific |-> specific, context |-> holder, value |-> value]

Init ==
    /\ map = [c \in Contexts |-> [k \in {} |-> Undef]]
    /\ answer = NoAnswer

With(values, k, v) ==
    [j \in DOMAIN values \cup {k} |-> IF j = k THEN v ELSE values[j]]

(* A name that is new in a context has no value.                             *)
Enter(c, n) ==
    /\ Key[n] \notin DOMAIN map[c]
    /\ map' = [map EXCEPT ![c] = With(@, Key[n], Undef)]
    /\ answer' = NoAnswer

SetTo(c, n, v) ==
    /\ map' = [map EXCEPT ![c] = With(@, Key[n], v)]
    /\ answer' = NoAnswer

(* The nearest context that knows the text.  The one that is specified only  *)
(* counts if the value it has is a word.                                     *)
Counts(c, k, specific) ==
    k \in DOMAIN map[c] /\ (c = specific => map[c][k] \in Words)

Nearest(k, specific) ==
    LET nearest[c \in Contexts \cup {0}] ==
            IF c = 0 \/ Counts(c, k, specific) THEN c ELSE nearest[Parent[c]]
    IN  nearest

Find(c, n, specific) ==
    LET holder == Nearest(Key[n], specific)[c]
        value == IF holder = 0 THEN Undef ELSE map[holder][Key[n]]
    IN  /\ answer' = Answer(c, Key[n], specific, holder, value)
        /\ UNCHANGED map

Forget == answer' = NoAnswer /\ UNCHANGED map

Next ==
    \/ Forget
    \/ \E c \in Contexts, n \in Names :
           \/ Enter(c, n)
           \/ \E v \in Words \cup Trees : SetTo(c, n, v)
           \/ \E specific \in {0, c} : Find(c, n, specific)

Spec == Init /\ [][Next]_<<map, answer>>
=============================================================================
