------------------------------ MODULE Section ------------------------------
(* libbaby/section.c: the growing array of words an assembly fills in.  Each *)
(* cell remembers the record it was assembled from (debug); a cell with one  *)
(* is taken and cannot be written again.  The org of a section is never      *)
(* assigned, so it is zero, no cursor lies before it, and it is left out.    *)
EXTENDS Words

CONSTANT GrowBy         \* words to spare when the array grows  (0x400)

ASSUME GrowthAssumption == GrowBy \in Nat \ {0}

NoDebug == 0            \* the null pointer; record i is i

EmptyCell == [value |-> 0, debug |-> NoDebug]

EmptySection ==
    [capacity |-> 0, length |-> 0, cursor |-> 0, data |-> [a \in {} |-> EmptyCell]]

(* Mutant: the array grows from where it ends, not from the cursor.          *)
GrownFromEnd(s) ==
    IF s.cursor < s.capacity
      THEN s
      ELSE LET capacity == Wrap(s.capacity + GrowBy)
           IN  [s EXCEPT !.capacity = capacity,
                         !.data = [a \in 0 .. capacity - 1 |->
                             IF a < s.capacity THEN s.data[a] ELSE EmptyCell]]

(* Room for the cell under the cursor.  The new capacity is an addr_t and    *)
(* wraps; realloc() keeps the old cells and memset() clears the new ones.    *)
Grown(s) ==
    IF s.cursor < s.capacity
      THEN s
      ELSE LET capacity == Wrap(s.cursor + GrowBy)
           IN  [s EXCEPT !.capacity = capacity,
                         !.data = [a \in 0 .. capacity - 1 |->
                             IF a < s.capacity THEN s.data[a] ELSE EmptyCell]]

(* Mutant: a taken cell is written again.                                    *)
PutResultUnchecked(s) ==
    LET g == Grown(s) IN IF g.cursor >= g.capacity THEN "wild" ELSE "ok"

(* The outcome of put_word(): "wild" is an access beyond the array, when the *)
(* new capacity has wrapped and no longer holds the cell under the cursor.   *)
(* It is taken to end the process.                                           *)
PutResult(s) ==
    LET g == Grown(s)
    IN  IF g.cursor >= g.capacity THEN "wild"
        ELSE IF g.data[g.cursor].debug # NoDebug THEN "EEXIST"
        ELSE "ok"

(* Mutant: the length follows the cursor back.                               *)
FilledBackwards(g, word, debug) ==
    LET next == Wrap(g.cursor + 1)
    IN  [capacity |-> g.capacity, length |-> next, cursor |-> next,
         data |-> [g.data EXCEPT ![g.cursor] = [value |-> word, debug |-> debug]]]

Filled(g, word, debug) ==
    LET next == Wrap(g.cursor + 1)
    IN  [capacity |-> g.capacity,
         length |-> IF next > g.length THEN next ELSE g.length,
         cursor |-> next,
         data |-> [g.data EXCEPT ![g.cursor] = [value |-> word, debug |-> debug]]]

(* put_word(): the section it leaves, if it comes back.                      *)
PutWord(s, word, debug) ==
    CASE PutResult(s) = "ok" -> Filled(Grown(s), word, debug)
      [] PutResult(s) = "EEXIST" -> Grown(s)
      [] PutResult(s) = "wild" -> s

(* What every section satisfies: the array is as long as the capacity, the   *)
(* words counted lie within it, and nothing was ever written beyond them.    *)
ArrayOK(s) ==
    /\ s = [capacity |-> s.capacity, length |-> s.length,
            cursor |-> s.cursor, data |-> s.data]
    /\ s.capacity \in Word /\ s.length \in Word /\ s.cursor \in Word
    /\ s.data = [a \in 0 .. s.capacity - 1 |-> s.data[a]]
    /\ s.length <= s.capacity
    /\ \A a \in s.length .. s.capacity - 1 : s.data[a] = EmptyCell

SectionOK(s) ==
    /\ ArrayOK(s)
    /\ s.data \in [0 .. s.capacity - 1 -> [value : Word, debug : Nat]]

(* No overflow of an addr_t is near: 0x400 words are left above the cursor.  *)
Roomy(s) == s.cursor + GrowBy < Modulus
=============================================================================
