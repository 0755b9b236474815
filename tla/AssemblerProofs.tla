-------------------------- MODULE AssemblerProofs --------------------------
(* Theorems about the assembler and its listing, for every word width, every *)
(* growth of the array, every size of the index, every set of programs and   *)
(* whatever eval_expr() makes of an operand.                                 *)
EXTENDS Listing, AssemblerMeaning, FiniteSetTheorems, WellFoundedInduction, TLAPS

-----------------------------------------------------------------------------
(* put_word().                                                               *)


LEMMA WordsExist == Modulus \in Nat \ {0}
<1>1. OperandSpan \in Nat \ {0} /\ DataSpan \in Nat \ {0}
  BY WordsAssumption
<1>2. ASSUME NEW a \in Nat \ {0}, NEW b \in Nat \ {0} PROVE a * b \in Nat \ {0}
  OBVIOUS
<1>. QED
  BY <1>1, <1>2 DEF Modulus

LEMMA WrapIsWord ==
    ASSUME NEW n \in Int
    PROVE  Wrap(n) \in Word
<1>1. ASSUME NEW m \in Nat \ {0} PROVE n % m \in 0 .. m - 1
  OBVIOUS
<1>. QED
  BY <1>1, WordsExist DEF Wrap, Word

LEMMA WrapBelow ==
    ASSUME NEW n \in Nat
    PROVE  Wrap(n) <= n /\ (n < Modulus => Wrap(n) = n)
<1>1. ASSUME NEW m \in Nat \ {0} PROVE n % m <= n /\ (n < m => n % m = n)
  OBVIOUS
<1>. QED
  BY <1>1, WordsExist DEF Wrap

LEMMA WordIsNat == Word \subseteq Nat
  BY WordsExist DEF Word

(* Growing changes neither the length nor the cursor; the array has the      *)
(* capacity's size, and keeps the old cells it still has room for.           *)
LEMMA GrownShape ==
    ASSUME NEW s, ArrayOK(s)
    PROVE  /\ Grown(s) = [capacity |-> Grown(s).capacity, length |-> s.length,
                          cursor |-> s.cursor, data |-> Grown(s).data]
           /\ Grown(s).capacity \in Word
           /\ Grown(s).data = [a \in 0 .. Grown(s).capacity - 1 |-> Grown(s).data[a]]
           /\ \A a \in 0 .. Grown(s).capacity - 1 :
                  Grown(s).data[a] = IF a < s.capacity THEN s.data[a] ELSE EmptyCell
<1>1. CASE s.cursor < s.capacity
  BY <1>1, WordIsNat DEF Grown, ArrayOK
<1>2. CASE ~(s.cursor < s.capacity)
  <2> DEFINE c == Wrap(s.cursor + GrowBy)
             d == [a \in 0 .. c - 1 |-> IF a < s.capacity THEN s.data[a] ELSE EmptyCell]
  <2>1. c \in Word
    BY WrapIsWord, WordIsNat, GrowthAssumption DEF ArrayOK
  <2>2. Grown(s) = [capacity |-> c, length |-> s.length, cursor |-> s.cursor, data |-> d]
    BY <1>2 DEF Grown, ArrayOK
  <2>3. \A a \in 0 .. c - 1 : d[a] = IF a < s.capacity THEN s.data[a] ELSE EmptyCell
    OBVIOUS
  <2>4. d = [a \in 0 .. c - 1 |-> d[a]]
    OBVIOUS
  <2>. HIDE DEF c, d
  <2>5. Grown(s).capacity = c /\ Grown(s).data = d
    BY <2>2
  <2>. QED
    BY <2>1, <2>2, <2>3, <2>4, <2>5
<1>. QED
  BY <1>1, <1>2

(* Unless put_word() leaves it, the grown array is no smaller than the old   *)
(* one and holds the cursor's cell.                                          *)
LEMMA GrownHoldsCursor ==
    ASSUME NEW s, ArrayOK(s), PutResult(s) # "wild"
    PROVE  s.capacity <= Grown(s).capacity /\ s.cursor < Grown(s).capacity
<1> DEFINE g == Grown(s)
<1>1. /\ g = [capacity |-> g.capacity, length |-> s.length, cursor |-> s.cursor,
              data |-> g.data]
      /\ g.capacity \in Word
  BY GrownShape
<1>2. g.cursor = s.cursor
  <2>. HIDE DEF g
  <2>. QED
    BY <1>1
<1>3. s.cursor \in Nat /\ s.capacity \in Nat /\ g.capacity \in Nat
  BY <1>1, WordIsNat DEF ArrayOK
<1>4. ~(g.cursor >= g.capacity)
  BY DEF PutResult
<1>5. s.cursor < s.capacity => g = s
  BY DEF Grown
<1>. HIDE DEF g
<1>6. s.cursor < g.capacity
  BY <1>2, <1>3, <1>4
<1>7. s.capacity <= g.capacity
  BY <1>3, <1>5, <1>6
<1>. QED
  BY <1>6, <1>7 DEF g

(* Growing keeps the array in order.                                         *)
LEMMA GrownKeepsArray ==
    ASSUME NEW s, ArrayOK(s), PutResult(s) # "wild"
    PROVE  ArrayOK(Grown(s))
<1> DEFINE g == Grown(s)
<1>1. /\ g = [capacity |-> g.capacity, length |-> s.length,
              cursor |-> s.cursor, data |-> g.data]
      /\ g.capacity \in Word
      /\ g.data = [a \in 0 .. g.capacity - 1 |-> g.data[a]]
      /\ \A a \in 0 .. g.capacity - 1 :
             g.data[a] = IF a < s.capacity THEN s.data[a] ELSE EmptyCell
  BY GrownShape
<1>2. s.capacity <= g.capacity
  BY GrownHoldsCursor
<1>3. /\ s.length \in Word /\ s.cursor \in Word /\ s.capacity \in Word
      /\ s.length <= s.capacity
      /\ \A a \in s.length .. s.capacity - 1 : s.data[a] = EmptyCell
  BY DEF ArrayOK
<1>. HIDE DEF g
<1>4. g.length = s.length /\ g.cursor = s.cursor
  BY <1>1
<1>5. g = [capacity |-> g.capacity, length |-> g.length,
           cursor |-> g.cursor, data |-> g.data]
  BY <1>1, <1>4
<1>6. g.length <= g.capacity
  BY <1>1, <1>2, <1>3, <1>4, WordIsNat
<1>7. \A a \in g.length .. g.capacity - 1 : g.data[a] = EmptyCell
  BY <1>1, <1>3, <1>4, WordIsNat
<1>8. ArrayOK(g)
  BY <1>1, <1>3, <1>4, <1>5, <1>6, <1>7 DEF ArrayOK
<1>. QED
  BY <1>8 DEF g

(* What filling the cell under the cursor makes of the section.              *)
LEMMA FilledShape ==
    ASSUME NEW s, ArrayOK(s), PutResult(s) # "wild", NEW word, NEW debug
    PROVE  LET g == Grown(s)
               f == Filled(g, word, debug)
           IN  /\ f = [capacity |-> g.capacity, length |-> f.length,
                       cursor |-> g.cursor + 1, data |-> f.data]
               /\ f.data = [g.data EXCEPT ![g.cursor] = [value |-> word, debug |-> debug]]
               /\ f.length = IF g.cursor + 1 > g.length THEN g.cursor + 1 ELSE g.length
               /\ g.cursor + 1 \in Word /\ g.cursor \in 0 .. g.capacity - 1
<1> DEFINE g == Grown(s)
<1>1. g.cursor = s.cursor /\ s.cursor < g.capacity /\ ArrayOK(g)
  <2>1. g = [capacity |-> g.capacity, length |-> s.length, cursor |-> s.cursor,
             data |-> g.data]
    BY GrownShape
  <2>2. s.cursor < g.capacity /\ ArrayOK(g)
    BY GrownHoldsCursor, GrownKeepsArray
  <2>. HIDE DEF g
  <2>3. g.cursor = s.cursor
    BY <2>1
  <2>. QED
    BY <2>2, <2>3
<1>2. g.cursor \in Nat /\ g.capacity \in Nat
  BY <1>1, WordIsNat DEF ArrayOK
<1>3. g.cursor + 1 < Modulus
  <2>1. g.cursor + 1 <= g.capacity
    BY <1>1, <1>2
  <2>2. g.capacity \in Word
    BY GrownShape
  <2>. HIDE DEF g
  <2>3. g.capacity < Modulus
    BY <2>2, WordsExist DEF Word
  <2>. QED
    BY <1>2, <2>1, <2>3, WordsExist
<1>4. Wrap(g.cursor + 1) = g.cursor + 1 /\ g.cursor + 1 \in Word
  BY <1>2, <1>3, WrapBelow, WordsExist DEF Word
<1>. HIDE DEF g
<1>5. g.cursor \in 0 .. g.capacity - 1
  BY <1>1, <1>2
<1>. QED
  BY <1>4, <1>5 DEF Filled, g

LEMMA FilledKeepsArray ==
    ASSUME NEW s, ArrayOK(s), PutResult(s) # "wild", NEW word, NEW debug
    PROVE  ArrayOK(Filled(Grown(s), word, debug))
<1> DEFINE g == Grown(s)
           f == Filled(g, word, debug)
<1>1. ArrayOK(g)
  BY GrownKeepsArray
<1>2. /\ f = [capacity |-> g.capacity, length |-> f.length,
              cursor |-> g.cursor + 1, data |-> f.data]
      /\ f.data = [g.data EXCEPT ![g.cursor] = [value |-> word, debug |-> debug]]
      /\ f.length = IF g.cursor + 1 > g.length THEN g.cursor + 1 ELSE g.length
      /\ g.cursor + 1 \in Word /\ g.cursor \in 0 .. g.capacity - 1
  BY FilledShape
<1>. HIDE DEF f, g
<1>3. g.capacity \in Word /\ g.length \in Word /\ g.capacity \in Nat /\ g.length \in Nat
      /\ g.cursor \in Nat
  BY <1>1, WordIsNat DEF ArrayOK
<1>4. f.capacity = g.capacity /\ f.cursor = g.cursor + 1
  BY <1>2
<1>5. f = [capacity |-> f.capacity, length |-> f.length, cursor |-> f.cursor,
           data |-> f.data]
  BY <1>2, <1>4
<1>6. f.length \in Word /\ f.length <= f.capacity
  BY <1>1, <1>2, <1>3, <1>4 DEF ArrayOK
<1>7. f.data = [a \in 0 .. f.capacity - 1 |-> f.data[a]]
  <2>1. g.data = [a \in 0 .. g.capacity - 1 |-> g.data[a]]
    BY <1>1 DEF ArrayOK
  <2>. QED
    BY <2>1, <1>2, <1>4
<1>8. ASSUME NEW a \in f.length .. f.capacity - 1 PROVE f.data[a] = EmptyCell
  <2>1. a # g.cursor /\ a \in g.length .. g.capacity - 1 /\ a \in 0 .. g.capacity - 1
    BY <1>2, <1>3, <1>4, <1>6, WordIsNat
  <2>2. g.data[a] = EmptyCell
    BY <1>1, <2>1 DEF ArrayOK
  <2>3. g.data = [c \in 0 .. g.capacity - 1 |-> g.data[c]]
    BY <1>1 DEF ArrayOK
  <2>. QED
    BY <1>2, <2>1, <2>2, <2>3
<1>9. ArrayOK(f)
  BY <1>2, <1>3, <1>4, <1>5, <1>6, <1>7, <1>8 DEF ArrayOK
<1>. QED
  BY <1>9 DEF f, g

(* put_word() never leaves the array as long as GrowBy addresses are left    *)
(* above the cursor.  (Closer to the top the capacity wraps, and it does,    *)
(* unless the cell is in the array already.)                                 *)
THEOREM PutWordInBounds ==
    ASSUME NEW s, ArrayOK(s), Roomy(s)
    PROVE  PutResult(s) # "wild"
<1> DEFINE g == Grown(s)
<1>1. g = [capacity |-> g.capacity, length |-> s.length, cursor |-> s.cursor,
           data |-> g.data]
  BY GrownShape
<1>2. s.cursor < g.capacity /\ s.cursor \in Nat /\ g.capacity \in Nat
  <2>1. s.cursor \in Nat /\ s.capacity \in Nat /\ g.capacity \in Nat
    BY GrownShape, WordIsNat DEF ArrayOK
  <2>2. CASE s.cursor < s.capacity
    BY <2>1, <2>2 DEF Grown
  <2>3. CASE ~(s.cursor < s.capacity)
    <3>1. Wrap(s.cursor + GrowBy) = s.cursor + GrowBy
      BY <2>1, WrapBelow, GrowthAssumption DEF Roomy
    <3>2. g.capacity = s.cursor + GrowBy
      BY <2>3, <3>1 DEF Grown, ArrayOK
    <3>. QED
      BY <2>1, <3>2, GrowthAssumption
  <2>. QED
    BY <2>2, <2>3
<1>3. g.cursor = s.cursor
  <2>. HIDE DEF g
  <2>. QED
    BY <1>1
<1>. QED
  BY <1>2, <1>3 DEF PutResult

LEMMA PutWordCases ==
    ASSUME NEW s, NEW word, NEW debug
    PROVE  \/ PutResult(s) = "ok" /\ PutWord(s, word, debug) = Filled(Grown(s), word, debug)
           \/ PutResult(s) = "EEXIST" /\ PutWord(s, word, debug) = Grown(s)
           \/ PutResult(s) = "wild" /\ PutWord(s, word, debug) = s
<1>1. PutResult(s) \in {"ok", "EEXIST", "wild"}
  BY DEF PutResult
<1>. QED
  BY <1>1 DEF PutWord

LEMMA PutWordKeepsArray ==
    ASSUME NEW s, ArrayOK(s), NEW word, NEW debug
    PROVE  ArrayOK(PutWord(s, word, debug))
  BY PutWordCases, GrownKeepsArray, FilledKeepsArray

(* put_word() keeps the section in order, whether it accepts the word or     *)
(* refuses it: the array matches the capacity, the length lies within it and *)
(* nothing was written beyond the length.                                    *)
THEOREM PutWordKeepsSection ==
    ASSUME NEW s, SectionOK(s), NEW word \in Word, NEW debug \in Nat
    PROVE  SectionOK(PutWord(s, word, debug))
<1>0. SUFFICES ASSUME PutResult(s) # "wild"
               PROVE  SectionOK(PutWord(s, word, debug))
  BY PutWordCases
<1> DEFINE g == Grown(s)
           Cells == [value : Word, debug : Nat]
<1>1. ArrayOK(s) /\ ArrayOK(g) /\ s.data \in [0 .. s.capacity - 1 -> Cells]
  BY <1>0, GrownKeepsArray DEF SectionOK
<1>2. g.data \in [0 .. g.capacity - 1 -> Cells]
  <2>1. /\ g.data = [a \in 0 .. g.capacity - 1 |-> g.data[a]]
        /\ \A a \in 0 .. g.capacity - 1 :
               g.data[a] = IF a < s.capacity THEN s.data[a] ELSE EmptyCell
    BY <1>1, GrownShape
  <2>2. EmptyCell \in Cells
    BY WordsExist DEF EmptyCell, NoDebug, Word
  <2>3. g.capacity \in Nat /\ s.capacity \in Nat
    BY <1>1, WordIsNat DEF ArrayOK
  <2>. HIDE DEF g, Cells
  <2>4. ASSUME NEW a \in 0 .. g.capacity - 1 PROVE g.data[a] \in Cells
    <3>1. CASE a < s.capacity
      <4>1. a \in 0 .. s.capacity - 1
        BY <2>3, <3>1
      <4>. QED
        BY <1>1, <2>1, <3>1, <4>1
    <3>2. CASE ~(a < s.capacity)
      BY <2>1, <2>2, <3>2
    <3>. QED
      BY <3>1, <3>2
  <2>. QED
    BY <2>1, <2>4
<1>3. LET f == Filled(g, word, debug)
      IN  ArrayOK(f) /\ f.data \in [0 .. f.capacity - 1 -> Cells]
  <2>1. /\ Filled(g, word, debug).capacity = g.capacity
        /\ Filled(g, word, debug).data =
               [g.data EXCEPT ![g.cursor] = [value |-> word, debug |-> debug]]
    BY DEF Filled
  <2>2. ArrayOK(Filled(g, word, debug))
    BY <1>0, <1>1, FilledKeepsArray
  <2>3. [value |-> word, debug |-> debug] \in Cells
    OBVIOUS
  <2>. HIDE DEF g, Cells
  <2>4. [g.data EXCEPT ![g.cursor] = [value |-> word, debug |-> debug]]
            \in [0 .. g.capacity - 1 -> Cells]
    BY <1>2, <2>3
  <2>. QED
    BY <2>1, <2>2, <2>4
<1>. QED
  BY <1>0, <1>1, <1>2, <1>3, PutWordCases DEF SectionOK, g

(* A cell that an instruction was assembled into is never overwritten: only  *)
(* cells without a record change.                                            *)
THEOREM PutWordKeepsTakenCells ==
    ASSUME NEW s, ArrayOK(s), NEW word, NEW debug,
           NEW a \in 0 .. s.capacity - 1, s.data[a].debug # NoDebug
    PROVE  /\ PutWord(s, word, debug).data[a] = s.data[a]
           /\ a \in DOMAIN PutWord(s, word, debug).data
<1>0. CASE PutResult(s) = "wild"
  <2>1. PutWord(s, word, debug) = s
    BY <1>0, PutWordCases
  <2>2. s.data = [c \in 0 .. s.capacity - 1 |-> s.data[c]]
    BY DEF ArrayOK
  <2>. QED
    BY <2>1, <2>2
<1>. SUFFICES ASSUME PutResult(s) # "wild"
              PROVE  /\ PutWord(s, word, debug).data[a] = s.data[a]
                     /\ a \in DOMAIN PutWord(s, word, debug).data
  BY <1>0
<1> DEFINE g == Grown(s)
<1>1. s.capacity <= g.capacity /\ g.capacity \in Nat /\ s.capacity \in Nat
  BY GrownHoldsCursor, GrownShape, WordIsNat DEF ArrayOK
<1>2. g.data[a] = s.data[a] /\ a \in 0 .. g.capacity - 1
  <2>1. a \in 0 .. g.capacity - 1 /\ a < s.capacity
    <3>. HIDE DEF g
    <3>. QED
      BY <1>1
  <2>. QED
    BY <2>1, GrownShape
<1>3. g.data = [c \in 0 .. g.capacity - 1 |-> g.data[c]]
  BY GrownShape
<1>. HIDE DEF g
<1>4. CASE PutResult(s) = "ok"
  <2>1. g.data[g.cursor].debug = NoDebug
    BY <1>4 DEF PutResult, g
  <2>2. a # g.cursor
    BY <1>2, <2>1
  <2>3. Filled(g, word, debug).data = [g.data EXCEPT ![g.cursor] = [value |-> word, debug |-> debug]]
    BY DEF Filled
  <2>4. PutWord(s, word, debug) = Filled(g, word, debug)
    BY <1>4, PutWordCases DEF g
  <2>. QED
    BY <1>2, <1>3, <2>2, <2>3, <2>4
<1>5. CASE PutResult(s) # "ok"
  BY <1>2, <1>3, <1>5, PutWordCases DEF g
<1>. QED
  BY <1>4, <1>5

-----------------------------------------------------------------------------
(* The index of lines.                                                       *)


LEMMA EmptyIsOK == IndexOK(EmptyIndex)
  BY IndexAssumption DEF IndexOK, EmptyIndex

(* The size after growth, and that nothing noted before is lost by it.       *)
LEMMA ForLineShape ==
    ASSUME NEW x, IndexOK(x), NEW line \in Nat \ {0}
    PROVE  LET y == ForLine(x, line)
           IN  /\ y = [lines |-> y.lines, size |-> y.size, entries |-> y.entries]
               /\ y.lines \in Nat /\ line <= y.lines /\ x.lines <= y.lines
               /\ y.lines = line \/ y.lines = x.lines
               /\ y.size = IF y.lines >= x.size THEN 2 * x.size ELSE x.size
               /\ y.size \in Nat /\ x.size <= y.size
               /\ DOMAIN y.entries = 1 .. y.size
               /\ \A n \in 1 .. x.size : y.entries[n] = x.entries[n]
<1>. DEFINE most == IF line > x.lines THEN line ELSE x.lines
            size == IF most >= x.size THEN 2 * x.size ELSE x.size
            entries == [n \in 1 .. size |-> IF n <= x.size THEN x.entries[n] ELSE NoEntry]
<1>1. /\ x.lines \in Nat /\ x.size \in Nat
      /\ most \in Nat /\ line <= most /\ x.lines <= most
      /\ most = line \/ most = x.lines
  BY DEF IndexOK
<1>2. size \in Nat /\ x.size <= size
  BY <1>1
<1>3. ForLine(x, line) = [lines |-> most, size |-> size, entries |-> entries]
  BY DEF ForLine, Sized
<1>4. DOMAIN entries = 1 .. size /\ \A n \in 1 .. x.size : entries[n] = x.entries[n]
  BY <1>1, <1>2
<1>5. size = IF most >= x.size THEN 2 * x.size ELSE x.size
  OBVIOUS
<1>. HIDE DEF most, size, entries
<1>. QED
  BY <1>1, <1>2, <1>3, <1>4, <1>5

(* As long as no statement is more than IndexSize lines below all those     *)
(* before it, the entry parse_stmts() writes is within the array, whatever   *)
(* the length of the file, although the array is doubled only once.          *)
THEOREM NotedInBounds ==
    ASSUME NEW x, IndexOK(x), NEW line \in Nat \ {0}, line <= x.lines + IndexSize,
           NEW place
    PROVE  InBounds(x, line) /\ IndexOK(Noted(x, line, place))
<1>. DEFINE y == ForLine(x, line)
<1>1. /\ y = [lines |-> y.lines, size |-> y.size, entries |-> y.entries]
      /\ y.lines \in Nat /\ line <= y.lines
      /\ y.lines = line \/ y.lines = x.lines
      /\ y.size = IF y.lines >= x.size THEN 2 * x.size ELSE x.size
      /\ y.size \in Nat /\ x.size <= y.size
      /\ DOMAIN y.entries = 1 .. y.size
  BY ForLineShape
<1>2. y.lines <= y.size /\ IndexSize <= y.size
  BY <1>1, IndexAssumption DEF IndexOK
<1>3. Noted(x, line, place) = [y EXCEPT !.entries[line] = place]
  BY DEF Noted
<1>. HIDE DEF y
<1>4. LET z == [y EXCEPT !.entries[line] = place]
      IN  /\ z.lines = y.lines /\ z.size = y.size
          /\ DOMAIN z.entries = DOMAIN y.entries
          /\ z = [lines |-> z.lines, size |-> z.size, entries |-> z.entries]
  BY <1>1
<1>. QED
  BY <1>1, <1>2, <1>3, <1>4 DEF InBounds, IndexOK, y

(* What was noted can be sought: of the line itself, and of every line noted *)
(* before, however the array has grown.                                      *)
THEOREM NotedIsSought ==
    ASSUME NEW x, IndexOK(x), NEW line \in Nat \ {0}, InBounds(x, line), NEW place
    PROVE  /\ Sought(Noted(x, line, place), line) = place
           /\ \A n \in 1 .. x.lines :
                  n # line => Sought(Noted(x, line, place), n) = Sought(x, n)
<1>. DEFINE y == ForLine(x, line)
            z == Noted(x, line, place)
<1>1. /\ y = [lines |-> y.lines, size |-> y.size, entries |-> y.entries]
      /\ y.lines \in Nat /\ line <= y.lines /\ x.lines <= y.lines
      /\ DOMAIN y.entries = 1 .. y.size /\ y.size \in Nat /\ x.size <= y.size
      /\ \A n \in 1 .. x.size : y.entries[n] = x.entries[n]
  BY ForLineShape
<1>2. line <= y.size
  BY DEF InBounds
<1>3. z = [y EXCEPT !.entries[line] = place]
  BY DEF Noted
<1>. HIDE DEF y, z
<1>4. z.lines = y.lines /\ z.entries = [y.entries EXCEPT ![line] = place]
  BY <1>1, <1>3
<1>5. Sought(z, line) = place
  BY <1>1, <1>2, <1>4 DEF Sought
<1>6. ASSUME NEW n \in 1 .. x.lines, n # line PROVE Sought(z, n) = Sought(x, n)
  <2>1. x.lines \in Nat /\ x.size \in Nat /\ x.lines <= x.size
    BY DEF IndexOK
  <2>2. n \in 1 .. y.lines /\ n \in 1 .. x.size /\ n \in DOMAIN y.entries
    BY <2>1, <1>1
  <2>3. z.entries[n] = x.entries[n]
    BY <2>2, <1>1, <1>4, <1>6
  <2>. QED
    BY <2>2, <2>3, <1>4 DEF Sought
<1>. QED
  BY <1>5, <1>6 DEF z

-----------------------------------------------------------------------------
(* Lists.                                                                    *)

LEMMA SeqIsList ==
    ASSUME NEW S, NEW l \in Seq(S) PROVE IsList(l)
BY DEF IsList, Range

LEMMA ListAppend ==
    ASSUME NEW l, IsList(l), NEW e
    PROVE  /\ IsList(Append(l, e)) /\ Len(Append(l, e)) = Len(l) + 1 /\ Len(l) \in Nat
           /\ \A k \in DOMAIN Append(l, e) :
                  Append(l, e)[k] = IF k = Len(l) + 1 THEN e ELSE l[k]
           /\ DOMAIN Append(l, e) = 1 .. Len(l) + 1 /\ DOMAIN l = 1 .. Len(l)
<1>. DEFINE S == Range(l) \cup {e}
            n == Append(l, e)
<1>1. l \in Seq(S)
  BY DEF IsList
<1>2. /\ n \in Seq(S) /\ Len(n) = Len(l) + 1 /\ Len(l) \in Nat
      /\ \A k \in 1 .. Len(n) : n[k] = IF k = Len(l) + 1 THEN e ELSE l[k]
      /\ DOMAIN n = 1 .. Len(n) /\ DOMAIN l = 1 .. Len(l)
  BY <1>1
<1>. HIDE DEF n, S
<1>3. IsList(n)
  BY <1>2, SeqIsList
<1>. QED
  BY <1>2, <1>3 DEF n

LEMMA ListParts ==
    ASSUME NEW l, IsList(l), l # <<>>
    PROVE  /\ Len(l) \in Nat \ {0} /\ DOMAIN l = 1 .. Len(l)
           /\ IsList(Front(l)) /\ Len(Front(l)) = Len(l) - 1
           /\ DOMAIN Front(l) = 1 .. Len(l) - 1
           /\ \A k \in 1 .. Len(l) - 1 : Front(l)[k] = l[k]
           /\ IsList(Tail(l)) /\ Len(Tail(l)) = Len(l) - 1
           /\ DOMAIN Tail(l) = 1 .. Len(l) - 1
           /\ \A k \in 1 .. Len(l) - 1 : Tail(l)[k] = l[k + 1]
           /\ Head(l) = l[1] /\ Last(l) = l[Len(l)]
<1>. DEFINE S == Range(l)
            f == Front(l)
            t == Tail(l)
<1>1. l \in Seq(S)
  BY DEF IsList
<1>2. Len(l) \in Nat \ {0} /\ DOMAIN l = 1 .. Len(l)
  BY <1>1
<1>3. /\ f \in Seq(S) /\ Len(f) = Len(l) - 1 /\ DOMAIN f = 1 .. Len(l) - 1
      /\ \A k \in 1 .. Len(l) - 1 : f[k] = l[k]
  BY <1>1, <1>2 DEF Front
<1>4. /\ t \in Seq(S) /\ Len(t) = Len(l) - 1 /\ DOMAIN t = 1 .. Len(l) - 1
      /\ \A k \in 1 .. Len(l) - 1 : t[k] = l[k + 1]
  BY <1>1, <1>2
<1>5. Head(l) = l[1] /\ Last(l) = l[Len(l)]
  BY <1>1 DEF Last
<1>. HIDE DEF f, t, S
<1>6. IsList(f) /\ IsList(t)
  BY <1>3, <1>4, SeqIsList
<1>. QED
  BY <1>2, <1>3, <1>4, <1>5, <1>6 DEF f, t

LEMMA ListUpdate ==
    ASSUME NEW l, IsList(l), NEW j \in 1 .. Len(l), NEW e
    PROVE  LET n == [l EXCEPT ![j] = e]
           IN  /\ IsList(n) /\ Len(n) = Len(l) /\ Len(l) \in Nat
               /\ DOMAIN n = 1 .. Len(l) /\ DOMAIN l = 1 .. Len(l)
               /\ \A k \in 1 .. Len(l) : n[k] = IF k = j THEN e ELSE l[k]
<1>. DEFINE S == Range(l) \cup {e}
            n == [l EXCEPT ![j] = e]
<1>1. l \in Seq(S)
  BY DEF IsList
<1>2. /\ n \in Seq(S) /\ Len(n) = Len(l) /\ Len(l) \in Nat
      /\ DOMAIN n = 1 .. Len(l) /\ DOMAIN l = 1 .. Len(l)
      /\ \A k \in 1 .. Len(l) : n[k] = IF k = j THEN e ELSE l[k]
  BY <1>1
<1>. HIDE DEF n, S
<1>3. IsList(n)
  BY <1>2, SeqIsList
<1>. QED
  BY <1>2, <1>3 DEF n

LEMMA ListBasics ==
    /\ IsList(<<>>) /\ \A e : IsList(<<e>>) /\ Len(<<e>>) = 1 /\ DOMAIN <<e>> = {1}
    /\ \A l : IsList(l) => /\ Len(l) \in Nat /\ DOMAIN l = 1 .. Len(l)
                           /\ l = <<>> <=> Len(l) = 0
<1>1. IsList(<<>>)
  BY DEF IsList, Range
<1>2. ASSUME NEW e PROVE IsList(<<e>>) /\ Len(<<e>>) = 1 /\ DOMAIN <<e>> = {1}
  BY DEF IsList, Range
<1>3. ASSUME NEW l, IsList(l)
      PROVE  Len(l) \in Nat /\ DOMAIN l = 1 .. Len(l) /\ (l = <<>> <=> Len(l) = 0)
  BY <1>3 DEF IsList
<1>. QED
  BY <1>1, <1>2, <1>3

-----------------------------------------------------------------------------
(* parse_stmts(): where it is in the sources, whatever eval_expr() does.     *)

Lists == UNION {ListsOf(source) : source \in Range(program)}

RecordOK(r) ==
    /\ r = [context |-> r.context, org |-> r.org, label |-> r.label, m |-> r.m,
            id |-> r.id]
    /\ r.org \in Word \cup {NoOrg}

FrameOK(f) ==
    /\ f = [context |-> f.context, list |-> f.list, i |-> f.i, pending |-> f.pending]
    /\ f.list \in Lists
    /\ f.i \in 1 .. Len(f.list) + 1
    /\ RecordOK(f.pending)

SourcesOK ==
    /\ program \in Programs
    /\ IsList(sources) /\ \A k \in DOMAIN sources : sources[k] \in Range(program)
    /\ pc \in {"parse", "pass_one", "assemble"} => sources # <<>>

FramesOK ==
    /\ IsList(frames) /\ \A k \in DOMAIN frames : FrameOK(frames[k])
    /\ frames # <<>> => frames[1].list \in Range(program)
    /\ pc = "parse" => frames # <<>>

BufferOK ==
    /\ IsList(records) /\ \A k \in DOMAIN records : RecordOK(records[k])
    /\ IsList(homes)
    /\ at \in 1 .. Len(records) + 1

ParseInv ==
    /\ pc \in {"parse", "pass_one", "assemble", "done", "failed", "crashed"}
    /\ SourcesOK
    /\ FramesOK
    /\ \A name \in DOMAIN macros : macros[name].body \in Lists
    /\ BufferOK

LEMMA FreshOK ==
    ASSUME NEW c
    PROVE  /\ RecordOK(Fresh(c)) /\ Fresh(c).context = c
           /\ ~Located(Fresh(c))
BY DEF RecordOK, Fresh, Located, NoOrg, NoName

LEMMA FrameIsOK ==
    ASSUME NEW c, NEW list \in Lists, SourcesOK
    PROVE  FrameOK(Frame(c, list)) /\ Frame(c, list).list = list
<1>1. Len(list) \in Nat
  <2>1. IsList(list)
    BY ProgramsAssumption DEF Lists, SourcesOK
  <2>. QED
    BY <2>1, ListBasics
<1>2. /\ Frame(c, list).list = list /\ Frame(c, list).i = 1
      /\ Frame(c, list).pending = Fresh(c)
      /\ Frame(c, list) = [context |-> c, list |-> list, i |-> 1, pending |-> Fresh(c)]
  BY DEF Frame
<1>. QED
  BY <1>1, <1>2, FreshOK DEF FrameOK

(* The statement that parse_stmts() has come to is one of the sources'.      *)
LEMMA StatementOK ==
    ASSUME ParseInv, pc = "parse", Top.i <= Len(Top.list)
    PROVE  /\ Top = frames[Len(frames)] /\ FrameOK(Top)
           /\ Len(frames) \in DOMAIN frames
           /\ Len(frames) \in Nat \ {0} /\ DOMAIN frames = 1 .. Len(frames)
           /\ Top.i \in DOMAIN Top.list /\ Stmt \in Range(Top.list)
           /\ \E source \in Range(program) : Stmt \in StatementsOf(source)
           /\ Stmt.t = "org" => Stmt.n \in Word
           /\ Len(frames) = 1 => Stmt \in Range(frames[1].list)
           /\ Len(frames) = 1 /\ Stmt.t = "macro" => Stmt.body \in Lists
<1>. USE DEF ParseInv
<1>1. frames # <<>> /\ IsList(frames)
  BY DEF FramesOK
<1>2. /\ Top = frames[Len(frames)] /\ Len(frames) \in Nat \ {0}
      /\ DOMAIN frames = 1 .. Len(frames) /\ Len(frames) \in DOMAIN frames
  BY <1>1, ListParts DEF Top
<1>3. FrameOK(Top)
  BY <1>2 DEF FramesOK
<1>4. PICK source \in Range(program) : Top.list \in ListsOf(source)
  BY <1>3 DEF FrameOK, Lists
<1>5. IsList(Top.list)
  BY <1>4, ProgramsAssumption DEF SourcesOK
<1>6. Top.i \in DOMAIN Top.list
  BY <1>3, <1>5, ListBasics DEF FrameOK
<1>7. Stmt \in Range(Top.list)
  BY <1>6 DEF Stmt, Range
<1>8. Stmt \in StatementsOf(source)
  BY <1>4, <1>7 DEF StatementsOf
<1>9. Stmt.t = "org" => Stmt.n \in Word
  BY <1>8, ProgramsAssumption DEF SourcesOK
<1>10. ASSUME Len(frames) = 1, Stmt.t = "macro" PROVE Stmt.body \in Lists
  <2>1. Top.list \in Range(program)
    BY <1>1, <1>2, <1>10 DEF FramesOK
  <2>2. Stmt.body \in ListsOf(Top.list)
    BY <1>7, <1>10 DEF ListsOf, MacrosOf
  <2>. QED
    BY <2>1, <2>2 DEF Lists
<1>. QED
  BY <1>2, <1>3, <1>6, <1>7, <1>8, <1>9, <1>10

LEMMA FrameParts ==
    ASSUME NEW f, f = [context |-> f.context, list |-> f.list, i |-> f.i,
                       pending |-> f.pending],
           NEW i, NEW r
    PROVE  [f EXCEPT !.i = i, !.pending = r] =
               [context |-> f.context, list |-> f.list, i |-> i, pending |-> r]
<1>. DEFINE g == [f EXCEPT !.i = i]
<1>1. g = [context |-> f.context, list |-> f.list, i |-> i, pending |-> f.pending]
  OBVIOUS
<1>2. [f EXCEPT !.i = i, !.pending = r] = [g EXCEPT !.pending = r]
  OBVIOUS
<1>. HIDE DEF g
<1>. QED
  BY <1>1, <1>2

(* The innermost frame goes on, with another record pending.                 *)
LEMMA NextFrameOK ==
    ASSUME ParseInv, pc = "parse", Top.i <= Len(Top.list), NEW r, RecordOK(r)
    PROVE  LET next == NextFrame(r)
               f == next[Len(frames)]
           IN  /\ IsList(next) /\ Len(next) = Len(frames) /\ next # <<>>
               /\ DOMAIN next = 1 .. Len(frames)
               /\ \A k \in DOMAIN next : FrameOK(next[k])
               /\ next[1].list = frames[1].list
               /\ \A k \in DOMAIN next : k # Len(frames) => next[k] = frames[k]
               /\ f = [context |-> Top.context, list |-> Top.list, i |-> Top.i + 1,
                       pending |-> r]
<1>. DEFINE next == NextFrame(r)
            g == [context |-> Top.context, list |-> Top.list, i |-> Top.i + 1,
                  pending |-> r]
<1>1. /\ Top = frames[Len(frames)] /\ FrameOK(Top)
      /\ Len(frames) \in Nat \ {0} /\ DOMAIN frames = 1 .. Len(frames)
      /\ Top.i \in DOMAIN Top.list
  BY StatementOK
<1>2. IsList(frames) /\ \A k \in DOMAIN frames : FrameOK(frames[k])
  BY DEF ParseInv, FramesOK
<1>3. g.list = Top.list /\ g.i = Top.i + 1 /\ g.pending = r /\ g.context = Top.context
  OBVIOUS
<1>4. next = [frames EXCEPT ![Len(frames)] = g]
  <2>1. Top = [context |-> Top.context, list |-> Top.list, i |-> Top.i,
               pending |-> Top.pending]
    BY <1>1 DEF FrameOK
  <2>2. [Top EXCEPT !.i = Top.i + 1, !.pending = r] = g
    BY <2>1, FrameParts
  <2>. HIDE DEF g
  <2>. QED
    BY <2>2 DEF NextFrame
<1>5. FrameOK(g)
  <2>1. Top.i \in Nat /\ Len(Top.list) \in Nat /\ Top.i \in 1 .. Len(Top.list) + 1
    <3>1. IsList(Top.list)
      BY <1>1, ProgramsAssumption DEF ParseInv, SourcesOK, FrameOK, Lists
    <3>. QED
      BY <1>1, <3>1, ListBasics DEF FrameOK
  <2>2. Top.i + 1 \in 1 .. Len(Top.list) + 1
    BY <2>1
  <2>. QED
    BY <1>1, <1>3, <2>2 DEF FrameOK
<1>6. Len(frames) \in 1 .. Len(frames) /\ 1 \in 1 .. Len(frames)
  BY <1>1
<1>. HIDE DEF next, g
<1>7. /\ IsList(next) /\ Len(next) = Len(frames) /\ DOMAIN next = 1 .. Len(frames)
      /\ \A k \in 1 .. Len(frames) : next[k] = IF k = Len(frames) THEN g ELSE frames[k]
  BY <1>6, <1>2, <1>4, ListUpdate
<1>8. next # <<>>
  BY <1>1, <1>7, ListBasics
<1>9. \A k \in DOMAIN next : FrameOK(next[k])
  BY <1>1, <1>2, <1>5, <1>7
<1>10. next[Len(frames)] = g
  BY <1>6, <1>7
<1>11. next[1].list = frames[1].list
  <2>1. CASE Len(frames) = 1
    BY <2>1, <1>10, <1>1, <1>3
  <2>2. CASE Len(frames) # 1
    BY <2>2, <1>7, <1>6
  <2>. QED
    BY <2>1, <2>2
<1>12. \A k \in DOMAIN next : k # Len(frames) => next[k] = frames[k]
  BY <1>7
<1>. QED
  BY <1>7, <1>8, <1>9, <1>10, <1>11, <1>12 DEF next, g

LEMMA ParseInvInit ==
    ASSUME Init PROVE ParseInv
<1>. USE DEF Init
<1>1. program \in Programs /\ IsList(program) /\ program # <<>>
  BY ProgramsAssumption
<1>2. SourcesOK
  <2>1. \A k \in DOMAIN sources : sources[k] \in Range(program)
    BY DEF Range
  <2>. QED
    BY <1>1, <2>1 DEF SourcesOK
<1>3. Head(program) \in Range(program) /\ Head(program) \in Lists
  <2>1. Head(program) = program[1] /\ 1 \in DOMAIN program
    BY <1>1, ListParts
  <2>. QED
    BY <2>1 DEF Range, Lists, ListsOf
<1>4. FramesOK
  <2>1. FrameOK(Frame(Root, Head(program))) /\ Frame(Root, Head(program)).list = Head(program)
    BY <1>2, <1>3, FrameIsOK
  <2>2. IsList(frames) /\ DOMAIN frames = {1} /\ frames[1] = Frame(Root, Head(program))
    BY ListBasics
  <2>. QED
    BY <2>1, <2>2, <1>3 DEF FramesOK
<1>5. BufferOK
  <2>1. IsList(<<>>) /\ Len(<<>>) = 0 /\ DOMAIN <<>> = {}
    BY ListBasics
  <2>. QED
    BY <2>1 DEF BufferOK
<1>. QED
  BY <1>2, <1>4, <1>5 DEF ParseInv

(* Steps that leave the parser's place, and the number of records, alone.    *)
LEMMA BufferGrows ==
    ASSUME BufferOK, NEW r, RecordOK(r), NEW grows \in BOOLEAN,
           records' = IF grows THEN Append(records, r) ELSE records,
           at' = at, homes' = homes, program' = program
    PROVE  BufferOK'
<1>. USE DEF BufferOK
<1>1. /\ IsList(Append(records, r)) /\ Len(Append(records, r)) = Len(records) + 1
      /\ Len(records) \in Nat
      /\ \A k \in DOMAIN Append(records, r) :
             Append(records, r)[k] = IF k = Len(records) + 1 THEN r ELSE records[k]
      /\ DOMAIN Append(records, r) = 1 .. Len(records) + 1
      /\ DOMAIN records = 1 .. Len(records)
  BY ListAppend
<1>2. IsList(records') /\ Len(records') >= Len(records) /\ Len(records') \in Nat
  BY <1>1
<1>3. \A k \in DOMAIN records' : RecordOK(records'[k])
  BY <1>1
<1>4. \A k \in DOMAIN records' : RecordOK(records[k])'
  BY <1>3 DEF RecordOK
<1>. QED
  BY <1>1, <1>2, <1>4

(* A statement of the innermost list is done with.                           *)
LEMMA FramesGoOn ==
    ASSUME ParseInv, pc = "parse", Top.i <= Len(Top.list), NEW r, RecordOK(r),
           frames' = NextFrame(r), program' = program
    PROVE  FramesOK'
<1>1. /\ IsList(frames') /\ Len(frames') = Len(frames) /\ frames' # <<>>
      /\ \A k \in DOMAIN frames' : FrameOK(frames'[k])
      /\ frames'[1].list = frames[1].list
  BY NextFrameOK
<1>2. \A k \in DOMAIN frames' : FrameOK(frames[k])'
  BY <1>1 DEF FrameOK, RecordOK, Lists
<1>3. frames # <<>> /\ frames[1].list \in Range(program)
  BY DEF ParseInv, FramesOK
<1>. QED
  BY <1>1, <1>2, <1>3 DEF FramesOK

LEMMA PendingOK ==
    ASSUME ParseInv, pc = "parse", Top.i <= Len(Top.list)
    PROVE  /\ RecordOK(Pending)
           /\ \A m, id : RecordOK([Pending EXCEPT !.m = m, !.id = id])
<1>1. RecordOK(Pending)
  BY StatementOK DEF FrameOK, Pending
<1>2. ASSUME NEW p, RecordOK(p), NEW m, NEW id
      PROVE  RecordOK([p EXCEPT !.m = m, !.id = id])
  <2>. DEFINE q == [p EXCEPT !.m = m]
  <2>1. q = [context |-> p.context, org |-> p.org, label |-> p.label, m |-> m, id |-> p.id]
    BY <1>2 DEF RecordOK
  <2>2. [p EXCEPT !.m = m, !.id = id] = [q EXCEPT !.id = id]
    OBVIOUS
  <2>. HIDE DEF q
  <2>3. [q EXCEPT !.id = id] =
            [context |-> p.context, org |-> p.org, label |-> p.label, m |-> m, id |-> id]
    BY <2>1
  <2>. QED
    BY <2>2, <2>3, <1>2 DEF RecordOK
<1>. QED
  BY <1>1, <1>2

LEMMA LocatedRecordOK ==
    ASSUME NEW c, NEW name, NEW n \in Word
    PROVE  RecordOK([Fresh(c) EXCEPT !.label = name]) /\ RecordOK([Fresh(c) EXCEPT !.org = n])
<1>. DEFINE f == Fresh(c)
<1>1. /\ f = [context |-> f.context, org |-> f.org, label |-> f.label, m |-> f.m, id |-> f.id]
      /\ f.org \in Word \cup {NoOrg}
  BY FreshOK DEF RecordOK
<1>. HIDE DEF f
<1>2. [f EXCEPT !.label = name] =
          [context |-> f.context, org |-> f.org, label |-> name, m |-> f.m, id |-> f.id]
  BY <1>1
<1>3. [f EXCEPT !.org = n] =
          [context |-> f.context, org |-> n, label |-> f.label, m |-> f.m, id |-> f.id]
  BY <1>1
<1>. QED
  BY <1>1, <1>2, <1>3 DEF f, RecordOK

(* What every step but that of a new macro and a new program leaves.         *)
MacrosOK == \A name \in DOMAIN macros : macros[name].body \in Lists

LEMMA LocateKeeps ==
    ASSUME ParseInv, pc = "parse", Top.i <= Len(Top.list), NEW r, RecordOK(r), Locate(r)
    PROVE  ParseInv'
<1>. USE DEF Locate, passVars, auxVars
<1>1. SourcesOK' /\ MacrosOK'
  BY DEF ParseInv, SourcesOK, MacrosOK, Lists
<1>2. FramesOK'
  BY FramesGoOn
<1>3. BufferOK'
  <2>1. Located(Pending) \in BOOLEAN
    BY DEF Located
  <2>. QED
    BY <2>1, PendingOK, BufferGrows DEF ParseInv
<1>. QED
  BY <1>1, <1>2, <1>3 DEF ParseInv, MacrosOK

LEMMA LocationsKeep ==
    ASSUME ParseInv, ParseLabel \/ ParseOrg PROVE ParseInv'
<1>. USE DEF Parsing
<1>1. CASE ParseLabel
  <2>1. Word # {}
    BY WrapIsWord
  <2>2. RecordOK([Fresh(Top.context) EXCEPT !.label = Stmt.name])
    BY <2>1, LocatedRecordOK
  <2>. QED
    BY <1>1, <2>2, LocateKeeps DEF ParseLabel
<1>2. CASE ParseOrg
  <2>1. Stmt.n \in Word
    BY <1>2, StatementOK DEF ParseOrg
  <2>2. RecordOK([Fresh(Top.context) EXCEPT !.org = Stmt.n])
    BY <2>1, LocatedRecordOK
  <2>. QED
    BY <1>2, <2>2, LocateKeeps DEF ParseOrg
<1>. QED
  BY <1>1, <1>2

LEMMA DefineMacroKeeps ==
    ASSUME ParseInv, DefineMacro PROVE ParseInv'
<1>. USE DEF DefineMacro, Parsing, passVars, auxVars
<1>1. SourcesOK' /\ BufferOK'
  BY DEF ParseInv, SourcesOK, BufferOK, RecordOK
<1>2. CASE Len(frames) = 1
  <2>1. Stmt.body \in Lists /\ Lists' = Lists
    <3>1. Stmt.body \in Lists
      BY <1>2, StatementOK
    <3>2. Lists' = Lists
      BY DEF Lists
    <3>. QED
      BY <3>1, <3>2
  <2>2. \A name \in DOMAIN macros' :
            \/ name = Stmt.name /\ macros'[name] = Stmt
            \/ name \in DOMAIN macros /\ macros'[name] = macros[name]
    BY <1>2
  <2>3. MacrosOK
    BY DEF MacrosOK, ParseInv
  <2>4. MacrosOK'
    BY <2>1, <2>2, <2>3 DEF MacrosOK
  <2>5. FramesOK'
    BY <1>2, PendingOK, FramesGoOn
  <2>. QED
    BY <1>1, <1>2, <2>4, <2>5 DEF ParseInv, MacrosOK
<1>3. CASE Len(frames) # 1
  BY <1>1, <1>3 DEF ParseInv, FramesOK, FrameOK, RecordOK, Lists
<1>. QED
  BY <1>2, <1>3

LEMMA ApplyMacroKeeps ==
    ASSUME ParseInv, ApplyMacro PROVE ParseInv'
<1>. USE DEF Parsing, passVars, auxVars
<1>. DEFINE macro == macros[Stmt.m]
            next == NextFrame(Fresh(Top.context))
            new == Frame(NewContext, macro.body)
<1>1. SourcesOK' /\ MacrosOK' /\ Lists' = Lists
  BY DEF ApplyMacro, ParseInv, SourcesOK, MacrosOK, Lists
<1>2. CASE pc' # pc
  <2>1. pc' \in {"failed", "crashed"} /\ frames' = frames /\ records' = records
    BY <1>2 DEF ApplyMacro
  <2>. QED
    BY <1>1, <2>1 DEF ApplyMacro, ParseInv, MacrosOK, FramesOK, FrameOK, BufferOK, RecordOK
<1>3. CASE pc' = pc
  <2>1. /\ frames' = Append(next, new)
        /\ records' = IF Located(Pending) THEN Append(records, Pending) ELSE records
    BY <1>3 DEF ApplyMacro
  <2>2. BufferOK'
    <3>1. Located(Pending) \in BOOLEAN
      BY DEF Located
    <3>. QED
      BY <2>1, <3>1, PendingOK, BufferGrows DEF ParseInv, ApplyMacro
  <2>3. FrameOK(new)
    BY FrameIsOK DEF ApplyMacro, IsMacro, ParseInv
  <2>4. /\ IsList(next) /\ Len(next) = Len(frames) /\ next # <<>>
        /\ DOMAIN next = 1 .. Len(frames)
        /\ \A k \in DOMAIN next : FrameOK(next[k])
        /\ next[1].list = frames[1].list
    BY FreshOK, NextFrameOK DEF ApplyMacro
  <2>5. frames[1].list \in Range(program) /\ Len(frames) \in Nat \ {0}
    BY StatementOK DEF ParseInv, FramesOK, ApplyMacro
  <2>. HIDE DEF next, new
  <2>6. /\ IsList(frames') /\ DOMAIN frames' = 1 .. Len(frames) + 1
        /\ \A k \in DOMAIN frames' : frames'[k] = IF k = Len(frames) + 1 THEN new ELSE next[k]
    BY <2>1, <2>4, ListAppend
  <2>7. \A k \in DOMAIN frames' : FrameOK(frames'[k])
    BY <2>3, <2>4, <2>5, <2>6
  <2>8. frames'[1].list \in Range(program) /\ frames' # <<>>
    BY <2>4, <2>5, <2>6
  <2>9. FramesOK'
    BY <1>1, <2>6, <2>7, <2>8 DEF FramesOK, FrameOK, RecordOK, ApplyMacro
  <2>. QED
    BY <1>1, <1>3, <2>2, <2>9 DEF ParseInv, MacrosOK
<1>. QED
  BY <1>2, <1>3

LEMMA ParseInstrKeeps ==
    ASSUME ParseInv, ParseInstr PROVE ParseInv'
<1>. USE DEF ParseInstr, Parsing, passVars, auxVars
<1>1. SourcesOK' /\ MacrosOK'
  BY DEF ParseInv, SourcesOK, MacrosOK, Lists
<1>2. FramesOK'
  BY FreshOK, FramesGoOn
<1>3. BufferOK'
  <2>1. RecordOK([Pending EXCEPT !.m = Stmt.m, !.id = Stmt.id])
    BY PendingOK
  <2>2. records' = IF TRUE THEN Append(records, [Pending EXCEPT !.m = Stmt.m, !.id = Stmt.id])
                   ELSE records
    OBVIOUS
  <2>. QED
    BY <2>1, <2>2, BufferGrows DEF ParseInv
<1>. QED
  BY <1>1, <1>2, <1>3 DEF ParseInv, MacrosOK

LEMMA EndOfListKeeps ==
    ASSUME ParseInv, EndOfList PROVE ParseInv'
<1>. USE DEF EndOfList
<1>1. /\ MacrosOK' /\ Lists' = Lists
  BY DEF ParseInv, MacrosOK, Lists
<1>2. /\ IsList(frames) /\ frames # <<>> /\ \A k \in DOMAIN frames : FrameOK(frames[k])
      /\ frames[1].list \in Range(program)
  BY DEF ParseInv, FramesOK
<1>3. /\ Len(frames) \in Nat \ {0} /\ DOMAIN frames = 1 .. Len(frames)
      /\ IsList(frames') /\ Len(frames') = Len(frames) - 1
      /\ DOMAIN frames' = 1 .. Len(frames) - 1
      /\ \A k \in 1 .. Len(frames) - 1 : frames'[k] = frames[k]
  BY <1>2, ListParts
<1>4. \A k \in DOMAIN frames' : FrameOK(frames'[k])
  BY <1>2, <1>3
<1>5. /\ frames' # <<>> => frames'[1].list \in Range(program)
      /\ Len(frames) # 1 => frames' # <<>>
  <2>1. Len(frames') \in Nat /\ (frames' = <<>> <=> Len(frames') = 0)
    BY <1>3, ListBasics
  <2>. QED
    BY <1>2, <1>3, <2>1
<1>6. FramesOK'
  BY <1>1, <1>3, <1>4, <1>5 DEF FramesOK, FrameOK, RecordOK
<1>7. SourcesOK'
  BY DEF ParseInv, SourcesOK
<1>8. BufferOK'
  <2>1. IsList(homes')
    BY ListBasics DEF ParseInv, BufferOK
  <2>2. Len(records) \in Nat
    BY ListBasics DEF ParseInv, BufferOK
  <2>3. at' \in 1 .. Len(records) + 1
    BY <2>2 DEF ParseInv, BufferOK
  <2>. QED
    BY <2>1, <2>3 DEF ParseInv, BufferOK, RecordOK
<1>. QED
  BY <1>1, <1>6, <1>7, <1>8 DEF ParseInv, MacrosOK

(* The passes leave the parser's place as it is; the next source file begins *)
(* like the first.                                                           *)
LEMMA PassesKeep ==
    ASSUME ParseInv,
           ParseUnknown \/ PassOne \/ PassOneEnds \/ Locating \/ Assemble \/ AssembleFails
    PROVE  ParseInv'
<1>. USE DEF parseVars, passVars, auxVars
<1>1. UNCHANGED <<sources, frames, macros, records, program>>
  BY DEF ParseUnknown, PassOne, PassOneEnds, Locating, Assemble, AssembleFails
<1>2. /\ pc \in {"parse", "pass_one", "assemble"}
      /\ pc' = "parse" => pc = "parse"
      /\ pc' \in {"parse", "pass_one", "assemble", "done", "failed", "crashed"}
  BY DEF ParseUnknown, Parsing, PassOne, PassOneEnds, Locating, Assemble, AssembleFails
<1>3. MacrosOK' /\ SourcesOK' /\ FramesOK'
  BY <1>1, <1>2 DEF ParseInv, MacrosOK, SourcesOK, FramesOK, FrameOK, RecordOK, Lists
<1>4. IsList(homes) /\ at \in 1 .. Len(records) + 1 /\ Len(records) \in Nat
  BY ListBasics DEF ParseInv, BufferOK
<1>5. at' \in 1 .. Len(records) + 1
  BY <1>4 DEF ParseUnknown, PassOne, PassOneEnds, Locating, Assemble, AssembleFails
<1>6. IsList(homes')
  <2>1. homes' = homes \/ homes' = Append(homes, section.cursor)
    BY DEF ParseUnknown, PassOne, PassOneEnds, Locating, Assemble, AssembleFails
  <2>2. \A e : IsList(Append(homes, e))
    BY <1>4, ListAppend
  <2>. QED
    BY <1>4, <2>1, <2>2
<1>7. BufferOK'
  BY <1>1, <1>5, <1>6 DEF ParseInv, BufferOK, RecordOK
<1>. QED
  BY <1>2, <1>3, <1>7 DEF ParseInv, MacrosOK

LEMMA AssembleEndsKeeps ==
    ASSUME ParseInv, AssembleEnds PROVE ParseInv'
<1>. USE DEF AssembleEnds, passVars, auxVars
<1>1. MacrosOK' /\ BufferOK' /\ Lists' = Lists
  BY DEF ParseInv, MacrosOK, BufferOK, RecordOK, Lists
<1>2. /\ IsList(sources) /\ sources # <<>>
      /\ \A k \in DOMAIN sources : sources[k] \in Range(program)
  BY DEF ParseInv, SourcesOK
<1>3. /\ Len(sources) \in Nat \ {0} /\ DOMAIN sources = 1 .. Len(sources)
      /\ IsList(sources') /\ Len(sources') = Len(sources) - 1
      /\ DOMAIN sources' = 1 .. Len(sources) - 1
      /\ \A k \in 1 .. Len(sources) - 1 : sources'[k] = sources[k + 1]
  BY <1>2, ListParts
<1>4. \A k \in DOMAIN sources' : sources'[k] \in Range(program)
  BY <1>2, <1>3
<1>5. Len(sources) # 1 => sources' # <<>>
  <2>1. sources' = <<>> <=> Len(sources') = 0
    BY ONLY <1>3, ListBasics
  <2>. QED
    BY ONLY <1>3, <2>1
<1>6. SourcesOK'
  BY <1>3, <1>4, <1>5 DEF ParseInv, SourcesOK
<1>7. FramesOK'
  <2>1. CASE Len(sources) = 1
    BY <2>1, <1>1 DEF ParseInv, FramesOK, FrameOK, RecordOK
  <2>2. CASE Len(sources) # 1
    <3>. DEFINE new == Frame(Root, sources[2])
    <3>1. sources[2] \in Range(program)
      BY <1>2, <1>3, <2>2
    <3>2. sources[2] \in Lists
      BY <3>1 DEF Lists, ListsOf
    <3>3. FrameOK(new) /\ new.list = sources[2]
      BY <3>2, FrameIsOK DEF ParseInv
    <3>4. frames' = <<new>> /\ pc' = "parse"
      BY <2>2
    <3>. HIDE DEF new
    <3>5. /\ IsList(frames') /\ DOMAIN frames' = {1} /\ frames'[1] = new
          /\ frames' # <<>>
      BY <3>4, ListBasics
    <3>. QED
      BY <1>1, <3>1, <3>3, <3>4, <3>5 DEF FramesOK, FrameOK, RecordOK
  <2>. QED
    BY <2>1, <2>2
<1>. QED
  BY <1>1, <1>6, <1>7 DEF ParseInv, MacrosOK

LEMMA ParseInvStep ==
    ASSUME ParseInv, [Next]_vars PROVE ParseInv'
<1>. USE DEF vars, parseVars, passVars, auxVars
<1>1. CASE UNCHANGED vars
  BY <1>1 DEF ParseInv, SourcesOK, FramesOK, FrameOK, BufferOK, RecordOK, Lists
<1>2. CASE Terminated
  BY <1>1, <1>2 DEF Terminated
<1>. QED
  BY <1>1, <1>2, LocationsKeep, DefineMacroKeeps, ApplyMacroKeeps, ParseInstrKeeps,
     EndOfListKeeps, PassesKeep, AssembleEndsKeeps DEF Next

THEOREM Parsed == Spec => []ParseInv
<1>1. ParseInv /\ [Next]_vars => ParseInv'
  BY ParseInvStep
<1>. QED
  BY <1>1, ParseInvInit, PTL DEF Spec

-----------------------------------------------------------------------------
(* The two passes go over the same addresses.                                *)

SectionShape(s) ==
    s = [capacity |-> s.capacity, length |-> s.length, cursor |-> s.cursor,
         data |-> s.data]

(* Where a record begun at the cursor leaves it, if put_word() is content.   *)
NextCursor(cursor, r) ==
    LET place == IF r.org = NoOrg THEN cursor ELSE r.org
    IN  IF r.m = NoName THEN place ELSE Wrap(place + 1)

(* The place of the k-th record, given those of the records before it.       *)
PlaceOf(k) == IF k = 1 THEN saved ELSE NextCursor(homes[k - 1], records[k - 1])

Chained == \A k \in DOMAIN homes : homes[k] = PlaceOf(k)

AgreeInv ==
    /\ ParseInv
    /\ SectionShape(section)
    /\ ~complained /\ pc = "pass_one" =>
           Len(homes) = at - 1 /\ Chained /\ section.cursor = PlaceOf(at)
    /\ ~complained /\ pc = "assemble" =>
           Len(homes) = Len(records) /\ Chained /\ section.cursor = PlaceOf(at)

LEMMA PutWordMoves ==
    ASSUME NEW s, SectionShape(s), NEW word, NEW debug
    PROVE  /\ SectionShape(PutWord(s, word, debug))
           /\ PutResult(s) = "ok" => PutWord(s, word, debug).cursor = Wrap(s.cursor + 1)
<1>1. SectionShape(Grown(s)) /\ Grown(s).cursor = s.cursor
  <2>1. CASE s.cursor < s.capacity
    BY <2>1 DEF Grown
  <2>2. CASE ~(s.cursor < s.capacity)
    <3>1. \E c, d : Grown(s) = [s EXCEPT !.capacity = c, !.data = d]
      BY <2>2 DEF Grown
    <3>2. PICK c, d : Grown(s) = [s EXCEPT !.capacity = c, !.data = d]
      BY <3>1
    <3>. DEFINE t == [s EXCEPT !.capacity = c]
    <3>3. t = [capacity |-> c, length |-> s.length, cursor |-> s.cursor, data |-> s.data]
      BY DEF SectionShape
    <3>4. Grown(s) = [t EXCEPT !.data = d]
      BY <3>2
    <3>. HIDE DEF t
    <3>5. Grown(s) = [capacity |-> c, length |-> s.length, cursor |-> s.cursor, data |-> d]
      BY <3>3, <3>4
    <3>. QED
      BY <3>5 DEF SectionShape
  <2>. QED
    BY <2>1, <2>2
<1>2. CASE PutResult(s) = "ok"
  <2>1. PutWord(s, word, debug) = Filled(Grown(s), word, debug)
    BY <1>2, PutWordCases
  <2>. QED
    BY <1>1, <2>1 DEF Filled, SectionShape
<1>3. CASE PutResult(s) # "ok"
  BY <1>1, <1>3, PutWordCases
<1>. QED
  BY <1>2, <1>3

LEMMA PlacedShape ==
    ASSUME SectionShape(section)
    PROVE  /\ SectionShape(Placed)
           /\ Placed.cursor = IF Current.org = NoOrg THEN section.cursor ELSE Current.org
           /\ Placed.capacity = section.capacity /\ Placed.length = section.length
           /\ Placed.data = section.data
<1>1. CASE Current.org = NoOrg
  BY <1>1 DEF Placed
<1>2. CASE Current.org # NoOrg
  <2>1. Placed = [capacity |-> section.capacity, length |-> section.length,
                  cursor |-> Current.org, data |-> section.data]
    BY <1>2 DEF Placed, SectionShape
  <2>. QED
    BY <1>2, <2>1 DEF SectionShape
<1>. QED
  BY <1>1, <1>2

(* A record of either pass moves the cursor on, as long as nobody complains  *)
(* and the array has not been left.                                          *)
LEMMA RecordMoves ==
    ASSUME SectionShape(section), NEW word, NEW debug,
           \/ HasInstr /\ Put(word, debug)
           \/ ~HasInstr /\ section' = Placed /\ complained' = complained
    PROVE  /\ SectionShape(section')
           /\ ~complained' /\ ~(HasInstr /\ PutResult(Placed) = "wild") =>
                  section'.cursor = NextCursor(section.cursor, Current)
<1>1. CASE HasInstr /\ Put(word, debug)
  <2>1. section' = PutWord(Placed, word, debug) /\ SectionShape(section')
    BY <1>1, PlacedShape, PutWordMoves DEF Put
  <2>2. PutResult(Placed) \in {"ok", "wild", "EEXIST"}
    BY DEF PutResult
  <2>3. ~complained' => PutResult(Placed) # "EEXIST"
    BY <1>1 DEF Put
  <2>4. PutResult(Placed) = "ok" => section'.cursor = Wrap(Placed.cursor + 1)
    BY <2>1, PlacedShape, PutWordMoves
  <2>. QED
    BY <1>1, <2>1, <2>2, <2>3, <2>4, PlacedShape DEF NextCursor, HasInstr
<1>2. CASE ~HasInstr /\ section' = Placed
  BY <1>2, PlacedShape DEF NextCursor, HasInstr
<1>. QED
  BY <1>1, <1>2

LEMMA AgreeInit ==
    ASSUME Init PROVE AgreeInv
BY ParseInvInit DEF Init, AgreeInv, SectionShape, EmptySection

LEMMA PassOneAgrees ==
    ASSUME AgreeInv, PassOne PROVE AgreeInv'
<1>. USE DEF PassOne
<1>1. ParseInv /\ ParseInv'
  BY PassesKeep DEF AgreeInv
<1>2. /\ SectionShape(section')
      /\ ~complained' /\ pc' = "pass_one" =>
             section'.cursor = NextCursor(section.cursor, records[at])
  <2>1. \/ HasInstr /\ Put(0, NoDebug)
        \/ ~HasInstr /\ section' = Placed /\ complained' = complained
    OBVIOUS
  <2>. QED
    BY <2>1, RecordMoves DEF AgreeInv, Current
<1>3. ASSUME ~complained', pc' = "pass_one"
      PROVE  Len(homes') = at' - 1 /\ Chained' /\ section'.cursor = PlaceOf(at)'
  <2>1. ~complained
    BY <1>3 DEF Put
  <2>2. Len(homes) = at - 1 /\ Chained /\ section.cursor = PlaceOf(at)
    BY <2>1 DEF AgreeInv
  <2>3. IsList(homes) /\ at \in Nat \ {0}
    BY <1>1, ListBasics DEF ParseInv, BufferOK
  <2>4. /\ Len(homes') = Len(homes) + 1 /\ DOMAIN homes' = 1 .. Len(homes) + 1
        /\ \A k \in DOMAIN homes' :
               homes'[k] = IF k = Len(homes) + 1 THEN section.cursor ELSE homes[k]
        /\ DOMAIN homes = 1 .. Len(homes)
    BY <2>3, ListAppend, ListBasics
  <2>5. /\ at' = at + 1 /\ Len(homes') = at /\ DOMAIN homes' = 1 .. at
        /\ homes'[at] = section.cursor
        /\ \A k \in 1 .. at - 1 : homes'[k] = homes[k] /\ k \in DOMAIN homes
    BY <2>2, <2>3, <2>4
  <2>6. ASSUME NEW k \in 1 .. at PROVE PlaceOf(k)' = PlaceOf(k)
    <3>1. k = 1 \/ k - 1 \in 1 .. at - 1
      BY <2>3
    <3>. QED
      BY <2>5, <3>1 DEF PlaceOf, passVars
  <2>7. ASSUME NEW k \in DOMAIN homes' PROVE homes'[k] = PlaceOf(k)'
    <3>1. k \in 1 .. at /\ (k = at \/ k \in 1 .. at - 1)
      BY <2>3, <2>5
    <3>2. homes'[k] = PlaceOf(k)
      BY <2>2, <2>5, <3>1 DEF Chained
    <3>. QED
      BY <2>6, <3>1, <3>2
  <2>8. PlaceOf(at)' = section'.cursor
    <3>1. at' # 1 /\ at' - 1 = at
      BY <2>3, <2>5
    <3>2. PlaceOf(at)' = NextCursor(homes'[at], records'[at])
      BY <3>1 DEF PlaceOf
    <3>. QED
      BY <3>2, <2>5, <1>2, <1>3
  <2>. QED
    BY <2>3, <2>5, <2>7, <2>8 DEF Chained
<1>4. pc' # "assemble"
  OBVIOUS
<1>. QED
  BY <1>1, <1>2, <1>3, <1>4 DEF AgreeInv

(* In the second pass the places are there already.                          *)
LEMMA AssemblingAgrees ==
    ASSUME AgreeInv, Locating \/ Assemble PROVE AgreeInv'
<1>. USE DEF Locating, Assemble
<1>1. ParseInv /\ ParseInv'
  BY PassesKeep DEF AgreeInv
<1>2. /\ pc = "assemble" /\ at <= Len(records) /\ at' = at + 1
      /\ records' = records /\ homes' = homes /\ saved' = saved
      /\ pc' \in {"assemble", "failed", "crashed"}
  BY DEF parseVars, passVars, auxVars
<1>3. \E word, debug :
          \/ HasInstr /\ Put(word, debug)
          \/ ~HasInstr /\ section' = Placed /\ complained' = complained
  BY DEF auxVars
<1>4. /\ SectionShape(section')
      /\ ~complained' /\ ~(HasInstr /\ PutResult(Placed) = "wild") =>
             section'.cursor = NextCursor(section.cursor, records[at])
  BY <1>3, RecordMoves DEF AgreeInv, Current
<1>5. pc' = "assemble" => ~(HasInstr /\ PutResult(Placed) = "wild")
  BY <1>2
<1>6. ASSUME ~complained', pc' = "assemble"
      PROVE  Len(homes') = Len(records') /\ Chained' /\ section'.cursor = PlaceOf(at)'
  <2>1. ~complained
    BY <1>6 DEF Put, auxVars
  <2>2. Len(homes) = Len(records) /\ Chained /\ section.cursor = PlaceOf(at)
    BY <1>2, <2>1 DEF AgreeInv
  <2>3. at \in Nat \ {0} /\ DOMAIN homes = 1 .. Len(homes) /\ Len(records) \in Nat
    BY <1>1, ListBasics DEF ParseInv, BufferOK
  <2>4. homes[at] = section.cursor
    BY <1>2, <2>2, <2>3 DEF Chained
  <2>5. \A k : PlaceOf(k)' = IF k = 1 THEN saved
                             ELSE NextCursor(homes[k - 1], records[k - 1])
    BY <1>2 DEF PlaceOf
  <2>6. Chained'
    BY <1>2, <2>2 DEF Chained, PlaceOf
  <2>7. PlaceOf(at)' = NextCursor(homes[at], records[at])
    <3>1. at' # 1 /\ at' - 1 = at
      BY <1>2, <2>3
    <3>. QED
      BY <1>2, <3>1 DEF PlaceOf
  <2>. QED
    BY <1>2, <1>4, <1>5, <1>6, <2>2, <2>4, <2>6, <2>7
<1>. QED
  BY <1>1, <1>2, <1>4, <1>6 DEF AgreeInv

(* The other steps leave the section, or begin a pass.                       *)
LEMMA OthersAgree ==
    ASSUME AgreeInv,
           \/ ParseLabel \/ ParseOrg \/ DefineMacro \/ ApplyMacro \/ ParseInstr
           \/ ParseUnknown \/ EndOfList \/ AssembleFails \/ AssembleEnds
    PROVE  AgreeInv'
<1>. USE DEF parseVars, passVars, auxVars
<1>1. ParseInv'
  BY LocationsKeep, DefineMacroKeeps, ApplyMacroKeeps, ParseInstrKeeps, EndOfListKeeps,
     PassesKeep, AssembleEndsKeeps DEF AgreeInv
<1>2. CASE ~EndOfList
  <2>1. pc' # "assemble" /\ pc' # "pass_one" /\ SectionShape(section')
    BY <1>2, PlacedShape
       DEF AgreeInv, ParseLabel, ParseOrg, Locate, DefineMacro, ApplyMacro, ParseInstr,
           ParseUnknown, AssembleFails, AssembleEnds, Parsing
  <2>. QED
    BY <1>1, <2>1 DEF AgreeInv
<1>3. CASE EndOfList
  <2>1. SectionShape(section') /\ pc' # "assemble"
    BY <1>3 DEF EndOfList, AgreeInv
  <2>2. pc' = "pass_one" =>
            /\ homes' = <<>> /\ at' = 1 /\ saved' = section'.cursor
            /\ Len(homes') = 0 /\ DOMAIN homes' = {}
    BY <1>3, ListBasics DEF EndOfList
  <2>. QED
    BY <1>1, <2>1, <2>2 DEF AgreeInv, Chained, PlaceOf
<1>. QED
  BY <1>2, <1>3

LEMMA PassOneEndsAgrees ==
    ASSUME AgreeInv, PassOneEnds PROVE AgreeInv'
<1>. USE DEF PassOneEnds, parseVars, auxVars
<1>1. ParseInv'
  BY PassesKeep DEF AgreeInv
<1>2. SectionShape(section') /\ section'.cursor = saved
  BY DEF AgreeInv, SectionShape
<1>3. ~complained => Len(homes) = at - 1 /\ Chained
  BY DEF AgreeInv
<1>4. at = Len(records) + 1 /\ Len(records) \in Nat
  BY ListBasics DEF AgreeInv, ParseInv, BufferOK
<1>5. at' = 1 /\ PlaceOf(at)' = saved /\ (Chained' <=> Chained)
  BY DEF PlaceOf, Chained
<1>. QED
  BY <1>1, <1>2, <1>3, <1>4, <1>5 DEF AgreeInv

LEMMA AgreeStep ==
    ASSUME AgreeInv, [Next]_vars PROVE AgreeInv'
<1>1. CASE UNCHANGED vars
  <2>1. ParseInv'
    BY <1>1, ParseInvStep DEF AgreeInv
  <2>. QED
    BY <1>1, <2>1 DEF AgreeInv, vars, parseVars, passVars, auxVars, Chained, PlaceOf
<1>. QED
  BY <1>1, PassOneAgrees, PassOneEndsAgrees, AssemblingAgrees, OthersAgree
     DEF Next, Terminated

(* As long as put_word() has not refused a cell, the second pass comes to    *)
(* every record with the cursor where the first had it: what the sources     *)
(* are, however often the array grows and the cursor wraps, whatever the     *)
(* values of the operands.                                                   *)
THEOREM PassesAgreeAlways == Spec => []PassesAgree
<1>1. AgreeInv => PassesAgree
  <2>. SUFFICES ASSUME AgreeInv, pc = "assemble", at <= Len(records), ~complained
                PROVE  section.cursor = homes[at]
    BY DEF PassesAgree
  <2>1. Len(homes) = Len(records) /\ Chained /\ section.cursor = PlaceOf(at)
    BY DEF AgreeInv
  <2>2. at \in DOMAIN homes
    BY <2>1, ListBasics DEF AgreeInv, ParseInv, BufferOK
  <2>. QED
    BY <2>1, <2>2 DEF Chained
<1>2. AgreeInv /\ [Next]_vars => AgreeInv'
  BY AgreeStep
<1>. QED
  BY <1>1, <1>2, AgreeInit, PTL DEF Spec

-----------------------------------------------------------------------------
(* The section as the passes fill it in.                                     *)

SectionInv == ParseInv /\ ArrayOK(section) /\ saved \in Word

LEMMA MovedOK ==
    ASSUME NEW s, ArrayOK(s), NEW c \in Word
    PROVE  ArrayOK([s EXCEPT !.cursor = c])
<1>1. [s EXCEPT !.cursor = c] =
          [capacity |-> s.capacity, length |-> s.length, cursor |-> c, data |-> s.data]
  <2>1. SectionShape(s)
    BY DEF ArrayOK, SectionShape
  <2>. QED
    BY <2>1 DEF SectionShape
<1>. QED
  BY <1>1 DEF ArrayOK

LEMMA PlacedOK ==
    ASSUME SectionInv, at <= Len(records)
    PROVE  ArrayOK(Placed) /\ Placed.capacity = section.capacity /\ Placed.data = section.data
<1>1. RecordOK(Current)
  <2>1. /\ IsList(records) /\ at \in 1 .. Len(records) + 1
        /\ \A k \in DOMAIN records : RecordOK(records[k])
    BY DEF SectionInv, ParseInv, BufferOK
  <2>2. at \in DOMAIN records
    BY <2>1, ListBasics
  <2>. QED
    BY <2>1, <2>2 DEF Current
<1>2. Placed = section \/ (Current.org \in Word /\ Placed = [section EXCEPT !.cursor = Current.org])
  BY <1>1 DEF Placed, RecordOK
<1>3. SectionShape(section) /\ ArrayOK(section)
  BY DEF SectionInv, ArrayOK, SectionShape
<1>. QED
  BY <1>2, <1>3, MovedOK, PlacedShape

(* What a step does to the section: put_word() where the record belongs, or  *)
(* another cursor, or nothing.                                               *)
LEMMA SectionSteps ==
    ASSUME SectionInv, [Next]_vars
    PROVE  /\ saved' \in {saved, section.cursor}
           /\ \/ section' = section
              \/ section' = [section EXCEPT !.cursor = saved]
              \/ pc \in {"pass_one", "assemble"} /\ at <= Len(records) /\ section' = Placed
              \/ /\ pc \in {"pass_one", "assemble"} /\ at <= Len(records)
                 /\ \E word : \E debug \in {NoDebug, at} : section' = PutWord(Placed, word, debug)
<1>. USE DEF vars, parseVars, passVars, auxVars
<1>1. CASE PassOne \/ Assemble
  BY <1>1 DEF PassOne, Assemble, Put
<1>2. CASE PassOneEnds \/ Locating \/ AssembleFails
  BY <1>2 DEF PassOneEnds, Locating, AssembleFails
<1>3. CASE \/ ParseLabel \/ ParseOrg \/ DefineMacro \/ ApplyMacro \/ ParseInstr
           \/ ParseUnknown \/ EndOfList \/ AssembleEnds \/ Terminated \/ UNCHANGED vars
  BY <1>3 DEF ParseLabel, ParseOrg, Locate, DefineMacro, ApplyMacro, ParseInstr,
              ParseUnknown, EndOfList, AssembleEnds, Terminated
<1>. QED
  BY <1>1, <1>2, <1>3 DEF Next

LEMMA SectionStep ==
    ASSUME SectionInv, [Next]_vars
    PROVE  /\ SectionInv'
           /\ \A a \in DOMAIN section.data : section.data[a].debug # NoDebug =>
                  a \in DOMAIN section'.data /\ section'.data[a] = section.data[a]
<1>1. ParseInv' /\ saved' \in Word
  BY SectionSteps, ParseInvStep DEF SectionInv, ArrayOK
<1>2. ArrayOK(section) /\ SectionShape(section) /\ saved \in Word
  BY DEF SectionInv, ArrayOK, SectionShape
<1>3. DOMAIN section.data = 0 .. section.capacity - 1
  BY <1>2 DEF ArrayOK
<1>. DEFINE Kept == \A a \in DOMAIN section.data : section.data[a].debug # NoDebug =>
                        a \in DOMAIN section'.data /\ section'.data[a] = section.data[a]
<1>4. CASE section' = section
  BY <1>1, <1>2, <1>4 DEF SectionInv
<1>5. CASE section' = [section EXCEPT !.cursor = saved]
  <2>1. ArrayOK(section')
    BY <1>2, <1>5, MovedOK
  <2>2. section'.data = section.data
    BY <1>2, <1>5 DEF SectionShape
  <2>. QED
    BY <1>1, <2>1, <2>2 DEF SectionInv, ArrayOK
<1>6. CASE at <= Len(records) /\ section' = Placed
  <2>1. ArrayOK(section') /\ section'.data = section.data
    BY <1>6, PlacedOK
  <2>. QED
    BY <1>1, <2>1 DEF SectionInv, ArrayOK
<1>7. CASE /\ pc \in {"pass_one", "assemble"} /\ at <= Len(records)
           /\ \E word, debug : section' = PutWord(Placed, word, debug)
  <2>1. PICK word, debug : section' = PutWord(Placed, word, debug)
    BY <1>7
  <2>2. /\ ArrayOK(Placed)
        /\ Placed.capacity = section.capacity /\ Placed.data = section.data
    BY <1>7, PlacedOK
  <2>3. ArrayOK(section')
    BY <2>1, <2>2, PutWordKeepsArray
  <2>4. \A a \in 0 .. Placed.capacity - 1 : Placed.data[a].debug # NoDebug =>
            a \in DOMAIN section'.data /\ section'.data[a] = Placed.data[a]
    BY <2>1, <2>2, PutWordKeepsTakenCells
  <2>5. Kept
    BY <2>2, <2>4, <1>3
  <2>. QED
    BY <1>1, <2>3, <2>5 DEF SectionInv, ArrayOK
<1>. QED
  BY <1>4, <1>5, <1>6, <1>7, SectionSteps

(* From the empty section on, the array is as long as its capacity, holds    *)
(* all the words counted, and nothing lies beyond them.                      *)
THEOREM SectionInOrder == Spec => []SectionInv
<1>1. Init => SectionInv
  <2>. SUFFICES ASSUME Init PROVE SectionInv
    OBVIOUS
  <2>1. 0 \in Word
    BY WordsExist DEF Word
  <2>2. ArrayOK(EmptySection)
    BY <2>1 DEF ArrayOK, EmptySection
  <2>. QED
    BY <2>1, <2>2, ParseInvInit DEF SectionInv, Init
<1>2. SectionInv /\ [Next]_vars => SectionInv'
  BY SectionStep
<1>. QED
  BY <1>1, <1>2, PTL DEF Spec

(* A cell that an instruction has taken keeps its word, in either pass and   *)
(* from one source file to the next.                                         *)
THEOREM TakenKeptAlways == Spec => TakenKept
<1>. DEFINE Keeps == \A a \in DOMAIN section.data : section.data[a].debug # NoDebug =>
                         a \in DOMAIN section'.data /\ section'.data[a] = section.data[a]
<1>1. SectionInv /\ [Next]_vars => [Keeps]_vars
  BY SectionStep
<1>. QED
  BY <1>1, SectionInOrder, PTL DEF Spec, TakenKept

-----------------------------------------------------------------------------
(* What bas goes down on.                                                    *)

(* The number of the source that is being read.                              *)
Reading == Len(program) - Len(sources) + 1

SourcesAre ==
    /\ Len(sources) <= Len(program)
    /\ \A k \in DOMAIN sources : sources[k] = program[Reading + k - 1]

(* The macros are those defined before the j-th statement of a source.       *)
MacrosAre(p, j) ==
    /\ DOMAIN macros = NamesOf(MacrosBefore(p, j))
    /\ \A name \in DOMAIN macros :
           macros[name] \in MacrosBefore(p, j) /\ macros[name].name = name

Levels ==
    {level \in [NamesOf(AllMacros) -> 1 .. StackDepth - 1] :
        \A d \in AllMacros : \A s \in Range(d.body) :
            s.t = "instr" /\ s.m \in NamesOf(AllMacros) => level[s.m] < level[d.name]}

(* The outermost frame reads the source, all others the body of a macro that *)
(* the statement before applies; the higher the stack, the lower the level.  *)
PlaceAt(fs) ==
    /\ fs[1].list = program[Reading] /\ fs[1].i \in Nat \ {0}
    /\ MacrosAre(Reading, fs[1].i)
    /\ Len(fs) > 1 => fs[1].i > 1 /\ program[Reading][fs[1].i - 1].t = "instr"
    /\ \A k \in 2 .. Len(fs) : \E d \in MacrosBefore(Reading, fs[1].i) :
           /\ fs[k].list = d.body
           /\ \A level \in Levels : level[d.name] + k <= StackDepth + 1

Sound == UnknownUsed \/ DefinedInBody \/ ~Layered

CrashInv ==
    /\ SectionInv
    /\ pc \in {"parse", "pass_one", "assemble"} => SourcesAre
    /\ pc = "parse" => PlaceAt(frames)
    /\ pc \in {"pass_one", "assemble"} => frames = <<>> /\ MacrosAre(Reading + 1, 1)
    /\ pc = "crashed" => IF frames # <<>> THEN Sound ELSE ~Roomy(section)

LEMMA InBefore ==
    ASSUME NEW p, NEW j, NEW s
    PROVE  s \in Before(p, j) <=> \/ \E q \in 1 .. p - 1 : s \in Range(program[q])
                                 \/ \E i \in 1 .. j - 1 : s = program[p][i]
<1>. DEFINE A == UNION {Range(program[q]) : q \in 1 .. p - 1}
            B == {program[p][i] : i \in 1 .. j - 1}
<1>1. s \in A <=> \E q \in 1 .. p - 1 : s \in Range(program[q])
  OBVIOUS
<1>2. s \in B <=> \E i \in 1 .. j - 1 : s = program[p][i]
  OBVIOUS
<1>3. Before(p, j) = A \cup B
  BY DEF Before
<1>. HIDE DEF A, B
<1>. QED
  BY <1>1, <1>2, <1>3

(* One statement further.                                                    *)
LEMMA BeforeNext ==
    ASSUME NEW p \in DOMAIN program, NEW j \in DOMAIN program[p],
           IsList(program), IsList(program[p])
    PROVE  LET s == program[p][j]
               old == MacrosBefore(p, j)
           IN  /\ MacrosBefore(p, j + 1) = IF s.t = "macro" THEN old \cup {s} ELSE old
               /\ NamesOf(MacrosBefore(p, j + 1)) =
                      IF s.t = "macro" THEN NamesOf(old) \cup {s.name} ELSE NamesOf(old)
<1>1. j \in Nat \ {0} /\ DOMAIN program[p] = 1 .. Len(program[p])
  BY ListBasics
<1>2. 1 .. (j + 1) - 1 = (1 .. j - 1) \cup {j}
  BY <1>1
<1>3. \A s : s \in Before(p, j + 1) <=> s \in Before(p, j) \cup {program[p][j]}
  BY <1>2, InBefore
<1>4. MacrosBefore(p, j + 1) = IF program[p][j].t = "macro"
                               THEN MacrosBefore(p, j) \cup {program[p][j]}
                               ELSE MacrosBefore(p, j)
  BY <1>3 DEF MacrosBefore
<1>. QED
  BY <1>4 DEF NamesOf

(* The end of a source is the beginning of the next.                         *)
LEMMA BeforeSource ==
    ASSUME NEW p \in DOMAIN program, IsList(program), IsList(program[p])
    PROVE  MacrosBefore(p, Len(program[p]) + 1) = MacrosBefore(p + 1, 1)
<1>1. /\ p \in Nat \ {0} /\ Len(program[p]) \in Nat
      /\ DOMAIN program[p] = 1 .. Len(program[p])
  BY ListBasics
<1>2. 1 .. (Len(program[p]) + 1) - 1 = DOMAIN program[p]
  BY <1>1
<1>3. 1 .. (p + 1) - 1 = (1 .. p - 1) \cup {p} /\ 1 .. 1 - 1 = {}
  BY <1>1
<1>4. \A s : s \in Before(p, Len(program[p]) + 1) <=>
          \/ \E q \in 1 .. p - 1 : s \in Range(program[q])
          \/ s \in Range(program[p])
  BY <1>2, InBefore DEF Range
<1>5. \A s : s \in Before(p + 1, 1) <=>
          \/ \E q \in 1 .. p - 1 : s \in Range(program[q])
          \/ s \in Range(program[p])
  BY <1>3, InBefore
<1>. QED
  BY <1>4, <1>5 DEF MacrosBefore

LEMMA MacrosAreAll ==
    ASSUME NEW p \in Nat, p - 1 <= Len(program), IsList(program),
           NEW j \in Nat, j > 1 => p \in DOMAIN program /\ j - 1 <= Len(program[p]),
           \A q \in DOMAIN program : IsList(program[q])
    PROVE  MacrosBefore(p, j) \subseteq AllMacros
<1>. SUFFICES ASSUME NEW s \in MacrosBefore(p, j) PROVE s \in AllMacros
  OBVIOUS
<1>1. s \in Before(p, j) /\ s.t = "macro"
  BY DEF MacrosBefore
<1>2. DOMAIN program = 1 .. Len(program) /\ Len(program) \in Nat
  BY ListBasics
<1>3. \E q \in DOMAIN program : s \in Range(program[q])
  <2>1. CASE \E q \in 1 .. p - 1 : s \in Range(program[q])
    BY <1>2, <2>1
  <2>2. CASE \E i \in 1 .. j - 1 : s = program[p][i]
    <3>1. PICK i \in 1 .. j - 1 : s = program[p][i]
      BY <2>2
    <3>2. p \in DOMAIN program /\ i \in DOMAIN program[p]
      <4>1. p \in DOMAIN program /\ j - 1 <= Len(program[p])
        BY <3>1
      <4>2. DOMAIN program[p] = 1 .. Len(program[p]) /\ Len(program[p]) \in Nat
        BY <4>1, ListBasics
      <4>. QED
        BY <3>1, <4>1, <4>2
    <3>. QED
      BY <3>1, <3>2 DEF Range
  <2>. QED
    BY <1>1, <2>1, <2>2, InBefore
<1>4. PICK q \in DOMAIN program : s \in Range(program[q])
  BY <1>3
<1>5. program[q] \in Range(program) /\ s \in MacrosOf(program[q])
  BY <1>1, <1>4 DEF Range, MacrosOf
<1>. QED
  BY <1>5 DEF AllMacros

LEMMA ReadingOK ==
    ASSUME CrashInv, pc \in {"parse", "pass_one", "assemble"}
    PROVE  /\ IsList(program) /\ \A q \in DOMAIN program : IsList(program[q])
           /\ DOMAIN program = 1 .. Len(program) /\ Len(program) \in Nat
           /\ DOMAIN sources = 1 .. Len(sources) /\ Len(sources) \in Nat \ {0}
           /\ Len(sources) <= Len(program)
           /\ Reading \in DOMAIN program /\ Reading \in Nat \ {0}
<1>1. program \in Programs /\ IsList(sources) /\ sources # <<>>
  BY DEF CrashInv, SectionInv, ParseInv, SourcesOK
<1>2. IsList(program) /\ DOMAIN program = 1 .. Len(program) /\ Len(program) \in Nat
  BY <1>1, ProgramsAssumption, ListBasics
<1>3. ASSUME NEW q \in DOMAIN program PROVE IsList(program[q])
  <2>1. program[q] \in Range(program)
    BY DEF Range
  <2>2. program[q] \in ListsOf(program[q])
    BY DEF ListsOf
  <2>. QED
    BY <1>1, <2>1, <2>2, ProgramsAssumption
<1>4. DOMAIN sources = 1 .. Len(sources) /\ Len(sources) \in Nat \ {0}
  BY <1>1, ListParts
<1>5. Len(sources) <= Len(program)
  BY DEF CrashInv, SourcesAre
<1>6. Reading \in 1 .. Len(program)
  BY ONLY <1>2, <1>4, <1>5 DEF Reading
<1>. QED
  BY <1>2, <1>3, <1>4, <1>5, <1>6

(* The macros that can be applied are among those of the sources.            *)
LEMMA KnownMacros ==
    ASSUME CrashInv, pc = "parse"
    PROVE  /\ MacrosBefore(Reading, frames[1].i) \subseteq AllMacros
           /\ frames[1].i \in 1 .. Len(program[Reading]) + 1
           /\ frames[1].list = program[Reading]
           /\ Len(program[Reading]) \in Nat
<1>1. /\ frames # <<>> /\ IsList(frames) /\ \A k \in DOMAIN frames : FrameOK(frames[k])
  BY DEF CrashInv, SectionInv, ParseInv, FramesOK
<1>2. 1 \in DOMAIN frames
  BY <1>1, ListParts
<1>3. frames[1].list = program[Reading]
  BY DEF CrashInv, PlaceAt
<1>4. frames[1].i \in 1 .. Len(program[Reading]) + 1
  BY <1>1, <1>2, <1>3 DEF FrameOK
<1>5. /\ IsList(program) /\ \A q \in DOMAIN program : IsList(program[q])
      /\ Reading \in DOMAIN program /\ Reading \in Nat /\ Reading - 1 <= Len(program)
      /\ Len(program[Reading]) \in Nat
  BY ReadingOK, ListBasics
<1>6. frames[1].i \in Nat /\ frames[1].i - 1 <= Len(program[Reading])
  BY <1>4, <1>5
<1>. QED
  BY <1>3, <1>4, <1>5, <1>6, MacrosAreAll

(* The parser goes on to the next statement.                                 *)
LEMMA NextPlace ==
    ASSUME CrashInv, pc = "parse", Top.i <= Len(Top.list), Stmt.t # "macro",
           NEW r, RecordOK(r)
    PROVE  LET next == NextFrame(r)
           IN  /\ PlaceAt(next)
               /\ Len(frames) = 1 /\ Stmt.t = "instr" =>
                      next[1].i > 1 /\ program[Reading][next[1].i - 1].t = "instr"
               /\ \A k \in 1 .. Len(frames) : next[k].list = frames[k].list
<1>. DEFINE next == NextFrame(r)
            p == Reading
            i == frames[1].i
<1>1. ParseInv /\ PlaceAt(frames)
  BY DEF CrashInv, SectionInv
<1>2. /\ Len(next) = Len(frames) /\ DOMAIN next = 1 .. Len(frames)
      /\ next[1].list = frames[1].list
      /\ \A k \in DOMAIN next : k # Len(frames) => next[k] = frames[k]
      /\ next[Len(frames)] = [context |-> Top.context, list |-> Top.list,
                              i |-> Top.i + 1, pending |-> r]
  BY <1>1, NextFrameOK
<1>3. /\ Top = frames[Len(frames)] /\ Len(frames) \in Nat \ {0}
      /\ Top.i \in DOMAIN Top.list
  BY <1>1, StatementOK
<1>4. /\ next[Len(frames)].list = Top.list /\ next[Len(frames)].i = Top.i + 1
      /\ \A k \in 1 .. Len(frames) : next[k].list = frames[k].list
  BY <1>2, <1>3
<1>5. p \in DOMAIN program /\ IsList(program) /\ IsList(program[p])
  BY ReadingOK
<1>6. i \in Nat \ {0} /\ frames[1].list = program[p]
  BY <1>1 DEF PlaceAt
<1>. HIDE DEF next, p, i
<1>7. CASE Len(frames) = 1
  <2>1. /\ next[1].i = i + 1 /\ next[1].list = program[p] /\ i \in DOMAIN program[p]
        /\ Stmt = program[p][i] /\ Len(next) = 1
    BY <1>2, <1>3, <1>4, <1>6, <1>7 DEF Stmt, i
  <2>2. MacrosBefore(p, i + 1) = MacrosBefore(p, i)
    BY <1>5, <2>1, BeforeNext
  <2>3. MacrosAre(p, next[1].i)
    BY <1>1, <2>1, <2>2 DEF PlaceAt, MacrosAre, p, i
  <2>4. next[1].i \in Nat \ {0} /\ 2 .. Len(next) = {}
    BY <1>6, <2>1
  <2>5. PlaceAt(next)
    BY <2>1, <2>3, <2>4 DEF PlaceAt, p
  <2>6. next[1].i > 1 /\ next[1].i - 1 = i
    BY <1>6, <2>1
  <2>. QED
    BY <1>4, <2>1, <2>5, <2>6 DEF next, p
<1>8. CASE Len(frames) # 1
  <2>1. next[1] = frames[1]
    BY <1>2, <1>3, <1>8
  <2>2. \A k \in 2 .. Len(next) : next[k].list = frames[k].list
    BY <1>2, <1>3, <1>4
  <2>3. PlaceAt(next)
    BY <1>1, <1>2, <2>1, <2>2 DEF PlaceAt
  <2>. QED
    BY <1>4, <1>8, <2>3 DEF next
<1>. QED
  BY <1>7, <1>8

(* What only depends on the sources stays.                                   *)
LEMMA ProgramStays ==
    ASSUME program' = program
    PROVE  /\ Levels' = Levels /\ (Sound' <=> Sound)
           /\ \A p, j : MacrosBefore(p, j)' = MacrosBefore(p, j)
<1>1. AllMacros' = AllMacros
  BY DEF AllMacros, MacrosOf
<1>2. Levels' = Levels
  BY <1>1 DEF Levels, NamesOf
<1>3. \A p, j : MacrosBefore(p, j)' = MacrosBefore(p, j)
  BY DEF MacrosBefore, Before
<1>4. UnknownUsed' <=> UnknownUsed
  BY <1>3 DEF UnknownUsed, NamesOf
<1>5. (DefinedInBody' <=> DefinedInBody) /\ (Layered' <=> Layered)
  BY <1>1 DEF DefinedInBody, Layered, NamesOf, MacrosOf
<1>. QED
  BY <1>2, <1>3, <1>4, <1>5 DEF Sound

LEMMA PlaceStays ==
    ASSUME program' = program, sources' = sources, macros' = macros,
           PlaceAt(frames')
    PROVE  PlaceAt(frames)'
<1>1. Reading' = Reading /\ program'[Reading'] = program[Reading]
  BY DEF Reading
<1>2. \A p, j : MacrosAre(p, j)' <=> MacrosAre(p, j)
  BY ProgramStays DEF MacrosAre, NamesOf
<1>. QED
  BY <1>1, <1>2, ProgramStays DEF PlaceAt

LEMMA SourcesStay ==
    ASSUME SourcesAre, program' = program, sources' = sources
    PROVE  SourcesAre'
BY DEF SourcesAre, Reading

(* Everything that parse_stmts() does with one statement of a list, but for  *)
(* the definition and the application of macros.                             *)
LEMMA ParsingIsSound ==
    ASSUME CrashInv, SectionInv', ParseLabel \/ ParseOrg \/ ParseInstr
    PROVE  CrashInv'
<1>. USE DEF ParseLabel, ParseOrg, ParseInstr, Locate, Parsing
<1>1. /\ pc = "parse" /\ pc' = pc /\ Top.i <= Len(Top.list) /\ Stmt.t # "macro"
      /\ program' = program /\ sources' = sources /\ macros' = macros
  BY DEF auxVars
<1>2. \E r : RecordOK(r) /\ frames' = NextFrame(r)
  <2>1. Word # {} /\ (Stmt.t = "org" => Stmt.n \in Word)
    BY <1>1, WrapIsWord, StatementOK DEF CrashInv, SectionInv
  <2>. QED
    BY <2>1, FreshOK, LocatedRecordOK
<1>3. PlaceAt(frames')
  BY <1>1, <1>2, NextPlace
<1>4. PlaceAt(frames)' /\ SourcesAre'
  BY <1>1, <1>3, PlaceStays, SourcesStay DEF CrashInv
<1>. QED
  BY <1>1, <1>4 DEF CrashInv

(* Statements that are not known, of a source or of a body it may apply.     *)
LEMMA InSource ==
    ASSUME CrashInv, pc = "parse", Top.i <= Len(Top.list)
    PROVE  \/ /\ Len(frames) = 1 /\ Top.i \in DOMAIN program[Reading]
              /\ Top.i = frames[1].i /\ Stmt = program[Reading][Top.i]
           \/ /\ Len(frames) \in 2 .. Len(frames) /\ frames[1].i > 1
              /\ frames[1].i - 1 \in DOMAIN program[Reading]
              /\ program[Reading][frames[1].i - 1].t = "instr"
              /\ MacrosBefore(Reading, frames[1].i - 1) = MacrosBefore(Reading, frames[1].i)
              /\ \E d \in MacrosBefore(Reading, frames[1].i) :
                     /\ Stmt \in Range(d.body)
                     /\ \A level \in Levels : level[d.name] + Len(frames) <= StackDepth + 1
<1>1. /\ Top = frames[Len(frames)] /\ Len(frames) \in Nat \ {0}
      /\ Top.i \in DOMAIN Top.list /\ Stmt \in Range(Top.list)
  BY StatementOK DEF CrashInv, SectionInv
<1>2. PlaceAt(frames) /\ frames[1].list = program[Reading]
  BY DEF CrashInv, PlaceAt
<1>3. CASE Len(frames) = 1
  BY <1>1, <1>2, <1>3 DEF Stmt
<1>4. CASE Len(frames) # 1
  <2>1. Len(frames) \in 2 .. Len(frames) /\ Len(frames) > 1
    <3>1. \A n \in Nat \ {0} : n # 1 => n \in 2 .. n /\ n > 1
      OBVIOUS
    <3>. QED
      BY <1>1, <1>4, <3>1
  <2>2. frames[1].i > 1 /\ program[Reading][frames[1].i - 1].t = "instr"
    BY <1>2, <2>1 DEF PlaceAt
  <2>3. PICK d \in MacrosBefore(Reading, frames[1].i) :
            /\ Top.list = d.body
            /\ \A level \in Levels : level[d.name] + Len(frames) <= StackDepth + 1
    <3>1. \A k \in 2 .. Len(frames) : \E d \in MacrosBefore(Reading, frames[1].i) :
              /\ frames[k].list = d.body
              /\ \A level \in Levels : level[d.name] + k <= StackDepth + 1
      BY <1>2 DEF PlaceAt
    <3>. QED
      BY <1>1, <2>1, <3>1
  <2>4. /\ frames[1].i \in 1 .. Len(program[Reading]) + 1 /\ Len(program[Reading]) \in Nat
        /\ IsList(program) /\ IsList(program[Reading]) /\ Reading \in DOMAIN program
    BY KnownMacros, ReadingOK
  <2>5. frames[1].i - 1 \in DOMAIN program[Reading] /\ (frames[1].i - 1) + 1 = frames[1].i
    BY <2>2, <2>4, ListBasics
  <2>6. MacrosBefore(Reading, frames[1].i - 1) = MacrosBefore(Reading, frames[1].i)
    BY <2>2, <2>4, <2>5, BeforeNext
  <2>. QED
    BY <1>1, <2>1, <2>2, <2>3, <2>5, <2>6
<1>. QED
  BY <1>3, <1>4

LEMMA UnknownIsSound ==
    ASSUME CrashInv, SectionInv', ParseUnknown
    PROVE  CrashInv'
<1>1. /\ pc = "parse" /\ Top.i <= Len(Top.list) /\ Stmt.t = "instr" /\ pc' = "crashed"
      /\ Stmt.m \notin DOMAIN macros /\ Stmt.m \notin Mnemonics /\ program' = program
      /\ frames' # <<>>
  BY DEF ParseUnknown, Parsing, Known, IsMacro, parseVars, auxVars, CrashInv, SectionInv,
         ParseInv, FramesOK
<1>2. MacrosAre(Reading, frames[1].i) /\ Reading \in DOMAIN program
  BY <1>1, ReadingOK DEF CrashInv, PlaceAt
<1>3. Stmt.m \notin Mnemonics \cup NamesOf(MacrosBefore(Reading, frames[1].i))
  BY <1>1, <1>2 DEF MacrosAre
<1>4. UnknownUsed
  <2>1. CASE /\ Len(frames) = 1 /\ Top.i \in DOMAIN program[Reading]
             /\ Top.i = frames[1].i /\ Stmt = program[Reading][Top.i]
    BY <1>1, <1>2, <1>3, <2>1 DEF UnknownUsed
  <2>2. CASE /\ frames[1].i - 1 \in DOMAIN program[Reading]
             /\ program[Reading][frames[1].i - 1].t = "instr"
             /\ MacrosBefore(Reading, frames[1].i - 1) = MacrosBefore(Reading, frames[1].i)
             /\ \E d \in MacrosBefore(Reading, frames[1].i) : Stmt \in Range(d.body)
    <3>. DEFINE j == frames[1].i - 1
    <3>1. Stmt \in UNION {Range(d.body) : d \in MacrosBefore(Reading, j)}
      BY <2>2
    <3>2. Stmt.m \notin Mnemonics \cup NamesOf(MacrosBefore(Reading, j))
      BY <1>3, <2>2
    <3>. HIDE DEF j
    <3>. QED
      BY <1>1, <1>2, <2>2, <3>1, <3>2 DEF UnknownUsed, j
  <2>. QED
    BY <1>1, <2>1, <2>2, InSource
<1>. QED
  BY <1>1, <1>4, ProgramStays DEF CrashInv, Sound


LEMMA DefiningIsSound ==
    ASSUME CrashInv, SectionInv', DefineMacro
    PROVE  CrashInv'
<1>1. /\ pc = "parse" /\ Top.i <= Len(Top.list) /\ Stmt.t = "macro"
      /\ program' = program /\ sources' = sources
  BY DEF DefineMacro, Parsing, auxVars
<1>2. CASE Len(frames) = 1
  <2>1. /\ macros' = [name \in DOMAIN macros \cup {Stmt.name} |->
                         IF name = Stmt.name THEN Stmt ELSE macros[name]]
        /\ frames' = NextFrame(Pending) /\ pc' = pc
    BY <1>2 DEF DefineMacro
  <2>2. /\ Top.i \in DOMAIN program[Reading] /\ Top.i = frames[1].i
        /\ Stmt = program[Reading][Top.i]
    BY <1>1, <1>2, InSource
  <2>3. /\ frames'[1] = [context |-> Top.context, list |-> Top.list, i |-> Top.i + 1,
                         pending |-> Pending]
        /\ frames'[1].list = frames[1].list /\ Len(frames') = 1
    BY <1>1, <1>2, <2>1, NextFrameOK, PendingOK DEF CrashInv, SectionInv
  <2>4. frames'[1].i = Top.i + 1 /\ Top.i + 1 \in Nat \ {0} /\ 2 .. Len(frames') = {}
    <3>1. frames'[1].i = Top.i + 1
      BY <2>3
    <3>2. Top.i \in 1 .. Len(program[Reading]) + 1 /\ Len(program[Reading]) \in Nat
      BY <1>1, <2>2, KnownMacros
    <3>. QED
      BY <2>3, <3>1, <3>2
  <2>5. Reading \in DOMAIN program /\ IsList(program) /\ IsList(program[Reading])
    BY <1>1, ReadingOK
  <2>. DEFINE old == MacrosBefore(Reading, Top.i)
              new == MacrosBefore(Reading, Top.i + 1)
  <2>6. new = old \cup {Stmt} /\ NamesOf(new) = NamesOf(old) \cup {Stmt.name}
    BY <1>1, <2>2, <2>5, BeforeNext
  <2>7. MacrosAre(Reading, Top.i)
    BY <1>1, <2>2 DEF CrashInv, PlaceAt
  <2>8. DOMAIN macros' = NamesOf(new)
    BY <2>1, <2>6, <2>7 DEF MacrosAre
  <2>9. \A name \in DOMAIN macros' : macros'[name] \in new /\ macros'[name].name = name
    BY <2>1, <2>6, <2>7 DEF MacrosAre
  <2>10. \A p, j : MacrosAre(p, j)' <=>
             /\ DOMAIN macros' = NamesOf(MacrosBefore(p, j))
             /\ \A name \in DOMAIN macros' :
                    macros'[name] \in MacrosBefore(p, j) /\ macros'[name].name = name
    BY <1>1, ProgramStays DEF MacrosAre, NamesOf
  <2>11. Reading' = Reading
    BY <1>1 DEF Reading
  <2>12. PlaceAt(frames)'
    <3>1. frames'[1].list = program'[Reading']
      BY <1>1, <2>3, <2>11 DEF CrashInv, PlaceAt
    <3>2. MacrosAre(Reading, frames[1].i)'
      BY <2>4, <2>8, <2>9, <2>10, <2>11
    <3>. QED
      BY <2>3, <2>4, <3>1, <3>2 DEF PlaceAt
  <2>. QED
    BY <1>1, <2>1, <2>12, SourcesStay DEF CrashInv
<1>3. CASE Len(frames) # 1
  <2>1. pc' = "crashed" /\ frames' # <<>>
    BY <1>1, <1>3 DEF DefineMacro, CrashInv, SectionInv, ParseInv, FramesOK
  <2>2. PICK d \in MacrosBefore(Reading, frames[1].i) : Stmt \in Range(d.body)
    BY <1>1, <1>3, InSource
  <2>3. d \in AllMacros
    BY <1>1, KnownMacros
  <2>4. Stmt \in MacrosOf(d.body)
    BY <1>1, <2>2 DEF MacrosOf
  <2>5. DefinedInBody
    BY <2>3, <2>4 DEF DefinedInBody
  <2>. QED
    BY <1>1, <2>1, <2>5, ProgramStays DEF CrashInv, Sound
<1>. QED
  BY <1>2, <1>3

(* What a macro applies is on a lower level than the macro itself.           *)
LEMMA Lower ==
    ASSUME CrashInv, pc = "parse", Top.i <= Len(Top.list), Stmt.t = "instr",
           Stmt.m \in DOMAIN macros, NEW level \in Levels
    PROVE  /\ level[Stmt.m] \in 1 .. StackDepth - 1
           /\ level[Stmt.m] + Len(frames) <= StackDepth
<1>1. StackDepth \in Nat \ {0}
  BY StackDepthAssumption
<1>2. MacrosBefore(Reading, frames[1].i) \subseteq AllMacros
  BY KnownMacros
<1>3. Stmt.m \in NamesOf(AllMacros)
  <2>1. macros[Stmt.m] \in MacrosBefore(Reading, frames[1].i) /\ macros[Stmt.m].name = Stmt.m
    BY DEF CrashInv, PlaceAt, MacrosAre
  <2>. QED
    BY <1>2, <2>1 DEF NamesOf
<1>4. \A name \in NamesOf(AllMacros) : level[name] \in 1 .. StackDepth - 1
  BY DEF Levels
<1>5. CASE Len(frames) = 1
  BY <1>1, <1>3, <1>4, <1>5
<1>6. CASE Len(frames) # 1
  <2>1. Len(frames) \in Nat
    BY StatementOK DEF CrashInv, SectionInv
  <2>2. PICK d \in MacrosBefore(Reading, frames[1].i) :
            Stmt \in Range(d.body) /\ level[d.name] + Len(frames) <= StackDepth + 1
    BY <1>6, InSource
  <2>3. d \in AllMacros /\ d.name \in NamesOf(AllMacros)
    BY <1>2 DEF NamesOf
  <2>4. level[Stmt.m] < level[d.name]
    BY <1>3, <2>2, <2>3 DEF Levels
  <2>5. level[Stmt.m] \in Nat /\ level[d.name] \in Nat
    BY <1>1, <1>3, <1>4, <2>3
  <2>. QED
    BY <1>1, <1>3, <1>4, <2>1, <2>2, <2>4, <2>5
<1>. QED
  BY <1>5, <1>6

LEMMA LayeredHasLevels == Layered => Levels # {}
BY DEF Layered, Levels

LEMMA ApplyingIsSound ==
    ASSUME CrashInv, SectionInv', ApplyMacro
    PROVE  CrashInv'
<1>. DEFINE next == NextFrame(Fresh(Top.context))
            new == Frame(NewContext, macros[Stmt.m].body)
<1>1. /\ pc = "parse" /\ Top.i <= Len(Top.list) /\ Stmt.t = "instr"
      /\ Stmt.m \in DOMAIN macros
      /\ program' = program /\ sources' = sources /\ macros' = macros
  BY DEF ApplyMacro, Parsing, IsMacro, auxVars
<1>2. \/ pc' = "failed"
      \/ pc' = "crashed" /\ frames' # <<>> /\ Len(frames) = StackDepth
      \/ pc' = "parse" /\ frames' = Append(next, new)
  <2>1. frames # <<>>
    BY <1>1 DEF CrashInv, SectionInv, ParseInv, FramesOK
  <2>. QED
    BY <1>1, <2>1 DEF ApplyMacro
<1>3. ASSUME NEW level \in Levels
      PROVE  /\ level[Stmt.m] \in 1 .. StackDepth - 1
             /\ level[Stmt.m] + Len(frames) <= StackDepth
  BY <1>1, Lower
<1>4. StackDepth \in Nat /\ Len(frames) \in Nat \ {0}
  BY <1>1, StatementOK, StackDepthAssumption DEF CrashInv, SectionInv
<1>5. CASE pc' = "failed"
  BY <1>1, <1>5 DEF CrashInv
<1>6. CASE pc' = "crashed" /\ frames' # <<>> /\ Len(frames) = StackDepth
  <2>1. ~Layered
    BY <1>3, <1>4, <1>6, LayeredHasLevels
  <2>. QED
    BY <1>1, <1>6, <2>1, ProgramStays DEF CrashInv, Sound
<1>7. CASE pc' = "parse" /\ frames' = Append(next, new)
  <2>1. /\ PlaceAt(next)
        /\ Len(frames) = 1 =>
               next[1].i > 1 /\ program[Reading][next[1].i - 1].t = "instr"
    BY <1>1, FreshOK, NextPlace
  <2>2. IsList(next) /\ Len(next) = Len(frames)
    BY <1>1, FreshOK, NextFrameOK DEF CrashInv, SectionInv
  <2>. DEFINE d == macros[Stmt.m]
  <2>3. d \in MacrosBefore(Reading, next[1].i) /\ d.name = Stmt.m
    BY <1>1, <2>1 DEF PlaceAt, MacrosAre
  <2>4. new.list = d.body
    BY DEF Frame
  <2>. HIDE DEF next, new, d
  <2>5. /\ Len(frames') = Len(frames) + 1 /\ DOMAIN frames' = 1 .. Len(frames) + 1
        /\ \A k \in DOMAIN frames' : frames'[k] = IF k = Len(frames) + 1 THEN new ELSE next[k]
    BY <1>7, <2>2, ListAppend
  <2>6. frames'[1] = next[1]
    BY <1>4, <2>5
  <2>7. frames'[1].i > 1 /\ program[Reading][frames'[1].i - 1].t = "instr"
    <3>1. Len(next) = 1 \/ Len(next) > 1
      BY <1>4, <2>2
    <3>. QED
      BY <2>1, <2>2, <2>6, <3>1 DEF PlaceAt
  <2>8. ASSUME NEW k \in 2 .. Len(frames')
        PROVE  \E e \in MacrosBefore(Reading, frames'[1].i) :
                   /\ frames'[k].list = e.body
                   /\ \A level \in Levels : level[e.name] + k <= StackDepth + 1
    <3>1. CASE k = Len(frames) + 1
      <4>1. ASSUME NEW level \in Levels PROVE level[d.name] + k <= StackDepth + 1
        <5>1. level[d.name] \in Nat /\ level[d.name] + Len(frames) <= StackDepth
          BY <1>3, <1>4, <2>3
        <5>. QED
          BY <1>4, <3>1, <5>1
      <4>2. frames'[k].list = d.body
        BY <1>4, <2>4, <2>5, <3>1
      <4>. QED
        BY <2>3, <2>6, <4>1, <4>2
    <3>2. CASE k # Len(frames) + 1
      <4>1. k \in 2 .. Len(next) /\ k \in DOMAIN frames'
        BY <1>4, <2>2, <2>5, <3>2
      <4>2. frames'[k] = next[k]
        BY <2>5, <3>2, <4>1
      <4>. QED
        BY <2>1, <2>6, <4>1, <4>2 DEF PlaceAt
    <3>. QED
      BY <3>1, <3>2
  <2>9. PlaceAt(frames')
    BY <2>1, <2>6, <2>7, <2>8 DEF PlaceAt
  <2>10. PlaceAt(frames)' /\ SourcesAre'
    BY <1>1, <2>9, PlaceStays, SourcesStay DEF CrashInv
  <2>. QED
    BY <1>7, <2>10 DEF CrashInv
<1>. QED
  BY <1>2, <1>5, <1>6, <1>7

LEMMA MacrosStay ==
    ASSUME program' = program, sources' = sources, macros' = macros
    PROVE  MacrosAre(Reading + 1, 1) => MacrosAre(Reading + 1, 1)'
<1>1. Reading' = Reading
  BY DEF Reading
<1>2. \A p, j : MacrosAre(p, j)' <=> MacrosAre(p, j)
  BY ProgramStays DEF MacrosAre, NamesOf
<1>. QED
  BY <1>1, <1>2

LEMMA EndOfListIsSound ==
    ASSUME CrashInv, SectionInv', EndOfList
    PROVE  CrashInv'
<1>. USE DEF EndOfList
<1>1. /\ pc = "parse" /\ program' = program /\ sources' = sources /\ macros' = macros
      /\ frames' = Front(frames) /\ Top.i > Len(Top.list)
  OBVIOUS
<1>2. SourcesAre' /\ PlaceAt(frames)
  BY <1>1, SourcesStay DEF CrashInv
<1>3. /\ IsList(frames) /\ frames # <<>> /\ Len(frames) \in Nat \ {0}
      /\ Top = frames[Len(frames)]
      /\ Len(frames') = Len(frames) - 1
      /\ \A k \in 1 .. Len(frames) - 1 : frames'[k] = frames[k]
  <2>1. IsList(frames) /\ frames # <<>>
    BY DEF CrashInv, SectionInv, ParseInv, FramesOK
  <2>. QED
    BY <1>1, <2>1, ListParts DEF Top
<1>4. CASE Len(frames) = 1
  <2>1. pc' = "pass_one" /\ frames' = <<>>
    <3>1. Front(frames) = SubSeq(frames, 1, 0)
      BY <1>4 DEF Front
    <3>2. Front(frames) = <<>>
      BY <1>3, <3>1
    <3>. QED
      BY <1>1, <1>4, <3>2
  <2>2. /\ Reading \in DOMAIN program /\ IsList(program) /\ IsList(program[Reading])
        /\ frames[1].list = program[Reading] /\ Len(program[Reading]) \in Nat
        /\ frames[1].i \in 1 .. Len(program[Reading]) + 1
    BY ReadingOK, KnownMacros
  <2>3. frames[1].i = Len(program[Reading]) + 1
    BY <1>1, <1>3, <1>4, <2>2
  <2>4. MacrosBefore(Reading, frames[1].i) = MacrosBefore(Reading + 1, 1)
    BY <2>2, <2>3, BeforeSource
  <2>5. MacrosAre(Reading + 1, 1)
    BY <1>2, <2>4 DEF PlaceAt, MacrosAre
  <2>. QED
    BY <1>1, <1>2, <2>1, <2>5, MacrosStay DEF CrashInv
<1>5. CASE Len(frames) # 1
  <2>1. pc' = "parse"
    BY <1>1, <1>5
  <2>2. frames'[1] = frames[1] /\ Len(frames') \in Nat
    BY <1>3, <1>5
  <2>3. \A k \in 2 .. Len(frames') : k \in 2 .. Len(frames) /\ frames'[k] = frames[k]
    BY <1>3
  <2>4. Len(frames') > 1 => Len(frames) > 1
    BY <1>3
  <2>5. PlaceAt(frames')
    BY <1>2, <2>2, <2>3, <2>4 DEF PlaceAt
  <2>. QED
    BY <1>1, <1>2, <2>1, <2>5, PlaceStays DEF CrashInv
<1>. QED
  BY <1>4, <1>5

(* The passes go on, unless put_word() leaves the array, which it does with  *)
(* no room above the cursor only.                                            *)
LEMMA PassesAreSound ==
    ASSUME CrashInv, SectionInv',
           PassOne \/ PassOneEnds \/ Locating \/ Assemble \/ AssembleFails
    PROVE  CrashInv'
<1>. USE DEF parseVars, passVars, auxVars
<1>1. /\ pc \in {"pass_one", "assemble"}
      /\ program' = program /\ sources' = sources /\ macros' = macros
      /\ pc' # "parse" /\ frames' = <<>>
  BY DEF PassOne, PassOneEnds, Locating, Assemble, AssembleFails, CrashInv
<1>2. pc' = "crashed" => ~Roomy(section')
  <2>1. CASE PassOne \/ Assemble
    <3>1. at <= Len(records) /\ ArrayOK(Placed)
      BY <2>1, PlacedOK DEF CrashInv, PassOne, Assemble
    <3>2. pc' = "crashed" => PutResult(Placed) = "wild" /\ HasInstr
      BY <2>1 DEF PassOne, Assemble
    <3>3. HasInstr => \E word, debug : section' = PutWord(Placed, word, debug)
      BY <2>1 DEF PassOne, Assemble, Put
    <3>4. pc' = "crashed" => section' = Placed
      BY <3>2, <3>3, PutWordCases
    <3>. QED
      BY <3>1, <3>2, <3>4, PutWordInBounds
  <2>2. CASE PassOneEnds \/ Locating \/ AssembleFails
    BY <2>2 DEF PassOneEnds, Locating, AssembleFails
  <2>. QED
    BY <2>1, <2>2
<1>3. SourcesAre' /\ MacrosAre(Reading + 1, 1)'
  BY <1>1, SourcesStay, MacrosStay DEF CrashInv
<1>4. ~Roomy(section') => (~Roomy(section))'
  BY DEF Roomy
<1>. QED
  BY <1>1, <1>2, <1>3, <1>4 DEF CrashInv

LEMMA NextSourceIsSound ==
    ASSUME CrashInv, SectionInv', AssembleEnds
    PROVE  CrashInv'
<1>. USE DEF AssembleEnds
<1>1. /\ pc = "assemble" /\ program' = program /\ macros' = macros
      /\ sources' = Tail(sources)
  BY DEF auxVars
<1>2. /\ IsList(sources) /\ sources # <<>> /\ SourcesAre
      /\ MacrosAre(Reading + 1, 1)
  BY DEF CrashInv, SectionInv, ParseInv, SourcesOK
<1>3. /\ Len(sources) \in Nat \ {0} /\ DOMAIN sources = 1 .. Len(sources)
      /\ Len(sources') = Len(sources) - 1 /\ DOMAIN sources' = 1 .. Len(sources) - 1
      /\ \A k \in 1 .. Len(sources) - 1 : sources'[k] = sources[k + 1]
      /\ Len(program) \in Nat
  BY <1>1, <1>2, ListParts, ReadingOK
<1>4. Reading' = Reading + 1
  BY <1>1, <1>3 DEF Reading
<1>5. SourcesAre'
  <2>1. ASSUME NEW k \in 1 .. Len(sources) - 1
        PROVE  sources'[k] = program[(Reading + 1) + k - 1]
    <3>1. k + 1 \in DOMAIN sources /\ Reading + (k + 1) - 1 = (Reading + 1) + k - 1
      BY <1>3 DEF Reading
    <3>2. sources[k + 1] = program[Reading + (k + 1) - 1]
      BY <1>2, <3>1 DEF SourcesAre
    <3>. QED
      BY <1>3, <3>1, <3>2
  <2>2. Len(sources') <= Len(program)
    BY <1>2, <1>3 DEF SourcesAre
  <2>. QED
    BY <1>1, <1>3, <1>4, <2>1, <2>2 DEF SourcesAre
<1>6. CASE Len(sources) = 1
  BY <1>5, <1>6 DEF CrashInv
<1>7. CASE Len(sources) # 1
  <2>1. pc' = "parse" /\ frames' = <<Frame(Root, sources[2])>>
    BY <1>7
  <2>2. sources[2] = program[Reading + 1]
    <3>1. 2 \in DOMAIN sources /\ Reading + 2 - 1 = Reading + 1
      BY <1>3, <1>7 DEF Reading
    <3>. QED
      BY <1>2, <3>1 DEF SourcesAre
  <2>3. /\ frames'[1].list = program[Reading + 1] /\ frames'[1].i = 1 /\ Len(frames') = 1
        /\ 2 .. Len(frames') = {}
    BY <2>1, <2>2 DEF Frame
  <2>4. \A p, j : MacrosAre(p, j)' <=> MacrosAre(p, j)
    BY <1>1, ProgramStays DEF MacrosAre, NamesOf
  <2>5. PlaceAt(frames)'
    <3>1. MacrosAre(Reading, frames[1].i)'
      BY <1>2, <1>4, <2>3, <2>4
    <3>. QED
      BY <1>1, <1>4, <2>3, <3>1 DEF PlaceAt
  <2>. QED
    BY <1>5, <2>1, <2>5 DEF CrashInv
<1>. QED
  BY <1>6, <1>7

LEMMA CrashInit ==
    ASSUME Init, SectionInv PROVE CrashInv
<1>. USE DEF Init
<1>1. program \in Programs /\ IsList(program) /\ program # <<>>
  BY ProgramsAssumption
<1>2. Len(program) \in Nat \ {0} /\ DOMAIN program = 1 .. Len(program)
      /\ Head(program) = program[1]
  BY <1>1, ListParts
<1>3. Reading = 1 /\ SourcesAre
  BY <1>2 DEF Reading, SourcesAre
<1>4. /\ frames[1].list = program[1] /\ frames[1].i = 1 /\ Len(frames) = 1
      /\ 2 .. Len(frames) = {}
  BY <1>2 DEF Frame
<1>5. Before(1, 1) = {}
  BY InBefore
<1>6. MacrosAre(1, 1)
  BY <1>5 DEF MacrosAre, MacrosBefore, NamesOf
<1>. QED
  BY <1>3, <1>4, <1>6 DEF CrashInv, PlaceAt

LEMMA CrashStep ==
    ASSUME CrashInv, [Next]_vars PROVE CrashInv'
<1>1. SectionInv'
  BY SectionStep DEF CrashInv
<1>2. CASE UNCHANGED vars
  <2>1. /\ program' = program /\ sources' = sources /\ macros' = macros
        /\ frames' = frames /\ pc' = pc /\ section' = section
    BY <1>2 DEF vars, parseVars, passVars, auxVars
  <2>2. pc = "parse" => PlaceAt(frames)'
    BY <2>1, PlaceStays DEF CrashInv
  <2>3. Roomy(section)' <=> Roomy(section)
    BY <2>1 DEF Roomy
  <2>. QED
    BY <1>1, <2>1, <2>2, <2>3, ProgramStays, SourcesStay, MacrosStay DEF CrashInv
<1>. QED
  BY <1>1, <1>2, ParsingIsSound, UnknownIsSound, DefiningIsSound, ApplyingIsSound,
     EndOfListIsSound, PassesAreSound, NextSourceIsSound DEF Next, Terminated

(* parse_stmts() goes down on no source but those that use a mnemonic before *)
(* it is known, define a macro in a macro, or whose macros cannot be given   *)
(* levels below the depth of the stack; and the passes only with a word to   *)
(* put less than GrowBy cells from the last address: however many source     *)
(* files there are, and whatever eval_expr() does.                           *)
THEOREM CrashesOnlyAlways == Spec => []CrashesOnly
<1>1. Init /\ SectionInv => CrashInv
  BY CrashInit
<1>2. CrashInv /\ [Next]_vars => CrashInv'
  BY CrashStep
<1>3. CrashInv => CrashesOnly
  BY DEF CrashInv, CrashesOnly, Sound
<1>. QED
  BY <1>1, <1>2, <1>3, SectionInOrder, PTL DEF Spec

-----------------------------------------------------------------------------
(* The index of lines.                                                       *)

(* Every step of the listing is one of the assembler's or leaves it alone.   *)
LinesOK ==
    /\ IsList(lines) /\ Len(lines) = Len(frames)
    /\ \A k \in DOMAIN frames : lines[k] \in Nat /\ (frames[k].i > 1 => lines[k] # 0)

IndexInv ==
    /\ ParseInv
    /\ Len(sources) <= 1
    /\ IndexOK(index)
    /\ LinesOK
    /\ overrun => /\ pc = "parse" /\ Top.i <= Len(Top.list)
                  /\ Line > index.lines + IndexSize

(* The line of the k-th statement of the source, and none before the first.  *)
LineOf(k) == IF k < 1 THEN 0 ELSE Place(program[1][k]).line

(* In a source without macros the line with "a" is that of the statement     *)
(* before, or of the one before that if a location is pending, which is then *)
(* the statement before.                                                     *)
Expecting ==
    LET i == frames[1].i
        r == frames[1].pending
    IN  /\ r.id = 0
        /\ Located(r) => i > 1 /\ program[1][i - 1].t \in {"label", "org"}
        /\ i = 1 => records = <<>>
        /\ i > 1 => \/ lines[1] = LineOf(i - 1)
                    \/ i > 2 /\ Located(r) /\ lines[1] = LineOf(i - 2)

PlainInv ==
    Plain =>
        /\ DOMAIN macros = {} /\ Len(frames) <= 1
        /\ pc = "parse" => Expecting
        /\ Spaced =>
               /\ ~overrun
               /\ pc = "parse" /\ frames[1].i > 1 /\ seekable =>
                      lines[1] <= index.lines + IndexSize

LEMMA NotedKeepsOrder ==
    ASSUME NEW x, IndexOK(x), NEW line \in Nat \ {0}, InBounds(x, line), NEW place
    PROVE  /\ IndexOK(Noted(x, line, place))
           /\ Noted(x, line, place).lines \in Nat
           /\ line <= Noted(x, line, place).lines
           /\ x.lines <= Noted(x, line, place).lines
<1>. DEFINE y == ForLine(x, line)
            z == Noted(x, line, place)
<1>1. /\ y = [lines |-> y.lines, size |-> y.size, entries |-> y.entries]
      /\ y.lines \in Nat /\ line <= y.lines /\ x.lines <= y.lines
      /\ y.lines = line \/ y.lines = x.lines
      /\ y.size \in Nat /\ x.size <= y.size
      /\ DOMAIN y.entries = 1 .. y.size
  BY ForLineShape
<1>2. line <= y.size /\ z = [y EXCEPT !.entries[line] = place]
  BY DEF InBounds, Noted
<1>3. x.lines <= x.size /\ IndexSize <= x.size /\ x.lines \in Nat /\ x.size \in Nat
  BY DEF IndexOK
<1>4. y.lines <= y.size /\ IndexSize <= y.size
  BY <1>1, <1>2, <1>3, IndexAssumption
<1>. HIDE DEF y, z
<1>5. z = [lines |-> y.lines, size |-> y.size, entries |-> [y.entries EXCEPT ![line] = place]]
  BY <1>1, <1>2
<1>. QED
  BY <1>1, <1>4, <1>5 DEF IndexOK, z

LEMMA ListingIsNext ==
    ASSUME [ListingNext]_allVars PROVE [Next]_vars
BY DEF ListingNext, allVars, Listed, Overrun, ListEnds, Quietly, ListWord, Finished, Next

Parse == \/ ParseLabel \/ ParseOrg \/ DefineMacro
         \/ ApplyMacro \/ ParseInstr \/ ParseUnknown

(* The frames that parse_stmts() leaves.                                     *)
LEMMA ParseFrames ==
    ASSUME ParseInv, Parse
    PROVE  /\ pc = "parse" /\ Top.i <= Len(Top.list)
           /\ program' = program /\ sources' = sources
           /\ \/ frames' = frames /\ pc' # "parse"
              \/ \E r : RecordOK(r) /\ frames' = NextFrame(r)
              \/ \E r, c, list : RecordOK(r) /\ frames' = Append(NextFrame(r), Frame(c, list))
<1>. USE DEF auxVars, parseVars
<1>1. pc = "parse" /\ Top.i <= Len(Top.list) /\ program' = program /\ sources' = sources
  BY DEF Parse, ParseLabel, ParseOrg, DefineMacro, ApplyMacro, ParseInstr, ParseUnknown,
         Locate, Parsing
<1>2. RecordOK(Pending) /\ \A c : RecordOK(Fresh(c))
  BY <1>1, PendingOK, FreshOK
<1>3. CASE ParseLabel \/ ParseOrg \/ ParseInstr
  <2>1. Word # {} /\ (Stmt.t = "org" => Stmt.n \in Word)
    BY <1>1, WrapIsWord, StatementOK
  <2>. QED
    BY <1>1, <1>2, <1>3, <2>1, LocatedRecordOK
       DEF ParseLabel, ParseOrg, ParseInstr, Locate, Parsing
<1>4. CASE DefineMacro \/ ParseUnknown
  BY <1>1, <1>2, <1>4 DEF DefineMacro, ParseUnknown
<1>5. CASE ApplyMacro
  BY <1>1, <1>2, <1>5 DEF ApplyMacro
<1>. QED
  BY <1>1, <1>3, <1>4, <1>5 DEF Parse

LEMMA LineExists ==
    ASSUME IndexInv, pc = "parse", Top.i <= Len(Top.list)
    PROVE  /\ Place(Stmt).line \in Nat \ {0} /\ Line \in Nat \ {0}
           /\ Line = IF Top.i = 1 THEN Place(Stmt).line ELSE lines[Len(frames)]
<1>1. Place(Stmt).line \in Nat \ {0}
  <2>1. PICK source \in Range(program) : Stmt \in StatementsOf(source)
    BY StatementOK DEF IndexInv
  <2>2. program \in Programs /\ Len(program) = 1 /\ IsList(program)
    BY ProgramsAssumption, PlacesAssumption DEF IndexInv, ParseInv, SourcesOK
  <2>3. DOMAIN program = 1 .. 1
    BY <2>2, ListBasics
  <2>4. source = program[1]
    BY <2>1, <2>3 DEF Range
  <2>. QED
    BY <2>1, <2>2, <2>4, PlacesAssumption DEF Place
<1>2. /\ Top = frames[Len(frames)] /\ Len(frames) \in DOMAIN frames
      /\ Len(frames) \in Nat \ {0} /\ Top.i \in DOMAIN Top.list /\ FrameOK(Top)
  BY StatementOK DEF IndexInv
<1>3. /\ Len(lines) = Len(frames) /\ lines # <<>> /\ Last(lines) = lines[Len(frames)]
  BY <1>2, ListBasics, ListParts DEF IndexInv, LinesOK
<1>4. lines[Len(frames)] \in Nat /\ (Top.i > 1 => lines[Len(frames)] # 0)
  BY <1>2 DEF IndexInv, LinesOK
<1>5. Top.i \in Nat \ {0}
  <2>1. IsList(Top.list)
    BY <1>2, ProgramsAssumption DEF FrameOK, Lists, IndexInv, ParseInv, SourcesOK
  <2>. QED
    BY <1>2, <2>1, ListBasics
<1>. QED
  BY <1>1, <1>3, <1>4, <1>5 DEF Line

(* The lines stay with the frames.                                           *)
LEMMA LinesFollow ==
    ASSUME IndexInv, Parse, PushLine
    PROVE  LinesOK'
<1>. DEFINE v == IF Len(records') > Len(records) THEN Place(Stmt).line ELSE Line
            own == [lines EXCEPT ![Len(lines)] = v]
            n == Len(frames)
<1>1. v \in Nat \ {0}
  BY ParseFrames, LineExists DEF IndexInv
<1>2. /\ n \in Nat \ {0} /\ DOMAIN frames = 1 .. n
      /\ IsList(lines) /\ Len(lines) = n /\ DOMAIN lines = 1 .. n
      /\ \A k \in 1 .. n : lines[k] \in Nat /\ (frames[k].i > 1 => lines[k] # 0)
  BY ParseFrames, StatementOK, ListBasics DEF IndexInv, LinesOK
<1>3. n \in 1 .. Len(lines)
  <2>1. \A m \in Nat \ {0} : m \in 1 .. m
    OBVIOUS
  <2>. QED
    BY <1>2, <2>1
<1>4. lines' = IF Len(frames') > n THEN Append(own, 0) ELSE own
  BY DEF PushLine
<1>. HIDE DEF v
<1>5. own = [lines EXCEPT ![n] = v]
  BY <1>2
<1>. HIDE DEF own
<1>6. /\ IsList(own) /\ Len(own) = n /\ DOMAIN own = 1 .. n
      /\ \A k \in 1 .. n : own[k] = IF k = n THEN v ELSE lines[k]
  BY <1>2, <1>3, <1>5, ListUpdate
<1>7. \A k \in 1 .. n : own[k] \in Nat /\ (k = n => own[k] # 0)
  BY <1>1, <1>2, <1>6
<1>8. CASE frames' = frames
  <2>1. lines' = own
    BY <1>2, <1>4, <1>8
  <2>2. \A k \in 1 .. n : frames[k].i > 1 => own[k] # 0
    BY <1>2, <1>6, <1>7
  <2>. QED
    BY <1>2, <1>6, <1>7, <1>8, <2>1, <2>2 DEF LinesOK
<1>9. ASSUME NEW r, RecordOK(r)
      PROVE  LET next == NextFrame(r)
             IN  /\ IsList(next) /\ Len(next) = n /\ DOMAIN next = 1 .. n
                 /\ \A k \in 1 .. n : k # n => next[k] = frames[k]
                 /\ \A k \in 1 .. n : next[k].i > 1 => own[k] # 0
  <2>1. /\ IsList(NextFrame(r)) /\ Len(NextFrame(r)) = n /\ DOMAIN NextFrame(r) = 1 .. n
        /\ \A k \in 1 .. n : k # n => NextFrame(r)[k] = frames[k]
    BY <1>9, ParseFrames, NextFrameOK DEF IndexInv
  <2>2. \A k \in 1 .. n : NextFrame(r)[k].i > 1 => own[k] # 0
    BY <1>2, <1>6, <1>7, <2>1
  <2>. QED
    BY <2>1, <2>2
<1>10. ASSUME NEW r, RecordOK(r), frames' = NextFrame(r) PROVE LinesOK'
  <2>1. /\ Len(frames') = n /\ DOMAIN frames' = 1 .. n
        /\ \A k \in 1 .. n : frames'[k].i > 1 => own[k] # 0
    BY <1>9, <1>10
  <2>2. lines' = own
    BY <1>2, <1>4, <2>1
  <2>. QED
    BY <1>6, <1>7, <2>1, <2>2 DEF LinesOK
<1>11. ASSUME NEW r, NEW c, NEW list, RecordOK(r),
              frames' = Append(NextFrame(r), Frame(c, list))
       PROVE  LinesOK'
  <2>. DEFINE next == NextFrame(r)
  <2>1. /\ IsList(next) /\ Len(next) = n /\ DOMAIN next = 1 .. n
        /\ \A k \in 1 .. n : next[k].i > 1 => own[k] # 0
    BY <1>9, <1>11
  <2>2. Frame(c, list).i = 1
    BY DEF Frame
  <2>. HIDE DEF next
  <2>3. frames' = Append(next, Frame(c, list))
    BY <1>11 DEF next
  <2>4. /\ Len(frames') = n + 1 /\ DOMAIN frames' = 1 .. n + 1
        /\ \A k \in 1 .. n + 1 :
               frames'[k] = IF k = n + 1 THEN Frame(c, list) ELSE next[k]
    BY ONLY <2>1, <2>3, ListAppend
  <2>5. lines' = Append(own, 0)
    BY <1>2, <1>4, <2>4
  <2>6. /\ IsList(lines') /\ Len(lines') = n + 1
        /\ \A k \in 1 .. n + 1 : lines'[k] = IF k = n + 1 THEN 0 ELSE own[k]
    <3>1. IsList(own) /\ Len(own) = n
      BY <1>6
    <3>2. LET l == Append(own, 0)
          IN  /\ IsList(l) /\ Len(l) = n + 1 /\ DOMAIN l = 1 .. n + 1
              /\ \A k \in DOMAIN l : l[k] = IF k = n + 1 THEN 0 ELSE own[k]
      BY ONLY <3>1, ListAppend
    <3>. QED
      BY <2>5, <3>2
  <2>7. \A k \in 1 .. n + 1 : lines'[k] \in Nat /\ (frames'[k].i > 1 => lines'[k] # 0)
    <3>1. \A m \in Nat : \A k \in 1 .. m + 1 : k = m + 1 \/ (k # m + 1 /\ k \in 1 .. m)
      OBVIOUS
    <3>. HIDE DEF n
    <3>2. SUFFICES ASSUME NEW k \in 1 .. n + 1
                   PROVE  lines'[k] \in Nat /\ (frames'[k].i > 1 => lines'[k] # 0)
      OBVIOUS
    <3>3. k = n + 1 \/ (k # n + 1 /\ k \in 1 .. n)
      BY <1>2, <3>1
    <3>4. CASE k = n + 1
      BY <2>2, <2>4, <2>6, <3>4
    <3>5. CASE k # n + 1 /\ k \in 1 .. n
      BY <1>7, <2>1, <2>4, <2>6, <3>5
    <3>. QED
      BY <3>3, <3>4, <3>5
  <2>. QED
    BY <2>4, <2>6, <2>7 DEF LinesOK
<1>. QED
  BY <1>8, <1>10, <1>11, ParseFrames DEF IndexInv

LEMMA ListedKeepsIndex ==
    ASSUME IndexInv, Listed(ParseLabel) \/ Listed(ParseOrg) \/ Listed(DefineMacro)
           \/ Listed(ApplyMacro) \/ Listed(ParseInstr) \/ Listed(ParseUnknown)
    PROVE  IndexInv'
<1>1. /\ Parse /\ PushLine /\ NoteLine /\ ~overrun /\ overrun' = overrun
      /\ seekable => InBounds(index, Line)
  BY DEF Listed, Parse
<1>2. [Next]_vars
  BY <1>1 DEF Parse, Next
<1>3. ParseInv'
  BY <1>2, ParseInvStep DEF IndexInv
<1>4. LinesOK'
  BY <1>1, LinesFollow
<1>5. Len(sources') <= 1
  BY <1>1, ParseFrames DEF IndexInv
<1>6. IndexOK(index')
  <2>1. Line \in Nat \ {0}
    BY <1>1, ParseFrames, LineExists DEF IndexInv
  <2>2. IndexOK(index)
    BY DEF IndexInv
  <2>. QED
    BY <1>1, <2>1, <2>2, NotedKeepsOrder DEF NoteLine
<1>. QED
  BY <1>1, <1>3, <1>4, <1>5, <1>6 DEF IndexInv, IndexOK

LEMMA EndKeepsIndex ==
    ASSUME IndexInv, ListEnds PROVE IndexInv'
<1>. USE DEF ListEnds, EndOfList
<1>1. ParseInv'
  BY ParseInvStep DEF IndexInv, Next
<1>2. /\ IsList(frames) /\ frames # <<>> /\ FrameOK(Top)
      /\ IsList(lines) /\ Len(lines) = Len(frames)
  <2>1. IsList(frames) /\ frames # <<>> /\ \A k \in DOMAIN frames : FrameOK(frames[k])
    BY DEF IndexInv, ParseInv, FramesOK
  <2>2. FrameOK(Top)
    BY <2>1, ListParts DEF Top
  <2>. QED
    BY <2>1, <2>2 DEF IndexInv, LinesOK
<1>3. ~overrun
  <2>1. IsList(Top.list)
    BY <1>2, ProgramsAssumption DEF FrameOK, Lists, IndexInv, ParseInv, SourcesOK
  <2>2. Len(Top.list) \in Nat /\ Top.i \in 1 .. Len(Top.list) + 1
    BY <1>2, <2>1, ListBasics DEF FrameOK
  <2>3. ~(Top.i <= Len(Top.list))
    BY <2>2
  <2>. QED
    BY <2>3 DEF IndexInv
<1>4. /\ Len(frames) \in Nat \ {0} /\ DOMAIN frames = 1 .. Len(frames)
      /\ IsList(frames') /\ Len(frames') = Len(frames) - 1
      /\ DOMAIN frames' = 1 .. Len(frames) - 1
      /\ \A k \in 1 .. Len(frames) - 1 : frames'[k] = frames[k]
  BY <1>2, ListParts
<1>5. lines # <<>>
  BY <1>2, <1>4, ListBasics
<1>6. /\ IsList(lines') /\ Len(lines') = Len(frames) - 1
      /\ \A k \in 1 .. Len(frames) - 1 : lines'[k] = lines[k]
  BY <1>2, <1>5, ListParts
<1>7. \A k \in 1 .. Len(frames) - 1 : k \in DOMAIN frames
  BY <1>4
<1>8. LinesOK'
  BY <1>4, <1>6, <1>7 DEF LinesOK, IndexInv
<1>9. Len(sources') <= 1 /\ IndexOK(index') /\ ~overrun'
  BY <1>3 DEF IndexInv
<1>. QED
  BY <1>1, <1>8, <1>9 DEF IndexInv, IndexOK

LEMMA OverrunKeepsIndex ==
    ASSUME IndexInv, Overrun PROVE IndexInv'
<1>. USE DEF Overrun
<1>1. pc = "parse" /\ Top.i <= Len(Top.list) /\ Line \in Nat \ {0} /\ IndexOK(index)
  BY LineExists DEF IndexInv
<1>2. index.lines \in Nat
  BY <1>1 DEF IndexOK
<1>3. ~(Line <= index.lines + IndexSize)
  BY <1>1, NotedInBounds
<1>4. Line > index.lines + IndexSize
  BY <1>1, <1>2, <1>3, IndexAssumption
<1>5. ParseInv'
  BY ParseInvStep DEF IndexInv
<1>6. UNCHANGED <<pc, sources, frames, index, lines>>
  BY DEF vars, parseVars
<1>. QED
  BY <1>1, <1>4, <1>5, <1>6 DEF IndexInv, LinesOK, IndexOK, Line, Top, Stmt

(* Neither the passes nor the listing touch the lines.                       *)
LEMMA QuietKeepsIndex ==
    ASSUME IndexInv,
           \/ Quietly(PassOne) \/ Quietly(PassOneEnds) \/ Quietly(Locating)
           \/ Quietly(Assemble) \/ Quietly(AssembleFails) \/ Quietly(AssembleEnds)
           \/ ListWord \/ Finished \/ UNCHANGED allVars
    PROVE  IndexInv'
<1>. USE DEF Quietly, listVars, placeVars, parseVars, passVars, auxVars, vars, allVars
<1>1. ParseInv'
  BY ParseInvStep, ListingIsNext DEF IndexInv, ListingNext
<1>2. UNCHANGED <<index, lines, overrun>>
  BY DEF ListWord, Finished
<1>3. CASE AssembleEnds
  <2>1. sources # <<>> /\ IsList(sources) /\ ~overrun
    BY <1>3 DEF AssembleEnds, IndexInv, ParseInv, SourcesOK
  <2>2. /\ Len(sources) \in Nat \ {0} /\ Len(sources') = Len(sources) - 1
        /\ Len(sources) <= 1
    BY <1>3, <2>1, ListParts DEF AssembleEnds, IndexInv
  <2>3. Len(sources) = 1 /\ Len(sources') <= 1
    BY <2>2
  <2>4. frames' = frames
    BY <1>3, <2>3 DEF AssembleEnds
  <2>. QED
    BY <1>1, <1>2, <2>1, <2>3, <2>4 DEF IndexInv, LinesOK, IndexOK
<1>4. CASE PassOne \/ PassOneEnds \/ Locating \/ Assemble \/ AssembleFails
  <2>1. pc # "parse" /\ sources' = sources /\ frames' = frames
    BY <1>4 DEF PassOne, PassOneEnds, Locating, Assemble, AssembleFails
  <2>. QED
    BY <1>1, <1>2, <2>1 DEF IndexInv, LinesOK, IndexOK
<1>5. CASE ListWord \/ Finished \/ UNCHANGED allVars
  <2>1. UNCHANGED <<pc, sources, frames>>
    BY <1>5 DEF ListWord, Finished
  <2>. QED
    BY <1>1, <1>2, <2>1 DEF IndexInv, LinesOK, IndexOK, Line, Top, Stmt
<1>. QED
  BY <1>3, <1>4, <1>5

LEMMA IndexStep ==
    ASSUME IndexInv, [ListingNext]_allVars PROVE IndexInv'
BY ListedKeepsIndex, EndKeepsIndex, OverrunKeepsIndex, QuietKeepsIndex DEF ListingNext

LEMMA IndexInit ==
    ASSUME ListingInit PROVE IndexInv
<1>. USE DEF ListingInit
<1>1. ParseInv /\ program \in Programs /\ sources = program
  BY ParseInvInit DEF Init
<1>2. Len(sources) <= 1
  <2>1. Len(program) = 1
    BY <1>1, PlacesAssumption
  <2>2. Len(sources) = 1
    BY ONLY <1>1, <2>1
  <2>. QED
    BY ONLY <2>2
<1>3. IndexOK(index)
  BY EmptyIsOK
<1>4. Len(frames) = 1 /\ DOMAIN frames = {1} /\ frames[1].i = 1
  BY DEF Init, Frame
<1>5. LinesOK
  BY <1>4, ListBasics DEF LinesOK
<1>. QED
  BY <1>1, <1>2, <1>3, <1>5 DEF IndexInv

(* In a source without macros there is one frame, for the source.            *)
LEMMA OneFrame ==
    ASSUME IndexInv, PlainInv, Plain, pc = "parse", Top.i <= Len(Top.list)
    PROVE  /\ Len(frames) = 1 /\ Top = frames[1] /\ Top.list = program[1]
           /\ Stmt = program[1][Top.i] /\ Stmt.t # "macro" /\ Top.i \in Nat \ {0}
           /\ Top.i \in DOMAIN program[1] /\ Head(program) = program[1]
           /\ Stmt.t = "label" => Stmt.name # NoName
           /\ DOMAIN frames = 1 .. 1 /\ DOMAIN lines = 1 .. 1 /\ Len(lines) = 1
<1>1. /\ Top = frames[Len(frames)] /\ Len(frames) \in Nat \ {0} /\ Top.i \in DOMAIN Top.list
      /\ DOMAIN frames = 1 .. Len(frames)
      /\ \E source \in Range(program) : Stmt \in StatementsOf(source)
  BY StatementOK DEF IndexInv
<1>2. Len(frames) = 1 /\ Len(lines) = 1
  BY <1>1 DEF PlainInv, IndexInv, LinesOK
<1>3. /\ program \in Programs /\ IsList(program) /\ Len(program) = 1
      /\ frames[1].list \in Range(program) /\ IsList(lines)
  BY <1>1, ProgramsAssumption, PlacesAssumption, ListBasics
     DEF IndexInv, ParseInv, SourcesOK, FramesOK, LinesOK
<1>4. DOMAIN program = 1 .. 1 /\ DOMAIN lines = 1 .. 1 /\ program # <<>>
  <2>1. \A l : IsList(l) /\ Len(l) = 1 => DOMAIN l = 1 .. 1 /\ l # <<>>
    BY ONLY ListBasics
  <2>. QED
    BY <1>2, <1>3, <2>1
<1>5. Range(program) = {program[1]} /\ Head(program) = program[1]
  <2>1. \A x : x \in 1 .. 1 <=> x = 1
    OBVIOUS
  <2>2. Range(program) = {program[1]}
    BY <1>4, <2>1 DEF Range
  <2>. QED
    BY <1>3, <1>4, <2>2, ListParts
<1>6. Stmt \in StatementsOf(program[1])
  BY <1>1, <1>5
<1>7. Stmt.t # "macro"
  BY <1>5, <1>6 DEF Plain, Statements
<1>8. Stmt.t = "label" => Stmt.name # NoName
  BY <1>3, <1>5, <1>6, ProgramsAssumption
<1>9. program[1] \in Range(program) /\ program[1] \in ListsOf(program[1])
  BY <1>5 DEF ListsOf
<1>10. IsList(program[1])
  BY <1>3, <1>9, ProgramsAssumption
<1>11. Top.list = program[1] /\ Top = frames[1] /\ Top.i \in Nat \ {0}
  BY <1>1, <1>2, <1>3, <1>5, <1>10, ListBasics
<1>. QED
  BY <1>1, <1>2, <1>4, <1>5, <1>7, <1>8, <1>11 DEF Stmt

(* The line is that of one of the two statements before, or, of the first,   *)
(* its own; it never overruns the index of a source that is spaced.          *)
LEMMA LineLags ==
    ASSUME IndexInv, PlainInv, Plain, pc = "parse", Top.i <= Len(Top.list)
    PROVE  /\ Line = IF Top.i = 1 THEN LineOf(1) ELSE lines[1]
           /\ Line \in Nat \ {0}
           /\ Top.i > 1 => \/ Line = LineOf(Top.i - 1)
                           \/ Top.i > 2 /\ Located(Pending) /\ Line = LineOf(Top.i - 2)
           /\ LineOf(Top.i) = Place(Stmt).line /\ LineOf(Top.i) \in Nat \ {0}
           /\ Spaced => /\ LineOf(Top.i) <= Line + IndexSize
                        /\ seekable => Line <= index.lines + IndexSize
<1>1. /\ Len(frames) = 1 /\ Top = frames[1] /\ Stmt = program[1][Top.i]
      /\ Top.i \in Nat \ {0} /\ Top.i \in DOMAIN program[1] /\ Head(program) = program[1]
  BY OneFrame
<1>2. /\ Place(Stmt).line \in Nat \ {0} /\ Line \in Nat \ {0}
      /\ Line = IF Top.i = 1 THEN Place(Stmt).line ELSE lines[1]
  BY <1>1, LineExists
<1>3. LineOf(Top.i) = Place(Stmt).line
  BY <1>1 DEF LineOf
<1>4. Top.i > 1 => \/ Line = LineOf(Top.i - 1)
                   \/ Top.i > 2 /\ Located(Pending) /\ Line = LineOf(Top.i - 2)
  BY <1>1, <1>2 DEF PlainInv, Expecting, Pending
<1>5. Spaced /\ Top.i > 1 => (seekable => Line <= index.lines + IndexSize)
  BY <1>1, <1>2 DEF PlainInv
<1>6. Spaced => \A j \in {Top.i - 1, Top.i - 2} : LineOf(Top.i) <= LineOf(j) + IndexSize
  BY <1>1 DEF Spaced, LineOf
<1>7. index.lines \in Nat /\ IndexSize \in Nat
  BY IndexAssumption DEF IndexInv, IndexOK
<1>8. CASE Top.i = 1
  <2>1. LineOf(Top.i - 1) = 0
    BY <1>8 DEF LineOf
  <2>2. Spaced => LineOf(Top.i) <= 0 + IndexSize
    BY <1>6, <2>1
  <2>. QED
    BY <1>2, <1>3, <1>7, <1>8, <2>2
<1>9. CASE Top.i # 1
  <2>1. Top.i > 1 /\ Line = lines[1]
    BY <1>1, <1>2, <1>9
  <2>. QED
    BY <1>2, <1>3, <1>4, <1>5, <1>6, <1>9, <2>1
<1>. QED
  BY <1>8, <1>9

LEMMA PlainStays ==
    ASSUME program' = program
    PROVE  /\ (Plain' <=> Plain) /\ (Spaced' <=> Spaced)
           /\ \A k : LineOf(k)' = LineOf(k)
BY DEF Plain, Statements, StatementsOf, ListsOf, MacrosOf, Spaced, LineOf, Place

LEMMA ExpectingStays ==
    ASSUME UNCHANGED <<program, frames, lines, records>> PROVE Expecting' <=> Expecting
BY PlainStays DEF Expecting, Located

LEMMA LocatedNow ==
    ASSUME NEW c, NEW name, name # NoName, NEW n \in Word
    PROVE  Located([Fresh(c) EXCEPT !.label = name]) /\ Located([Fresh(c) EXCEPT !.org = n])
<1>1. n # NoOrg
  BY WordIsNat DEF NoOrg
<1>2. [Fresh(c) EXCEPT !.label = name].label = name /\ [Fresh(c) EXCEPT !.org = n].org = n
  BY DEF Fresh
<1>. QED
  BY <1>1, <1>2 DEF Located

(* A statement that is no macro, nor applies one: it pushes a record, or a   *)
(* location is pending that was not before.                                  *)
Pushed(e) ==
    /\ records' = Append(records, e)
    /\ e.id = 0 \/ (Stmt.t = "instr" /\ e.id = Stmt.id)
    /\ Stmt.t = "instr" \/ Located(Pending)
Awaited(r) == records' = records /\ Located(r) /\ ~Located(Pending)

LEMMA PlainStatement ==
    ASSUME IndexInv, PlainInv, Plain, ParseLabel \/ ParseOrg \/ ParseInstr
    PROVE  /\ pc = "parse" /\ pc' = pc /\ Top.i <= Len(Top.list)
           /\ program' = program /\ macros' = macros
           /\ \E r : /\ RecordOK(r) /\ frames' = NextFrame(r) /\ r.id = 0
                     /\ IF Stmt.t = "instr" THEN ~Located(r)
                        ELSE Located(r) /\ Stmt.t \in {"label", "org"}
                     /\ (\E e : Pushed(e)) \/ Awaited(r)
<1>1. pc = "parse" /\ pc' = pc /\ Top.i <= Len(Top.list) /\ program' = program /\ macros' = macros
  BY DEF ParseLabel, ParseOrg, ParseInstr, Parsing, Locate, auxVars
<1>2. Pending.id = 0 /\ RecordOK(Pending)
  BY <1>1, OneFrame, PendingOK DEF IndexInv, PlainInv, Expecting, Pending
<1>3. Stmt.t = "label" => Stmt.name # NoName
  BY <1>1, OneFrame
<1>4. Word # {} /\ (Stmt.t = "org" => Stmt.n \in Word)
  BY <1>1, WrapIsWord, StatementOK DEF IndexInv
<1>5. ASSUME NEW r, Located(r), Locate(r)
      PROVE  frames' = NextFrame(r) /\ ((\E e : Pushed(e)) \/ Awaited(r))
  <2>1. frames' = NextFrame(r)
        /\ records' = IF Located(Pending) THEN Append(records, Pending) ELSE records
    BY <1>5 DEF Locate
  <2>2. CASE Located(Pending)
    <3>1. Pushed(Pending)
      BY <1>2, <2>1, <2>2 DEF Pushed
    <3>. QED
      BY <2>1, <3>1
  <2>3. CASE ~Located(Pending)
    BY <1>5, <2>1, <2>3 DEF Awaited
  <2>. QED
    BY <2>2, <2>3
<1>6. CASE ParseLabel
  <2>. DEFINE r == [Fresh(Top.context) EXCEPT !.label = Stmt.name]
  <2>1. Stmt.t = "label" /\ Locate(r)
    BY <1>6 DEF ParseLabel, Parsing
  <2>2. RecordOK(r) /\ Located(r) /\ r.id = 0
    BY <1>3, <1>4, <2>1, LocatedRecordOK, LocatedNow DEF Fresh
  <2>. HIDE DEF r
  <2>. QED
    BY <1>1, <1>5, <2>1, <2>2
<1>7. CASE ParseOrg
  <2>. DEFINE r == [Fresh(Top.context) EXCEPT !.org = Stmt.n]
  <2>1. Stmt.t = "org" /\ Locate(r)
    BY <1>7 DEF ParseOrg, Parsing
  <2>2. "a" # NoName
    BY DEF NoName
  <2>3. RecordOK(r) /\ Located(r)
    BY <1>4, <2>1, <2>2, LocatedRecordOK, LocatedNow
  <2>4. r.id = 0
    BY DEF Fresh
  <2>. HIDE DEF r
  <2>. QED
    BY <1>1, <1>5, <2>1, <2>3, <2>4
<1>8. CASE ParseInstr
  <2>. DEFINE e == [Pending EXCEPT !.m = Stmt.m, !.id = Stmt.id]
  <2>1. Stmt.t = "instr" /\ records' = Append(records, e)
        /\ frames' = NextFrame(Fresh(Top.context))
    BY <1>8 DEF ParseInstr, Parsing
  <2>2. e.id = Stmt.id
    BY <1>2 DEF RecordOK
  <2>3. RecordOK(Fresh(Top.context)) /\ ~Located(Fresh(Top.context)) /\ Fresh(Top.context).id = 0
    BY FreshOK DEF Fresh
  <2>. HIDE DEF e
  <2>. QED
    BY <1>1, <2>1, <2>2, <2>3 DEF Pushed
<1>. QED
  BY <1>1, <1>6, <1>7, <1>8

(* The record that is then under construction, and the lines.                *)
LEMMA PlainLines ==
    ASSUME IndexInv, PlainInv, Plain,
           Listed(ParseLabel) \/ Listed(ParseOrg) \/ Listed(ParseInstr)
    PROVE  /\ pc = "parse" /\ pc' = pc /\ Top.i <= Len(Top.list)
           /\ program' = program /\ macros' = macros /\ Len(frames') = 1
           /\ \E r : /\ RecordOK(r) /\ r.id = 0
                     /\ frames'[1] = [context |-> Top.context, list |-> Top.list,
                                      i |-> Top.i + 1, pending |-> r]
                     /\ IF Stmt.t = "instr" THEN ~Located(r)
                        ELSE Located(r) /\ Stmt.t \in {"label", "org"}
                     /\ \/ /\ \E e : Pushed(e)
                           /\ lines'[1] = LineOf(Top.i) /\ places' = Append(places, Line)
                        \/ /\ Awaited(r)
                           /\ lines'[1] = Line /\ places' = places
<1>1. (ParseLabel \/ ParseOrg \/ ParseInstr) /\ PushLine
  BY DEF Listed
<1>2. PICK r : /\ RecordOK(r) /\ frames' = NextFrame(r) /\ r.id = 0
               /\ IF Stmt.t = "instr" THEN ~Located(r)
                  ELSE Located(r) /\ Stmt.t \in {"label", "org"}
               /\ (\E e : Pushed(e)) \/ Awaited(r)
  BY <1>1, PlainStatement
<1>3. /\ pc = "parse" /\ pc' = pc /\ Top.i <= Len(Top.list)
      /\ program' = program /\ macros' = macros
  BY <1>1, PlainStatement
<1>4. /\ Len(frames) = 1 /\ Len(lines) = 1 /\ DOMAIN lines = 1 .. 1
      /\ LineOf(Top.i) = Place(Stmt).line
  BY <1>3, OneFrame, LineLags
<1>. DEFINE f == [context |-> Top.context, list |-> Top.list, i |-> Top.i + 1, pending |-> r]
<1>5. Len(frames') = 1 /\ frames'[1] = f
  BY <1>2, <1>3, <1>4, NextFrameOK DEF IndexInv
<1>6. ~(Len(frames') > Len(frames))
  BY <1>4, <1>5
<1>7. /\ lines'[1] = IF Len(records') > Len(records) THEN LineOf(Top.i) ELSE Line
      /\ places' = IF Len(records') > Len(records) THEN Append(places, Line) ELSE places
  <2>1. lines' = [lines EXCEPT ![Len(lines)] =
                     IF Len(records') > Len(records) THEN Place(Stmt).line ELSE Line]
    BY <1>1, <1>6 DEF PushLine
  <2>. QED
    BY <1>1, <1>4, <2>1 DEF PushLine
<1>8. /\ (\E e : Pushed(e)) => Len(records') > Len(records)
      /\ Awaited(r) => ~(Len(records') > Len(records))
  BY ListAppend DEF IndexInv, ParseInv, BufferOK, Pushed, Awaited
<1>. QED
  BY <1>2, <1>3, <1>5, <1>7, <1>8

LEMMA PlainListed ==
    ASSUME IndexInv, PlainInv, Plain,
           Listed(ParseLabel) \/ Listed(ParseOrg) \/ Listed(ParseInstr)
    PROVE  PlainInv'
<1>1. /\ NoteLine /\ overrun' = overrun /\ seekable' = seekable
      /\ seekable => InBounds(index, Line)
  BY DEF Listed
<1>. DEFINE i == Top.i
<1>2. PICK r : /\ RecordOK(r) /\ r.id = 0
               /\ frames'[1] = [context |-> Top.context, list |-> Top.list,
                                i |-> i + 1, pending |-> r]
               /\ IF Stmt.t = "instr" THEN ~Located(r)
                  ELSE Located(r) /\ Stmt.t \in {"label", "org"}
               /\ \/ lines'[1] = LineOf(i)
                  \/ Awaited(r) /\ lines'[1] = Line
  BY PlainLines
<1>3. /\ pc = "parse" /\ pc' = pc /\ Top.i <= Len(Top.list)
      /\ program' = program /\ macros' = macros
  BY PlainLines
<1>4. /\ Len(frames) = 1 /\ Top = frames[1] /\ Top.i \in Nat \ {0}
      /\ Stmt = program[1][Top.i]
  BY <1>3, OneFrame
<1>5. Len(frames') = 1
  BY PlainLines
<1>6. frames'[1].i = i + 1 /\ frames'[1].pending = r
  BY <1>2
<1>7. DOMAIN macros' = {}
  BY <1>3 DEF PlainInv
<1>8. \/ lines'[1] = LineOf(i)
      \/ lines'[1] = Line /\ Located(r) /\ ~Located(Pending)
  BY <1>2 DEF Awaited
<1>9. /\ Line = IF i = 1 THEN LineOf(1) ELSE lines[1]
      /\ Line \in Nat \ {0} /\ LineOf(i) \in Nat \ {0}
      /\ i > 1 /\ ~Located(Pending) => Line = LineOf(i - 1)
      /\ Spaced => LineOf(i) <= Line + IndexSize
  BY <1>3, LineLags
<1>11. \/ lines'[1] = LineOf(i)
       \/ i + 1 > 2 /\ Located(r) /\ lines'[1] = LineOf(i - 1)
  <2>1. CASE i = 1
    BY <1>8, <1>9, <2>1
  <2>2. CASE i # 1
    <3>1. i > 1 /\ i + 1 > 2
      BY <1>4, <2>2
    <3>. QED
      BY <1>8, <1>9, <3>1
  <2>. QED
    BY <2>1, <2>2
<1>12. ASSUME Spaced PROVE ~overrun /\ (seekable => lines'[1] <= index'.lines + IndexSize)
  <2>1. seekable => Line <= index'.lines /\ index'.lines \in Nat
    <3>1. IndexOK(index) /\ (seekable => index' = Noted(index, Line, Place(Stmt)))
      BY <1>1 DEF NoteLine, IndexInv
    <3>. QED
      BY <1>1, <1>9, <3>1, NotedKeepsOrder
  <2>2. IndexSize \in Nat
    BY IndexAssumption
  <2>3. ~overrun
    BY <1>12 DEF PlainInv
  <2>. QED
    BY <1>8, <1>9, <1>12, <2>1, <2>2, <2>3
<1>13. (frames'[1].i - 1) = i /\ (frames'[1].i - 2) = i - 1 /\ frames'[1].i > 1
  BY <1>4, <1>6
<1>14. \A k : LineOf(k)' = LineOf(k)
  BY <1>3, PlainStays
<1>. HIDE DEF i
<1>15. Spaced' <=> Spaced
  BY <1>3, PlainStays
<1>16. Expecting'
  <2>1. Located(r) => program'[1][frames'[1].i - 1].t \in {"label", "org"}
    BY <1>2, <1>3, <1>4, <1>13 DEF i
  <2>2. \/ lines'[1] = LineOf(frames'[1].i - 1)
        \/ frames'[1].i > 2 /\ Located(r) /\ lines'[1] = LineOf(frames'[1].i - 2)
    BY <1>6, <1>11, <1>13
  <2>3. frames'[1].i > 1 /\ frames'[1].i # 1 /\ frames'[1].pending = r
    BY <1>4, <1>6, <1>13 DEF i
  <2>4. Located(frames[1].pending)' <=> Located(r)
    BY <2>3 DEF Located
  <2>. QED
    BY <1>2, <1>14, <2>1, <2>2, <2>3, <2>4 DEF Expecting
<1>. QED
  BY <1>1, <1>5, <1>7, <1>12, <1>15, <1>16 DEF PlainInv

LEMMA PlainStep ==
    ASSUME IndexInv, IndexInv', PlainInv, [ListingNext]_allVars PROVE PlainInv'
<1>. SUFFICES ASSUME Plain' PROVE PlainInv'
  BY DEF PlainInv
<1>1. program' = program
  <2>1. Next => program' = program
    BY DEF Next, ParseLabel, ParseOrg, Locate, DefineMacro, ApplyMacro, ParseInstr,
           ParseUnknown, EndOfList, PassOne, PassOneEnds, Locating, Assemble,
           AssembleFails, AssembleEnds, Terminated, vars, auxVars
  <2>. QED
    BY <2>1, ListingIsNext DEF vars, auxVars
<1>2. Plain /\ (Spaced' <=> Spaced) /\ \A k : LineOf(k)' = LineOf(k)
  BY <1>1, PlainStays
<1>3. DOMAIN macros = {} /\ Len(frames) <= 1
  BY <1>2 DEF PlainInv
<1>4. CASE Listed(ParseLabel) \/ Listed(ParseOrg) \/ Listed(ParseInstr)
  BY <1>2, <1>4, PlainListed
<1>5. CASE Listed(DefineMacro)
  <2>1. pc = "parse" /\ Top.i <= Len(Top.list) /\ Stmt.t = "macro"
    BY <1>5 DEF Listed, DefineMacro, Parsing
  <2>. QED
    BY <1>2, <2>1, OneFrame
<1>6. CASE Listed(ApplyMacro)
  BY <1>3, <1>6 DEF Listed, ApplyMacro, IsMacro
<1>7. CASE Listed(ParseUnknown)
  BY <1>2, <1>7 DEF PlainInv, Listed, ParseUnknown, Parsing, parseVars
<1>8. CASE Overrun
  <2>1. pc = "parse" /\ Top.i <= Len(Top.list) /\ seekable /\ ~InBounds(index, Line)
    BY <1>8 DEF Overrun
  <2>2. ~Spaced
    <3>1. SUFFICES ASSUME Spaced PROVE FALSE
      OBVIOUS
    <3>2. Line \in Nat \ {0} /\ Line <= index.lines + IndexSize /\ IndexOK(index)
      BY <1>2, <2>1, <3>1, LineLags DEF IndexInv
    <3>. QED
      BY <2>1, <3>2, NotedInBounds
  <2>. QED
    BY <1>2, <1>3, <1>8, <2>2, ExpectingStays DEF PlainInv, Overrun, vars, parseVars, auxVars
<1>9. CASE ListEnds
  <2>1. pc = "parse" /\ frames' = Front(frames) /\ macros' = macros /\ overrun' = overrun
    BY <1>9 DEF ListEnds, EndOfList
  <2>2. IsList(frames) /\ frames # <<>>
    BY <2>1 DEF IndexInv, ParseInv, FramesOK
  <2>3. Len(frames) = 1 /\ Len(frames') = 0
    <3>1. Len(frames) \in Nat \ {0} /\ Len(frames') = Len(frames) - 1
      BY <2>1, <2>2, ListParts
    <3>2. Len(frames) <= 1
      BY <1>3 DEF Plain
    <3>. QED
      BY ONLY <3>1, <3>2
  <2>4. pc' = "pass_one"
    BY <1>9, <2>3 DEF ListEnds, EndOfList
  <2>. QED
    BY <1>2, <1>3, <2>1, <2>3, <2>4 DEF PlainInv
<1>10. CASE \/ Quietly(PassOne) \/ Quietly(PassOneEnds) \/ Quietly(Locating)
            \/ Quietly(Assemble) \/ Quietly(AssembleFails)
  <2>1. frames' = frames /\ macros' = macros /\ overrun' = overrun /\ pc' # "parse"
    BY <1>10 DEF Quietly, listVars, placeVars, PassOne, PassOneEnds, Locating, Assemble,
                 AssembleFails, parseVars
  <2>. QED
    BY <1>2, <1>3, <2>1 DEF PlainInv
<1>11. CASE Quietly(AssembleEnds)
  <2>1. /\ macros' = macros /\ overrun' = overrun
        /\ sources # <<>> /\ IsList(sources) /\ Len(sources) <= 1
        /\ Len(sources) = 1 => pc' # "parse" /\ frames' = frames
    BY <1>11 DEF Quietly, listVars, placeVars, AssembleEnds, IndexInv, ParseInv, SourcesOK
  <2>2. Len(sources) \in Nat \ {0}
    BY <2>1, ListParts
  <2>3. Len(sources) = 1
    <3>1. \A n \in Nat \ {0} : n <= 1 => n = 1
      OBVIOUS
    <3>. QED
      BY <2>1, <2>2, <3>1
  <2>. QED
    BY <1>2, <1>3, <2>1, <2>3 DEF PlainInv
<1>12. CASE ListWord \/ Finished \/ UNCHANGED allVars
  <2>1. UNCHANGED <<frames, macros, overrun, pc, lines, index, seekable, records>>
    BY <1>12 DEF ListWord, Finished, allVars, vars, parseVars, listVars, placeVars
  <2>. QED
    BY <1>1, <1>2, <1>3, <2>1, ExpectingStays DEF PlainInv
<1>. QED
  BY <1>4, <1>5, <1>6, <1>7, <1>8, <1>9, <1>10, <1>11, <1>12 DEF ListingNext

LEMMA PlainInit ==
    ASSUME ListingInit PROVE PlainInv
<1>1. /\ frames = <<Frame(Root, Head(program))>> /\ DOMAIN macros = {}
      /\ records = <<>> /\ ~overrun
  BY DEF ListingInit, Init
<1>2. Len(frames) = 1 /\ frames[1].i = 1 /\ frames[1].pending = Fresh(Root)
  BY <1>1 DEF Frame
<1>3. ~Located(Fresh(Root)) /\ Fresh(Root).id = 0
  BY FreshOK DEF Fresh
<1>4. Expecting
  BY <1>1, <1>2, <1>3 DEF Expecting
<1>. QED
  BY <1>1, <1>2, <1>4 DEF PlainInv

(* A listing is an assembly: what is proved of the one holds of the other.   *)
THEOREM ListingIsAssembly == ListingSpec => Spec
<1>1. ListingInit => Init
  BY DEF ListingInit
<1>2. [ListingNext]_allVars => [Next]_vars
  BY ListingIsNext
<1>. QED
  BY <1>1, <1>2, PTL DEF ListingSpec, Spec

(* parse_stmts() writes outside of the index only for a line too far below   *)
(* all those the index was made ready for, and never in a source that has no *)
(* macros and no statement far below the two before it: for an index of any  *)
(* size and sources of any length.                                           *)
THEOREM IndexHoldsAlways == ListingSpec => []IndexHolds
<1>1. ListingInit => IndexInv /\ PlainInv
  BY IndexInit, PlainInit
<1>2. IndexInv /\ PlainInv /\ [ListingNext]_allVars => IndexInv' /\ PlainInv'
  BY IndexStep, PlainStep
<1>3. IndexInv /\ PlainInv => IndexHolds
  BY DEF IndexInv, PlainInv, IndexHolds
<1>. QED
  BY <1>1, <1>2, <1>3, PTL DEF ListingSpec
-----------------------------------------------------------------------------
(* The lines and the text of the listing.                                    *)

Shown == {Place(s) : s \in Statements}

(* What is noted of a record's line leads to a statement; in a source        *)
(* without macros that line is one of the record's.                          *)
PlacesInv ==
    /\ IsList(places) /\ Len(places) = Len(records)
    /\ seekable => \A k \in DOMAIN places : Sought(index, places[k]) \in Shown
    /\ Plain => \A k \in DOMAIN records :
           k > 1 /\ records[k].id # 0 => places[k] \in Span(records[k])

(* A cell is empty or that of a record, and what has been listed stays so.   *)
CellsInv ==
    \A a \in DOMAIN section.data : section.data[a].debug \in {NoDebug} \cup DOMAIN records

ListedInv ==
    /\ IsList(listing) /\ Len(listing) <= section.length
    /\ listing # <<>> => pc = "done"
    /\ \A a \in DOMAIN listing : listing[a] = Entry(a - 1)

LEMMA ShownIsPlace ==
    ASSUME SourcesOK
    PROVE  /\ Len(program) = 1 /\ Head(program) = program[1] /\ Range(program) = {program[1]}
           /\ \A p \in Shown : p.line \in Nat \ {0}
           /\ NoEntry \notin Shown
           /\ IsList(program[1])
<1>1. program \in Programs /\ IsList(program) /\ Len(program) = 1 /\ program # <<>>
  BY ProgramsAssumption, PlacesAssumption DEF SourcesOK
<1>2. DOMAIN program = 1 .. 1 /\ Head(program) = program[1]
  BY <1>1, ListParts
<1>3. Range(program) = {program[1]}
  <2>1. \A x : x \in 1 .. 1 <=> x = 1
    OBVIOUS
  <2>. QED
    BY <1>2, <2>1 DEF Range
<1>4. \A p \in Shown : p.line \in Nat \ {0}
  BY <1>1, <1>2, PlacesAssumption DEF Shown, Statements, Place
<1>5. NoEntry \notin Shown
  BY <1>4 DEF NoEntry
<1>6. program[1] \in ListsOf(program[1])
  BY DEF ListsOf
<1>7. IsList(program[1])
  BY <1>1, <1>3, <1>6, ProgramsAssumption
<1>. QED
  BY <1>1, <1>2, <1>3, <1>4, <1>5, <1>7

LEMMA StatementShown ==
    ASSUME IndexInv, pc = "parse", Top.i <= Len(Top.list)
    PROVE  Place(Stmt) \in Shown
<1>1. \E source \in Range(program) : Stmt \in StatementsOf(source)
  BY StatementOK DEF IndexInv
<1>2. Range(program) = {program[1]} /\ Head(program) = program[1]
  BY ShownIsPlace DEF IndexInv, ParseInv
<1>. QED
  BY <1>1, <1>2 DEF Shown, Statements

(* A line that leads to a statement goes on doing so.                        *)
LEMMA NotedStaysShown ==
    ASSUME NEW x, IndexOK(x), NEW line \in Nat \ {0}, InBounds(x, line),
           NEW S, NoEntry \notin S, NEW place \in S, NEW n, Sought(x, n) \in S
    PROVE  Sought(Noted(x, line, place), n) \in S
<1>1. n \in 1 .. x.lines
  BY DEF Sought
<1>. QED
  BY <1>1, NotedIsSought

LEMMA RecordsGrow ==
    ASSUME Parse PROVE records' = records \/ \E e : records' = Append(records, e)
BY DEF Parse, ParseLabel, ParseOrg, Locate, DefineMacro, ApplyMacro, ParseInstr, ParseUnknown

(* The line that a record of a source without macros gets.                   *)
LEMMA LineInSpan ==
    ASSUME IndexInv, PlainInv, Plain, pc = "parse", Top.i <= Len(Top.list),
           records # <<>>, Stmt.t = "instr", NEW e, e.id = Stmt.id
    PROVE  Line \in Span(e)
<1>. DEFINE i == Top.i
            list == program[1]
<1>1. /\ Top = frames[1] /\ Stmt = list[i] /\ i \in Nat \ {0} /\ i \in DOMAIN list
      /\ Head(program) = list
  BY OneFrame
<1>2. /\ \A k \in DOMAIN list : list[k].pos.line \in Nat
      /\ \A k \in DOMAIN list : k > 1 =>
             /\ list[k - 1].next = list[k].pos
             /\ list[k - 1].pos.line <= list[k].pos.line
      /\ \A j, k \in DOMAIN list :
             list[j].t = "instr" /\ list[k].t = "instr" /\ list[j].id = list[k].id => j = k
  <2>1. program \in Programs
    BY DEF IndexInv, ParseInv, SourcesOK
  <2>. QED
    BY <2>1, OrderAssumption
<1>3. i > 1
  <2>1. i # 1
    BY <1>1 DEF PlainInv, Expecting
  <2>. QED
    BY <1>1, <2>1
<1>4. DOMAIN list = 1 .. Len(list) /\ Len(list) \in Nat
  BY ShownIsPlace, ListBasics DEF IndexInv, ParseInv
<1>. HIDE DEF i, list
<1>5. i - 1 \in DOMAIN list /\ (i > 2 => i - 2 \in DOMAIN list)
  BY <1>1, <1>3, <1>4
<1>6. LineOf(i - 1) = list[i].pos.line
  <2>1. LineOf(i - 1) = Place(list[i - 1]).line
    BY <1>1, <1>3 DEF LineOf, list
  <2>. QED
    BY <1>1, <1>2, <1>3, <2>1 DEF Place
<1>7. i > 2 => LineOf(i - 2) = list[i - 1].pos.line
  <2>1. i > 2 => LineOf(i - 2) = Place(list[i - 2]).line
    BY <1>1 DEF LineOf, list
  <2>2. i > 2 => list[i - 2].next = list[i - 1].pos
    <3>1. i > 2 => (i - 1) - 1 = i - 2 /\ i - 1 > 1
      BY <1>1
    <3>. QED
      BY <1>2, <1>5, <3>1
  <2>. QED
    BY <2>1, <2>2 DEF Place
<1>8. list[i - 1].pos.line <= list[i].pos.line
      /\ list[i - 1].pos.line \in Nat /\ list[i].pos.line \in Nat
  BY <1>1, <1>2, <1>3, <1>5
<1>. DEFINE from == IF list[i - 1].t \in {"label", "org"} THEN i - 1 ELSE i
<1>9. Span(e) = list[from].pos.line .. list[i].pos.line
  <2>. DEFINE k == CHOOSE k \in DOMAIN list : list[k].t = "instr" /\ list[k].id = e.id
  <2>1. k \in DOMAIN list /\ list[k].t = "instr" /\ list[k].id = e.id
    BY <1>1
  <2>2. k = i
    BY <1>1, <1>2, <2>1
  <2>3. Span(e) = list[IF k > 1 /\ list[k - 1].t \in {"label", "org"} THEN k - 1 ELSE k].pos.line
                      .. list[k].pos.line
    BY <1>1 DEF Span
  <2>. HIDE DEF k
  <2>. QED
    BY <1>3, <2>2, <2>3
<1>10. \/ Line = list[i].pos.line
       \/ Line = list[i - 1].pos.line /\ from = i - 1
  <2>1. Line = LineOf(i - 1) \/ (i > 2 /\ Located(Pending) /\ Line = LineOf(i - 2))
    BY <1>3, LineLags DEF i
  <2>2. Located(Pending) => list[i - 1].t \in {"label", "org"}
    BY <1>1 DEF PlainInv, Expecting, Pending, i, list
  <2>. QED
    BY <1>6, <1>7, <2>1, <2>2
<1>11. list[from].pos.line <= list[i].pos.line /\ list[from].pos.line \in Nat
  BY <1>8
<1>. HIDE DEF from
<1>. QED
  BY <1>8, <1>9, <1>10, <1>11
LEMMA ListedKeepsPlaces ==
    ASSUME IndexInv, PlainInv, PlacesInv,
           Listed(ParseLabel) \/ Listed(ParseOrg) \/ Listed(DefineMacro)
           \/ Listed(ApplyMacro) \/ Listed(ParseInstr) \/ Listed(ParseUnknown)
    PROVE  PlacesInv'
<1>1. /\ Parse /\ PushLine /\ NoteLine /\ seekable' = seekable
      /\ seekable => InBounds(index, Line)
  BY DEF Listed, Parse
<1>2. pc = "parse" /\ Top.i <= Len(Top.list) /\ program' = program
  BY <1>1, ParseFrames DEF IndexInv
<1>3. Shown' = Shown /\ (Plain' <=> Plain) /\ \A r : Span(r)' = Span(r)
  BY <1>2, PlainStays DEF Shown, Statements, Span, Place, StatementsOf, ListsOf, MacrosOf
<1>4. Line \in Nat \ {0} /\ Place(Stmt) \in Shown /\ IndexOK(index) /\ NoEntry \notin Shown
  BY <1>2, LineExists, StatementShown, ShownIsPlace DEF IndexInv, ParseInv
<1>5. seekable => /\ Sought(index', Line) \in Shown
                  /\ \A n : Sought(index, n) \in Shown => Sought(index', n) \in Shown
  <2>1. seekable => index' = Noted(index, Line, Place(Stmt))
    BY <1>1 DEF NoteLine
  <2>. QED
    BY <1>1, <1>4, <2>1, NotedIsSought, NotedStaysShown
<1>6. /\ IsList(places) /\ Len(places) = Len(records) /\ IsList(records)
      /\ DOMAIN places = 1 .. Len(records) /\ DOMAIN records = 1 .. Len(records)
      /\ Len(records) \in Nat
  BY ListBasics DEF PlacesInv, IndexInv, ParseInv, BufferOK
<1>7. places' = IF Len(records') > Len(records) THEN Append(places, Line) ELSE places
  BY <1>1 DEF PushLine
<1>8. CASE records' = records
  <2>1. ~(Len(records') > Len(records))
    BY <1>6, <1>8
  <2>2. places' = places
    BY <1>7, <2>1
  <2>. QED
    BY <1>1, <1>3, <1>5, <1>8, <2>2 DEF PlacesInv
<1>9. ASSUME NEW e, records' = Append(records, e) PROVE PlacesInv'
  <2>1. /\ IsList(records') /\ Len(records') = Len(records) + 1
        /\ DOMAIN records' = 1 .. Len(records) + 1
        /\ \A k \in DOMAIN records' :
               records'[k] = IF k = Len(records) + 1 THEN e ELSE records[k]
    <3>1. LET l == Append(records, e)
          IN  /\ IsList(l) /\ Len(l) = Len(records) + 1 /\ DOMAIN l = 1 .. Len(records) + 1
              /\ \A k \in DOMAIN l : l[k] = IF k = Len(records) + 1 THEN e ELSE records[k]
      BY ONLY <1>6, ListAppend
    <3>. QED
      BY <1>9, <3>1
  <2>2. places' = Append(places, Line)
    <3>1. Len(records') > Len(records)
      BY <1>6, <2>1
    <3>. QED
      BY <1>7, <3>1
  <2>3. /\ IsList(places') /\ Len(places') = Len(records) + 1
        /\ DOMAIN places' = 1 .. Len(records) + 1
        /\ \A k \in DOMAIN places' :
               places'[k] = IF k = Len(records) + 1 THEN Line ELSE places[k]
    BY <1>6, <2>2, ListAppend
  <2>4. \A k \in 1 .. Len(records) + 1 : k # Len(records) + 1 => k \in 1 .. Len(records)
    BY <1>6
  <2>5. ASSUME seekable, NEW k \in DOMAIN places' PROVE Sought(index', places'[k]) \in Shown
    BY <1>5, <1>6, <2>3, <2>4, <2>5 DEF PlacesInv
  <2>6. ASSUME Plain, NEW k \in DOMAIN records', k > 1, records'[k].id # 0
        PROVE  places'[k] \in Span(records'[k])
    <3>1. CASE k = Len(records) + 1
      <4>1. records # <<>>
        <5>1. Len(records) # 0
          BY <1>6, <2>6, <3>1
        <5>. QED
          BY <1>6, <5>1, ListBasics
      <4>2. Stmt.t = "instr" /\ e.id = Stmt.id
        <5>1. ParseLabel \/ ParseOrg \/ ParseInstr
          <6>1. ~DefineMacro
            BY <1>2, <2>6, OneFrame DEF DefineMacro, Parsing
          <6>2. ~ApplyMacro
            BY <2>6 DEF PlainInv, ApplyMacro, IsMacro
          <6>3. ParseUnknown => records' = records
            BY DEF ParseUnknown
          <6>4. records' # records
            BY <1>6, <2>1
          <6>. QED
            BY <1>1, <6>1, <6>2, <6>3, <6>4 DEF Parse
        <5>2. PICK r, d : Pushed(d) \/ Awaited(r)
          BY <2>6, <5>1, PlainStatement
        <5>3. ~Awaited(r)
          BY <1>6, <2>1 DEF Awaited
        <5>4. records' = Append(records, d) /\ (d.id = 0 \/ (Stmt.t = "instr" /\ d.id = Stmt.id))
          BY <5>2, <5>3 DEF Pushed
        <5>5. d = e
          <6>1. Append(records, d)[Len(records) + 1] = d
                /\ Append(records, e)[Len(records) + 1] = e
            <7>1. Len(records) + 1 \in 1 .. Len(records) + 1
              BY <1>6
            <7>. QED
              BY <1>6, <7>1, ListAppend
          <6>. QED
            BY ONLY <1>9, <5>4, <6>1
        <5>. QED
          BY <2>1, <2>6, <3>1, <5>4, <5>5
      <4>. QED
        BY <1>2, <2>1, <2>3, <2>6, <3>1, <4>1, <4>2, LineInSpan
    <3>2. CASE k # Len(records) + 1
      BY <1>6, <2>1, <2>3, <2>4, <2>6, <3>2 DEF PlacesInv
    <3>. QED
      BY <3>1, <3>2
  <2>. QED
    BY <1>1, <1>3, <2>1, <2>3, <2>5, <2>6 DEF PlacesInv
<1>. QED
  BY <1>1, <1>8, <1>9, RecordsGrow

LEMMA PlacesStep ==
    ASSUME IndexInv, PlainInv, PlacesInv, [ListingNext]_allVars PROVE PlacesInv'
<1>. USE DEF Quietly, listVars, placeVars, parseVars, passVars, auxVars, vars, allVars
<1>1. CASE \/ Listed(ParseLabel) \/ Listed(ParseOrg) \/ Listed(DefineMacro)
           \/ Listed(ApplyMacro) \/ Listed(ParseInstr) \/ Listed(ParseUnknown)
  BY <1>1, ListedKeepsPlaces
<1>2. CASE \/ Overrun \/ ListEnds
           \/ Quietly(PassOne) \/ Quietly(PassOneEnds)
           \/ Quietly(Locating) \/ Quietly(Assemble)
           \/ Quietly(AssembleFails) \/ Quietly(AssembleEnds)
           \/ ListWord \/ Finished \/ UNCHANGED allVars
  <2>1. UNCHANGED <<program, records, places, index, seekable>>
    BY <1>2 DEF Overrun, ListEnds, EndOfList, PassOne, PassOneEnds, Locating, Assemble,
                AssembleFails, AssembleEnds, ListWord, Finished
  <2>2. Shown' = Shown /\ (Plain' <=> Plain) /\ \A r : Span(r)' = Span(r)
    BY <2>1, PlainStays DEF Shown, Statements, Span, Place, StatementsOf, ListsOf, MacrosOf
  <2>. QED
    BY <2>1, <2>2 DEF PlacesInv
<1>. QED
  BY <1>1, <1>2 DEF ListingNext

LEMMA PlacesInit == ASSUME ListingInit PROVE PlacesInv
<1>1. places = <<>> /\ records = <<>>
  BY DEF ListingInit, Init
<1>2. DOMAIN places = {} /\ DOMAIN records = {} /\ IsList(places)
  BY <1>1, ListBasics
<1>. QED
  BY <1>1, <1>2 DEF PlacesInv

(* What has been noted of a source without macros: of its first so many      *)
(* statements, each line leads to the last that was noted for it, and each   *)
(* record has the line noted for the statement it was pushed with.           *)
NotedTo == IF frames = <<>> THEN Len(Head(program)) ELSE frames[1].i - 1

Leads(x, line, n) ==
    \E j \in 1 .. n :
        /\ NotedLine(j) = line
        /\ \A k \in j + 1 .. n : NotedLine(k) # line
        /\ Sought(x, line) = Place(Head(program)[j])

Recorded(line, id, n) ==
    \E j \in 1 .. n :
        /\ line = NotedLine(j)
        /\ id # 0 => Head(program)[j].t = "instr" /\ Head(program)[j].id = id

NotedInv ==
    Plain =>
        /\ pc \in {"pass_one", "assemble", "done"} => frames = <<>>
        /\ pc = "parse" =>
               LET i == frames[1].i
               IN  /\ i > 1 => lines[1] = NotedLine(i)
                   /\ Located(frames[1].pending) <=>
                          i > 1 /\ Head(program)[i - 1].t # "instr"
        /\ \A k \in DOMAIN records : Recorded(places[k], records[k].id, NotedTo)
        /\ seekable /\ pc # "crashed" =>
               \A j \in 1 .. NotedTo : Leads(index, NotedLine(j), NotedTo)

(* The line noted for the next statement is that where this one was saved,   *)
(* unless this one is a location, and none is pending.                       *)
LEMMA NextNoted ==
    ASSUME NEW i \in Nat \ {0}
    PROVE  LET list == Head(program)
           IN  /\ NotedLine(1) = Place(list[1]).line
               /\ list[i].t = "instr" \/ (i > 1 /\ list[i - 1].t # "instr") =>
                      NotedLine(i + 1) = Place(list[i]).line
               /\ list[i].t # "instr" /\ (i = 1 \/ list[i - 1].t = "instr") =>
                      NotedLine(i + 1) = NotedLine(i)
<1>1. (i + 1) - 1 = i /\ (i + 1) - 2 = i - 1 /\ (i + 1 <= 2 <=> i = 1)
      /\ (i + 1 > 2 <=> i > 1) /\ 1 <= 2
  OBVIOUS
<1>2. CASE i = 1
  BY <1>1, <1>2 DEF NotedLine
<1>3. CASE i = 2
  <2>1. i - 1 = 1 /\ i <= 2 /\ ~(i > 2) /\ i > 1
    BY <1>3
  <2>. QED
    BY <1>1, <1>3, <2>1 DEF NotedLine
<1>4. CASE i > 2
  <2>1. i > 1 /\ ~(i <= 2) /\ i # 1
    BY <1>4
  <2>. QED
    BY <1>1, <1>4, <2>1 DEF NotedLine
<1>. QED
  BY <1>2, <1>3, <1>4

LEMMA NotedStays ==
    ASSUME program' = program
    PROVE  /\ (Plain' <=> Plain) /\ Head(program)' = Head(program)
           /\ \A k : NotedLine(k)' = NotedLine(k)
           /\ \A k, n : Leads(index, NotedLine(k), n)' <=> Leads(index', NotedLine(k), n)
           /\ \A k, n : Recorded(places[k], records[k].id, n)'
                            <=> Recorded(places'[k], records'[k].id, n)
BY PlainStays DEF NotedLine, Place, Leads, Recorded

(* A line noted now leads to the statement at hand, and the others to where  *)
(* they led before.                                                          *)
LEMMA NotedLeads ==
    ASSUME IndexInv, PlainInv, NotedInv, Plain, seekable, pc = "parse",
           Top.i <= Len(Top.list), NoteLine, InBounds(index, Line), Line = NotedLine(Top.i)
    PROVE  \A j \in 1 .. Top.i : Leads(index', NotedLine(j), Top.i)
<1>. DEFINE i == Top.i
            list == Head(program)
<1>1. /\ i \in Nat \ {0} /\ Stmt = list[i] /\ i \in DOMAIN list /\ Top = frames[1]
      /\ Len(frames) = 1
  BY OneFrame
<1>2. DOMAIN list = 1 .. Len(list) /\ Len(list) \in Nat
  BY ShownIsPlace, ListBasics DEF IndexInv, ParseInv
<1>3. NotedTo = i - 1
  <2>1. frames # <<>>
    BY <1>1, ListBasics
  <2>. QED
    BY <1>1, <2>1 DEF NotedTo
<1>4. /\ Line \in Nat \ {0} /\ IndexOK(index) /\ index' = Noted(index, Line, Place(Stmt))
  BY LineExists DEF IndexInv, NoteLine
<1>5. /\ Sought(index', Line) = Place(Stmt)
      /\ \A n \in 1 .. index.lines : n # Line => Sought(index', n) = Sought(index, n)
  BY <1>4, NotedIsSought
<1>6. \A j \in DOMAIN list : Place(list[j]) # NoEntry
  <2>1. \A j \in DOMAIN list : list[j] \in Statements
    BY DEF Statements, StatementsOf, ListsOf, Range
  <2>. QED
    BY <2>1, ShownIsPlace DEF Shown, IndexInv, ParseInv
<1>. HIDE DEF i, list
<1>8. ASSUME NEW j \in 1 .. i PROVE Leads(index', NotedLine(j), i)
  <2>1. CASE NotedLine(j) = NotedLine(i)
    <3>1. i \in 1 .. i /\ \A k \in i + 1 .. i : FALSE
      BY <1>1
    <3>2. Sought(index', NotedLine(j)) = Place(list[i])
      BY <1>1, <1>5, <2>1 DEF i
    <3>3. \E m \in 1 .. i : /\ NotedLine(m) = NotedLine(j)
                            /\ \A k \in m + 1 .. i : NotedLine(k) # NotedLine(j)
                            /\ Sought(index', NotedLine(j)) = Place(list[m])
      BY <2>1, <3>1, <3>2
    <3>. QED
      BY <3>3 DEF Leads, list
  <2>2. CASE NotedLine(j) # NotedLine(i)
    <3>1. j \in 1 .. i - 1
      BY <1>1, <2>2
    <3>2. PICK m \in 1 .. i - 1 :
              /\ NotedLine(m) = NotedLine(j)
              /\ \A k \in m + 1 .. i - 1 : NotedLine(k) # NotedLine(j)
              /\ Sought(index, NotedLine(j)) = Place(list[m])
      BY <1>3, <3>1 DEF NotedInv, Leads, list
    <3>3. m \in DOMAIN list /\ m \in 1 .. i
      BY <1>1, <1>2
    <3>4. NotedLine(j) \in 1 .. index.lines
      BY <1>6, <3>2, <3>3 DEF Sought
    <3>5. NotedLine(j) # Line
      BY <2>2 DEF i
    <3>6. Sought(index', NotedLine(j)) = Place(list[m])
      BY <1>5, <3>2, <3>4, <3>5
    <3>7. \A k \in m + 1 .. i : k = i \/ k \in m + 1 .. i - 1
      BY <1>1
    <3>8. \A k \in m + 1 .. i : NotedLine(k) # NotedLine(j)
      BY <2>2, <3>2, <3>7
    <3>9. \E l \in 1 .. i : /\ NotedLine(l) = NotedLine(j)
                            /\ \A k \in l + 1 .. i : NotedLine(k) # NotedLine(j)
                            /\ Sought(index', NotedLine(j)) = Place(list[l])
      BY <3>2, <3>3, <3>6, <3>8
    <3>. QED
      BY <3>9 DEF Leads, list
  <2>. QED
    BY <2>1, <2>2
<1>. QED
  BY <1>8 DEF i

LEMMA NotedNow ==
    ASSUME IndexInv, PlainInv, NotedInv, Plain, pc = "parse", Top.i <= Len(Top.list)
    PROVE  /\ Line = NotedLine(Top.i) /\ NotedTo = Top.i - 1
           /\ Located(Pending) <=> Top.i > 1 /\ Head(program)[Top.i - 1].t # "instr"
<1>1. /\ Top = frames[1] /\ Len(frames) = 1 /\ Top.i \in Nat \ {0}
      /\ Head(program) = program[1] /\ Stmt = program[1][Top.i]
  BY OneFrame
<1>2. NotedTo = Top.i - 1
  <2>1. frames # <<>>
    BY <1>1, ListBasics
  <2>. QED
    BY <1>1, <2>1 DEF NotedTo
<1>3. Line = NotedLine(Top.i)
  <2>1. CASE Top.i = 1
    BY <1>1, <2>1, LineLags, NextNoted
  <2>2. CASE Top.i # 1
    BY <1>1, <2>2, LineLags DEF NotedInv
  <2>. QED
    BY <2>1, <2>2
<1>. QED
  BY <1>1, <1>2, <1>3 DEF NotedInv, Pending

LEMMA NotedListed ==
    ASSUME IndexInv, PlainInv, PlacesInv, NotedInv, Plain,
           Listed(ParseLabel) \/ Listed(ParseOrg) \/ Listed(ParseInstr)
    PROVE  NotedInv'
<1>. DEFINE i == Top.i
            list == Head(program)
<1>1. /\ pc = "parse" /\ pc' = pc /\ Top.i <= Len(Top.list)
      /\ program' = program /\ Len(frames') = 1
  BY PlainLines
<1>2. PICK r : /\ frames'[1] = [context |-> Top.context, list |-> Top.list,
                                i |-> Top.i + 1, pending |-> r]
               /\ IF Stmt.t = "instr" THEN ~Located(r)
                  ELSE Located(r) /\ Stmt.t \in {"label", "org"}
               /\ \/ /\ \E e : Pushed(e)
                     /\ lines'[1] = LineOf(Top.i) /\ places' = Append(places, Line)
                  \/ /\ Awaited(r)
                     /\ lines'[1] = Line /\ places' = places
  BY PlainLines
<1>3. /\ Stmt = list[i] /\ i \in Nat \ {0} /\ i \in 1 .. i
      /\ Line = NotedLine(i) /\ NotedTo = i - 1
      /\ LineOf(i) = Place(list[i]).line
      /\ Located(Pending) <=> i > 1 /\ list[i - 1].t # "instr"
  BY <1>1, OneFrame, NotedNow, LineLags
<1>4. /\ frames'[1].i = i + 1 /\ frames'[1].pending = r /\ (i + 1) - 1 = i /\ i + 1 > 1
      /\ NotedTo' = i
  <2>1. frames' # <<>>
    BY <1>1, ListBasics
  <2>. QED
    BY <1>2, <1>3, <2>1 DEF NotedTo
<1>. HIDE DEF i, list
<1>5. lines'[1] = NotedLine(i + 1)
  <2>1. ASSUME NEW e, Pushed(e) PROVE NotedLine(i + 1) = LineOf(i)
    BY <1>3, <2>1, NextNoted DEF Pushed, list
  <2>2. ASSUME Awaited(r) PROVE NotedLine(i + 1) = Line
    <3>1. list[i].t # "instr" /\ (i = 1 \/ list[i - 1].t = "instr")
      BY <1>2, <1>3, <2>2 DEF Awaited
    <3>. QED
      BY <1>3, <3>1, NextNoted DEF list
  <2>. QED
    BY <1>2, <2>1, <2>2 DEF i
<1>6. Located(r) <=> list[i].t # "instr"
  BY <1>2, <1>3
<1>7. ASSUME NEW k \in DOMAIN records' PROVE Recorded(places'[k], records'[k].id, i)
  <2>1. /\ IsList(places) /\ IsList(records) /\ Len(places) = Len(records)
        /\ DOMAIN records = 1 .. Len(records) /\ Len(records) \in Nat
    BY ListBasics DEF PlacesInv, IndexInv, ParseInv, BufferOK
  <2>2. ASSUME k \in DOMAIN records, places'[k] = places[k], records'[k] = records[k]
        PROVE  Recorded(places'[k], records'[k].id, i)
    <3>1. Recorded(places[k], records[k].id, i - 1)
      BY <1>3, <2>2 DEF NotedInv
    <3>2. \A j : j \in 1 .. i - 1 => j \in 1 .. i
      BY <1>3
    <3>. QED
      BY <2>2, <3>1, <3>2 DEF Recorded
  <2>3. ASSUME NEW e, Pushed(e), places' = Append(places, Line)
        PROVE  Recorded(places'[k], records'[k].id, i)
    <3>1. records' = Append(records, e)
      BY <2>3 DEF Pushed
    <3>2. /\ k \in 1 .. Len(records) + 1
          /\ records'[k] = IF k = Len(records) + 1 THEN e ELSE records[k]
          /\ places'[k] = IF k = Len(records) + 1 THEN Line ELSE places[k]
      BY <2>1, <2>3, <3>1, ListAppend
    <3>3. CASE k = Len(records) + 1
      <4>1. places'[k] = NotedLine(i) /\ records'[k] = e
        BY <1>3, <3>2, <3>3
      <4>2. e.id = 0 \/ (list[i].t = "instr" /\ list[i].id = e.id)
        BY <1>3, <2>3 DEF Pushed
      <4>. QED
        BY <1>3, <4>1, <4>2 DEF Recorded, list
    <3>4. CASE k # Len(records) + 1
      <4>1. k \in DOMAIN records
        BY <2>1, <3>2, <3>4
      <4>. QED
        BY <2>2, <3>2, <3>4, <4>1
    <3>. QED
      BY <3>3, <3>4
  <2>4. ASSUME Awaited(r), places' = places PROVE Recorded(places'[k], records'[k].id, i)
    BY <2>2, <2>4 DEF Awaited
  <2>. QED
    BY <1>2, <2>3, <2>4
<1>8. seekable => \A j \in 1 .. i : Leads(index', NotedLine(j), i)
  <2>1. NoteLine /\ (seekable => InBounds(index, Line))
    BY DEF Listed
  <2>. QED
    BY <1>1, <1>3, <2>1, NotedLeads DEF i
<1>9. seekable' = seekable
  BY DEF Listed
<1>10. /\ \A k : NotedLine(k)' = NotedLine(k)
       /\ Head(program)' = list
       /\ \A k, n : Leads(index, NotedLine(k), n)' <=> Leads(index', NotedLine(k), n)
       /\ \A k, n : Recorded(places[k], records[k].id, n)'
                        <=> Recorded(places'[k], records'[k].id, n)
  BY <1>1, NotedStays DEF list
<1>11. \A k \in DOMAIN records' : Recorded(places[k], records[k].id, NotedTo)'
  BY <1>4, <1>7, <1>10
<1>12. seekable' => \A j \in 1 .. NotedTo' : Leads(index, NotedLine(j), NotedTo)'
  BY <1>4, <1>8, <1>9, <1>10
<1>13. lines'[1] = NotedLine(frames[1].i)'
  BY <1>4, <1>5, <1>10
<1>14. Located(frames[1].pending)' <=> Head(program)'[frames'[1].i - 1].t # "instr"
  <2>1. Located(frames[1].pending)' <=> Located(r)
    BY <1>4 DEF Located
  <2>. QED
    BY <1>4, <1>6, <1>10, <2>1
<1>. QED
  BY <1>1, <1>4, <1>11, <1>12, <1>13, <1>14 DEF NotedInv

LEMMA NotedSame ==
    ASSUME NotedInv, UNCHANGED <<program, frames, records, places>>,
           \/ pc' = "crashed"
           \/ UNCHANGED <<pc, index, seekable, lines>>
           \/ UNCHANGED <<index, seekable>> /\ pc \in {"pass_one", "assemble"} /\ pc' # "parse"
    PROVE  NotedInv'
<1>. SUFFICES ASSUME Plain' PROVE NotedInv'
  BY DEF NotedInv
<1>1. /\ Plain /\ Head(program)' = Head(program)
      /\ \A k : NotedLine(k)' = NotedLine(k)
      /\ \A k, n : Leads(index, NotedLine(k), n)' <=> Leads(index', NotedLine(k), n)
      /\ \A k, n : Recorded(places[k], records[k].id, n)'
                       <=> Recorded(places'[k], records'[k].id, n)
  BY NotedStays
<1>2. NotedTo' = NotedTo
  BY <1>1 DEF NotedTo
<1>3. \A k \in DOMAIN records' : Recorded(places[k], records[k].id, NotedTo)'
  BY <1>1, <1>2 DEF NotedInv
<1>4. CASE pc' = "crashed"
  BY <1>3, <1>4 DEF NotedInv
<1>5. CASE UNCHANGED <<index, seekable>> /\ pc # "crashed"
  <2>1. seekable' => \A j \in 1 .. NotedTo' : Leads(index, NotedLine(j), NotedTo)'
    BY <1>1, <1>2, <1>5 DEF NotedInv
  <2>2. CASE UNCHANGED <<pc, lines>>
    <3>1. pc' = "parse" /\ frames'[1].i > 1 => lines'[1] = NotedLine(frames[1].i)'
      BY <1>1, <2>2 DEF NotedInv
    <3>2. pc' = "parse" => (Located(frames[1].pending)' <=>
              frames'[1].i > 1 /\ Head(program)'[frames'[1].i - 1].t # "instr")
      BY <1>1, <2>2 DEF NotedInv, Located
    <3>3. pc' \in {"pass_one", "assemble", "done"} => frames' = <<>>
      BY <1>1, <2>2 DEF NotedInv
    <3>. QED
      BY <1>3, <2>1, <3>1, <3>2, <3>3 DEF NotedInv
  <2>3. CASE pc \in {"pass_one", "assemble"} /\ pc' # "parse"
    <3>1. frames' = <<>>
      BY <1>1, <2>3 DEF NotedInv
    <3>. QED
      BY <1>3, <2>1, <2>3, <3>1 DEF NotedInv
  <2>. QED
    BY <1>4, <2>2, <2>3
<1>6. CASE UNCHANGED <<pc, index, seekable, lines>> /\ pc = "crashed"
  BY <1>4, <1>6
<1>. QED
  BY <1>4, <1>5, <1>6

LEMMA NotedEnds ==
    ASSUME IndexInv, PlainInv, NotedInv, Plain, ListEnds PROVE NotedInv'
<1>1. /\ pc = "parse" /\ Top.i > Len(Top.list) /\ frames' = Front(frames)
      /\ Len(frames) = 1 => pc' = "pass_one"
      /\ UNCHANGED <<program, records, places, index, seekable>>
  BY DEF ListEnds, EndOfList
<1>2. IsList(frames) /\ frames # <<>> /\ Len(frames) <= 1
  BY <1>1 DEF IndexInv, ParseInv, FramesOK, PlainInv
<1>3. Len(frames) = 1
  <2>1. Len(frames) \in Nat \ {0}
    BY <1>2, ListParts
  <2>. QED
    BY ONLY <1>2, <2>1
<1>4. frames' = <<>>
  <2>1. IsList(Front(frames)) /\ Len(Front(frames)) = 0
    BY <1>2, <1>3, ListParts
  <2>. QED
    BY <1>1, <2>1, ListBasics
<1>5. Top = frames[1] /\ 1 \in DOMAIN frames
  BY <1>2, <1>3, ListParts DEF Top
<1>6. Top.i = Len(Head(program)) + 1 /\ Len(Head(program)) \in Nat
  <2>1. Top.list \in Range(program) /\ Top.i \in 1 .. Len(Top.list) + 1
    BY <1>2, <1>5 DEF IndexInv, ParseInv, FramesOK, FrameOK
  <2>2. Top.list = Head(program) /\ IsList(Head(program))
    BY <2>1, ShownIsPlace DEF IndexInv, ParseInv
  <2>3. Len(Head(program)) \in Nat
    BY <2>2, ListBasics
  <2>. QED
    BY <1>1, <2>1, <2>2, <2>3
<1>7. NotedTo = Len(Head(program)) /\ NotedTo' = NotedTo
  <2>1. NotedTo = Len(Head(program))
    BY <1>2, <1>5, <1>6 DEF NotedTo
  <2>2. NotedTo' = Len(Head(program))
    BY <1>1, <1>4 DEF NotedTo
  <2>. QED
    BY <2>1, <2>2
<1>8. /\ \A k : NotedLine(k)' = NotedLine(k)
      /\ \A k, n : Leads(index, NotedLine(k), n)' <=> Leads(index', NotedLine(k), n)
      /\ \A k, n : Recorded(places[k], records[k].id, n)'
                       <=> Recorded(places'[k], records'[k].id, n)
  BY <1>1, NotedStays
<1>9. \A k \in DOMAIN records' : Recorded(places[k], records[k].id, NotedTo)'
  BY <1>1, <1>7, <1>8 DEF NotedInv
<1>10. seekable' => \A j \in 1 .. NotedTo' : Leads(index, NotedLine(j), NotedTo)'
  BY <1>1, <1>7, <1>8 DEF NotedInv
<1>. QED
  BY <1>1, <1>3, <1>4, <1>9, <1>10 DEF NotedInv

LEMMA NotedStep ==
    ASSUME IndexInv, PlainInv, PlacesInv, NotedInv, [ListingNext]_allVars PROVE NotedInv'
<1>. USE DEF Quietly, listVars, placeVars, parseVars, passVars, auxVars, vars, allVars
<1>. SUFFICES ASSUME Plain' PROVE NotedInv'
  BY DEF NotedInv
<1>1. Plain
  <2>1. Next => program' = program
    BY DEF Next, ParseLabel, ParseOrg, Locate, DefineMacro, ApplyMacro, ParseInstr,
           ParseUnknown, EndOfList, PassOne, PassOneEnds, Locating, Assemble,
           AssembleFails, AssembleEnds, Terminated
  <2>. QED
    BY <2>1, ListingIsNext, PlainStays
<1>2. CASE Listed(ParseLabel) \/ Listed(ParseOrg) \/ Listed(ParseInstr)
  BY <1>1, <1>2, NotedListed
<1>3. CASE Listed(DefineMacro)
  <2>1. pc = "parse" /\ Top.i <= Len(Top.list) /\ Stmt.t = "macro"
    BY <1>3 DEF Listed, DefineMacro, Parsing
  <2>. QED
    BY <1>1, <2>1, OneFrame
<1>4. CASE Listed(ApplyMacro)
  BY <1>1, <1>4 DEF PlainInv, Listed, ApplyMacro, IsMacro
<1>5. CASE Listed(ParseUnknown)
  <2>1. UNCHANGED <<program, frames, records>> /\ pc' = "crashed" /\ PushLine
    BY <1>5 DEF Listed, ParseUnknown
  <2>2. ~(Len(records') > Len(records))
    <3>1. Len(records) \in Nat
      BY ListBasics DEF IndexInv, ParseInv, BufferOK
    <3>. QED
      BY <2>1, <3>1
  <2>3. places' = places
    BY <2>1, <2>2 DEF PushLine
  <2>. QED
    BY <2>1, <2>3, NotedSame
<1>6. CASE ListEnds
  BY <1>1, <1>6, NotedEnds
<1>7. CASE Overrun \/ ListWord \/ Finished \/ UNCHANGED allVars
  BY <1>7, NotedSame DEF Overrun, ListWord, Finished
<1>8. CASE \/ Quietly(PassOne) \/ Quietly(PassOneEnds) \/ Quietly(Locating)
           \/ Quietly(Assemble) \/ Quietly(AssembleFails)
  <2>1. /\ UNCHANGED <<program, frames, records, places, index, seekable>>
        /\ pc \in {"pass_one", "assemble"} /\ pc' # "parse"
    BY <1>8 DEF PassOne, PassOneEnds, Locating, Assemble, AssembleFails
  <2>. QED
    BY <2>1, NotedSame
<1>9. CASE Quietly(AssembleEnds)
  <2>1. sources # <<>> /\ IsList(sources) /\ Len(sources) <= 1
    BY <1>9 DEF AssembleEnds, IndexInv, ParseInv, SourcesOK
  <2>2. Len(sources) = 1
    <3>1. Len(sources) \in Nat \ {0}
      BY <2>1, ListParts
    <3>2. \A n \in Nat \ {0} : n <= 1 => n = 1
      OBVIOUS
    <3>. QED
      BY <2>1, <3>1, <3>2
  <2>3. /\ UNCHANGED <<program, frames, records, places, index, seekable>>
        /\ pc = "assemble" /\ pc' = "done"
    BY <1>9, <2>2 DEF AssembleEnds
  <2>. QED
    BY <2>3, NotedSame
<1>. QED
  BY <1>2, <1>3, <1>4, <1>5, <1>6, <1>7, <1>8, <1>9 DEF ListingNext

LEMMA NotedInit == ASSUME ListingInit PROVE NotedInv
<1>1. /\ places = <<>> /\ records = <<>> /\ pc = "parse"
      /\ \E list : frames = <<Frame(Root, list)>>
  BY DEF ListingInit, Init
<1>2. DOMAIN records = {}
  BY <1>1, ListBasics
<1>3. frames[1].i = 1 /\ ~Located(frames[1].pending)
  BY <1>1, FreshOK DEF Frame
<1>4. NotedTo = 0 /\ 1 .. NotedTo = {}
  <2>1. frames # <<>>
    BY <1>1
  <2>. QED
    BY <1>3, <2>1 DEF NotedTo
<1>. QED
  BY <1>1, <1>2, <1>3, <1>4 DEF NotedInv

(* A cell that put_word() leaves has the mark it had, or none, or the new.   *)
LEMMA PutWordMarks ==
    ASSUME NEW s, ArrayOK(s), NEW word, NEW debug,
           NEW a \in DOMAIN PutWord(s, word, debug).data
    PROVE  \/ PutWord(s, word, debug).data[a].debug \in {NoDebug, debug}
           \/ /\ a \in DOMAIN s.data
              /\ PutWord(s, word, debug).data[a].debug = s.data[a].debug
<1>0. CASE PutResult(s) = "wild"
  BY <1>0, PutWordCases
<1>. SUFFICES ASSUME PutResult(s) # "wild"
              PROVE  \/ PutWord(s, word, debug).data[a].debug \in {NoDebug, debug}
                     \/ /\ a \in DOMAIN s.data
                        /\ PutWord(s, word, debug).data[a].debug = s.data[a].debug
  BY <1>0
<1>. DEFINE g == Grown(s)
            cell == [value |-> word, debug |-> debug]
<1>1. /\ g.data = [c \in 0 .. g.capacity - 1 |-> g.data[c]]
      /\ \A c \in 0 .. g.capacity - 1 :
             g.data[c] = IF c < s.capacity THEN s.data[c] ELSE EmptyCell
  BY GrownShape
<1>2. s.data = [c \in 0 .. s.capacity - 1 |-> s.data[c]] /\ s.capacity \in Nat
  BY WordIsNat DEF ArrayOK
<1>3. EmptyCell.debug = NoDebug /\ cell.debug = debug
  BY DEF EmptyCell
<1>4. Filled(g, word, debug).data = [g.data EXCEPT ![g.cursor] = cell]
  BY DEF Filled
<1>. HIDE DEF g, cell
<1>5. a \in 0 .. g.capacity - 1
      /\ PutWord(s, word, debug).data[a] \in {g.data[a], cell}
  <2>1. PutWord(s, word, debug).data \in {g.data, [g.data EXCEPT ![g.cursor] = cell]}
    BY <1>4, PutWordCases DEF g
  <2>2. CASE PutWord(s, word, debug).data = g.data
    BY <1>1, <2>2
  <2>3. CASE PutWord(s, word, debug).data = [g.data EXCEPT ![g.cursor] = cell]
    BY <1>1, <2>3
  <2>. QED
    BY <2>1, <2>2, <2>3
<1>6. CASE a < s.capacity
  <2>1. a \in DOMAIN s.data
    BY <1>2, <1>5, <1>6
  <2>. QED
    BY <1>1, <1>3, <1>5, <1>6, <2>1
<1>7. CASE ~(a < s.capacity)
  BY <1>1, <1>3, <1>5, <1>7
<1>. QED
  BY <1>6, <1>7

(* The records may grow in number, and put_word() marks a cell with the      *)
(* record at hand.                                                           *)
LEMMA RecordsStay ==
    ASSUME ParseInv, [Next]_vars
    PROVE  DOMAIN records \subseteq DOMAIN records'
<1>. USE DEF parseVars, passVars, auxVars, vars
<1>1. records' = records \/ \E e : records' = Append(records, e)
  <2>1. CASE Parse
    BY <2>1, RecordsGrow
  <2>2. CASE \/ EndOfList \/ PassOne \/ PassOneEnds \/ Locating \/ Assemble
             \/ AssembleFails \/ AssembleEnds \/ Terminated \/ UNCHANGED vars
    BY <2>2 DEF EndOfList, PassOne, PassOneEnds, Locating, Assemble, AssembleFails,
                AssembleEnds, Terminated
  <2>. QED
    BY <2>1, <2>2 DEF Next, Parse
<1>2. \A e : DOMAIN records \subseteq DOMAIN Append(records, e)
  <2>. SUFFICES ASSUME NEW e PROVE DOMAIN records \subseteq DOMAIN Append(records, e)
    OBVIOUS
  <2>1. /\ DOMAIN records = 1 .. Len(records) /\ Len(records) \in Nat
        /\ DOMAIN Append(records, e) = 1 .. Len(records) + 1
    BY ListAppend DEF ParseInv, BufferOK
  <2>. QED
    BY <2>1
<1>. QED
  BY <1>1, <1>2

LEMMA CellsStep ==
    ASSUME SectionInv, CellsInv, [Next]_vars PROVE CellsInv'
<1>1. DOMAIN records \subseteq DOMAIN records'
  BY RecordsStay DEF SectionInv
<1>2. ASSUME section'.data = section.data PROVE CellsInv'
  BY <1>1, <1>2 DEF CellsInv
<1>3. ArrayOK(section) /\ SectionShape(section)
  BY DEF SectionInv, ArrayOK, SectionShape
<1>4. CASE section' = section \/ section' = [section EXCEPT !.cursor = saved]
  BY <1>2, <1>3, <1>4 DEF SectionShape
<1>5. CASE at <= Len(records) /\ section' = Placed
  BY <1>2, <1>5, PlacedOK
<1>6. CASE /\ pc \in {"pass_one", "assemble"} /\ at <= Len(records)
           /\ \E word : \E debug \in {NoDebug, at} : section' = PutWord(Placed, word, debug)
  <2>1. PICK word, debug : debug \in {NoDebug, at} /\ section' = PutWord(Placed, word, debug)
    BY <1>6
  <2>2. ArrayOK(Placed) /\ Placed.data = section.data
    BY <1>6, PlacedOK
  <2>3. at \in DOMAIN records
    BY <1>6, ListBasics DEF SectionInv, ParseInv, BufferOK
  <2>4. \A a \in DOMAIN section'.data :
            \/ section'.data[a].debug \in {NoDebug, debug}
            \/ a \in DOMAIN section.data /\ section'.data[a].debug = section.data[a].debug
    BY <2>1, <2>2, PutWordMarks
  <2>. QED
    BY <1>1, <2>1, <2>3, <2>4 DEF CellsInv
<1>. QED
  BY <1>4, <1>5, <1>6, SectionSteps

LEMMA EntryStays ==
    ASSUME UNCHANGED <<section, places, index, seekable>> PROVE \A a : Entry(a)' = Entry(a)
BY DEF Entry

LEMMA ListedStep ==
    ASSUME SectionInv, ListedInv, [ListingNext]_allVars PROVE ListedInv'
<1>. USE DEF Quietly, listVars, placeVars, parseVars, passVars, auxVars, vars, allVars
<1>1. CASE \/ Listed(ParseLabel) \/ Listed(ParseOrg) \/ Listed(DefineMacro)
           \/ Listed(ApplyMacro) \/ Listed(ParseInstr) \/ Listed(ParseUnknown)
           \/ Overrun \/ ListEnds
           \/ Quietly(PassOne) \/ Quietly(PassOneEnds) \/ Quietly(Locating)
           \/ Quietly(Assemble) \/ Quietly(AssembleFails) \/ Quietly(AssembleEnds)
  <2>1. pc # "done" /\ listing' = listing
    BY <1>1 DEF Listed, ParseLabel, ParseOrg, DefineMacro, ApplyMacro, ParseInstr,
                ParseUnknown, Parsing, Overrun, ListEnds, EndOfList, PassOne, PassOneEnds,
                Locating, Assemble, AssembleFails, AssembleEnds
  <2>2. listing' = <<>> /\ DOMAIN listing' = {} /\ IsList(listing') /\ Len(listing') = 0
    BY <2>1, ListBasics DEF ListedInv
  <2>3. section'.length \in Nat
    <3>1. SectionInv'
      BY ListingIsNext, SectionStep
    <3>. QED
      BY <3>1, WordIsNat DEF SectionInv, ArrayOK
  <2>. QED
    BY <2>2, <2>3 DEF ListedInv
<1>2. CASE ListWord
  <2>. DEFINE n == Len(listing)
  <2>1. /\ pc' = "done" /\ n < section.length
        /\ listing' = Append(listing, Entry(n))
        /\ UNCHANGED <<section, places, index, seekable>>
    BY <1>2 DEF ListWord
  <2>2. IsList(listing) /\ n \in Nat /\ DOMAIN listing = 1 .. n
    BY ListBasics DEF ListedInv
  <2>3. LET l == Append(listing, Entry(n))
        IN  /\ IsList(l) /\ DOMAIN l = 1 .. n + 1 /\ Len(l) = n + 1
            /\ \A a \in DOMAIN l : l[a] = IF a = n + 1 THEN Entry(n) ELSE listing[a]
    BY ONLY <2>2, ListAppend
  <2>4. section.length \in Nat
    BY WordIsNat DEF SectionInv, ArrayOK
  <2>. HIDE DEF n
  <2>5. ASSUME NEW a \in DOMAIN listing' PROVE listing'[a] = Entry(a - 1)'
    <3>1. a \in 1 .. n + 1 /\ listing'[a] = IF a = n + 1 THEN Entry(n) ELSE listing[a]
      BY <2>1, <2>3
    <3>2. a # n + 1 => a \in DOMAIN listing
      BY <2>2, <3>1
    <3>3. (n + 1) - 1 = n
      BY <2>2
    <3>4. listing'[a] = Entry(a - 1)
      BY <3>1, <3>2, <3>3 DEF ListedInv
    <3>. QED
      BY <2>1, <3>4, EntryStays
  <2>6. IsList(listing') /\ Len(listing') <= section'.length
    <3>1. n + 1 <= section.length
      BY <2>1, <2>2, <2>4
    <3>. QED
      BY <2>1, <2>3, <3>1
  <2>. QED
    BY <2>1, <2>5, <2>6 DEF ListedInv
<1>3. CASE Finished \/ UNCHANGED allVars
  <2>1. UNCHANGED <<listing, pc, section, places, index, seekable>>
    BY <1>3 DEF Finished
  <2>2. \A a : Entry(a)' = Entry(a)
    BY <2>1, EntryStays
  <2>. QED
    BY <2>1, <2>2 DEF ListedInv
<1>. QED
  BY <1>1, <1>2, <1>3 DEF ListingNext

(* No more is noted than the source has, and all of it once that is read.    *)
LEMMA NotedToIs ==
    ASSUME IndexInv, PlainInv, NotedInv, Plain
    PROVE  /\ NotedTo \in 0 .. Len(Head(program)) /\ Len(Head(program)) \in Nat
           /\ DOMAIN Head(program) = 1 .. Len(Head(program))
           /\ pc = "done" => NotedTo = Len(Head(program))
<1>1. IsList(Head(program)) /\ Range(program) = {Head(program)}
  BY ShownIsPlace DEF IndexInv, ParseInv
<1>2. Len(Head(program)) \in Nat /\ DOMAIN Head(program) = 1 .. Len(Head(program))
  BY <1>1, ListBasics
<1>3. CASE frames = <<>>
  BY <1>2, <1>3 DEF NotedTo
<1>4. CASE frames # <<>>
  <2>1. 1 \in DOMAIN frames /\ frames[1].list = Head(program)
    BY <1>1, <1>4, ListParts DEF IndexInv, ParseInv, FramesOK
  <2>2. frames[1].i \in 1 .. Len(Head(program)) + 1
    BY <2>1 DEF IndexInv, ParseInv, FramesOK, FrameOK
  <2>3. pc # "done"
    BY <1>4 DEF NotedInv
  <2>. QED
    BY <1>2, <1>4, <2>2, <2>3 DEF NotedTo
<1>. QED
  BY <1>3, <1>4

LEMMA RecordsRight ==
    ASSUME IndexInv, PlainInv, PlacesInv, NotedInv, Plain,
           NEW i \in DOMAIN records, NEW k \in DOMAIN Head(program),
           records[i].id # 0, Head(program)[k].t = "instr",
           Head(program)[k].id = records[i].id
    PROVE  /\ places[i] = NotedLine(k)
           /\ i > 1 => places[i] \in Span(records[i])
<1>1. PICK j \in 1 .. NotedTo :
          /\ places[i] = NotedLine(j)
          /\ Head(program)[j].t = "instr" /\ Head(program)[j].id = records[i].id
  BY DEF NotedInv, Recorded
<1>2. j \in DOMAIN Head(program)
  BY NotedToIs
<1>3. j = k
  <2>1. program \in Programs /\ Head(program) = program[1]
    BY ShownIsPlace DEF IndexInv, ParseInv, SourcesOK
  <2>. QED
    BY <1>1, <1>2, <2>1, OrderAssumption
<1>. QED
  BY <1>1, <1>3 DEF PlacesInv

LEMMA WordsRight ==
    ASSUME SectionInv, IndexInv, PlainInv, PlacesInv, NotedInv, CellsInv, ListedInv,
           NEW a \in DOMAIN listing, section.data[a - 1].debug # NoDebug
    PROVE  /\ listing[a].line = places[section.data[a - 1].debug]
           /\ seekable => \E s \in Statements : listing[a].text = Place(s)
           /\ Plain /\ seekable => \E k \in DOMAIN Head(program) :
                  /\ NotedLine(k) = listing[a].line /\ LastNoted(k)
                  /\ listing[a].text = Place(Head(program)[k])
<1>. DEFINE n == a - 1
            debug == section.data[n].debug
            line == places[debug]
<1>1. /\ listing[a].line = line
      /\ seekable => listing[a].text = Sought(index, line)
      /\ pc = "done"
  <2>1. listing # <<>>
    BY ListBasics DEF ListedInv
  <2>. QED
    BY <2>1 DEF ListedInv, Entry
<1>2. debug \in DOMAIN records /\ debug \in DOMAIN places
  <2>1. /\ section.data = [c \in 0 .. section.capacity - 1 |-> section.data[c]]
        /\ section.length <= section.capacity
        /\ section.length \in Nat /\ section.capacity \in Nat
    BY WordIsNat DEF SectionInv, ArrayOK
  <2>2. DOMAIN section.data = 0 .. section.capacity - 1
    BY <2>1
  <2>3. a \in 1 .. Len(listing) /\ Len(listing) <= section.length /\ Len(listing) \in Nat
    BY ListBasics DEF ListedInv
  <2>4. n \in DOMAIN section.data
    BY <2>1, <2>2, <2>3
  <2>5. debug \in DOMAIN records
    BY <2>4 DEF CellsInv
  <2>6. DOMAIN records = DOMAIN places
    BY ListBasics DEF PlacesInv, SectionInv, ParseInv, BufferOK
  <2>. QED
    BY <2>5, <2>6
<1>. HIDE DEF n, debug
<1>3. seekable => \E s \in Statements : listing[a].text = Place(s)
  BY <1>1, <1>2 DEF PlacesInv, Shown
<1>4. ASSUME Plain, seekable
      PROVE  \E k \in DOMAIN Head(program) :
                 /\ NotedLine(k) = line /\ LastNoted(k)
                 /\ listing[a].text = Place(Head(program)[k])
  <2>1. /\ NotedTo = Len(Head(program))
        /\ DOMAIN Head(program) = 1 .. NotedTo /\ NotedTo \in Nat
    BY <1>1, <1>4, NotedToIs
  <2>2. PICK j \in 1 .. NotedTo : line = NotedLine(j)
    BY <1>2, <1>4 DEF NotedInv, Recorded
  <2>3. Leads(index, line, NotedTo)
    BY <1>1, <1>4, <2>2 DEF NotedInv
  <2>4. PICK k \in 1 .. NotedTo :
            /\ NotedLine(k) = line
            /\ \A m \in k + 1 .. NotedTo : NotedLine(m) # line
            /\ Sought(index, line) = Place(Head(program)[k])
    BY <2>3 DEF Leads
  <2>5. LastNoted(k)
    <3>1. \A m \in 1 .. NotedTo : m > k => m \in k + 1 .. NotedTo
      BY <2>1
    <3>. QED
      BY <2>1, <2>4, <3>1 DEF LastNoted
  <2>. QED
    BY <1>1, <1>4, <2>1, <2>4, <2>5
<1>. QED
  BY <1>1, <1>3, <1>4 DEF debug, n

(* For sources of any length, with any macros, and an index of any size: the *)
(* line listed beside a word is that of its record, and the text begins with *)
(* the token after some statement.  In a source without macros, the line of  *)
(* a record is the one noted for its instruction, and for all but the first  *)
(* record one from its location to the instruction; and the text begins with *)
(* the token after the last of the statements that the line was noted for.   *)
THEOREM LinesAreRight == ListingSpec => []LinesRight
<1>. DEFINE Inv == IndexInv /\ PlainInv /\ PlacesInv /\ NotedInv /\ CellsInv /\ ListedInv
<1>1. ListingInit => Inv
  <2>. SUFFICES ASSUME ListingInit PROVE Inv
    OBVIOUS
  <2>1. listing = <<>> /\ section = EmptySection
    BY DEF ListingInit, Init
  <2>2. DOMAIN listing = {} /\ IsList(listing) /\ Len(listing) = 0
    BY <2>1, ListBasics
  <2>3. DOMAIN section.data = {} /\ section.length = 0
    BY <2>1 DEF EmptySection
  <2>. QED
    BY <2>1, <2>2, <2>3, IndexInit, PlainInit, PlacesInit, NotedInit DEF CellsInv, ListedInv
<1>2. Inv /\ SectionInv /\ [ListingNext]_allVars => Inv'
  <2>. SUFFICES ASSUME Inv, SectionInv, [ListingNext]_allVars PROVE Inv'
    OBVIOUS
  <2>. QED
    BY IndexStep, PlainStep, PlacesStep, NotedStep, CellsStep, ListedStep, ListingIsNext
<1>3. Inv /\ SectionInv => LinesRight
  BY RecordsRight, WordsRight DEF LinesRight
<1>. QED
  BY <1>1, <1>2, <1>3, ListingIsAssembly, SectionInOrder, PTL DEF ListingSpec

-----------------------------------------------------------------------------
(* The label tables and the types of the rest.                               *)

(* What eval_expr() leaves of the tables it is given: their contexts and how *)
(* these are linked; a tree it has evaluated is a number.                    *)
Kept(tables, result) ==
    /\ DOMAIN result.contexts = DOMAIN tables
    /\ \A c \in DOMAIN tables :
           result.contexts[c] =
               [parent |-> tables[c].parent, labels |-> result.contexts[c].labels]
    /\ result.rc = "ok" => result.node.n \in Word

(* Evaluating an operand, or the arguments of a macro, does no more to the   *)
(* tables than to resolve labels.                                            *)
OnlyResolves ==
    /\ pc = "assemble" /\ at <= Len(records) /\ HasInstr /\ Operands # <<>> =>
           Kept(Scope, Evaluated)
    /\ Parsing("instr") /\ IsMacro(Stmt.m) =>
           LET formals == macros[Stmt.m].formals
               args == trees[Stmt.id]
           IN  ~BadArguments(formals, args) =>
                   \A i \in DOMAIN formals :
                       Kept(Bound(formals, args)[i - 1], Argument(formals, args, i))

(* Scopes are linked among each other, to "$" nothing is linked.             *)
Own(tables) == DOMAIN tables \ {Assembling}

TablesOK(tables) ==
    /\ IsFiniteSet(DOMAIN tables) /\ Root \in DOMAIN tables
    /\ \A c \in DOMAIN tables :
           /\ tables[c] = [parent |-> tables[c].parent, labels |-> tables[c].labels]
           /\ tables[c].parent \in Own(tables) \cup {NoContext}

(* A record is of a context that stays and an instruction that has a tree.   *)
RecordIn(r, own, ids) == r.context \in own /\ r.id \in ids \cup {0}
FrameIn(f, own, ids) == f.context \in own /\ RecordIn(f.pending, own, ids)

ScopeInv ==
    /\ TablesOK(contexts)
    /\ DOMAIN trees = DOMAIN TreesOf(program)
    /\ \A k \in DOMAIN frames : FrameIn(frames[k], Own(contexts), DOMAIN trees)
    /\ \A k \in DOMAIN records : RecordIn(records[k], Own(contexts), DOMAIN trees)

TypeInv ==
    /\ SectionInv /\ SectionOK(section)
    /\ \A name \in DOMAIN macros : IsList(macros[name].formals)
    /\ ScopeInv
    /\ pc = "pass_one" => Len(homes) = at - 1
    /\ Len(homes) <= Len(records)
    /\ complained \in BOOLEAN

LEMMA WithLabelKeeps ==
    ASSUME NEW tables, TablesOK(tables), NEW c, NEW name, NEW e
    PROVE  LET t == WithLabel(tables, c, name, e)
           IN  TablesOK(t) /\ DOMAIN t = DOMAIN tables
<1>. DEFINE t == WithLabel(tables, c, name, e)
            labels == [n \in DOMAIN tables[c].labels \cup {name} |->
                          IF n = name THEN e ELSE tables[c].labels[n]]
<1>1. t = [tables EXCEPT ![c] = [tables[c] EXCEPT !.labels = labels]]
  BY DEF WithLabel
<1>. HIDE DEF t, labels
<1>2. DOMAIN t = DOMAIN tables
  BY <1>1
<1>3. ASSUME NEW d \in DOMAIN tables
      PROVE  /\ t[d] = [parent |-> t[d].parent, labels |-> t[d].labels]
             /\ t[d].parent = tables[d].parent
  <2>1. tables[d] = [parent |-> tables[d].parent, labels |-> tables[d].labels]
    BY DEF TablesOK
  <2>2. CASE d = c
    <3>1. t[d] = [tables[d] EXCEPT !.labels = labels]
      BY <1>1, <2>2
    <3>2. t[d] = [parent |-> tables[d].parent, labels |-> labels]
      BY <2>1, <3>1
    <3>. QED
      BY <3>2
  <2>3. CASE d # c
    BY <1>1, <2>1, <2>3
  <2>. QED
    BY <2>2, <2>3
<1>4. TablesOK(t)
  BY <1>2, <1>3 DEF TablesOK, Own
<1>. QED
  BY <1>2, <1>4 DEF t

LEMMA EvaluatedKeeps ==
    ASSUME NEW tables, TablesOK(tables), NEW result, Kept(tables, result)
    PROVE  TablesOK(result.contexts) /\ DOMAIN result.contexts = DOMAIN tables
<1>. DEFINE t == result.contexts
<1>1. /\ DOMAIN t = DOMAIN tables
      /\ \A c \in DOMAIN tables : t[c] = [parent |-> tables[c].parent, labels |-> t[c].labels]
  BY DEF Kept
<1>. HIDE DEF t
<1>2. \A c \in DOMAIN tables : /\ t[c].parent = tables[c].parent
                               /\ t[c] = [parent |-> t[c].parent, labels |-> t[c].labels]
  BY <1>1
<1>3. TablesOK(t)
  BY <1>1, <1>2 DEF TablesOK, Own
<1>. QED
  BY <1>1, <1>3 DEF t

(* A context put in front of the tables.                                     *)
LEMMA NewKeeps ==
    ASSUME NEW tables, TablesOK(tables), NEW c, NEW parent \in Own(tables) \cup {NoContext}
    PROVE  LET t == WithContext(tables, c, parent)
           IN  TablesOK(t) /\ DOMAIN t = DOMAIN tables \cup {c}
<1>. DEFINE t == WithContext(tables, c, parent)
<1>1. /\ DOMAIN t = DOMAIN tables \cup {c}
      /\ \A d \in DOMAIN t : t[d] = IF d = c THEN Context(parent) ELSE tables[d]
  BY DEF WithContext
<1>. HIDE DEF t
<1>2. IsFiniteSet(DOMAIN t)
  BY <1>1, FS_AddElement DEF TablesOK
<1>3. ASSUME NEW d \in DOMAIN t
      PROVE  /\ t[d] = [parent |-> t[d].parent, labels |-> t[d].labels]
             /\ t[d].parent \in Own(tables) \cup {NoContext}
  <2>1. CASE d = c
    <3>1. t[d] = [parent |-> parent, labels |-> NoLabels]
      BY <1>1, <2>1 DEF Context
    <3>. QED
      BY <3>1
  <2>2. CASE d # c
    BY <1>1, <2>2 DEF TablesOK
  <2>. QED
    BY <2>1, <2>2
<1>4. TablesOK(t)
  BY <1>1, <1>2, <1>3 DEF TablesOK, Own
<1>. QED
  BY <1>1, <1>4 DEF t

LEMMA EnteredKeeps ==
    ASSUME TablesOK(contexts), Top.context \in Own(contexts)
    PROVE  /\ TablesOK(Entered) /\ DOMAIN Entered = DOMAIN contexts \cup {NewContext}
           /\ NewContext # Assembling
<1>1. Cardinality(DOMAIN contexts) \in Nat
  BY FS_CardinalityType DEF TablesOK
<1>2. NewContext # Assembling
  BY <1>1 DEF NewContext, Assembling
<1>. HIDE DEF NewContext
<1>3. /\ TablesOK(WithContext(contexts, NewContext, Top.context))
      /\ DOMAIN WithContext(contexts, NewContext, Top.context) = DOMAIN contexts \cup {NewContext}
  BY NewKeeps
<1>. QED
  BY <1>2, <1>3 DEF Entered

(* Induction up to a bound.                                                  *)
LEMMA UpToLength ==
    ASSUME NEW n \in Nat, NEW T, 0 \in T, \A i \in 1 .. n : i - 1 \in T => i \in T
    PROVE  0 .. n \subseteq T
<1>. DEFINE Bad == (0 .. n) \ T
<1>. SUFFICES ASSUME Bad # {} PROVE FALSE
  OBVIOUS
<1>1. IsWellFoundedOn(OpToRel(<, Nat), Nat)
  BY NatLessThanWellFounded
<1>2. Bad \subseteq Nat
  OBVIOUS
<1>. HIDE DEF Bad
<1>3. PICK i \in Bad : \A k \in Bad : ~(<<k, i>> \in OpToRel(<, Nat))
  BY <1>1, <1>2, WFMin
<1>4. i \in 0 .. n /\ i \notin T
  BY DEF Bad
<1>5. i \in 1 .. n /\ i - 1 \in 0 .. n /\ i - 1 \in Nat
  BY <1>4
<1>6. i - 1 \notin T
  BY <1>4, <1>5
<1>7. i - 1 \in Bad /\ i - 1 < i
  BY <1>5, <1>6 DEF Bad
<1>8. <<i - 1, i>> \in OpToRel(<, Nat)
  BY <1>5, <1>7 DEF OpToRel
<1>. QED
  BY <1>3, <1>7, <1>8

(* The tables after one argument are those after the ones before it, with    *)
(* what it was evaluated to.                                                 *)
LEMMA BoundStep ==
    ASSUME NEW formals, Len(formals) \in Nat, NEW args
    PROVE  LET b == Bound(formals, args)
           IN  /\ b[0] = Entered
               /\ \A i \in 1 .. Len(formals) :
                      LET arg == Argument(formals, args, i)
                      IN  b[i] = WithLabel(arg.contexts, NewContext, formals[i], arg.node)
<1>. DEFINE n == Len(formals)
            Turn(t, i) == LET arg == EvalExpr(t, NewContext, args[i], TRUE)
                          IN  WithLabel(arg.contexts, NewContext, formals[i], arg.node)
            To(f, k) == f = [i \in 0 .. k |-> IF i = 0 THEN Entered ELSE Turn(f[i - 1], i)]
            T == {k \in 0 .. n : \E f : To(f, k)}
            b == Bound(formals, args)
<1>1. b = CHOOSE f : To(f, n)
  BY DEF Bound
<1>2. \A i : Turn(b[i - 1], i) =
          LET arg == Argument(formals, args, i)
          IN  WithLabel(arg.contexts, NewContext, formals[i], arg.node)
  BY DEF Argument
<1>. HIDE DEF Turn, b
<1>3. 0 \in T
  <2>1. To([i \in 0 .. 0 |-> Entered], 0)
    OBVIOUS
  <2>2. 0 \in 0 .. n
    OBVIOUS
  <2>. HIDE DEF To
  <2>. QED
    BY <2>1, <2>2, Zenon
<1>4. ASSUME NEW k \in 1 .. n, k - 1 \in T PROVE k \in T
  <2>1. PICK f : To(f, k - 1)
    BY <1>4
  <2>. DEFINE g == [i \in 0 .. k |-> IF i = k THEN Turn(f[k - 1], k) ELSE f[i]]
  <2>2. \A i \in 0 .. k : g[i] = IF i = 0 THEN Entered ELSE Turn(g[i - 1], i)
    <3>1. \A i \in 0 .. k - 1 : f[i] = IF i = 0 THEN Entered ELSE Turn(f[i - 1], i)
      BY <2>1
    <3>2. ASSUME NEW i \in 0 .. k PROVE g[i] = IF i = 0 THEN Entered ELSE Turn(g[i - 1], i)
      <4>1. i = 0 \/ (i - 1 \in 0 .. k /\ i - 1 # k)
        OBVIOUS
      <4>2. i # 0 => g[i - 1] = f[i - 1]
        BY <4>1
      <4>3. CASE i = k
        <5>1. g[i] = Turn(f[i - 1], i) /\ i # 0
          BY <4>3
        <5>. QED
          BY <4>2, <5>1
      <4>4. CASE i # k
        <5>1. i \in 0 .. k - 1 /\ g[i] = f[i]
          BY <4>4
        <5>. QED
          BY <3>1, <4>2, <5>1
      <4>. QED
        BY <4>3, <4>4
    <3>. QED
      BY <3>2
  <2>3. g = [i \in 0 .. k |-> g[i]]
    OBVIOUS
  <2>. HIDE DEF g
  <2>4. To(g, k)
    BY <2>2, <2>3
  <2>. QED
    BY <2>4
<1>. HIDE DEF T
<1>5. n \in T
  <2>1. 0 .. n \subseteq T
    BY <1>3, <1>4, UpToLength
  <2>. QED
    BY <2>1
<1>6. To(b, n)
  BY <1>1, <1>5 DEF T
<1>7. b[0] = Entered /\ \A i \in 1 .. n : b[i] = Turn(b[i - 1], i)
  BY <1>6
<1>. QED
  BY <1>2, <1>7 DEF b

LEMMA BoundKeeps ==
    ASSUME NEW formals, IsList(formals), NEW args, TablesOK(Entered),
           \A i \in DOMAIN formals :
               Kept(Bound(formals, args)[i - 1], Argument(formals, args, i))
    PROVE  LET t == Bound(formals, args)[Len(formals)]
           IN  TablesOK(t) /\ DOMAIN t = DOMAIN Entered
<1>. DEFINE b == Bound(formals, args)
            arg(i) == Argument(formals, args, i)
            T == {i \in 0 .. Len(formals) : TablesOK(b[i]) /\ DOMAIN b[i] = DOMAIN Entered}
<1>1. Len(formals) \in Nat /\ DOMAIN formals = 1 .. Len(formals)
  BY ListBasics
<1>2. /\ b[0] = Entered
      /\ \A i \in 1 .. Len(formals) :
             b[i] = WithLabel(arg(i).contexts, NewContext, formals[i], arg(i).node)
  BY <1>1, BoundStep
<1>3. \A i \in 1 .. Len(formals) : Kept(b[i - 1], arg(i))
  BY <1>1
<1>. HIDE DEF b, arg
<1>4. 0 \in T
  BY <1>1, <1>2
<1>5. ASSUME NEW i \in 1 .. Len(formals), i - 1 \in T PROVE i \in T
  <2>1. TablesOK(b[i - 1]) /\ DOMAIN b[i - 1] = DOMAIN Entered
    BY <1>5
  <2>2. TablesOK(arg(i).contexts) /\ DOMAIN arg(i).contexts = DOMAIN Entered
    BY <1>3, <2>1, EvaluatedKeeps
  <2>3. TablesOK(b[i]) /\ DOMAIN b[i] = DOMAIN Entered
    BY <1>2, <2>2, WithLabelKeeps
  <2>. QED
    BY <1>1, <2>3
<1>. HIDE DEF T
<1>6. Len(formals) \in T
  <2>1. 0 .. Len(formals) \subseteq T
    BY <1>1, <1>4, <1>5, UpToLength
  <2>. QED
    BY <1>1, <2>1
<1>. QED
  BY <1>6 DEF T, b

(* What the mnemonics stand for are words.                                   *)
LEMMA WordForIsWord ==
    ASSUME NEW m \in Mnemonics, NEW n \in Word
    PROVE  WordFor(m, n) \in Word
<1>1. n \in Int
  BY WordIsNat
<1>2. CASE m = "NUM"
  BY <1>2 DEF WordFor
<1>3. CASE m = "EJA"
  <2>1. Wrap(n - 1) \in Word
    BY <1>1, WrapIsWord
  <2>. QED
    BY <1>3, <2>1 DEF WordFor
<1>4. CASE m \notin Directives
  <2>. DEFINE op == OpcodeFor(m)
              field == IF TakesOperand(m) THEN OperandOf(n) ELSE 0
  <2>1. op \in 0 .. 7
    <3>1. m \in Instructions
      BY <1>4 DEF Mnemonics
    <3>. QED
      BY <3>1 DEF Instructions, OpcodeFor, OP_JMP, OP_JRP, OP_SUB, OP_LDN, OP_STO, OP_SKN, OP_HLT
  <2>2. OperandSpan \in Nat \ {0} /\ DataSpan \in Nat \ {0}
    BY WordsAssumption
  <2>3. field \in 0 .. OperandSpan - 1
    <3>1. ASSUME NEW p \in Nat \ {0} PROVE n % p \in 0 .. p - 1
      BY <1>1
    <3>2. OperandOf(n) \in 0 .. OperandSpan - 1 /\ 0 \in 0 .. OperandSpan - 1
      BY <2>2, <3>1 DEF OperandOf
    <3>. QED
      BY <3>2
  <2>. HIDE DEF op, field
  <2>4. ASSUME NEW p \in Nat \ {0}, NEW d \in Nat \ {0}, NEW k \in 0 .. 7, NEW f \in 0 .. p - 1
        PROVE  k * p + f \in 0 .. 8 * p * d - 1
    <3>1. k * p + f \in 0 .. 8 * p - 1
      <4>1. k \in {0, 1, 2, 3, 4, 5, 6, 7}
        OBVIOUS
      <4>. QED
        BY <4>1
    <3>2. \A q \in Nat : q <= q * d /\ q * d \in Nat
      OBVIOUS
    <3>3. 8 * p \in Nat /\ 8 * p <= 8 * p * d /\ 8 * p * d \in Nat
      BY <3>2
    <3>. QED
      BY <3>1, <3>3
  <2>5. op * OperandSpan + field \in Word
    BY <2>1, <2>2, <2>3, <2>4 DEF Word, Modulus
  <2>6. WordFor(m, n) = op * OperandSpan + field
    BY <1>4 DEF WordFor, Directives, op, field
  <2>. QED
    BY <2>5, <2>6
<1>. QED
  BY <1>2, <1>3, <1>4 DEF Directives

LEMMA StatementIn ==
    ASSUME TypeInv, pc = "parse", Top.i <= Len(Top.list)
    PROVE  /\ Top.context \in Own(contexts)
           /\ RecordIn(Pending, Own(contexts), DOMAIN trees)
           /\ Stmt.t = "instr" => Stmt.id \in DOMAIN trees
           /\ Stmt.t = "macro" => IsList(Stmt.formals)
<1>1. ParseInv /\ ScopeInv
  BY DEF TypeInv, SectionInv
<1>2. FrameIn(Top, Own(contexts), DOMAIN trees)
  BY <1>1, StatementOK DEF ScopeInv
<1>3. PICK source \in Range(program) : Stmt \in StatementsOf(source)
  BY <1>1, StatementOK
<1>4. ASSUME Stmt.t = "instr" PROVE Stmt.id \in DOMAIN trees
  <2>. DEFINE instrs == {s \in UNION {StatementsOf(source_1) : source_1 \in Range(program)} :
                             s.t = "instr"}
  <2>1. Stmt \in instrs
    BY <1>3, <1>4
  <2>2. DOMAIN TreesOf(program) = {s.id : s \in instrs}
    BY DEF TreesOf
  <2>. HIDE DEF instrs
  <2>. QED
    BY <1>1, <2>1, <2>2 DEF ScopeInv
<1>5. Stmt.t = "macro" => IsList(Stmt.formals)
  BY <1>1, <1>3, ProgramsAssumption DEF ParseInv, SourcesOK
<1>. QED
  BY <1>2, <1>4, <1>5 DEF FrameIn, Pending

LEMMA FreshIn ==
    ASSUME NEW own, NEW ids, NEW c \in own, NEW name, NEW n
    PROVE  /\ RecordIn(Fresh(c), own, ids)
           /\ RecordIn([Fresh(c) EXCEPT !.label = name], own, ids)
           /\ RecordIn([Fresh(c) EXCEPT !.org = n], own, ids)
  BY DEF RecordIn, Fresh

(* A statement is done with, of which a record may have been made.           *)
LEMMA ScopesGoOn ==
    ASSUME TypeInv, pc = "parse", Top.i <= Len(Top.list),
           NEW r, RecordOK(r), RecordIn(r, Own(contexts), DOMAIN trees),
           NEW e, RecordIn(e, Own(contexts), DOMAIN trees), NEW grows \in BOOLEAN,
           frames' = NextFrame(r),
           records' = IF grows THEN Append(records, e) ELSE records,
           contexts' = contexts, trees' = trees, program' = program
    PROVE  ScopeInv'
<1>. DEFINE own == Own(contexts)
            ids == DOMAIN trees
<1>1. ParseInv /\ ScopeInv
  BY DEF TypeInv, SectionInv
<1>2. \A k \in DOMAIN frames' : FrameIn(frames'[k], own, ids)
  <2>1. /\ DOMAIN frames' = 1 .. Len(frames) /\ DOMAIN frames = 1 .. Len(frames)
        /\ \A k \in DOMAIN frames' : k # Len(frames) => frames'[k] = frames[k]
        /\ frames'[Len(frames)].context = Top.context
        /\ frames'[Len(frames)].pending = r
    <3>. DEFINE f == [context |-> Top.context, list |-> Top.list, i |-> Top.i + 1, pending |-> r]
    <3>1. /\ DOMAIN frames' = 1 .. Len(frames)
          /\ \A k \in DOMAIN frames' : k # Len(frames) => frames'[k] = frames[k]
          /\ frames'[Len(frames)] = f
      BY <1>1, NextFrameOK
    <3>2. DOMAIN frames = 1 .. Len(frames)
      BY <1>1, StatementOK
    <3>3. f.context = Top.context /\ f.pending = r
      OBVIOUS
    <3>. HIDE DEF f
    <3>. QED
      BY <3>1, <3>2, <3>3
  <2>2. Top.context \in own
    BY StatementIn
  <2>. QED
    BY <1>1, <2>1, <2>2 DEF FrameIn, ScopeInv
<1>3. \A k \in DOMAIN records' : RecordIn(records'[k], own, ids)
  <2>1. IsList(records) /\ \A k \in DOMAIN records : RecordIn(records[k], own, ids)
    BY <1>1 DEF ParseInv, BufferOK, ScopeInv
  <2>2. /\ DOMAIN Append(records, e) = 1 .. Len(records) + 1 /\ Len(records) \in Nat
        /\ DOMAIN records = 1 .. Len(records)
        /\ \A k \in DOMAIN Append(records, e) :
               Append(records, e)[k] = IF k = Len(records) + 1 THEN e ELSE records[k]
    BY <2>1, ListAppend
  <2>. HIDE DEF own, ids
  <2>3. ASSUME NEW k \in DOMAIN Append(records, e)
        PROVE  RecordIn(Append(records, e)[k], own, ids)
    <3>1. CASE k = Len(records) + 1
      BY <2>2, <3>1 DEF own, ids
    <3>2. CASE k # Len(records) + 1
      <4>1. k \in DOMAIN records
        BY <2>2, <3>2
      <4>. QED
        BY <2>1, <2>2, <3>2, <4>1
    <3>. QED
      BY <3>1, <3>2
  <2>. QED
    BY <2>1, <2>3
<1>4. Own(contexts)' = own /\ (DOMAIN trees)' = ids
  BY DEF Own
<1>. HIDE DEF own, ids
<1>5. /\ \A k \in DOMAIN frames' : FrameIn(frames[k], Own(contexts), DOMAIN trees)'
      /\ \A k \in DOMAIN records' : RecordIn(records[k], Own(contexts), DOMAIN trees)'
  BY <1>2, <1>3, <1>4 DEF FrameIn, RecordIn
<1>6. TablesOK(contexts)' /\ (DOMAIN trees = DOMAIN TreesOf(program))'
  BY <1>1 DEF ScopeInv, TablesOK, Own
<1>. QED
  BY <1>5, <1>6 DEF ScopeInv

(* Steps of the parser that leave the section and the passes alone.          *)
LEMMA ParserKeepsTypes ==
    ASSUME TypeInv, SectionInv', ScopeInv', pc' # "pass_one",
           section' = section, homes' = homes, complained' = complained,
           Len(records') >= Len(records),
           \A name \in DOMAIN macros' : IsList(macros'[name].formals)
    PROVE  TypeInv'
<1>1. Len(homes) <= Len(records) /\ Len(homes) \in Nat /\ Len(records) \in Nat
      /\ Len(records') \in Nat
  BY ListBasics DEF TypeInv, SectionInv, ParseInv, BufferOK
<1>2. Len(homes') <= Len(records')
  BY <1>1
<1>3. (\A name \in DOMAIN macros : IsList(macros[name].formals))'
  BY DEF IsList
<1>. QED
  BY <1>2, <1>3 DEF TypeInv

LEMMA MoreRecords ==
    ASSUME ParseInv, NEW e
    PROVE  Len(Append(records, e)) >= Len(records) /\ Len(records) >= Len(records)
<1>1. IsList(records)
  BY DEF ParseInv, BufferOK
<1>2. Len(Append(records, e)) = Len(records) + 1 /\ Len(records) \in Nat
  BY <1>1, ListAppend
<1>. QED
  BY <1>2

LEMMA StatementsKeepTypes ==
    ASSUME TypeInv, SectionInv', ParseLabel \/ ParseOrg \/ DefineMacro \/ ParseInstr
    PROVE  TypeInv'
<1>. DEFINE own == Own(contexts)
            ids == DOMAIN trees
<1>1. ParseInv /\ pc = "parse" /\ Top.i <= Len(Top.list)
  BY DEF TypeInv, SectionInv, ParseLabel, ParseOrg, DefineMacro, ParseInstr, Parsing
<1>2. /\ Top.context \in own /\ RecordIn(Pending, own, ids)
      /\ RecordOK(Pending) /\ Located(Pending) \in BOOLEAN
  BY <1>1, StatementIn, PendingOK DEF Located
<1>3. /\ section' = section /\ homes' = homes /\ complained' = complained
      /\ contexts' = contexts /\ trees' = trees /\ program' = program /\ pc' # "pass_one"
  BY <1>1 DEF ParseLabel, ParseOrg, DefineMacro, ParseInstr, Locate, passVars, auxVars
<1>4. ASSUME NEW r, RecordOK(r), RecordIn(r, own, ids), Locate(r) PROVE TypeInv'
  <2>1. ScopeInv'
    BY <1>1, <1>2, <1>3, <1>4, ScopesGoOn DEF Locate
  <2>2. Len(records') >= Len(records)
    BY <1>1, <1>4, MoreRecords DEF Locate
  <2>3. macros' = macros
    BY <1>4 DEF Locate
  <2>. QED
    BY <1>3, <2>1, <2>2, <2>3, ParserKeepsTypes DEF TypeInv
<1>5. CASE ParseLabel
  <2>1. Word # {}
    BY WrapIsWord
  <2>. DEFINE r == [Fresh(Top.context) EXCEPT !.label = Stmt.name]
  <2>2. RecordOK(r) /\ RecordIn(r, own, ids)
    BY <1>2, <2>1, LocatedRecordOK, FreshIn
  <2>. QED
    BY <1>4, <1>5, <2>2 DEF ParseLabel
<1>6. CASE ParseOrg
  <2>. DEFINE r == [Fresh(Top.context) EXCEPT !.org = Stmt.n]
  <2>1. Stmt.n \in Word
    BY <1>1, <1>6, StatementOK DEF ParseOrg, Parsing
  <2>2. RecordOK(r) /\ RecordIn(r, own, ids)
    BY <1>2, <2>1, LocatedRecordOK, FreshIn
  <2>. QED
    BY <1>4, <1>6, <2>2 DEF ParseOrg
<1>7. CASE DefineMacro
  <2>1. records' = records /\ Len(records') >= Len(records)
    BY <1>1, <1>7, MoreRecords DEF DefineMacro
  <2>2. CASE Len(frames) = 1
    <3>1. ScopeInv'
      <4>1. frames' = NextFrame(Pending)
        BY <1>7, <2>2 DEF DefineMacro
      <4>2. records' = IF FALSE THEN Append(records, Pending) ELSE records
        BY <2>1
      <4>. QED
        BY <1>1, <1>2, <1>3, <4>1, <4>2, ScopesGoOn
    <3>2. Stmt.t = "macro" /\ IsList(Stmt.formals)
      BY <1>1, <1>7, StatementIn DEF DefineMacro, Parsing
    <3>3. \A name \in DOMAIN macros' :
              \/ macros'[name] = Stmt
              \/ name \in DOMAIN macros /\ macros'[name] = macros[name]
      BY <1>7, <2>2 DEF DefineMacro
    <3>4. \A name \in DOMAIN macros' : IsList(macros'[name].formals)
      BY <3>2, <3>3 DEF TypeInv
    <3>. QED
      BY <1>3, <2>1, <3>1, <3>4, ParserKeepsTypes
  <2>3. CASE Len(frames) # 1
    <3>1. macros' = macros /\ frames' = frames
      BY <1>7, <2>3 DEF DefineMacro
    <3>2. ScopeInv'
      BY <1>3, <2>1, <3>1 DEF TypeInv, ScopeInv, TablesOK, Own, FrameIn, RecordIn
    <3>. QED
      BY <1>3, <2>1, <3>1, <3>2, ParserKeepsTypes DEF TypeInv
  <2>. QED
    BY <2>2, <2>3
<1>8. CASE ParseInstr
  <2>. DEFINE e == [Pending EXCEPT !.m = Stmt.m, !.id = Stmt.id]
  <2>1. RecordIn(e, own, ids)
    <3>1. Stmt.id \in ids
      BY <1>1, <1>8, StatementIn DEF ParseInstr, Parsing
    <3>2. e.context = Pending.context /\ e.id = Stmt.id
      <4>1. ASSUME NEW p, RecordOK(p), NEW m, NEW id
            PROVE  /\ [p EXCEPT !.m = m, !.id = id].context = p.context
                   /\ [p EXCEPT !.m = m, !.id = id].id = id
        BY <4>1 DEF RecordOK
      <4>. QED
        BY <1>2, <4>1
    <3>. QED
      BY <1>2, <3>1, <3>2 DEF RecordIn
  <2>2. RecordOK(Fresh(Top.context)) /\ RecordIn(Fresh(Top.context), own, ids)
    BY <1>2, FreshOK, FreshIn
  <2>3. records' = Append(records, e) /\ frames' = NextFrame(Fresh(Top.context)) /\ macros' = macros
    BY <1>8 DEF ParseInstr
  <2>. HIDE DEF e
  <2>4. records' = IF TRUE THEN Append(records, e) ELSE records
    BY <2>3
  <2>5. ScopeInv'
    BY <1>1, <1>3, <2>1, <2>2, <2>3, <2>4, ScopesGoOn
  <2>6. Len(records') >= Len(records)
    BY <1>1, <2>3, MoreRecords
  <2>. QED
    BY <1>3, <2>3, <2>5, <2>6, ParserKeepsTypes DEF TypeInv
<1>. QED
  BY <1>5, <1>6, <1>7, <1>8

(* The macro's context is new; its frame is on top of those there are.       *)
LEMMA ApplyKeepsTypes ==
    ASSUME TypeInv, SectionInv', OnlyResolves, ApplyMacro
    PROVE  TypeInv'
<1>. DEFINE macro == macros[Stmt.m]
            args == trees[Stmt.id]
            next == NextFrame(Fresh(Top.context))
            new == Frame(NewContext, macro.body)
<1>1. ParseInv /\ pc = "parse" /\ Top.i <= Len(Top.list) /\ IsMacro(Stmt.m)
  BY DEF TypeInv, SectionInv, ApplyMacro, Parsing
<1>2. /\ section' = section /\ homes' = homes /\ complained' = complained
      /\ trees' = trees /\ program' = program /\ macros' = macros /\ pc' # "pass_one"
  BY <1>1 DEF ApplyMacro, passVars, auxVars
<1>3. CASE frames' = frames /\ records' = records /\ contexts' = contexts
  <2>1. ScopeInv'
    BY <1>2, <1>3 DEF TypeInv, ScopeInv, TablesOK, Own, FrameIn, RecordIn
  <2>2. Len(records') >= Len(records)
    BY <1>1, <1>3, MoreRecords
  <2>. QED
    BY <1>2, <2>1, <2>2, ParserKeepsTypes DEF TypeInv
<1>4. CASE /\ ~BadArguments(macro.formals, args)
           /\ contexts' = Bound(macro.formals, args)[Len(macro.formals)]
           /\ records' = IF Located(Pending) THEN Append(records, Pending) ELSE records
           /\ frames' = Append(next, new)
  <2>. DEFINE own == Own(contexts)
              ids == DOMAIN trees
              own2 == Own(contexts')
  <2>1. /\ Top.context \in own /\ RecordIn(Pending, own, ids)
        /\ Located(Pending) \in BOOLEAN /\ TablesOK(contexts)
    BY <1>1, StatementIn DEF Located, TypeInv, ScopeInv
  <2>2. /\ TablesOK(Entered) /\ DOMAIN Entered = DOMAIN contexts \cup {NewContext}
        /\ NewContext # Assembling
    BY <2>1, EnteredKeeps
  <2>3. IsList(macro.formals)
    BY <1>1 DEF IsMacro, TypeInv
  <2>4. \A i \in DOMAIN macro.formals :
            Kept(Bound(macro.formals, args)[i - 1], Argument(macro.formals, args, i))
    BY <1>1, <1>4 DEF OnlyResolves, ApplyMacro
  <2>5. TablesOK(contexts') /\ DOMAIN contexts' = DOMAIN contexts \cup {NewContext}
    BY <1>4, <2>2, <2>3, <2>4, BoundKeeps
  <2>6. own \subseteq own2 /\ NewContext \in own2
    BY <2>2, <2>5 DEF Own
  <2>7. /\ IsList(next) /\ DOMAIN next = 1 .. Len(frames) /\ Len(next) = Len(frames)
        /\ \A k \in DOMAIN next : FrameIn(next[k], own, ids)
    <3>. DEFINE r == Fresh(Top.context)
                f == [context |-> Top.context, list |-> Top.list, i |-> Top.i + 1, pending |-> r]
    <3>1. RecordOK(r) /\ RecordIn(r, own, ids)
      BY <2>1, FreshOK, FreshIn
    <3>. HIDE DEF r
    <3>2. /\ IsList(NextFrame(r)) /\ DOMAIN NextFrame(r) = 1 .. Len(frames)
          /\ Len(NextFrame(r)) = Len(frames)
          /\ \A k \in DOMAIN NextFrame(r) : k # Len(frames) => NextFrame(r)[k] = frames[k]
          /\ NextFrame(r)[Len(frames)] = f
      BY <1>1, <3>1, NextFrameOK
    <3>3. DOMAIN frames = 1 .. Len(frames)
      BY <1>1, StatementOK
    <3>4. FrameIn(f, own, ids)
      BY <2>1, <3>1 DEF FrameIn
    <3>. HIDE DEF f, own, ids
    <3>5. \A k \in DOMAIN frames : FrameIn(frames[k], own, ids)
      BY DEF TypeInv, ScopeInv, own, ids
    <3>6. \A k \in DOMAIN NextFrame(r) : FrameIn(NextFrame(r)[k], own, ids)
      BY <3>2, <3>3, <3>4, <3>5
    <3>. QED
      BY <3>2, <3>6 DEF r
  <2>8. FrameIn(new, own2, ids)
    <3>1. new.context = NewContext /\ new.pending = Fresh(NewContext)
      BY DEF Frame
    <3>2. RecordIn(Fresh(NewContext), own2, ids)
      BY <2>6, FreshIn
    <3>. HIDE DEF new, own2, ids
    <3>. QED
      BY <2>6, <3>1, <3>2 DEF FrameIn
  <2>. HIDE DEF next, new, own, own2, ids
  <2>9. \A k \in DOMAIN frames' : FrameIn(frames'[k], own2, ids)
    <3>1. /\ DOMAIN frames' = 1 .. Len(next) + 1 /\ DOMAIN next = 1 .. Len(next)
          /\ \A k \in DOMAIN frames' : frames'[k] = IF k = Len(next) + 1 THEN new ELSE next[k]
          /\ Len(next) \in Nat
      BY <1>4, <2>7, ListAppend
    <3>2. ASSUME NEW k \in DOMAIN frames' PROVE FrameIn(frames'[k], own2, ids)
      <4>1. CASE k = Len(next) + 1
        BY <2>8, <3>1, <4>1
      <4>2. CASE k # Len(next) + 1
        <5>1. k \in DOMAIN next
          BY <3>1, <4>2
        <5>2. FrameIn(next[k], own, ids)
          BY <2>7, <5>1
        <5>. QED
          BY <2>6, <3>1, <4>2, <5>2 DEF FrameIn, RecordIn
      <4>. QED
        BY <4>1, <4>2
    <3>. QED
      BY <3>2
  <2>10. \A k \in DOMAIN records' : RecordIn(records'[k], own2, ids)
    <3>1. IsList(records) /\ \A k \in DOMAIN records : RecordIn(records[k], own, ids)
      BY <1>1 DEF ParseInv, BufferOK, TypeInv, ScopeInv, own, ids
    <3>2. /\ DOMAIN Append(records, Pending) = 1 .. Len(records) + 1 /\ Len(records) \in Nat
          /\ DOMAIN records = 1 .. Len(records)
          /\ \A k \in DOMAIN Append(records, Pending) :
                 Append(records, Pending)[k] = IF k = Len(records) + 1 THEN Pending ELSE records[k]
      BY <3>1, ListAppend
    <3>3. ASSUME NEW k \in DOMAIN records' PROVE RecordIn(records'[k], own, ids)
      <4>1. records' = records \/ records' = Append(records, Pending)
        BY <1>4
      <4>2. CASE records' = records
        BY <3>1, <4>2
      <4>3. CASE records' = Append(records, Pending)
        <5>1. k = Len(records) + 1 \/ (k \in DOMAIN records /\ k # Len(records) + 1)
          <6>1. k \in 1 .. Len(records) + 1 /\ Len(records) \in Nat
            BY <3>2, <4>3
          <6>2. k = Len(records) + 1 \/ (k \in 1 .. Len(records) /\ k # Len(records) + 1)
            BY <6>1
          <6>3. DOMAIN records = 1 .. Len(records)
            BY <3>2
          <6>. QED
            BY <6>2, <6>3, Zenon
        <5>2. k \in DOMAIN Append(records, Pending)
          BY <4>3
        <5>3. RecordIn(Pending, own, ids)
          BY <2>1 DEF own, ids
        <5>. QED
          BY <3>1, <3>2, <4>3, <5>1, <5>2, <5>3
      <4>. QED
        BY <4>1, <4>2, <4>3
    <3>. QED
      BY <2>6, <3>3 DEF RecordIn
  <2>11. ScopeInv'
    <3>1. Own(contexts)' = own2 /\ (DOMAIN trees)' = ids
      BY <1>2 DEF Own, own2, ids
    <3>2. /\ \A k \in DOMAIN frames' : FrameIn(frames[k], Own(contexts), DOMAIN trees)'
          /\ \A k \in DOMAIN records' : RecordIn(records[k], Own(contexts), DOMAIN trees)'
      BY <2>9, <2>10, <3>1 DEF FrameIn, RecordIn
    <3>3. TablesOK(contexts)'
      BY <2>5 DEF TablesOK, Own
    <3>4. (DOMAIN trees = DOMAIN TreesOf(program))'
      BY <1>2 DEF TypeInv, ScopeInv
    <3>. QED
      BY <3>2, <3>3, <3>4 DEF ScopeInv
  <2>12. Len(records') >= Len(records)
    BY <1>1, <1>4, MoreRecords
  <2>. QED
    BY <1>2, <2>11, <2>12, ParserKeepsTypes DEF TypeInv
<1>. QED
  BY <1>3, <1>4 DEF ApplyMacro

LEMMA EndOfListKeepsTypes ==
    ASSUME TypeInv, SectionInv', EndOfList
    PROVE  TypeInv'
<1>1. ParseInv /\ pc = "parse"
  BY DEF TypeInv, SectionInv, EndOfList
<1>2. IsList(frames) /\ frames # <<>> /\ IsList(records) /\ Len(records) \in Nat
  BY <1>1, ListBasics DEF ParseInv, FramesOK, BufferOK
<1>3. /\ contexts' = contexts /\ trees' = trees /\ program' = program /\ records' = records
      /\ section' = section /\ complained' = complained /\ macros' = macros
      /\ frames' = Front(frames)
  BY DEF EndOfList
<1>4. ScopeInv'
  <2>1. /\ DOMAIN frames' = 1 .. Len(frames) - 1 /\ DOMAIN frames = 1 .. Len(frames)
        /\ \A k \in 1 .. Len(frames) - 1 : frames'[k] = frames[k]
        /\ Len(frames) \in Nat
    BY <1>2, <1>3, ListParts
  <2>2. \A k \in DOMAIN frames' : k \in DOMAIN frames /\ frames'[k] = frames[k]
    BY <2>1
  <2>. QED
    BY <1>3, <2>2 DEF TypeInv, ScopeInv, TablesOK, Own, FrameIn, RecordIn
<1>5. Len(<<>>) = 0 /\ (homes' = homes \/ homes' = <<>>)
  BY ListBasics DEF EndOfList
<1>6. Len(homes') <= Len(records')
  BY <1>2, <1>3, <1>5 DEF TypeInv
<1>7. pc' = "pass_one" => Len(homes') = at' - 1
  BY <1>1, <1>5 DEF EndOfList
<1>. QED
  BY <1>3, <1>4, <1>6, <1>7 DEF TypeInv, IsList

(* The section where a record belongs, and after put_word().                 *)
LEMMA SectionsStayTyped ==
    ASSUME TypeInv, pc \in {"pass_one", "assemble"}, at <= Len(records)
    PROVE  /\ SectionOK(Placed)
           /\ \A word \in Word, debug \in Nat : SectionOK(PutWord(Placed, word, debug))
<1>1. /\ ArrayOK(Placed) /\ Placed.capacity = section.capacity
      /\ Placed.data = section.data
  BY PlacedOK DEF TypeInv
<1>2. SectionOK(Placed)
  BY <1>1 DEF TypeInv, SectionOK
<1>. QED
  BY <1>1, <1>2, PutWordKeepsSection

(* A record of either pass: the tables keep their links, whatever labels     *)
(* they get.                                                                 *)
LEMMA ScopesStay ==
    ASSUME TypeInv, TablesOK(contexts'), DOMAIN contexts' = DOMAIN contexts,
           DOMAIN trees' = DOMAIN trees, frames' = frames, records' = records,
           program' = program
    PROVE  ScopeInv'
<1>1. Own(contexts)' = Own(contexts)
  BY DEF Own
<1>2. TablesOK(contexts)'
  BY DEF TablesOK, Own
<1>. QED
  BY <1>1, <1>2 DEF TypeInv, ScopeInv, FrameIn, RecordIn

LEMMA PassOneKeepsTypes ==
    ASSUME TypeInv, SectionInv', PassOne
    PROVE  TypeInv'
<1>1. ParseInv /\ TablesOK(contexts)
  BY DEF TypeInv, SectionInv, ScopeInv
<1>2. /\ pc = "pass_one" /\ at <= Len(records) /\ at' = at + 1
      /\ frames' = frames /\ trees' = trees /\ macros' = macros /\ records' = records
      /\ program' = program /\ homes' = Append(homes, section.cursor)
  BY DEF PassOne, parseVars
<1>3. ScopeInv'
  <2>1. \/ contexts' = contexts
        \/ contexts' = WithLabel(contexts, Current.context, Current.label, Num(section.cursor))
    BY DEF PassOne
  <2>2. TablesOK(contexts') /\ DOMAIN contexts' = DOMAIN contexts
    BY <1>1, <2>1, WithLabelKeeps
  <2>. QED
    BY <1>2, <2>2, ScopesStay
<1>4. SectionOK(section')
  <2>1. section' = Placed \/ section' = PutWord(Placed, 0, NoDebug)
    BY DEF PassOne, Put
  <2>2. 0 \in Word /\ NoDebug \in Nat
    BY WordsExist DEF Word, NoDebug
  <2>. QED
    BY <1>2, <2>1, <2>2, SectionsStayTyped
<1>5. Len(homes') = at' - 1 /\ Len(homes') <= Len(records')
  <2>1. /\ IsList(homes) /\ at \in Nat /\ Len(records) \in Nat
        /\ Len(homes) = at - 1
    BY <1>1, <1>2, ListBasics DEF ParseInv, BufferOK, TypeInv
  <2>2. Len(homes') = Len(homes) + 1
    BY <1>2, <2>1, ListAppend
  <2>. QED
    BY <1>2, <2>1, <2>2
<1>6. complained' \in BOOLEAN
  BY DEF PassOne, Put, TypeInv
<1>. QED
  BY <1>2, <1>3, <1>4, <1>5, <1>6 DEF TypeInv, SectionOK, ArrayOK, IsList

LEMMA PassOneEndsKeepsTypes ==
    ASSUME TypeInv, SectionInv', PassOneEnds
    PROVE  TypeInv'
<1>. DEFINE t == WithContext(contexts, Assembling, NoContext)
<1>1. /\ pc' = "assemble" /\ contexts' = t
      /\ frames' = frames /\ trees' = trees /\ macros' = macros /\ records' = records
      /\ program' = program /\ homes' = homes /\ complained' = complained
      /\ section' = [section EXCEPT !.cursor = saved]
  BY DEF PassOneEnds, parseVars, auxVars
<1>2. TablesOK(t) /\ DOMAIN t = DOMAIN contexts \cup {Assembling}
  BY NewKeeps DEF TypeInv, ScopeInv
<1>. HIDE DEF t
<1>3. ScopeInv'
  <2>1. Own(contexts)' = Own(contexts)
    BY <1>1, <1>2 DEF Own
  <2>2. TablesOK(contexts)'
    BY <1>1, <1>2 DEF TablesOK, Own
  <2>. QED
    BY <1>1, <2>1, <2>2 DEF TypeInv, ScopeInv, FrameIn, RecordIn
<1>4. SectionOK(section')
  <2>1. ArrayOK(section') /\ SectionShape(section) /\ SectionOK(section)
    BY DEF SectionInv, TypeInv, ArrayOK, SectionShape
  <2>2. section'.data = section.data /\ section'.capacity = section.capacity
    BY <1>1, <2>1 DEF SectionShape
  <2>. QED
    BY <2>1, <2>2 DEF SectionOK
<1>. QED
  BY <1>1, <1>3, <1>4 DEF TypeInv, SectionOK, ArrayOK, IsList

(* The tables that an operand is evaluated in, and those that come of it.    *)
LEMMA ScopeKeeps ==
    ASSUME TypeInv, at <= Len(records)
    PROVE  TablesOK(Scope) /\ DOMAIN Scope = DOMAIN contexts
<1>. DEFINE t == [contexts EXCEPT ![Assembling].parent = Current.context]
<1>1. TablesOK(contexts) /\ Current.context \in Own(contexts)
  <2>1. at \in DOMAIN records
    BY ListBasics DEF TypeInv, SectionInv, ParseInv, BufferOK
  <2>. QED
    BY <2>1 DEF TypeInv, ScopeInv, RecordIn, Current
<1>2. TablesOK(t) /\ DOMAIN t = DOMAIN contexts
  <2>1. t = [contexts EXCEPT ![Assembling] =
                 [contexts[Assembling] EXCEPT !.parent = Current.context]]
    OBVIOUS
  <2>. HIDE DEF t
  <2>2. DOMAIN t = DOMAIN contexts
    BY <2>1
  <2>3. ASSUME NEW d \in DOMAIN contexts
        PROVE  /\ t[d] = [parent |-> t[d].parent, labels |-> t[d].labels]
               /\ t[d].parent \in Own(contexts) \cup {NoContext}
    <3>1. /\ contexts[d] = [parent |-> contexts[d].parent, labels |-> contexts[d].labels]
          /\ contexts[d].parent \in Own(contexts) \cup {NoContext}
      BY <1>1 DEF TablesOK
    <3>2. CASE d = Assembling
      <4>1. t[d] = [contexts[d] EXCEPT !.parent = Current.context]
        BY <2>1, <3>2
      <4>2. t[d] = [parent |-> Current.context, labels |-> contexts[d].labels]
        BY <3>1, <4>1
      <4>. QED
        BY <1>1, <4>2
    <3>3. CASE d # Assembling
      BY <2>1, <3>1, <3>3
    <3>. QED
      BY <3>2, <3>3
  <2>. QED
    BY <1>1, <2>2, <2>3 DEF TablesOK, Own
<1>. HIDE DEF t
<1>3. Scope = WithLabel(t, Assembling, "$", Num(Placed.cursor))
  BY DEF Scope, t
<1>. QED
  BY <1>2, <1>3, WithLabelKeeps

LEMMA LocatingKeepsTypes ==
    ASSUME TypeInv, SectionInv', Locating
    PROVE  TypeInv'
<1>1. /\ pc = "assemble" /\ pc' = pc /\ at <= Len(records) /\ section' = Placed
      /\ frames' = frames /\ trees' = trees /\ macros' = macros /\ records' = records
      /\ program' = program /\ homes' = homes /\ complained' = complained
  BY DEF Locating, parseVars, auxVars
<1>2. ScopeInv'
  <2>1. TablesOK(contexts)
    BY DEF TypeInv, ScopeInv
  <2>2. TablesOK(contexts') /\ DOMAIN contexts' = DOMAIN contexts
    BY <2>1, WithLabelKeeps DEF Locating
  <2>. QED
    BY <1>1, <2>2, ScopesStay
<1>3. SectionOK(section')
  BY <1>1, SectionsStayTyped
<1>. QED
  BY <1>1, <1>2, <1>3 DEF TypeInv, SectionOK, ArrayOK, IsList

LEMMA AssembleKeepsTypes ==
    ASSUME TypeInv, OnlyResolves, SectionInv', Assemble
    PROVE  TypeInv'
<1>1. /\ pc = "assemble" /\ pc' # "pass_one" /\ at <= Len(records) /\ HasInstr /\ ~BadRecord
      /\ frames' = frames /\ macros' = macros /\ records' = records
      /\ program' = program /\ homes' = homes /\ contexts' = Evaluated.contexts
      /\ DOMAIN trees' = DOMAIN trees
      /\ section' = PutWord(Placed, WordFor(Current.m, Evaluated.node.n), at)
  BY DEF Assemble, Put
<1>2. TablesOK(Scope) /\ DOMAIN Scope = DOMAIN contexts
  BY <1>1, ScopeKeeps
<1>3. /\ TablesOK(contexts') /\ DOMAIN contexts' = DOMAIN contexts
      /\ Evaluated.node.n \in Word
  <2>1. CASE Operands = <<>>
    <3>1. Evaluated = Outcome("ok", Num(0), Scope) /\ 0 \in Word
      BY <2>1, WordsExist DEF Evaluated, Word
    <3>2. Evaluated.contexts = Scope /\ Evaluated.node.n = 0
      BY <3>1 DEF Outcome, Num
    <3>. QED
      BY <1>1, <1>2, <3>1, <3>2
  <2>2. CASE Operands # <<>>
    <3>1. Kept(Scope, Evaluated) /\ Evaluated.rc = "ok"
      BY <1>1, <2>2 DEF OnlyResolves, BadRecord
    <3>2. TablesOK(Evaluated.contexts) /\ DOMAIN Evaluated.contexts = DOMAIN Scope
      BY <1>2, <3>1, EvaluatedKeeps
    <3>. QED
      BY <1>1, <1>2, <3>1, <3>2 DEF Kept
  <2>. QED
    BY <2>1, <2>2
<1>4. ScopeInv'
  BY <1>1, <1>3, ScopesStay
<1>5. SectionOK(section')
  <2>1. Current.m \in Mnemonics /\ WordFor(Current.m, Evaluated.node.n) \in Word
    BY <1>1, <1>3, WordForIsWord DEF BadRecord
  <2>2. at \in Nat
    BY DEF TypeInv, SectionInv, ParseInv, BufferOK
  <2>. QED
    BY <1>1, <2>1, <2>2, SectionsStayTyped
<1>6. complained' \in BOOLEAN
  BY DEF Assemble, Put, TypeInv
<1>. QED
  BY <1>1, <1>4, <1>5, <1>6 DEF TypeInv, SectionOK, ArrayOK, IsList

(* The context of "$" goes, and nothing was linked to it.                    *)
LEMMA AssembleEndsKeepsTypes ==
    ASSUME TypeInv, SectionInv', AssembleEnds
    PROVE  TypeInv'
<1>1. /\ pc' # "pass_one" /\ section' = section /\ complained' = complained
      /\ trees' = trees /\ macros' = macros /\ records' = records
      /\ program' = program /\ homes' = homes
      /\ contexts' = [c \in Own(contexts) |-> contexts[c]]
      /\ frames' = frames \/ frames' = <<Frame(Root, sources[2])>>
  BY DEF AssembleEnds, passVars, auxVars, Own
<1>2. TablesOK(contexts)
  BY DEF TypeInv, ScopeInv
<1>3. /\ DOMAIN contexts' = Own(contexts) /\ Own(contexts') = Own(contexts)
      /\ \A c \in Own(contexts) : contexts'[c] = contexts[c]
  BY <1>1 DEF Own
<1>4. TablesOK(contexts')
  <2>1. IsFiniteSet(Own(contexts))
    BY <1>2, FS_Subset DEF TablesOK, Own
  <2>2. Root \in Own(contexts)
    BY <1>2 DEF TablesOK, Own, Root, Assembling
  <2>3. Own(contexts) \subseteq DOMAIN contexts
    BY DEF Own
  <2>. HIDE DEF Own
  <2>. QED
    BY <1>2, <1>3, <2>1, <2>2, <2>3 DEF TablesOK
<1>5. \A k \in DOMAIN frames' : FrameIn(frames'[k], Own(contexts), DOMAIN trees)
  <2>1. CASE frames' = frames
    BY <2>1 DEF TypeInv, ScopeInv
  <2>2. CASE frames' = <<Frame(Root, sources[2])>>
    <3>1. Root \in Own(contexts)
      BY <1>2 DEF TablesOK, Own, Root, Assembling
    <3>. DEFINE new == Frame(Root, sources[2])
    <3>2. new.context = Root /\ new.pending = Fresh(Root)
      BY DEF Frame
    <3>3. RecordIn(Fresh(Root), Own(contexts), DOMAIN trees)
      BY <3>1, FreshIn
    <3>. HIDE DEF new
    <3>4. FrameIn(new, Own(contexts), DOMAIN trees)
      BY <3>1, <3>2, <3>3 DEF FrameIn
    <3>5. DOMAIN frames' = {1} /\ frames'[1] = new
      BY <2>2, ListBasics DEF new
    <3>. QED
      BY <3>4, <3>5
  <2>. QED
    BY <1>1, <2>1, <2>2
<1>6. ScopeInv'
  <2>1. TablesOK(contexts)'
    BY <1>4 DEF TablesOK, Own
  <2>2. Own(contexts)' = Own(contexts)
    BY <1>3 DEF Own
  <2>. QED
    BY <1>1, <1>5, <2>1, <2>2 DEF TypeInv, ScopeInv, FrameIn, RecordIn
<1>. QED
  BY <1>1, <1>6 DEF TypeInv, SectionOK, ArrayOK, IsList

LEMMA TypesInit ==
    ASSUME Init, SectionInv PROVE TypeInv
<1>. USE DEF Init
<1>1. SectionOK(section)
  <2>1. section.data \in [0 .. section.capacity - 1 -> [value : Word, debug : Nat]]
    BY DEF EmptySection
  <2>. QED
    BY <2>1 DEF SectionOK, SectionInv
<1>2. DOMAIN contexts = {Root} /\ contexts[Root] = Context(NoContext) /\ Root # Assembling
  BY DEF Root, Assembling
<1>3. TablesOK(contexts)
  <2>1. Context(NoContext) = [parent |-> NoContext, labels |-> NoLabels]
    BY DEF Context
  <2>2. IsFiniteSet({Root})
    BY FS_Singleton
  <2>3. contexts[Root] = [parent |-> contexts[Root].parent, labels |-> contexts[Root].labels]
        /\ contexts[Root].parent = NoContext
    BY <1>2, <2>1
  <2>. QED
    BY <1>2, <2>2, <2>3 DEF TablesOK
<1>4. \A k \in DOMAIN frames : FrameIn(frames[k], Own(contexts), DOMAIN trees)
  <2>. DEFINE new == Frame(Root, Head(program))
  <2>1. Root \in Own(contexts)
    BY <1>2 DEF Own
  <2>2. new.context = Root /\ new.pending = Fresh(Root)
    BY DEF Frame
  <2>3. RecordIn(Fresh(Root), Own(contexts), DOMAIN trees)
    BY <2>1, FreshIn
  <2>. HIDE DEF new
  <2>4. FrameIn(new, Own(contexts), DOMAIN trees)
    BY <2>1, <2>2, <2>3 DEF FrameIn
  <2>5. DOMAIN frames = {1} /\ frames[1] = new
    BY ListBasics DEF new
  <2>. QED
    BY <2>4, <2>5
<1>5. DOMAIN records = {} /\ DOMAIN macros = {} /\ Len(homes) = 0 /\ Len(records) = 0
  BY ListBasics
<1>6. ScopeInv
  BY <1>3, <1>4, <1>5 DEF ScopeInv
<1>7. pc # "pass_one" /\ complained \in BOOLEAN /\ Len(homes) <= Len(records)
  <2>1. Len(homes) <= Len(records)
    BY ONLY <1>5
  <2>2. complained \in BOOLEAN
    OBVIOUS
  <2>. QED
    BY <2>1, <2>2
<1>8. \A name \in DOMAIN macros : IsList(macros[name].formals)
  BY <1>5
<1>. QED
  BY <1>1, <1>6, <1>7, <1>8 DEF TypeInv

LEMMA TypesStep ==
    ASSUME TypeInv, OnlyResolves, [Next]_vars PROVE TypeInv'
<1>1. SectionInv'
  BY SectionStep DEF TypeInv
<1>2. CASE \/ ParseUnknown \/ AssembleFails \/ Terminated \/ UNCHANGED vars
  <2>1. /\ frames' = frames /\ trees' = trees /\ macros' = macros /\ records' = records
        /\ program' = program /\ homes' = homes /\ contexts' = contexts
        /\ complained' = complained
        /\ pc' = "pass_one" => pc = "pass_one" /\ at' = at
    BY <1>2 DEF ParseUnknown, Parsing, AssembleFails, Terminated, vars, parseVars, passVars, auxVars
  <2>2. SectionOK(section')
    <3>1. CASE AssembleFails
      BY <3>1, SectionsStayTyped DEF AssembleFails
    <3>2. CASE section' = section
      BY <3>2 DEF TypeInv
    <3>. QED
      BY <1>2, <3>1, <3>2 DEF ParseUnknown, Terminated, vars, passVars
  <2>3. ScopeInv'
    BY <2>1 DEF TypeInv, ScopeInv, TablesOK, Own, FrameIn, RecordIn
  <2>. QED
    BY <1>1, <2>1, <2>2, <2>3 DEF TypeInv, SectionOK, ArrayOK, IsList
<1>. QED
  BY <1>1, <1>2, StatementsKeepTypes, ApplyKeepsTypes, EndOfListKeepsTypes,
     PassOneKeepsTypes, PassOneEndsKeepsTypes, LocatingKeepsTypes, AssembleKeepsTypes,
     AssembleEndsKeepsTypes DEF Next

(* The assembler's types: every cell is a word with the record it is from,   *)
(* the parents of contexts are contexts however often macros are applied in  *)
(* each other, records keep a context and a tree that are there, and neither *)
(* pass leaves the buffer.  Of eval_expr() it takes that it changes nothing  *)
(* of the tables but what labels they hold.                                  *)
THEOREM AssemblerTypes == Spec /\ []OnlyResolves => []TypeOK
<1>1. Init => TypeInv
  <2>. SUFFICES ASSUME Init PROVE TypeInv
    OBVIOUS
  <2>1. 0 \in Word
    BY WordsExist DEF Word
  <2>2. ArrayOK(EmptySection)
    BY <2>1 DEF ArrayOK, EmptySection
  <2>. QED
    BY <2>1, <2>2, ParseInvInit, TypesInit DEF SectionInv, Init
<1>2. TypeInv /\ OnlyResolves /\ [Next]_vars => TypeInv'
  BY TypesStep
<1>3. TypeInv => TypeOK
  <2>. SUFFICES ASSUME TypeInv PROVE TypeOK
    OBVIOUS
  <2>1. ParseInv /\ ScopeInv /\ TablesOK(contexts) /\ saved \in Word
    BY DEF TypeInv, SectionInv, ScopeInv
  <2>2. \A c \in DOMAIN contexts : contexts[c].parent \in DOMAIN contexts \cup {NoContext}
    BY <2>1 DEF TablesOK, Own
  <2>3. \A i \in DOMAIN records : /\ records[i].context \in DOMAIN contexts
                                  /\ records[i].id \in DOMAIN trees \cup {0}
    BY <2>1 DEF ScopeInv, RecordIn, Own
  <2>. QED
    BY <2>1, <2>2, <2>3 DEF TypeOK, TypeInv, ParseInv, BufferOK
<1>. QED
  BY <1>1, <1>2, <1>3, PTL DEF Spec
-----------------------------------------------------------------------------
(* A source without macros.                                                  *)

(* Where assembly is after one more statement, and after the first k.        *)
NextPlaceOf(s, place) ==
    CASE s.t = "org" -> s.n
      [] s.t = "instr" -> Wrap(place + 1)
      [] OTHER -> place
Past(items, k) == After(items)[k]

LEMMA PastIs ==
    ASSUME NEW items, Len(items) \in Nat
    PROVE  /\ Past(items, 0) = 0
           /\ \A k \in 1 .. Len(items) :
                  Past(items, k) = NextPlaceOf(items[k].stmt, Past(items, k - 1))
<1>. DEFINE n == Len(items)
            Turn(place, i) == NextPlaceOf(items[i].stmt, place)
            To(f, k) == f = [i \in 0 .. k |-> IF i = 0 THEN 0 ELSE Turn(f[i - 1], i)]
            T == {k \in 0 .. n : \E f : To(f, k)}
            b == After(items)
<1>1. b = CHOOSE f : To(f, n)
  BY DEF After, NextPlaceOf
<1>. HIDE DEF Turn, b
<1>2. 0 \in T
  <2>1. To([i \in 0 .. 0 |-> 0], 0)
    OBVIOUS
  <2>2. 0 \in 0 .. n
    OBVIOUS
  <2>. HIDE DEF To
  <2>. QED
    BY <2>1, <2>2, Zenon
<1>3. ASSUME NEW k \in 1 .. n, k - 1 \in T PROVE k \in T
  <2>1. PICK f : To(f, k - 1)
    BY <1>3
  <2>. DEFINE g == [i \in 0 .. k |-> IF i = k THEN Turn(f[k - 1], k) ELSE f[i]]
  <2>2. \A i \in 0 .. k : g[i] = IF i = 0 THEN 0 ELSE Turn(g[i - 1], i)
    <3>1. \A i \in 0 .. k - 1 : f[i] = IF i = 0 THEN 0 ELSE Turn(f[i - 1], i)
      BY <2>1
    <3>2. ASSUME NEW i \in 0 .. k PROVE g[i] = IF i = 0 THEN 0 ELSE Turn(g[i - 1], i)
      <4>1. i = 0 \/ (i - 1 \in 0 .. k /\ i - 1 # k)
        OBVIOUS
      <4>2. i # 0 => g[i - 1] = f[i - 1]
        BY <4>1
      <4>3. CASE i = k
        <5>1. g[i] = Turn(f[i - 1], i) /\ i # 0
          BY <4>3
        <5>. QED
          BY <4>2, <5>1
      <4>4. CASE i # k
        <5>1. i \in 0 .. k - 1 /\ g[i] = f[i]
          BY <4>4
        <5>. QED
          BY <3>1, <4>2, <5>1
      <4>. QED
        BY <4>3, <4>4
    <3>. QED
      BY <3>2
  <2>3. g = [i \in 0 .. k |-> g[i]]
    OBVIOUS
  <2>. HIDE DEF g
  <2>4. To(g, k)
    BY <2>2, <2>3
  <2>. QED
    BY <2>4
<1>. HIDE DEF T
<1>4. n \in T
  <2>1. 0 .. n \subseteq T
    BY <1>2, <1>3, UpToLength
  <2>. QED
    BY <2>1
<1>5. To(b, n)
  BY <1>1, <1>4 DEF T
<1>6. b[0] = 0 /\ \A i \in 1 .. n : b[i] = Turn(b[i - 1], i)
  BY <1>5
<1>. QED
  BY <1>6 DEF b, Turn, Past

(* The statements of a list with their addresses, and no macros among them.  *)
IsFlat(l, items) ==
    /\ IsList(l)
    /\ Len(items) = Len(l) /\ DOMAIN items = 1 .. Len(l)
    /\ \A k \in 1 .. Len(l) :
           /\ items[k].stmt = l[k] /\ items[k].scope = Outermost
           /\ l[k].t # "macro"
           /\ l[k].t = "org" => l[k].n \in Word
           /\ l[k].t = "label" => l[k].name # NoName
           /\ l[k].t = "instr" => l[k].m # NoName
    /\ \A j, k \in 1 .. Len(l) :
           l[j].t = "instr" /\ l[k].t = "instr" /\ l[j].id = l[k].id => j = k

LEMMA PastIsWord ==
    ASSUME NEW l, NEW items, IsFlat(l, items)
    PROVE  \A k \in 0 .. Len(l) : Past(items, k) \in Word
<1>. DEFINE n == Len(l)
            T == {k \in 0 .. n : Past(items, k) \in Word}
<1>1. n \in Nat /\ Len(items) = n
  BY ListBasics DEF IsFlat
<1>2. 0 \in T
  <2>1. 0 \in Word
    BY WordsExist DEF Word
  <2>. QED
    BY <1>1, <2>1, PastIs
<1>3. ASSUME NEW k \in 1 .. n, k - 1 \in T PROVE k \in T
  <2>1. Past(items, k) = NextPlaceOf(l[k], Past(items, k - 1)) /\ (l[k].t = "org" => l[k].n \in Word)
    BY <1>1, PastIs DEF IsFlat
  <2>2. Past(items, k - 1) \in Word
    BY <1>3
  <2>3. ASSUME NEW w \in Word PROVE w + 1 \in Int
    BY WordIsNat
  <2>4. Wrap(Past(items, k - 1) + 1) \in Word
    BY <2>2, <2>3, WrapIsWord
  <2>5. Past(items, k) \in Word
    BY <2>1, <2>2, <2>4 DEF NextPlaceOf
  <2>. QED
    BY <2>5
<1>. HIDE DEF T, n
<1>4. 0 .. n \subseteq T
  BY <1>1, <1>2, <1>3, UpToLength
<1>. QED
  BY <1>4 DEF T, n

(* A single source is the whole program.                                     *)
LEMMA FlattenOne ==
    ASSUME NEW seqs, Len(seqs) = 1
    PROVE  FlattenSeq(seqs) = seqs[1]
<1>. DEFINE Rec(f) == f = [i \in 1 .. Len(seqs) |->
                              IF i = 1 THEN seqs[i] ELSE f[i - 1] \o seqs[i]]
            flatten == CHOOSE f : Rec(f)
<1>1. FlattenSeq(seqs) = flatten[1]
  BY DEF FlattenSeq
<1>2. \A i \in 1 .. Len(seqs) : i = 1
  OBVIOUS
<1>3. 1 .. Len(seqs) = {1}
  OBVIOUS
<1>4. ASSUME NEW f PROVE Rec(f) <=> f = [i \in {1} |-> seqs[1]]
  <2>1. [i \in 1 .. Len(seqs) |-> IF i = 1 THEN seqs[i] ELSE f[i - 1] \o seqs[i]]
          = [i \in {1} |-> seqs[1]]
    BY <1>2, <1>3
  <2>. QED
    BY <2>1
<1>. HIDE DEF Rec
<1>5. flatten = [i \in {1} |-> seqs[1]]
  BY <1>4
<1>. QED
  BY <1>1, <1>5

(* A source without macros is its own expansion.                             *)
LEMMA NothingToExpand ==
    ASSUME NEW source, \A i \in DOMAIN source : source[i].t # "macro"
    PROVE  Expansion(source)
             = [i \in DOMAIN source |->
                    Item(source, i, Outermost, SubSeq(source, 1, i - 1))]
<1>. DEFINE outer == [i \in DOMAIN source |->
                         Item(source, i, Outermost, SubSeq(source, 1, i - 1))]
            N == Cardinality(MacrosIn(source))
            Rec(f) == f = [n \in 0 .. N |->
                IF n = 0 THEN outer
                ELSE LET items == f[n - 1]
                     IN  FlattenSeq([i \in DOMAIN items |-> Applied(items[i])])]
            round == CHOOSE f : Rec(f)
<1>1. Expansion(source) = round[N]
  BY DEF Expansion
<1>2. N = 0
  <2>1. MacrosIn(source) = {}
    BY DEF MacrosIn
  <2>. QED
    BY <2>1, FS_EmptySet
<1>. HIDE DEF N, outer
<1>3. 0 .. N = {0}
  BY <1>2
<1>4. ASSUME NEW f PROVE Rec(f) <=> f = [n \in {0} |-> outer]
  BY <1>3
<1>. HIDE DEF Rec
<1>5. round = [n \in {0} |-> outer]
  BY <1>4
<1>. QED
  BY <1>1, <1>2, <1>5 DEF outer

LEMMA FlatSource ==
    ASSUME program \in Programs, Plain
    PROVE  LET l == Head(program)
           IN  /\ l = program[1] /\ Len(program) = 1 /\ Range(program) = {l}
               /\ StatementsOf(l) = Range(l)
               /\ IsFlat(l, Items)
<1>. DEFINE l == Head(program)
<1>1. /\ IsList(program) /\ Len(program) = 1
      /\ \A source \in Range(program) :
             /\ \A list \in ListsOf(source) : IsList(list)
             /\ \A s \in StatementsOf(source) :
                    /\ s.t = "org" => s.n \in Word
                    /\ s.t = "label" => s.name # NoName
                    /\ s.t = "instr" => s.m # NoName
  BY ProgramsAssumption, PlacesAssumption
<1>2. l = program[1] /\ Range(program) = {l}
  <2>1. \A s : IsList(s) /\ Len(s) = 1 => DOMAIN s = 1 .. 1 /\ s # <<>>
    BY ONLY ListBasics
  <2>2. \A x : x \in 1 .. 1 <=> x = 1
    OBVIOUS
  <2>3. DOMAIN program = 1 .. 1 /\ program # <<>>
    BY <1>1, <2>1
  <2>. QED
    BY <1>1, <2>2, <2>3, ListParts DEF Range
<1>3. IsList(l)
  BY <1>1, <1>2 DEF ListsOf
<1>4. Range(l) \subseteq StatementsOf(l)
  BY DEF StatementsOf, ListsOf
<1>5. \A s \in Range(l) : s.t # "macro"
  BY <1>4 DEF Plain, Statements
<1>6. StatementsOf(l) = Range(l)
  BY <1>5 DEF StatementsOf, ListsOf, MacrosOf
<1>7. Len(l) \in Nat /\ DOMAIN l = 1 .. Len(l) /\ \A k \in 1 .. Len(l) : l[k] \in Range(l)
  BY <1>3, ListBasics DEF Range
<1>. DEFINE outer == [i \in DOMAIN l |-> Item(l, i, Outermost, SubSeq(l, 1, i - 1))]
<1>8. Items = outer
  <2>1. FlattenSeq(program) = l
    BY <1>1, <1>2, FlattenOne
  <2>2. \A i \in DOMAIN l : l[i].t # "macro"
    BY <1>5, <1>7
  <2>. QED
    BY <2>1, <2>2, NothingToExpand DEF Items
<1>9. DOMAIN Items = 1 .. Len(l) /\ Len(Items) = Len(l)
  <2>1. DOMAIN Items = 1 .. Len(l)
    BY <1>7, <1>8
  <2>. QED
    BY <1>7, <2>1
<1>10. \A k \in 1 .. Len(l) : Items[k].stmt = l[k] /\ Items[k].scope = Outermost
  BY <1>7, <1>8 DEF Item
<1>11. \A j, k \in 1 .. Len(l) :
           l[j].t = "instr" /\ l[k].t = "instr" /\ l[j].id = l[k].id => j = k
  BY <1>2, <1>7, OrderAssumption
<1>12. \A k \in 1 .. Len(l) :
           /\ l[k].t # "macro"
           /\ l[k].t = "org" => l[k].n \in Word
           /\ l[k].t = "label" => l[k].name # NoName
           /\ l[k].t = "instr" => l[k].m # NoName
  BY <1>1, <1>2, <1>4, <1>5, <1>7
<1>. HIDE DEF l
<1>13. IsFlat(l, Items)
  BY <1>3, <1>9, <1>10, <1>11, <1>12 DEF IsFlat
<1>. QED
  BY <1>1, <1>2, <1>6, <1>13 DEF l

(* The parser's trees are the operands of the instructions.                  *)
LEMMA FlatTrees ==
    ASSUME program \in Programs, Plain
    PROVE  LET l == Head(program)
           IN  \A k \in 1 .. Len(l) : l[k].t = "instr" =>
                   l[k].id \in DOMAIN TreesOf(program) /\ TreesOf(program)[l[k].id] = l[k].args
<1>. DEFINE l == Head(program)
            instrs == {s \in UNION {StatementsOf(source) : source \in Range(program)} :
                          s.t = "instr"}
<1>1. /\ IsFlat(l, Items) /\ instrs = {s \in Range(l) : s.t = "instr"}
      /\ DOMAIN l = 1 .. Len(l)
  <2>1. IsFlat(l, Items) /\ Range(program) = {l} /\ StatementsOf(l) = Range(l)
    BY FlatSource
  <2>2. DOMAIN l = 1 .. Len(l)
    BY <2>1, ListBasics DEF IsFlat
  <2>. HIDE DEF l
  <2>. QED
    BY <2>1, <2>2
<1>2. TreesOf(program) = [id \in {s.id : s \in instrs} |->
                             (CHOOSE s \in instrs : s.id = id).args]
  BY DEF TreesOf
<1>. HIDE DEF l, instrs
<1>3. ASSUME NEW k \in 1 .. Len(l), l[k].t = "instr"
      PROVE  l[k].id \in DOMAIN TreesOf(program) /\ TreesOf(program)[l[k].id] = l[k].args
  <2>1. l[k] \in instrs
    BY <1>1, <1>3 DEF Range
  <2>2. ASSUME NEW s \in instrs, s.id = l[k].id PROVE s = l[k]
    <3>1. PICK j \in 1 .. Len(l) : s = l[j] /\ l[j].t = "instr"
      BY <1>1 DEF Range
    <3>. QED
      BY <1>1, <1>3, <2>2, <3>1 DEF IsFlat
  <2>3. (CHOOSE s \in instrs : s.id = l[k].id) = l[k]
    BY <2>1, <2>2
  <2>. QED
    BY <1>2, <2>1, <2>3
<1>. QED
  BY <1>3 DEF l

-----------------------------------------------------------------------------
(* The statements of a list that are locations, and those that are           *)
(* instructions.                                                             *)
IsLocation(l, k) == k > 0 /\ l[k].t \in {"label", "org"}
IsInstr(l, k) == l[k].t = "instr"

(* Where the record begins that ends with the k-th statement: an instruction *)
(* shares its record with the location before it.                            *)
Start(l, k) == IF IsInstr(l, k) /\ IsLocation(l, k - 1) THEN k - 1 ELSE k

RecordAt(l, k) ==
    LET s == l[Start(l, k)]
    IN  [context |-> Root,
         org |-> IF s.t = "org" THEN s.n ELSE NoOrg,
         label |-> IF s.t = "label" THEN s.name ELSE NoName,
         m |-> IF IsInstr(l, k) THEN l[k].m ELSE NoName,
         id |-> IF IsInstr(l, k) THEN l[k].id ELSE 0]

(* What is pending after k statements, and how far the records go.           *)
PendingAt(l, k) == IF IsLocation(l, k) THEN RecordAt(l, k) ELSE Fresh(Root)
FrameAt(l, k) ==
    [context |-> Root, list |-> l, i |-> k + 1, pending |-> PendingAt(l, k)]
Flushed(l, k) == IF IsLocation(l, k) THEN k - 1 ELSE k

(* The records of the first k statements, with the statement that each ends  *)
(* with.                                                                     *)
IsBuffer(l, k, buffer, f) ==
    /\ f \in [0 .. Len(buffer) -> 0 .. k]
    /\ f[0] = 0 /\ f[Len(buffer)] = Flushed(l, k)
    /\ \A i \in 1 .. Len(buffer) :
           /\ f[i] # 0
           /\ buffer[i] = RecordAt(l, f[i])
           /\ f[i - 1] = Start(l, f[i]) - 1

AllKnown(l, k) == \A j \in 1 .. k : IsInstr(l, j) \/ IsLocation(l, j)

(* The labels of the first k statements, and the root context with them.     *)
LabelsTo(l, k) == {j \in 1 .. k : l[j].t = "label"}
Named(l, k, name) == {j \in LabelsTo(l, k) : l[j].name = name}
LabelsAt(l, items, k) ==
    [parent |-> NoContext,
     labels |-> [name \in {l[j].name : j \in LabelsTo(l, k)} |->
                    Num(Address(items, Max(Named(l, k, name))))]]

RootAt(l, items, k) == [c \in {Root} |-> LabelsAt(l, items, k)]

(* The length is that to the last of the first k statements' words.          *)
LengthAt(l, items, k, length) ==
    /\ \A j \in 1 .. k : IsInstr(l, j) => Address(items, j) + 1 <= length
    /\ \/ length = 0
       \/ \E j \in 1 .. k : IsInstr(l, j) /\ length = Address(items, j) + 1

Good(items, j) ==
    /\ items[j].stmt.m \in Mnemonics
    /\ ~(Len(items[j].stmt.args) > 1)
    /\ OperandMeaning(items, j) # Undefined

(* The first k statements have been assembled, and no more.                  *)
CellsAt(l, items, k, s) ==
    \A a \in 0 .. s.capacity - 1 :
        /\ \A j \in 1 .. k : IsInstr(l, j) /\ Address(items, j) = a =>
               s.data[a].value = WordFor(l[j].m, OperandMeaning(items, j))
        /\ (\A j \in 1 .. k : IsInstr(l, j) => Address(items, j) # a) =>
               s.data[a] = EmptyCell
AssembledTo(l, items, k, s) ==
    /\ CellsAt(l, items, k, s)
    /\ LengthAt(l, items, Len(l), s.length)
    /\ \A j \in 1 .. k : IsInstr(l, j) => Good(items, j)

ParsingFlat(l) ==
    /\ \E k \in 0 .. Len(l) :
           /\ frames = <<FrameAt(l, k)>>
           /\ AllKnown(l, k)
           /\ \E f : IsBuffer(l, k, records, f)
    /\ trees = TreesOf(program)
    /\ contexts = [c \in {Root} |-> Context(NoContext)]
    /\ section = EmptySection

LabellingFlat(l, items) ==
    /\ AllKnown(l, Len(l))
    /\ \E f : /\ IsBuffer(l, Len(l), records, f)
              /\ contexts = RootAt(l, items, f[at - 1])
              /\ section.cursor = Past(items, f[at - 1])
              /\ LengthAt(l, items, f[at - 1], section.length)
    /\ \A a \in 0 .. section.capacity - 1 : section.data[a] = EmptyCell
    /\ trees = TreesOf(program)
    /\ saved = 0

OwnOK(own) ==
    /\ own = [parent |-> own.parent, labels |-> own.labels]
    /\ own.labels = [name \in DOMAIN own.labels |-> own.labels[name]]
    /\ DOMAIN own.labels \subseteq {"$"}

TablesWith(l, items, own) ==
    [c \in {Assembling, Root} |->
        IF c = Root THEN LabelsAt(l, items, Len(l)) ELSE own]

AssemblingFlat(l, items) ==
    /\ AllKnown(l, Len(l))
    /\ \E f : /\ IsBuffer(l, Len(l), records, f)
              /\ section.cursor = Past(items, f[at - 1])
              /\ AssembledTo(l, items, f[at - 1], section)
              /\ \A j \in f[at - 1] + 1 .. Len(l) : IsInstr(l, j) =>
                     l[j].id \in DOMAIN trees /\ trees[l[j].id] = l[j].args
    /\ \E own : OwnOK(own) /\ contexts = TablesWith(l, items, own)

FlatOK(l, items) ==
    /\ DOMAIN macros = {}
    /\ pc # "done" => sources = program
    /\ pc = "parse" => ParsingFlat(l)
    /\ pc = "pass_one" => LabellingFlat(l, items)
    /\ pc = "assemble" /\ ~Overlapping(items) => AssemblingFlat(l, items)
    /\ pc = "done" /\ ~Overlapping(items) => AssembledTo(l, items, Len(l), section)
    /\ pc = "failed" => Erroneous(items) \/ Overlapping(items)

(* The parser forgets a label at the end of a source.                        *)
EndsInNoLabel == Head(program) # <<>> => Last(Head(program)).t # "label"

FlatInv ==
    Plain /\ EndsInNoLabel =>
        \A l \in {Head(program)}, items \in {Items} : FlatOK(l, items)

-----------------------------------------------------------------------------
(* parse_stmts() in such a source.                                           *)

LEMMA StartIs ==
    ASSUME NEW l, NEW b \in Nat \ {0}
    PROVE  /\ Start(l, b) \in {b - 1, b} /\ Start(l, b) \in Nat \ {0}
           /\ ~IsInstr(l, b) => Start(l, b) = b
           /\ Start(l, b) # b => l[Start(l, b)].t \in {"label", "org"} /\ IsInstr(l, b)
           /\ Start(l, b) - 1 \in 0 .. b - 1
<1>1. CASE IsInstr(l, b) /\ IsLocation(l, b - 1)
  BY <1>1 DEF Start, IsLocation
<1>2. CASE ~(IsInstr(l, b) /\ IsLocation(l, b - 1))
  BY <1>2 DEF Start
<1>. QED
  BY <1>1, <1>2

(* A buffer with one more record.                                            *)
LEMMA OneMore ==
    ASSUME NEW l, NEW k \in Nat, NEW buffer, IsList(buffer), NEW f, IsBuffer(l, k, buffer, f),
           NEW b \in 1 .. k + 1, Start(l, b) - 1 = Flushed(l, k), Flushed(l, k + 1) = b
    PROVE  \E g : IsBuffer(l, k + 1, Append(buffer, RecordAt(l, b)), g)
<1>. DEFINE n == Len(buffer)
            more == Append(buffer, RecordAt(l, b))
            g == [i \in 0 .. n + 1 |-> IF i = n + 1 THEN b ELSE f[i]]
<1>1. /\ Len(more) = n + 1 /\ n \in Nat
      /\ \A i \in 1 .. n + 1 : more[i] = IF i = n + 1 THEN RecordAt(l, b) ELSE buffer[i]
  BY ListAppend
<1>2. /\ f \in [0 .. n -> 0 .. k] /\ f[0] = 0 /\ f[n] = Flushed(l, k)
      /\ \A i \in 1 .. n : /\ f[i] # 0 /\ buffer[i] = RecordAt(l, f[i])
                           /\ f[i - 1] = Start(l, f[i]) - 1
  BY DEF IsBuffer
<1>. HIDE DEF n, more
<1>3. g \in [0 .. n + 1 -> 0 .. k + 1] /\ g[0] = 0 /\ g[n + 1] = b
  BY <1>1, <1>2
<1>4. ASSUME NEW i \in 1 .. n + 1
      PROVE  g[i] # 0 /\ more[i] = RecordAt(l, g[i]) /\ g[i - 1] = Start(l, g[i]) - 1
  <2>1. CASE i = n + 1
    <3>1. g[i] = b /\ g[i - 1] = f[n]
      BY <1>1, <2>1
    <3>. QED
      BY <1>1, <1>2, <2>1, <3>1
  <2>2. CASE i # n + 1
    <3>1. i \in 1 .. n /\ i \in 0 .. n + 1 /\ i - 1 \in 0 .. n + 1 /\ i - 1 # n + 1
      BY <1>1, <2>2
    <3>2. g[i] = f[i] /\ g[i - 1] = f[i - 1]
      BY <2>2, <3>1
    <3>. QED
      BY <1>1, <1>2, <2>2, <3>1, <3>2
  <2>. QED
    BY <2>1, <2>2
<1>. HIDE DEF g
<1>5. IsBuffer(l, k + 1, more, g)
  BY <1>1, <1>3, <1>4 DEF IsBuffer
<1>. QED
  BY <1>5 DEF more

LEMMA NoMore ==
    ASSUME NEW l, NEW k \in Nat, NEW buffer, IsList(buffer), NEW f, IsBuffer(l, k, buffer, f),
           Flushed(l, k + 1) = Flushed(l, k)
    PROVE  IsBuffer(l, k + 1, buffer, f)
<1>1. f \in [0 .. Len(buffer) -> 0 .. k + 1]
  BY DEF IsBuffer
<1>. QED
  BY <1>1 DEF IsBuffer

(* What is pending when it is located, and what becomes of it.               *)
LEMMA PendingIs ==
    ASSUME NEW l, NEW items, IsFlat(l, items), NEW k \in 0 .. Len(l)
    PROVE  /\ Located(PendingAt(l, k)) <=> IsLocation(l, k)
           /\ IsLocation(l, k) => PendingAt(l, k) = RecordAt(l, k) /\ ~IsInstr(l, k)
           /\ RecordOK(PendingAt(l, k))
<1>0. Len(l) \in Nat
  BY ListBasics DEF IsFlat
<1>1. CASE ~IsLocation(l, k)
  BY <1>1, FreshOK DEF PendingAt
<1>2. CASE IsLocation(l, k)
  <2>1. k \in 1 .. Len(l) /\ ~IsInstr(l, k) /\ Start(l, k) = k
    BY <1>0, <1>2 DEF IsLocation, IsInstr, Start
  <2>. DEFINE s == l[k]
              r == RecordAt(l, k)
  <2>2. /\ r = [context |-> Root, org |-> IF s.t = "org" THEN s.n ELSE NoOrg,
                label |-> IF s.t = "label" THEN s.name ELSE NoName,
                m |-> NoName, id |-> 0]
    BY <2>1 DEF RecordAt
  <2>3. /\ s.t = "org" => s.n \in Word /\ s.n # NoOrg
        /\ s.t = "label" => s.name # NoName
    BY <2>1, WordIsNat DEF IsFlat, NoOrg
  <2>4. s.t \in {"label", "org"}
    BY <1>2 DEF IsLocation
  <2>. HIDE DEF s, r
  <2>5. Located(r)
    BY <2>2, <2>3, <2>4 DEF Located
  <2>6. RecordOK(r)
    BY <2>2, <2>3 DEF RecordOK
  <2>. QED
    BY <1>2, <2>1, <2>5, <2>6 DEF PendingAt, r
<1>. QED
  BY <1>1, <1>2

LEMMA FlatFrame ==
    ASSUME NEW l, NEW k \in Nat, frames = <<FrameAt(l, k)>>
    PROVE  /\ Top = FrameAt(l, k) /\ Top.list = l /\ Top.i = k + 1 /\ Top.context = Root
           /\ Pending = PendingAt(l, k) /\ Stmt = l[k + 1] /\ Len(frames) = 1
<1>1. Len(frames) = 1 /\ Last(frames) = FrameAt(l, k)
  BY DEF Last
<1>. QED
  BY <1>1 DEF Top, Pending, Stmt, FrameAt

(* A statement is parsed.                                                    *)
LEMMA FlatGoesOn ==
    ASSUME ParseInv, pc = "parse", NEW l, NEW items, IsFlat(l, items),
           NEW k \in 0 .. Len(l) - 1, frames = <<FrameAt(l, k)>>,
           frames' = NextFrame(PendingAt(l, k + 1))
    PROVE  frames' = <<FrameAt(l, k + 1)>>
<1>1. Len(l) \in Nat /\ k \in Nat /\ k + 1 \in 0 .. Len(l)
  BY ListBasics DEF IsFlat
<1>2. Top.list = l /\ Top.i = k + 1 /\ Top.context = Root /\ Len(frames) = 1
  BY <1>1, FlatFrame
<1>3. Top.i <= Len(Top.list) /\ RecordOK(PendingAt(l, k + 1))
  BY <1>1, <1>2, PendingIs
<1>4. /\ IsList(frames') /\ Len(frames') = 1 /\ DOMAIN frames' = 1 .. 1
      /\ frames'[1] = FrameAt(l, k + 1)
  <2>1. k + 1 + 1 = (k + 1) + 1
    OBVIOUS
  <2>. QED
    BY <1>2, <1>3, <2>1, NextFrameOK DEF FrameAt
<1>. QED
  BY <1>4 DEF IsList

LEMMA FlatLocation ==
    ASSUME ParseInv, pc = "parse", NEW l, NEW items, IsFlat(l, items),
           NEW k \in 0 .. Len(l) - 1, frames = <<FrameAt(l, k)>>, AllKnown(l, k),
           NEW f, IsBuffer(l, k, records, f),
           IsLocation(l, k + 1), Locate(PendingAt(l, k + 1))
    PROVE  /\ frames' = <<FrameAt(l, k + 1)>> /\ AllKnown(l, k + 1)
           /\ \E g : IsBuffer(l, k + 1, records', g)
<1>1. Len(l) \in Nat /\ k \in Nat /\ k + 1 \in 0 .. Len(l) /\ k \in 0 .. Len(l)
  BY ListBasics DEF IsFlat
<1>2. /\ frames' = NextFrame(PendingAt(l, k + 1))
      /\ records' = IF Located(Pending) THEN Append(records, Pending) ELSE records
  BY DEF Locate
<1>3. frames' = <<FrameAt(l, k + 1)>>
  BY <1>2, FlatGoesOn
<1>4. AllKnown(l, k + 1)
  BY <1>1 DEF AllKnown
<1>5. Flushed(l, k + 1) = k /\ Pending = PendingAt(l, k) /\ IsList(records)
  BY <1>1, FlatFrame DEF Flushed, ParseInv, BufferOK
<1>6. CASE IsLocation(l, k)
  <2>1. records' = Append(records, RecordAt(l, k)) /\ ~IsInstr(l, k)
    BY <1>1, <1>2, <1>5, <1>6, PendingIs
  <2>2. k \in 1 .. k + 1 /\ Start(l, k) - 1 = Flushed(l, k)
    BY <1>1, <1>6, <2>1 DEF IsLocation, Start, Flushed
  <2>. QED
    BY <1>1, <1>3, <1>4, <1>5, <2>1, <2>2, OneMore
<1>7. CASE ~IsLocation(l, k)
  <2>1. records' = records /\ Flushed(l, k) = k
    BY <1>1, <1>2, <1>5, <1>7, PendingIs DEF Flushed
  <2>. QED
    BY <1>1, <1>3, <1>4, <1>5, <2>1, NoMore
<1>. QED
  BY <1>6, <1>7

LEMMA RecordParts ==
    ASSUME NEW r, r = [context |-> r.context, org |-> r.org, label |-> r.label,
                       m |-> r.m, id |-> r.id],
           NEW m, NEW id
    PROVE  [r EXCEPT !.m = m, !.id = id] =
               [context |-> r.context, org |-> r.org, label |-> r.label, m |-> m, id |-> id]
<1>. DEFINE q == [r EXCEPT !.m = m]
<1>1. q = [context |-> r.context, org |-> r.org, label |-> r.label, m |-> m, id |-> r.id]
  OBVIOUS
<1>2. [r EXCEPT !.m = m, !.id = id] = [q EXCEPT !.id = id]
  OBVIOUS
<1>. HIDE DEF q
<1>. QED
  BY <1>1, <1>2

LEMMA FlatInstr ==
    ASSUME ParseInv, pc = "parse", NEW l, NEW items, IsFlat(l, items),
           NEW k \in 0 .. Len(l) - 1, frames = <<FrameAt(l, k)>>, AllKnown(l, k),
           NEW f, IsBuffer(l, k, records, f),
           IsInstr(l, k + 1),
           records' = Append(records, [Pending EXCEPT !.m = l[k + 1].m, !.id = l[k + 1].id]),
           frames' = NextFrame(Fresh(Root))
    PROVE  /\ frames' = <<FrameAt(l, k + 1)>> /\ AllKnown(l, k + 1)
           /\ \E g : IsBuffer(l, k + 1, records', g)
<1>1. Len(l) \in Nat /\ k \in Nat /\ k + 1 \in 0 .. Len(l) /\ k \in 0 .. Len(l)
  BY ListBasics DEF IsFlat
<1>2. ~IsLocation(l, k + 1)
  BY DEF IsLocation, IsInstr
<1>3. frames' = <<FrameAt(l, k + 1)>>
  BY <1>2, FlatGoesOn DEF PendingAt
<1>4. AllKnown(l, k + 1)
  BY <1>1 DEF AllKnown
<1>5. Flushed(l, k + 1) = k + 1 /\ Pending = PendingAt(l, k) /\ IsList(records)
  BY <1>1, <1>2, FlatFrame DEF Flushed, ParseInv, BufferOK
<1>6. Start(l, k + 1) = IF IsLocation(l, k) THEN k ELSE k + 1
  BY <1>1 DEF Start
<1>7. [Pending EXCEPT !.m = l[k + 1].m, !.id = l[k + 1].id] = RecordAt(l, k + 1)
  <2>. DEFINE r == [context |-> Pending.context, org |-> Pending.org,
                    label |-> Pending.label, m |-> l[k + 1].m, id |-> l[k + 1].id]
  <2>1. [Pending EXCEPT !.m = l[k + 1].m, !.id = l[k + 1].id] = r
    <3>1. Pending = [context |-> Pending.context, org |-> Pending.org,
                     label |-> Pending.label, m |-> Pending.m, id |-> Pending.id]
      BY <1>1, <1>5, PendingIs DEF RecordOK
    <3>. QED
      BY <3>1, RecordParts
  <2>2. CASE IsLocation(l, k)
    <3>1. Pending = RecordAt(l, k) /\ Start(l, k) = k /\ Start(l, k + 1) = k
      BY <1>1, <1>5, <1>6, <2>2, PendingIs DEF Start
    <3>2. /\ Pending.context = Root
          /\ Pending.org = IF l[k].t = "org" THEN l[k].n ELSE NoOrg
          /\ Pending.label = IF l[k].t = "label" THEN l[k].name ELSE NoName
      BY <3>1 DEF RecordAt
    <3>3. r = RecordAt(l, k + 1)
      BY <3>1, <3>2 DEF RecordAt, IsInstr
    <3>. QED
      BY <2>1, <3>3
  <2>3. CASE ~IsLocation(l, k)
    <3>1. Pending = Fresh(Root) /\ Start(l, k + 1) = k + 1
      BY <1>5, <1>6, <2>3 DEF PendingAt
    <3>2. Pending.context = Root /\ Pending.org = NoOrg /\ Pending.label = NoName
      BY <3>1 DEF Fresh
    <3>3. r = RecordAt(l, k + 1)
      BY <3>1, <3>2 DEF RecordAt, IsInstr
    <3>. QED
      BY <2>1, <3>3
  <2>. QED
    BY <2>2, <2>3
<1>8. Start(l, k + 1) - 1 = Flushed(l, k) /\ k + 1 \in 1 .. k + 1
  BY <1>1, <1>6 DEF Flushed
<1>. QED
  BY <1>1, <1>3, <1>4, <1>5, <1>7, <1>8, OneMore

LEMMA FlatParses ==
    ASSUME ParseInv, pc = "parse", NEW l, NEW items, IsFlat(l, items), ParsingFlat(l),
           ParseLabel \/ ParseOrg \/ ParseInstr
    PROVE  ParsingFlat(l)'
<1>1. PICK k \in 0 .. Len(l) : /\ frames = <<FrameAt(l, k)>> /\ AllKnown(l, k)
                              /\ \E f : IsBuffer(l, k, records, f)
  BY DEF ParsingFlat
<1>2. PICK f : IsBuffer(l, k, records, f)
  BY <1>1
<1>3. /\ Top.list = l /\ Top.i = k + 1 /\ Top.context = Root /\ Stmt = l[k + 1]
      /\ Len(l) \in Nat /\ k \in Nat
  <2>1. Len(l) \in Nat /\ k \in Nat
    BY ListBasics DEF IsFlat
  <2>. QED
    BY <1>1, <2>1, FlatFrame
<1>4. k \in 0 .. Len(l) - 1 /\ k + 1 \in 0 .. Len(l) /\ k + 1 \in 1 .. Len(l)
  <2>1. Top.i <= Len(Top.list)
    BY DEF ParseLabel, ParseOrg, ParseInstr, Parsing
  <2>. QED
    BY <1>3, <2>1
<1>5. UNCHANGED <<trees, contexts, section, program>>
  BY DEF ParseLabel, ParseOrg, ParseInstr, Locate, passVars, auxVars
<1>6. /\ frames' = <<FrameAt(l, k + 1)>> /\ AllKnown(l, k + 1)
      /\ \E g : IsBuffer(l, k + 1, records', g)
  <2>1. CASE ParseLabel
    <3>1. l[k + 1].t = "label" /\ Locate([Fresh(Root) EXCEPT !.label = l[k + 1].name])
      BY <1>3, <2>1 DEF ParseLabel, Parsing
    <3>2. IsLocation(l, k + 1) /\ ~IsInstr(l, k + 1)
      BY <1>3, <3>1 DEF IsLocation, IsInstr
    <3>3. [Fresh(Root) EXCEPT !.label = l[k + 1].name] = PendingAt(l, k + 1)
      BY <3>1, <3>2 DEF PendingAt, RecordAt, Start, Fresh
    <3>. QED
      BY <1>1, <1>2, <1>4, <3>1, <3>2, <3>3, FlatLocation
  <2>2. CASE ParseOrg
    <3>1. l[k + 1].t = "org" /\ Locate([Fresh(Root) EXCEPT !.org = l[k + 1].n])
      BY <1>3, <2>2 DEF ParseOrg, Parsing
    <3>2. IsLocation(l, k + 1) /\ ~IsInstr(l, k + 1)
      BY <1>3, <3>1 DEF IsLocation, IsInstr
    <3>3. [Fresh(Root) EXCEPT !.org = l[k + 1].n] = PendingAt(l, k + 1)
      BY <3>1, <3>2 DEF PendingAt, RecordAt, Start, Fresh
    <3>. QED
      BY <1>1, <1>2, <1>4, <3>1, <3>2, <3>3, FlatLocation
  <2>3. CASE ParseInstr
    <3>1. /\ IsInstr(l, k + 1)
          /\ records' = Append(records, [Pending EXCEPT !.m = l[k + 1].m, !.id = l[k + 1].id])
          /\ frames' = NextFrame(Fresh(Root))
      BY <1>3, <2>3 DEF ParseInstr, Parsing, IsInstr
    <3>. QED
      BY <1>1, <1>2, <1>4, <3>1, FlatInstr
  <2>. QED
    BY <2>1, <2>2, <2>3
<1>. QED
  BY <1>4, <1>5, <1>6 DEF ParsingFlat, TreesOf

-----------------------------------------------------------------------------
(* Both passes over such a source.                                           *)

(* The record that ends with the b-th statement, and where it belongs when   *)
(* assembly is where the record begins.                                      *)
LEMMA RecordAtIs ==
    ASSUME NEW l, NEW items, IsFlat(l, items), AllKnown(l, Len(l)), NEW b \in 1 .. Len(l)
    PROVE  LET s == Start(l, b)
               r == RecordAt(l, b)
               place == IF r.org = NoOrg THEN Past(items, s - 1) ELSE r.org
           IN  /\ s \in 1 .. b /\ s - 1 \in 0 .. b - 1 /\ r.context = Root
               /\ r.m # NoName <=> IsInstr(l, b)
               /\ IsInstr(l, b) => /\ r.m = l[b].m /\ r.id = l[b].id
                                   /\ place = Address(items, b)
                                   /\ Past(items, b) = Wrap(place + 1)
               /\ ~IsInstr(l, b) => place = Past(items, b)
               /\ r.label # NoName <=> l[s].t = "label"
               /\ l[s].t = "label" => r.label = l[s].name
               /\ \A j \in s .. b : /\ IsInstr(l, j) <=> j = b /\ IsInstr(l, b)
                                    /\ l[j].t = "label" <=> j = s /\ l[s].t = "label"
<1>. DEFINE s == Start(l, b)
            r == RecordAt(l, b)
            place == IF r.org = NoOrg THEN Past(items, s - 1) ELSE r.org
<1>1. /\ Len(l) \in Nat /\ Len(items) = Len(l) /\ b \in Nat \ {0}
      /\ \A k \in 1 .. Len(l) : items[k].stmt = l[k]
      /\ \A k \in 1 .. Len(l) : IsInstr(l, k) => l[k].m # NoName
      /\ \A k \in 1 .. Len(l) : l[k].t = "label" => l[k].name # NoName
      /\ \A k \in 1 .. Len(l) : l[k].t = "org" => l[k].n # NoOrg
  <2>1. NoOrg \notin Word
    BY WordIsNat DEF NoOrg
  <2>2. Len(l) \in Nat
    BY ListBasics DEF IsFlat
  <2>. QED
    BY <2>1, <2>2 DEF IsFlat, IsInstr
<1>2. /\ s \in {b - 1, b} /\ s \in 1 .. b /\ s - 1 \in 0 .. b - 1
      /\ ~IsInstr(l, b) => s = b
      /\ s # b => l[s].t \in {"label", "org"} /\ IsInstr(l, b)
  BY <1>1, StartIs
<1>3. /\ r.context = Root
      /\ r.org = IF l[s].t = "org" THEN l[s].n ELSE NoOrg
      /\ r.label = IF l[s].t = "label" THEN l[s].name ELSE NoName
      /\ r.m = IF IsInstr(l, b) THEN l[b].m ELSE NoName
      /\ IsInstr(l, b) => r.id = l[b].id
  BY DEF RecordAt
<1>4. \A k \in 1 .. Len(l) : Past(items, k) = NextPlaceOf(l[k], Past(items, k - 1))
  BY <1>1, PastIs
<1>5. Past(items, b) = NextPlaceOf(l[b], Past(items, b - 1)) /\ Address(items, b) = Past(items, b - 1)
  BY <1>4 DEF Address, Past
<1>6. IsInstr(l, b) \/ IsLocation(l, b)
  BY DEF AllKnown
<1>. HIDE DEF s, r
<1>7. s \in 1 .. Len(l)
  BY <1>1, <1>2
<1>8. CASE s # b
  <2>1. s = b - 1 /\ l[s].t \in {"label", "org"} /\ l[b].t = "instr"
    BY <1>2, <1>8 DEF IsInstr
  <2>2. Past(items, s) = NextPlaceOf(l[s], Past(items, s - 1))
    BY <1>4, <1>7
  <2>3. place = Past(items, s)
    BY <1>1, <1>3, <1>7, <2>1, <2>2 DEF NextPlaceOf
  <2>4. place = Address(items, b) /\ Past(items, b) = Wrap(place + 1)
    BY <1>5, <2>1, <2>3 DEF NextPlaceOf
  <2>5. \A j \in s .. b : j = s \/ j = b
    BY <1>1, <2>1
  <2>6. \A j \in s .. b : /\ IsInstr(l, j) <=> j = b /\ IsInstr(l, b)
                          /\ l[j].t = "label" <=> j = s /\ l[s].t = "label"
    BY <1>8, <2>1, <2>5 DEF IsInstr
  <2>. QED
    BY <1>1, <1>2, <1>3, <1>7, <2>1, <2>4, <2>6 DEF s, r, IsInstr
<1>9. CASE s = b
  <2>1. \A j \in s .. b : j = b
    BY <1>1, <1>9
  <2>2. CASE l[b].t = "instr"
    <3>1. place = Address(items, b) /\ Past(items, b) = Wrap(place + 1)
      BY <1>3, <1>5, <1>9, <2>2 DEF NextPlaceOf
    <3>. QED
      BY <1>1, <1>2, <1>3, <1>7, <1>9, <2>1, <2>2, <3>1 DEF s, r, IsInstr
  <2>3. CASE l[b].t # "instr"
    <3>1. l[b].t \in {"label", "org"}
      BY <1>6, <2>3 DEF IsInstr, IsLocation
    <3>2. place = Past(items, b)
      BY <1>1, <1>3, <1>5, <1>9, <3>1 DEF NextPlaceOf
    <3>. QED
      BY <1>1, <1>2, <1>3, <1>7, <1>9, <2>1, <2>3, <3>2 DEF s, r, IsInstr
  <2>. QED
    BY <2>2, <2>3
<1>. QED
  BY <1>8, <1>9

(* The record a pass has come to, and the statement it ends with.            *)
LEMMA CurrentIs ==
    ASSUME NEW l, NEW items, IsFlat(l, items), AllKnown(l, Len(l)),
           NEW f, IsBuffer(l, Len(l), records, f), at \in Nat \ {0}, at <= Len(records),
           IsList(records), SectionShape(section), section.cursor = Past(items, f[at - 1])
    PROVE  LET b == f[at]
               s == Start(l, b)
           IN  /\ b \in 1 .. Len(l) /\ s \in 1 .. b /\ f[at - 1] = s - 1 /\ s - 1 \in 0 .. b - 1
               /\ at + 1 - 1 = at
               /\ Current = RecordAt(l, b) /\ Current.context = Root
               /\ HasInstr <=> IsInstr(l, b)
               /\ HasInstr => /\ Current.m = l[b].m /\ Current.id = l[b].id
                              /\ Placed.cursor = Address(items, b)
                              /\ Past(items, b) = Wrap(Placed.cursor + 1)
               /\ ~HasInstr => Placed.cursor = Past(items, b)
               /\ Current.label # NoName <=> l[s].t = "label"
               /\ l[s].t = "label" => Current.label = l[s].name
               /\ \A j \in s .. b : /\ IsInstr(l, j) <=> j = b /\ IsInstr(l, b)
                                    /\ l[j].t = "label" <=> j = s /\ l[s].t = "label"
<1>. DEFINE b == f[at]
<1>1. Len(records) \in Nat /\ Len(l) \in Nat /\ at \in 1 .. Len(records) /\ at \in 0 .. Len(records)
  BY ListBasics DEF IsFlat
<1>2. /\ b \in 1 .. Len(l) /\ f[at - 1] = Start(l, b) - 1 /\ Current = RecordAt(l, b)
  BY <1>1 DEF IsBuffer, Current
<1>3. Placed.cursor = IF Current.org = NoOrg THEN section.cursor ELSE Current.org
  BY PlacedShape
<1>4. at + 1 - 1 = at
  BY <1>1
<1>. DEFINE s == Start(l, b)
            r == RecordAt(l, b)
            place == IF r.org = NoOrg THEN Past(items, s - 1) ELSE r.org
<1>5. /\ s \in 1 .. b /\ s - 1 \in 0 .. b - 1 /\ r.context = Root
      /\ r.m # NoName <=> IsInstr(l, b)
      /\ IsInstr(l, b) => /\ r.m = l[b].m /\ r.id = l[b].id
                          /\ place = Address(items, b)
                          /\ Past(items, b) = Wrap(place + 1)
      /\ ~IsInstr(l, b) => place = Past(items, b)
      /\ r.label # NoName <=> l[s].t = "label"
      /\ l[s].t = "label" => r.label = l[s].name
      /\ \A j \in s .. b : /\ IsInstr(l, j) <=> j = b /\ IsInstr(l, b)
                           /\ l[j].t = "label" <=> j = s /\ l[s].t = "label"
  <2>. HIDE DEF b
  <2>. QED
    BY <1>2, RecordAtIs
<1>6. Placed.cursor = place
  BY <1>2, <1>3
<1>. HIDE DEF s, r, place
<1>7. HasInstr <=> r.m # NoName
  BY <1>2 DEF HasInstr, r
<1>. QED
  BY <1>2, <1>4, <1>5, <1>6, <1>7 DEF r, s

(* put_word() into a cell that is free.                                      *)
LEMMA PutFree ==
    ASSUME NEW s, ArrayOK(s), PutResult(s) # "wild",
           s.cursor < s.capacity => s.data[s.cursor] = EmptyCell,
           NEW word, NEW debug
    PROVE  LET t == PutWord(s, word, debug)
           IN  /\ PutResult(s) = "ok"
               /\ t.cursor = s.cursor + 1 /\ Wrap(s.cursor + 1) = s.cursor + 1
               /\ t.length = IF s.cursor + 1 > s.length THEN s.cursor + 1 ELSE s.length
               /\ \A a \in 0 .. t.capacity - 1 :
                      t.data[a] = IF a = s.cursor THEN [value |-> word, debug |-> debug]
                                  ELSE IF a < s.capacity THEN s.data[a] ELSE EmptyCell
<1>. DEFINE g == Grown(s)
            t == Filled(g, word, debug)
<1>1. /\ g = [capacity |-> g.capacity, length |-> s.length, cursor |-> s.cursor, data |-> g.data]
      /\ \A a \in 0 .. g.capacity - 1 :
             g.data[a] = IF a < s.capacity THEN s.data[a] ELSE EmptyCell
      /\ g.data = [a \in 0 .. g.capacity - 1 |-> g.data[a]]
      /\ g.capacity \in Nat
  BY GrownShape, WordIsNat
<1>2. /\ t = [capacity |-> g.capacity, length |-> t.length, cursor |-> g.cursor + 1,
              data |-> t.data]
      /\ t.data = [g.data EXCEPT ![g.cursor] = [value |-> word, debug |-> debug]]
      /\ t.length = IF g.cursor + 1 > g.length THEN g.cursor + 1 ELSE g.length
      /\ g.cursor + 1 \in Word /\ g.cursor \in 0 .. g.capacity - 1
  BY FilledShape
<1>3. PutResult(s) # "wild"
  OBVIOUS
<1>4. PutResult(s) = IF g.cursor >= g.capacity THEN "wild"
                     ELSE IF g.data[g.cursor].debug # NoDebug THEN "EEXIST" ELSE "ok"
  BY DEF PutResult
<1>5. PutResult(s) = "ok" => PutWord(s, word, debug) = t
  BY DEF PutWord
<1>. HIDE DEF g, t
<1>6. g.cursor = s.cursor /\ g.length = s.length
  BY <1>1
<1>7. g.data[g.cursor] = EmptyCell
  BY <1>1, <1>2, <1>6
<1>8. PutResult(s) = "ok" /\ PutWord(s, word, debug) = t
  BY <1>3, <1>4, <1>5, <1>7 DEF EmptyCell
<1>9. t.cursor = s.cursor + 1 /\ t.capacity = g.capacity
  BY <1>2, <1>6
<1>10. Wrap(s.cursor + 1) = s.cursor + 1
  <2>1. s.cursor \in Nat /\ s.cursor + 1 \in Nat /\ s.cursor + 1 \in Word
    BY <1>2, <1>6, WordIsNat DEF ArrayOK
  <2>2. s.cursor + 1 < Modulus
    BY <2>1, WordsExist DEF Word
  <2>. QED
    BY <2>1, <2>2, WrapBelow
<1>11. ASSUME NEW a \in 0 .. g.capacity - 1
       PROVE  t.data[a] = IF a = s.cursor THEN [value |-> word, debug |-> debug]
                          ELSE IF a < s.capacity THEN s.data[a] ELSE EmptyCell
  <2>1. a \in DOMAIN g.data
    BY <1>1
  <2>. QED
    BY <1>1, <1>2, <1>6, <2>1
<1>. QED
  BY <1>2, <1>6, <1>8, <1>9, <1>10, <1>11

(* The labels of the root context after a record, as pass one enters them.   *)
LEMMA LabelsSame ==
    ASSUME NEW l, NEW items, NEW b \in Nat, NEW s \in 1 .. b,
           \A j \in s .. b : l[j].t # "label"
    PROVE  LabelsAt(l, items, b) = LabelsAt(l, items, s - 1)
<1>1. LabelsTo(l, b) = LabelsTo(l, s - 1)
  <2>1. \A j \in 1 .. b : j \in s .. b \/ j \in 1 .. s - 1
    OBVIOUS
  <2>2. \A j \in 1 .. s - 1 : j \in 1 .. b
    OBVIOUS
  <2>. QED
    BY <2>1, <2>2 DEF LabelsTo
<1>. QED
  BY <1>1 DEF LabelsAt, Named

LEMMA LabelsGrow ==
    ASSUME NEW l, NEW items, NEW b \in Nat, NEW s \in 1 .. b,
           \A j \in s .. b : l[j].t = "label" <=> j = s
    PROVE  WithLabel(RootAt(l, items, s - 1), Root, l[s].name, Num(Address(items, s)))
             = RootAt(l, items, b)
<1>. DEFINE old == LabelsAt(l, items, s - 1)
            new == LabelsAt(l, items, b)
            e == Num(Address(items, s))
            table == [n \in DOMAIN old.labels \cup {l[s].name} |->
                         IF n = l[s].name THEN e ELSE old.labels[n]]
<1>1. LabelsTo(l, b) = LabelsTo(l, s - 1) \cup {s} /\ LabelsTo(l, s - 1) \subseteq 1 .. s - 1
  <2>1. \A j \in 1 .. b : j \in s .. b \/ j \in 1 .. s - 1
    OBVIOUS
  <2>2. \A j \in 1 .. s - 1 : j \in 1 .. b
    OBVIOUS
  <2>3. s \in s .. b /\ s \in 1 .. b
    OBVIOUS
  <2>. QED
    BY <2>1, <2>2, <2>3 DEF LabelsTo
<1>2. /\ DOMAIN old.labels = {l[j].name : j \in LabelsTo(l, s - 1)}
      /\ \A n \in DOMAIN old.labels : old.labels[n] = Num(Address(items, Max(Named(l, s - 1, n))))
      /\ old = [parent |-> NoContext, labels |-> old.labels]
  BY DEF LabelsAt
<1>3. new = [parent |-> NoContext,
             labels |-> [n \in {l[j].name : j \in LabelsTo(l, b)} |->
                            Num(Address(items, Max(Named(l, b, n))))]]
  BY DEF LabelsAt
<1>4. Max(Named(l, b, l[s].name)) = s
  <2>1. s \in Named(l, b, l[s].name) /\ \A j \in Named(l, b, l[s].name) : j \in 1 .. s
    BY <1>1 DEF Named
  <2>2. \A j \in 1 .. s : s >= j
    OBVIOUS
  <2>3. ASSUME NEW x \in Named(l, b, l[s].name), x >= s PROVE x = s
    BY <2>1, <2>3
  <2>. QED
    BY <2>1, <2>2, <2>3 DEF Max
<1>5. \A n : n # l[s].name => Named(l, b, n) = Named(l, s - 1, n)
  BY <1>1 DEF Named
<1>. HIDE DEF old
<1>6. table = new.labels
  <2>1. DOMAIN old.labels \cup {l[s].name} = {l[j].name : j \in LabelsTo(l, b)}
    BY <1>1, <1>2
  <2>2. \A n \in DOMAIN old.labels \cup {l[s].name} :
            table[n] = Num(Address(items, Max(Named(l, b, n))))
    BY <1>2, <1>4, <1>5
  <2>3. table = [n \in {l[j].name : j \in LabelsTo(l, b)} |->
                    Num(Address(items, Max(Named(l, b, n))))]
    BY <2>1, <2>2
  <2>. QED
    BY <1>3, <2>3
<1>. HIDE DEF table, new
<1>7. WithLabel([c \in {Root} |-> old], Root, l[s].name, e)
        = [c \in {Root} |-> [old EXCEPT !.labels = table]]
  BY DEF WithLabel, table
<1>8. [old EXCEPT !.labels = table] = new
  <2>1. [old EXCEPT !.labels = table] = [parent |-> NoContext, labels |-> table]
    BY <1>2
  <2>2. new = [parent |-> NoContext, labels |-> new.labels]
    BY <1>3
  <2>. QED
    BY <1>6, <2>1, <2>2
<1>. QED
  BY <1>7, <1>8 DEF old, new, RootAt

(* The length after a record.                                                *)
LEMMA LengthGrows ==
    ASSUME NEW l, NEW items, IsFlat(l, items), NEW b \in 1 .. Len(l), NEW s \in 1 .. b,
           \A j \in s .. b : IsInstr(l, j) <=> j = b /\ IsInstr(l, b),
           NEW length \in Nat, LengthAt(l, items, s - 1, length), NEW place,
           IsInstr(l, b) => place = Address(items, b)
    PROVE  LengthAt(l, items, b, IF ~IsInstr(l, b) THEN length
                                 ELSE IF place + 1 > length THEN place + 1 ELSE length)
<1>1. Len(l) \in Nat
  BY ListBasics DEF IsFlat
<1>2. \A j \in 1 .. b : j \in s .. b \/ j \in 1 .. s - 1
  OBVIOUS
<1>3. \A j \in 1 .. s - 1 : j \in 1 .. b
  BY <1>1
<1>4. \A j \in 1 .. b : Address(items, j) \in Nat
  <2>1. \A j \in 1 .. b : j - 1 \in 0 .. Len(l)
    BY <1>1
  <2>. QED
    BY <2>1, PastIsWord, WordIsNat DEF Past, Address
<1>5. b \in s .. b /\ b \in 1 .. b
  BY <1>1
<1>6. CASE ~IsInstr(l, b)
  BY <1>2, <1>3, <1>6 DEF LengthAt
<1>7. CASE IsInstr(l, b)
  <2>. DEFINE len == IF place + 1 > length THEN place + 1 ELSE length
  <2>1. len \in Nat /\ length <= len /\ place + 1 <= len /\ len \in {length, place + 1}
    BY <1>4, <1>5, <1>7
  <2>2. \A j \in 1 .. b : IsInstr(l, j) => Address(items, j) + 1 <= len
    <3>1. ASSUME NEW j \in 1 .. b, IsInstr(l, j) PROVE Address(items, j) + 1 <= len
      <4>1. CASE j \in s .. b
        BY <1>7, <2>1, <3>1, <4>1
      <4>2. CASE j \in 1 .. s - 1
        <5>1. Address(items, j) + 1 <= length /\ Address(items, j) \in Nat
          BY <1>4, <3>1, <4>2 DEF LengthAt
        <5>. QED
          BY <2>1, <5>1
      <4>. QED
        BY <1>2, <4>1, <4>2
    <3>. QED
      BY <3>1
  <2>3. len = 0 \/ \E j \in 1 .. b : IsInstr(l, j) /\ len = Address(items, j) + 1
    BY <1>3, <1>5, <1>7, <2>1 DEF LengthAt
  <2>. HIDE DEF len
  <2>4. LengthAt(l, items, b, len)
    BY <2>2, <2>3 DEF LengthAt
  <2>. QED
    BY <1>7, <2>4 DEF len
<1>. QED
  BY <1>6, <1>7

(* The end of the source.                                                    *)
LEMMA FlatEnds ==
    ASSUME ParseInv, NEW l, NEW items, IsFlat(l, items), ParsingFlat(l), EndOfList
    PROVE  pc' = "pass_one" /\ LabellingFlat(l, items)'
<1>1. PICK k \in 0 .. Len(l) : /\ frames = <<FrameAt(l, k)>> /\ AllKnown(l, k)
                              /\ \E f : IsBuffer(l, k, records, f)
  BY DEF ParsingFlat
<1>2. PICK f : IsBuffer(l, k, records, f)
  BY <1>1
<1>3. Len(l) \in Nat /\ k \in Nat /\ Len(items) = Len(l)
  BY ListBasics DEF IsFlat
<1>4. k = Len(l) /\ Len(frames) = 1
  <2>1. k + 1 > Len(l) /\ Len(frames) = 1
    BY <1>1, <1>3, FlatFrame DEF EndOfList
  <2>. QED
    BY <1>3, <2>1
<1>5. /\ pc' = "pass_one" /\ saved' = section.cursor /\ at' = 1
      /\ UNCHANGED <<trees, contexts, records, section, program>>
  BY <1>4 DEF EndOfList
<1>6. contexts = [c \in {Root} |-> Context(NoContext)] /\ section = EmptySection
      /\ trees = TreesOf(program)
  BY DEF ParsingFlat
<1>7. f[at' - 1] = 0
  BY <1>2, <1>5 DEF IsBuffer
<1>8. LabelsAt(l, items, 0) = Context(NoContext)
  <2>1. LabelsTo(l, 0) = {}
    BY DEF LabelsTo
  <2>. QED
    BY <2>1 DEF LabelsAt, Context, NoLabels
<1>9. section'.cursor = Past(items, f[at' - 1]) /\ saved' = 0
  BY <1>3, <1>5, <1>6, <1>7, PastIs DEF EmptySection
<1>10. LengthAt(l, items, f[at' - 1], section'.length)
  BY <1>5, <1>6, <1>7 DEF LengthAt, EmptySection
<1>11. \A a \in 0 .. section'.capacity - 1 : section'.data[a] = EmptyCell
  BY <1>5, <1>6 DEF EmptySection
<1>12. trees' = TreesOf(program)'
  BY <1>5, <1>6 DEF TreesOf
<1>. QED
  BY <1>1, <1>2, <1>4, <1>5, <1>6, <1>7, <1>8, <1>9, <1>10, <1>11, <1>12 DEF LabellingFlat, RootAt

(* Pass one moves the section on to where the record ends, finds room and    *)
(* leaves the cells as they are.                                             *)
LEMMA FlatPasses ==
    ASSUME SectionInv, NEW l, NEW items, IsFlat(l, items), LabellingFlat(l, items),
           PassOne, HasInstr => PutResult(Placed) # "wild"
    PROVE  pc' = "pass_one" /\ LabellingFlat(l, items)'
<1>1. PICK f : /\ IsBuffer(l, Len(l), records, f)
               /\ contexts = RootAt(l, items, f[at - 1])
               /\ section.cursor = Past(items, f[at - 1])
               /\ LengthAt(l, items, f[at - 1], section.length)
  BY DEF LabellingFlat
<1>2. /\ AllKnown(l, Len(l)) /\ trees = TreesOf(program) /\ saved = 0
      /\ \A a \in 0 .. section.capacity - 1 : section.data[a] = EmptyCell
  BY DEF LabellingFlat
<1>3. /\ IsList(records) /\ at \in Nat \ {0} /\ at <= Len(records)
      /\ ArrayOK(section) /\ SectionShape(section) /\ pc = "pass_one"
  BY DEF SectionInv, ParseInv, BufferOK, PassOne, ArrayOK, SectionShape
<1>. DEFINE b == f[at]
            s == Start(l, b)
<1>4. /\ b \in 1 .. Len(l) /\ s \in 1 .. b /\ f[at - 1] = s - 1 /\ at + 1 - 1 = at
      /\ Current.context = Root
      /\ HasInstr <=> IsInstr(l, b)
      /\ HasInstr => Placed.cursor = Address(items, b) /\ Past(items, b) = Wrap(Placed.cursor + 1)
      /\ ~HasInstr => Placed.cursor = Past(items, b)
      /\ Current.label # NoName <=> l[s].t = "label"
      /\ l[s].t = "label" => Current.label = l[s].name
      /\ \A j \in s .. b : /\ IsInstr(l, j) <=> j = b /\ IsInstr(l, b)
                           /\ l[j].t = "label" <=> j = s /\ l[s].t = "label"
  BY <1>1, <1>2, <1>3, CurrentIs
<1>. HIDE DEF b, s
<1>5. b \in Nat
  BY <1>4
<1>6. UNCHANGED <<records, trees, saved, program>> /\ at' = at + 1
  BY DEF PassOne, parseVars
<1>7. /\ Placed.capacity = section.capacity /\ Placed.length = section.length
      /\ Placed.data = section.data /\ ArrayOK(Placed)
  BY <1>3, PlacedShape, PlacedOK
<1>8. section.length \in Nat /\ Placed.cursor \in Nat /\ section.capacity \in Nat
  BY <1>3, <1>7, WordIsNat DEF ArrayOK
<1>9. contexts' = RootAt(l, items, b)
  <2>1. CASE l[s].t = "label"
    <3>1. contexts' = WithLabel(contexts, Root, l[s].name, Num(Address(items, s)))
      <4>1. section.cursor = Address(items, s)
        BY <1>1, <1>4 DEF Past, Address
      <4>. QED
        BY <1>4, <2>1, <4>1 DEF PassOne
    <3>2. \A j \in s .. b : l[j].t = "label" <=> j = s
      BY <1>4, <2>1
    <3>3. contexts = RootAt(l, items, s - 1)
      BY <1>1, <1>4
    <3>4. WithLabel(RootAt(l, items, s - 1), Root, l[s].name, Num(Address(items, s)))
            = RootAt(l, items, b)
      BY <1>4, <1>5, <3>2, LabelsGrow
    <3>. QED
      BY <3>1, <3>3, <3>4
  <2>2. CASE l[s].t # "label"
    <3>1. contexts' = contexts
      BY <1>4, <2>2 DEF PassOne
    <3>2. LabelsAt(l, items, b) = LabelsAt(l, items, s - 1)
      BY <1>4, <1>5, <2>2, LabelsSame
    <3>. QED
      BY <1>1, <1>4, <3>1, <3>2 DEF RootAt
  <2>. QED
    BY <2>1, <2>2
<1>10. LengthAt(l, items, b, IF ~IsInstr(l, b) THEN section.length
                             ELSE IF Placed.cursor + 1 > section.length
                                    THEN Placed.cursor + 1 ELSE section.length)
  BY <1>1, <1>4, <1>8, LengthGrows
<1>11. /\ pc' = "pass_one"
       /\ section'.cursor = Past(items, b) /\ LengthAt(l, items, b, section'.length)
       /\ \A a \in 0 .. section'.capacity - 1 : section'.data[a] = EmptyCell
  <2>1. CASE HasInstr
    <3>1. section' = PutWord(Placed, 0, NoDebug)
      BY <2>1 DEF PassOne, Put
    <3>2. Placed.cursor < Placed.capacity => Placed.data[Placed.cursor] = EmptyCell
      <4>1. Placed.cursor < section.capacity => Placed.cursor \in 0 .. section.capacity - 1
        BY <1>8
      <4>. QED
        BY <1>2, <1>7, <4>1
    <3>3. /\ PutResult(Placed) = "ok"
          /\ section'.cursor = Placed.cursor + 1 /\ Wrap(Placed.cursor + 1) = Placed.cursor + 1
          /\ section'.length = IF Placed.cursor + 1 > Placed.length THEN Placed.cursor + 1
                                                                    ELSE Placed.length
          /\ \A a \in 0 .. section'.capacity - 1 :
                 section'.data[a] = IF a = Placed.cursor THEN [value |-> 0, debug |-> NoDebug]
                                    ELSE IF a < Placed.capacity THEN Placed.data[a]
                                    ELSE EmptyCell
      BY <1>7, <2>1, <3>1, <3>2, PutFree
    <3>4. \A a \in 0 .. section'.capacity - 1 : section'.data[a] = EmptyCell
      <4>1. \A a \in 0 .. section'.capacity - 1 : a < section.capacity =>
                a \in 0 .. section.capacity - 1
        BY <1>8
      <4>. QED
        BY <1>2, <1>7, <3>3, <4>1 DEF EmptyCell
    <3>5. pc' = "pass_one"
      BY <1>3, <3>3 DEF PassOne
    <3>. QED
      BY <1>4, <1>7, <1>10, <2>1, <3>3, <3>4, <3>5
  <2>2. CASE ~HasInstr
    <3>1. section' = Placed /\ pc' = "pass_one"
      BY <1>3, <2>2 DEF PassOne
    <3>. QED
      BY <1>2, <1>4, <1>7, <1>10, <2>2, <3>1
  <2>. QED
    BY <2>1, <2>2
<1>12. f[at' - 1] = b
  <2>1. at' - 1 = at
    BY <1>3, <1>6
  <2>. QED
    BY <2>1 DEF b
<1>13. trees' = TreesOf(program)'
  BY <1>2, <1>6 DEF TreesOf
<1>. QED
  BY <1>1, <1>2, <1>6, <1>9, <1>11, <1>12, <1>13 DEF LabellingFlat

(* What is last is no label that is forgotten.                               *)
LEMMA AllFlushed ==
    ASSUME NEW l, NEW items, IsFlat(l, items), l # <<>> => l[Len(l)].t # "label"
    PROVE  LET k == Flushed(l, Len(l))
           IN  /\ k \in 0 .. Len(l)
               /\ \A j \in k + 1 .. Len(l) : ~IsInstr(l, j) /\ l[j].t # "label"
               /\ LabelsAt(l, items, k) = LabelsAt(l, items, Len(l))
               /\ \A length : LengthAt(l, items, k, length) => LengthAt(l, items, Len(l), length)
<1>. DEFINE n == Len(l)
            k == Flushed(l, n)
<1>1. n \in Nat /\ (n # 0 => l[n].t # "label")
  BY ListBasics DEF IsFlat
<1>2. CASE ~IsLocation(l, n)
  <2>1. k = n
    BY <1>2 DEF Flushed
  <2>. QED
    BY <1>1, <2>1
<1>3. CASE IsLocation(l, n)
  <2>1. k = n - 1 /\ n \in Nat \ {0} /\ ~IsInstr(l, n) /\ l[n].t # "label"
    BY <1>1, <1>3 DEF Flushed, IsLocation, IsInstr
  <2>2. \A j \in k + 1 .. n : j = n
    BY <2>1
  <2>. HIDE DEF n, k
  <2>3. LabelsAt(l, items, n) = LabelsAt(l, items, k)
    <3>1. n \in 1 .. n /\ \A j \in n .. n : l[j].t # "label"
      BY <2>1
    <3>. QED
      BY <2>1, <3>1, LabelsSame
  <2>4. ASSUME NEW length, LengthAt(l, items, k, length) PROVE LengthAt(l, items, n, length)
    <3>1. \A j \in 1 .. n : IsInstr(l, j) => j \in 1 .. k
      BY <2>1
    <3>2. \A j \in 1 .. k : j \in 1 .. n
      BY <2>1
    <3>. QED
      BY <2>4, <3>1, <3>2 DEF LengthAt
  <2>. QED
    BY <2>1, <2>2, <2>3, <2>4 DEF n, k
<1>. QED
  BY <1>2, <1>3

LEMMA FlatPassed ==
    ASSUME SectionInv, NEW l, NEW items, IsFlat(l, items), LabellingFlat(l, items),
           l # <<>> => l[Len(l)].t # "label",
           \A k \in 1 .. Len(l) : l[k].t = "instr" =>
               l[k].id \in DOMAIN trees /\ trees[l[k].id] = l[k].args,
           PassOneEnds
    PROVE  pc' = "assemble" /\ AssemblingFlat(l, items)'
<1>1. PICK f : /\ IsBuffer(l, Len(l), records, f)
               /\ contexts = RootAt(l, items, f[at - 1])
               /\ LengthAt(l, items, f[at - 1], section.length)
  BY DEF LabellingFlat
<1>2. /\ AllKnown(l, Len(l)) /\ saved = 0
      /\ \A a \in 0 .. section.capacity - 1 : section.data[a] = EmptyCell
  BY DEF LabellingFlat
<1>3. /\ Len(l) \in Nat /\ Len(items) = Len(l) /\ SectionShape(section)
  BY ListBasics DEF IsFlat, SectionInv, ArrayOK, SectionShape
<1>4. at - 1 = Len(records)
  <2>1. at \in 1 .. Len(records) + 1 /\ at > Len(records) /\ Len(records) \in Nat
    BY ListBasics DEF SectionInv, ParseInv, BufferOK, PassOneEnds
  <2>. QED
    BY <2>1
<1>5. f[at - 1] = Flushed(l, Len(l)) /\ f[0] = 0
  BY <1>1, <1>4 DEF IsBuffer
<1>6. /\ contexts = RootAt(l, items, Len(l))
      /\ LengthAt(l, items, Len(l), section.length)
  BY <1>1, <1>5, AllFlushed DEF RootAt
<1>7. /\ section' = [section EXCEPT !.cursor = saved]
      /\ contexts' = WithContext(contexts, Assembling, NoContext)
      /\ at' = 1 /\ pc' = "assemble" /\ UNCHANGED <<records, trees>>
  BY DEF PassOneEnds, parseVars
<1>8. /\ section'.cursor = 0 /\ section'.length = section.length
      /\ section'.capacity = section.capacity /\ section'.data = section.data
  BY <1>2, <1>3, <1>7 DEF SectionShape
<1>9. f[at' - 1] = 0
  BY <1>5, <1>7
<1>10. section'.cursor = Past(items, f[at' - 1])
  BY <1>3, <1>8, <1>9, PastIs
<1>11. AssembledTo(l, items, f[at' - 1], section')
  <2>1. CellsAt(l, items, 0, section')
    BY <1>2, <1>8 DEF CellsAt
  <2>2. \A j \in 1 .. 0 : IsInstr(l, j) => Good(items, j)
    OBVIOUS
  <2>. QED
    BY <1>6, <1>8, <1>9, <2>1, <2>2 DEF AssembledTo
<1>12. contexts' = TablesWith(l, items, Context(NoContext)) /\ OwnOK(Context(NoContext))
  <2>1. OwnOK(Context(NoContext))
    BY DEF OwnOK, Context, NoLabels
  <2>2. DOMAIN contexts \cup {Assembling} = {Assembling, Root} /\ Assembling # Root
        /\ contexts[Root] = LabelsAt(l, items, Len(l))
    BY <1>6 DEF Assembling, Root, RootAt
  <2>3. contexts' = [c \in {Assembling, Root} |->
                       IF c = Assembling THEN Context(NoContext) ELSE contexts[c]]
    BY <1>7, <2>2 DEF WithContext
  <2>. QED
    BY <2>1, <2>2, <2>3 DEF TablesWith
<1>13. \A j \in f[at' - 1] + 1 .. Len(l) : IsInstr(l, j) =>
           l[j].id \in DOMAIN trees' /\ trees'[l[j].id] = l[j].args
  BY <1>7, <1>9 DEF IsInstr
<1>. QED
  BY <1>1, <1>2, <1>7, <1>9, <1>10, <1>11, <1>12, <1>13 DEF AssemblingFlat

(* The tables of the second pass with "$" set.                               *)
HereAt(h) == [parent |-> Root, labels |-> [name \in {"$"} |-> Num(h)]]

LEMMA OwnGrows ==
    ASSUME NEW l, NEW items, NEW own, OwnOK(own), contexts = TablesWith(l, items, own), NEW h
    PROVE  /\ WithLabel([contexts EXCEPT ![Assembling].parent = Root], Assembling, "$", Num(h))
                = TablesWith(l, items, HereAt(h))
           /\ OwnOK(HereAt(h))
           /\ \E new : /\ OwnOK(new)
                       /\ WithLabel(contexts, Assembling, "$", Num(h)) = TablesWith(l, items, new)
<1>. DEFINE root == LabelsAt(l, items, Len(l))
            e == Num(h)
            table == [name \in {"$"} |-> e]
            new == [parent |-> own.parent, labels |-> table]
            moved == [parent |-> Root, labels |-> own.labels]
            With(o) == [c \in {Assembling, Root} |-> IF c = Root THEN root ELSE o]
<1>1. Assembling # Root
  BY DEF Assembling, Root
<1>2. OwnOK(new) /\ OwnOK(HereAt(h))
  BY DEF OwnOK, HereAt
<1>3. /\ own = [parent |-> own.parent, labels |-> own.labels]
      /\ DOMAIN own.labels \cup {"$"} = {"$"}
  BY DEF OwnOK
<1>. HIDE DEF root, e
<1>4. \A o : TablesWith(l, items, o) = With(o)
  BY DEF TablesWith, root
<1>5. [contexts EXCEPT ![Assembling].parent = Root] = With(moved)
  BY <1>1, <1>3, <1>4
<1>6. ASSUME NEW p, NEW q, q = [parent |-> p, labels |-> own.labels]
      PROVE  WithLabel(With(q), Assembling, "$", e) = With([parent |-> p, labels |-> table])
  <2>1. [n \in DOMAIN q.labels \cup {"$"} |-> IF n = "$" THEN e ELSE q.labels[n]] = table
    BY <1>3, <1>6
  <2>2. [q EXCEPT !.labels = table] = [parent |-> p, labels |-> table]
    BY <1>6
  <2>3. WithLabel(With(q), Assembling, "$", e)
          = [With(q) EXCEPT ![Assembling] = [q EXCEPT !.labels = table]]
    BY <1>1, <2>1 DEF WithLabel
  <2>. QED
    BY <1>1, <2>2, <2>3
<1>. HIDE DEF With
<1>7. WithLabel([contexts EXCEPT ![Assembling].parent = Root], Assembling, "$", e)
        = TablesWith(l, items, HereAt(h))
  BY <1>4, <1>5, <1>6 DEF HereAt, e
<1>8. WithLabel(contexts, Assembling, "$", e) = TablesWith(l, items, new)
  BY <1>3, <1>4, <1>6
<1>. HIDE DEF new
<1>. QED
  BY <1>2, <1>7, <1>8 DEF e

(* Where the second pass is, and what it has come to.                        *)
FlatAt(l, items, f, b, s) ==
    /\ IsBuffer(l, Len(l), records, f)
    /\ AssembledTo(l, items, s - 1, section)
    /\ b \in 1 .. Len(l) /\ s \in 1 .. b /\ f[at - 1] = s - 1 /\ at \in Nat /\ f[at] = b
    /\ Current.context = Root
    /\ HasInstr <=> IsInstr(l, b)
    /\ HasInstr => /\ Current.m = l[b].m /\ Placed.cursor = Address(items, b)
                   /\ Past(items, b) = Wrap(Placed.cursor + 1)
                   /\ l[b].id \in DOMAIN trees /\ Operands = l[b].args /\ Current.id = l[b].id
    /\ ~HasInstr => Placed.cursor = Past(items, b)
    /\ \A j \in s .. b : IsInstr(l, j) <=> j = b /\ IsInstr(l, b)
    /\ \A j \in b + 1 .. Len(l) : IsInstr(l, j) =>
           l[j].id \in DOMAIN trees /\ trees[l[j].id] = l[j].args

LEMMA AssemblingAt ==
    ASSUME SectionInv, NEW l, NEW items, IsFlat(l, items), AssemblingFlat(l, items),
           at <= Len(records)
    PROVE  \E f, b, s : FlatAt(l, items, f, b, s)
<1>1. PICK f : /\ IsBuffer(l, Len(l), records, f)
               /\ section.cursor = Past(items, f[at - 1])
               /\ AssembledTo(l, items, f[at - 1], section)
               /\ \A j \in f[at - 1] + 1 .. Len(l) : IsInstr(l, j) =>
                      l[j].id \in DOMAIN trees /\ trees[l[j].id] = l[j].args
  BY DEF AssemblingFlat
<1>2. /\ AllKnown(l, Len(l)) /\ IsList(records) /\ at \in Nat \ {0}
      /\ SectionShape(section) /\ Len(l) \in Nat
  BY ListBasics DEF AssemblingFlat, SectionInv, ParseInv, BufferOK, ArrayOK, SectionShape, IsFlat
<1>. DEFINE b == f[at]
            s == Start(l, b)
<1>3. /\ b \in 1 .. Len(l) /\ s \in 1 .. b /\ f[at - 1] = s - 1 /\ at + 1 - 1 = at
      /\ Current.context = Root
      /\ HasInstr <=> IsInstr(l, b)
      /\ HasInstr => /\ Current.m = l[b].m /\ Current.id = l[b].id
                     /\ Placed.cursor = Address(items, b)
                     /\ Past(items, b) = Wrap(Placed.cursor + 1)
      /\ ~HasInstr => Placed.cursor = Past(items, b)
      /\ \A j \in s .. b : /\ IsInstr(l, j) <=> j = b /\ IsInstr(l, b)
                           /\ l[j].t = "label" <=> j = s /\ l[s].t = "label"
  BY <1>1, <1>2, CurrentIs
<1>4. at \in Nat /\ f[at] = b
  BY <1>2
<1>. HIDE DEF b, s
<1>5. /\ b \in s - 1 + 1 .. Len(l)
      /\ \A j \in b + 1 .. Len(l) : j \in s - 1 + 1 .. Len(l)
  BY <1>2, <1>3
<1>6. /\ \A j \in b + 1 .. Len(l) : IsInstr(l, j) =>
             l[j].id \in DOMAIN trees /\ trees[l[j].id] = l[j].args
      /\ HasInstr => l[b].id \in DOMAIN trees /\ Operands = l[b].args
  BY <1>1, <1>3, <1>5 DEF Operands
<1>7. FlatAt(l, items, f, b, s)
  BY <1>1, <1>3, <1>4, <1>6 DEF FlatAt
<1>. QED
  BY <1>7

(* A record without an instruction moves the section only.                   *)
LEMMA FlatLocates ==
    ASSUME SectionInv, NEW l, NEW items, IsFlat(l, items), AssemblingFlat(l, items), Locating
    PROVE  AssemblingFlat(l, items)'
<1>1. PICK f, b, s : FlatAt(l, items, f, b, s)
  BY AssemblingAt DEF Locating
<1>2. /\ ~HasInstr /\ section' = Placed /\ at' = at + 1
      /\ contexts' = WithLabel(contexts, Assembling, "$", Num(Placed.cursor))
      /\ UNCHANGED <<records, trees>>
  BY DEF Locating, parseVars
<1>3. /\ IsBuffer(l, Len(l), records', f)
      /\ AssembledTo(l, items, s - 1, section) /\ b \in 1 .. Len(l) /\ s \in 1 .. b
      /\ \A j \in s .. b : ~IsInstr(l, j)
      /\ section'.cursor = Past(items, b) /\ f[at' - 1] = b
      /\ \A j \in b + 1 .. Len(l) : IsInstr(l, j) =>
             l[j].id \in DOMAIN trees' /\ trees'[l[j].id] = l[j].args
  <2>1. /\ IsBuffer(l, Len(l), records, f) /\ at \in Nat /\ f[at] = b
        /\ AssembledTo(l, items, s - 1, section) /\ b \in 1 .. Len(l) /\ s \in 1 .. b
        /\ \A j \in s .. b : ~IsInstr(l, j)
        /\ Placed.cursor = Past(items, b)
        /\ \A j \in b + 1 .. Len(l) : IsInstr(l, j) =>
               l[j].id \in DOMAIN trees /\ trees[l[j].id] = l[j].args
    BY <1>1, <1>2 DEF FlatAt
  <2>2. IsBuffer(l, Len(l), records', f)
    BY <1>2, <2>1
  <2>3. section'.cursor = Past(items, b) /\ f[at' - 1] = b
    <3>1. at' - 1 = at
      BY <1>2, <2>1
    <3>. QED
      BY <1>2, <2>1, <3>1
  <2>4. \A j \in b + 1 .. Len(l) : IsInstr(l, j) =>
            l[j].id \in DOMAIN trees' /\ trees'[l[j].id] = l[j].args
    BY <1>2, <2>1
  <2>. QED
    BY <2>1, <2>2, <2>3, <2>4
<1>4. /\ section'.capacity = section.capacity /\ section'.length = section.length
      /\ section'.data = section.data
  BY <1>2, PlacedShape DEF SectionInv, ArrayOK, SectionShape
<1>5. AssembledTo(l, items, b, section')
  <2>1. \A j \in 1 .. b : IsInstr(l, j) => j \in 1 .. s - 1
    BY <1>3
  <2>2. \A j \in 1 .. s - 1 : j \in 1 .. b
    BY <1>3
  <2>3. CellsAt(l, items, b, section')
    BY <1>3, <1>4, <2>1, <2>2 DEF AssembledTo, CellsAt
  <2>. QED
    BY <1>3, <1>4, <2>1, <2>3 DEF AssembledTo
<1>6. \E own : OwnOK(own) /\ contexts' = TablesWith(l, items, own)
  <2>1. PICK own : OwnOK(own) /\ contexts = TablesWith(l, items, own)
    BY DEF AssemblingFlat
  <2>. QED
    BY <1>2, <2>1, OwnGrows
<1>7. AllKnown(l, Len(l))
  BY DEF AssemblingFlat
<1>. QED
  BY <1>3, <1>5, <1>6, <1>7 DEF AssemblingFlat

(* The operand of an instruction evaluates to what it means, if eval_expr()  *)
(* does in such tables.                                                      *)
Evaluates(l, items) ==
    HasInstr /\ Operands # <<>> =>
        LET here == Placed.cursor
            meaning == Meaning(items, Outermost, Operands[1], here)
        IN  Scope = TablesWith(l, items, HereAt(here)) =>
                IF meaning = Undefined THEN Evaluated.rc # "ok"
                                       ELSE Evaluated = Outcome("ok", Num(meaning), Scope)

LEMMA FlatEvaluates ==
    ASSUME SectionInv, NEW l, NEW items, IsFlat(l, items), AssemblingFlat(l, items),
           at <= Len(records), Evaluates(l, items), NEW f, NEW b, NEW s,
           FlatAt(l, items, f, b, s), HasInstr
    PROVE  /\ Evaluated.rc = "ok" =>
                  /\ OperandMeaning(items, b) # Undefined
                  /\ Evaluated.node.n = OperandMeaning(items, b)
                  /\ Evaluated.contexts = TablesWith(l, items, HereAt(Placed.cursor))
           /\ Evaluated.rc # "ok" => OperandMeaning(items, b) = Undefined
<1>1. /\ b \in 1 .. Len(l) /\ Current.context = Root /\ Operands = l[b].args
      /\ Placed.cursor = Address(items, b) /\ items[b].stmt = l[b] /\ items[b].scope = Outermost
  BY DEF FlatAt, IsFlat
<1>2. Scope = TablesWith(l, items, HereAt(Placed.cursor))
  <2>1. PICK own : OwnOK(own) /\ contexts = TablesWith(l, items, own)
    BY DEF AssemblingFlat
  <2>2. Scope = WithLabel([contexts EXCEPT ![Assembling].parent = Root], Assembling, "$",
                          Num(Placed.cursor))
    BY <1>1 DEF Scope
  <2>. QED
    BY <2>1, <2>2, OwnGrows
<1>3. OperandMeaning(items, b) =
          IF Operands = <<>> THEN 0
          ELSE Meaning(items, Outermost, Operands[1], Placed.cursor)
  BY <1>1 DEF OperandMeaning
<1>4. CASE Operands = <<>>
  <2>1. /\ Evaluated.rc = "ok" /\ Evaluated.node = Num(0) /\ Evaluated.contexts = Scope
    BY <1>4 DEF Evaluated, Outcome
  <2>. QED
    BY <1>2, <1>3, <1>4, <2>1 DEF Num, Undefined
<1>5. CASE Operands # <<>>
  <2>. DEFINE meaning == Meaning(items, Outermost, Operands[1], Placed.cursor)
  <2>1. IF meaning = Undefined THEN Evaluated.rc # "ok"
                               ELSE Evaluated = Outcome("ok", Num(meaning), Scope)
    BY <1>2, <1>5 DEF Evaluates
  <2>2. OperandMeaning(items, b) = meaning
    BY <1>3, <1>5
  <2>. HIDE DEF meaning
  <2>. QED
    BY <1>2, <2>1, <2>2 DEF Outcome, Num
<1>. QED
  BY <1>4, <1>5

(* An instruction gets its cell, which no other wants.                       *)
LEMMA FlatAssembles ==
    ASSUME SectionInv, NEW l, NEW items, IsFlat(l, items), ~Overlapping(items),
           AssemblingFlat(l, items), Evaluates(l, items), Assemble,
           PutResult(Placed) # "wild"
    PROVE  pc' = "assemble" /\ AssemblingFlat(l, items)'
<1>1. PICK f, b, s : FlatAt(l, items, f, b, s)
  BY AssemblingAt DEF Assemble
<1>2. /\ pc = "assemble" /\ at <= Len(records) /\ HasInstr /\ ~BadRecord /\ at' = at + 1
      /\ trees' = [trees EXCEPT ![Current.id] =
                      IF Operands = <<>> THEN @ ELSE <<Evaluated.node>>]
      /\ contexts' = Evaluated.contexts
      /\ section' = PutWord(Placed, WordFor(Current.m, Evaluated.node.n), at)
      /\ pc' = CASE PutResult(Placed) = "wild" -> "crashed"
                 [] PutResult(Placed) = "EEXIST" /\ Current.m \in Directives -> "failed"
                 [] OTHER -> pc
      /\ records' = records
  BY DEF Assemble, Put
<1>3. /\ IsBuffer(l, Len(l), records, f) /\ at \in Nat /\ f[at] = b
      /\ AssembledTo(l, items, s - 1, section) /\ b \in 1 .. Len(l) /\ s \in 1 .. b
      /\ IsInstr(l, b) /\ Current.m = l[b].m /\ Placed.cursor = Address(items, b)
      /\ Past(items, b) = Wrap(Placed.cursor + 1)
      /\ Operands = l[b].args /\ Current.id = l[b].id
      /\ \A j \in s .. b : IsInstr(l, j) => j = b
      /\ \A j \in b + 1 .. Len(l) : IsInstr(l, j) =>
             l[j].id \in DOMAIN trees /\ trees[l[j].id] = l[j].args
  BY <1>1, <1>2 DEF FlatAt
<1>4. /\ ~(Len(Operands) > 1)
      /\ Current.m \in Mnemonics
      /\ OperandMeaning(items, b) # Undefined
      /\ Evaluated.node.n = OperandMeaning(items, b)
      /\ contexts' = TablesWith(l, items, HereAt(Placed.cursor))
  BY <1>1, <1>2, FlatEvaluates DEF BadRecord
<1>. DEFINE word == WordFor(l[b].m, OperandMeaning(items, b))
<1>5. section' = PutWord(Placed, word, at)
  BY <1>2, <1>3, <1>4
<1>. HIDE DEF word
<1>6. /\ Placed.capacity = section.capacity /\ Placed.length = section.length
      /\ Placed.data = section.data /\ ArrayOK(Placed)
  BY <1>2, PlacedShape, PlacedOK DEF SectionInv, ArrayOK, SectionShape
<1>7. /\ section.length \in Nat /\ Placed.cursor \in Nat /\ section.capacity \in Nat
      /\ section.length <= section.capacity /\ Len(l) \in Nat
  BY <1>6, WordIsNat, ListBasics DEF SectionInv, ArrayOK, IsFlat
<1>8. /\ \A j \in 1 .. b : IsInstr(l, j) => j = b \/ j \in 1 .. s - 1
      /\ \A j \in 1 .. s - 1 : j \in 1 .. b /\ j \in 1 .. Len(l) /\ j # b
  BY <1>3, <1>7
<1>9. \A j \in 1 .. s - 1 : IsInstr(l, j) => Address(items, j) # Placed.cursor
  <2>1. \A j \in 1 .. Len(l) : IsInstr(l, j) => j \in Instrs(items)
    BY DEF IsInstr, Instrs, IsFlat
  <2>. QED
    BY <1>3, <1>8, <2>1 DEF Overlapping
<1>10. Placed.cursor < Placed.capacity => Placed.data[Placed.cursor] = EmptyCell
  <2>1. Placed.cursor < section.capacity => Placed.cursor \in 0 .. section.capacity - 1
    BY <1>7
  <2>. QED
    BY <1>3, <1>6, <1>9, <2>1 DEF AssembledTo, CellsAt
<1>11. /\ PutResult(Placed) = "ok"
       /\ section'.cursor = Placed.cursor + 1 /\ Wrap(Placed.cursor + 1) = Placed.cursor + 1
       /\ section'.length = IF Placed.cursor + 1 > section.length THEN Placed.cursor + 1
                                                                  ELSE section.length
       /\ \A a \in 0 .. section'.capacity - 1 :
              section'.data[a] = IF a = Placed.cursor THEN [value |-> word, debug |-> at]
                                 ELSE IF a < section.capacity THEN section.data[a]
                                 ELSE EmptyCell
  BY <1>5, <1>6, <1>10, PutFree
<1>12. LengthAt(l, items, Len(l), section.length) /\ section'.length = section.length
  <2>1. LengthAt(l, items, Len(l), section.length)
    BY <1>3 DEF AssembledTo
  <2>2. Placed.cursor + 1 <= section.length
    BY <1>3, <2>1 DEF LengthAt
  <2>. QED
    BY <1>7, <1>11, <2>1, <2>2
<1>13. ASSUME NEW a \in 0 .. section'.capacity - 1, NEW j \in 1 .. b, IsInstr(l, j),
              Address(items, j) = a
       PROVE  section'.data[a].value = WordFor(l[j].m, OperandMeaning(items, j))
  <2>1. CASE j = b
    <3>1. section'.data[a] = [value |-> word, debug |-> at]
      BY <1>3, <1>11, <1>13, <2>1
    <3>. QED
      BY <2>1, <3>1 DEF word
  <2>2. CASE j # b
    <3>1. j \in 1 .. s - 1 /\ j \in 1 .. Len(l)
      BY <1>8, <1>13, <2>2
    <3>2. a # Placed.cursor
      BY <1>9, <1>13, <3>1
    <3>3. a < section.capacity /\ a \in 0 .. section.capacity - 1
      <4>1. a + 1 <= section.length
        BY <1>12, <1>13, <3>1 DEF LengthAt
      <4>. QED
        BY <1>7, <4>1
    <3>4. section'.data[a] = section.data[a]
      BY <1>11, <3>2, <3>3
    <3>. QED
      BY <1>3, <1>13, <3>1, <3>3, <3>4 DEF AssembledTo, CellsAt
  <2>. QED
    BY <2>1, <2>2
<1>14. ASSUME NEW a \in 0 .. section'.capacity - 1,
              \A j \in 1 .. b : IsInstr(l, j) => Address(items, j) # a
       PROVE  section'.data[a] = EmptyCell
  <2>1. a # Placed.cursor
    <3>1. b \in 1 .. b
      BY <1>3
    <3>. QED
      BY <1>3, <1>14, <3>1
  <2>2. CASE a < section.capacity
    <3>1. a \in 0 .. section.capacity - 1
      BY <1>7, <2>2
    <3>2. \A j \in 1 .. s - 1 : IsInstr(l, j) => Address(items, j) # a
      BY <1>8, <1>14
    <3>. QED
      BY <1>3, <1>11, <2>1, <2>2, <3>1, <3>2 DEF AssembledTo, CellsAt
  <2>3. CASE ~(a < section.capacity)
    BY <1>11, <2>1, <2>3
  <2>. QED
    BY <2>2, <2>3
<1>15. Good(items, b)
  BY <1>3, <1>4 DEF Good, IsFlat
<1>16. AssembledTo(l, items, b, section')
  <2>1. \A j \in 1 .. b : IsInstr(l, j) => Good(items, j)
    BY <1>3, <1>8, <1>15 DEF AssembledTo
  <2>2. CellsAt(l, items, b, section')
    BY <1>13, <1>14 DEF CellsAt
  <2>. QED
    BY <1>12, <2>1, <2>2 DEF AssembledTo
<1>17. ASSUME NEW j \in b + 1 .. Len(l), IsInstr(l, j)
       PROVE  l[j].id \in DOMAIN trees' /\ trees'[l[j].id] = l[j].args
  <2>1. j \in 1 .. Len(l) /\ j # b
    BY <1>3, <1>7
  <2>2. l[j].id # l[b].id
    BY <1>3, <1>17, <2>1 DEF IsFlat, IsInstr
  <2>. QED
    BY <1>2, <1>3, <1>17, <2>2
<1>18. section'.cursor = Past(items, b) /\ pc' = "assemble"
  BY <1>2, <1>3, <1>11
<1>19. f[at' - 1] = b
  <2>1. at' - 1 = at
    BY <1>2, <1>3
  <2>. QED
    BY <1>3, <2>1
<1>20. OwnOK(HereAt(Placed.cursor)) /\ AllKnown(l, Len(l))
  BY DEF OwnOK, HereAt, AssemblingFlat
<1>21. IsBuffer(l, Len(l), records', f)
  BY <1>2, <1>3
<1>. QED
  BY <1>4, <1>16, <1>17, <1>18, <1>19, <1>20, <1>21 DEF AssemblingFlat

(* What is refused is erroneous.                                             *)
LEMMA FlatFails ==
    ASSUME SectionInv, NEW l, NEW items, IsFlat(l, items), AssemblingFlat(l, items),
           Evaluates(l, items), AssembleFails
    PROVE  Erroneous(items)
<1>1. PICK f, b, s : FlatAt(l, items, f, b, s)
  BY AssemblingAt DEF AssembleFails
<1>2. at <= Len(records) /\ HasInstr /\ BadRecord
  BY DEF AssembleFails
<1>3. /\ b \in Instrs(items) /\ Current.m = items[b].stmt.m /\ Operands = items[b].stmt.args
  <2>1. b \in 1 .. Len(l) /\ IsInstr(l, b) /\ Current.m = l[b].m /\ Operands = l[b].args
    BY <1>1, <1>2 DEF FlatAt
  <2>. QED
    BY <2>1 DEF IsFlat, Instrs, IsInstr
<1>4. Evaluated.rc # "ok" => OperandMeaning(items, b) = Undefined
  BY <1>1, <1>2, FlatEvaluates
<1>. QED
  BY <1>2, <1>3, <1>4 DEF BadRecord, Erroneous

(* In the end all has been assembled.                                        *)
LEMMA FlatAssembled ==
    ASSUME SectionInv, NEW l, NEW items, IsFlat(l, items), AssemblingFlat(l, items),
           l # <<>> => l[Len(l)].t # "label", AssembleEnds
    PROVE  AssembledTo(l, items, Len(l), section)
<1>1. PICK f : /\ IsBuffer(l, Len(l), records, f)
               /\ AssembledTo(l, items, f[at - 1], section)
  BY DEF AssemblingFlat
<1>2. at - 1 = Len(records)
  <2>1. at \in 1 .. Len(records) + 1 /\ at > Len(records) /\ Len(records) \in Nat
    BY ListBasics DEF SectionInv, ParseInv, BufferOK, AssembleEnds
  <2>. QED
    BY <2>1
<1>. DEFINE k == Flushed(l, Len(l))
<1>3. AssembledTo(l, items, k, section)
  BY <1>1, <1>2 DEF IsBuffer
<1>4. k \in 0 .. Len(l) /\ \A j \in k + 1 .. Len(l) : ~IsInstr(l, j)
  BY AllFlushed
<1>5. Len(l) \in Nat
  BY ListBasics DEF IsFlat
<1>. HIDE DEF k
<1>6. /\ \A j \in 1 .. Len(l) : IsInstr(l, j) => j \in 1 .. k
      /\ \A j \in 1 .. k : j \in 1 .. Len(l)
  <2>1. \A j \in 1 .. Len(l) : j \in 1 .. k \/ j \in k + 1 .. Len(l)
    BY <1>4, <1>5
  <2>. QED
    BY <1>4, <1>5, <2>1
<1>7. CellsAt(l, items, Len(l), section)
  BY <1>3, <1>6 DEF AssembledTo, CellsAt
<1>. QED
  BY <1>3, <1>6, <1>7 DEF AssembledTo

(* That is what the source means.                                            *)
LEMMA ImageIs ==
    ASSUME ArrayOK(section), NEW l, NEW items, IsFlat(l, items),
           AssembledTo(l, items, Len(l), section)
    PROVE  ~Erroneous(items) /\ SectionImage = Image(items)
<1>1. /\ Len(l) \in Nat /\ DOMAIN items = 1 .. Len(l)
      /\ \A k \in 1 .. Len(l) : items[k].stmt = l[k]
      /\ Instrs(items) = {k \in 1 .. Len(l) : IsInstr(l, k)}
  BY ListBasics DEF IsFlat, Instrs, IsInstr
<1>2. /\ CellsAt(l, items, Len(l), section) /\ LengthAt(l, items, Len(l), section.length)
      /\ \A j \in 1 .. Len(l) : IsInstr(l, j) => Good(items, j)
  BY DEF AssembledTo
<1>3. ~Erroneous(items)
  BY <1>1, <1>2 DEF Erroneous, Good
<1>4. section.length \in Nat /\ section.capacity \in Nat /\ section.length <= section.capacity
  BY WordIsNat DEF ArrayOK
<1>5. \A j \in 1 .. Len(l) : Address(items, j) \in Nat
  <2>1. \A j \in 1 .. Len(l) : j - 1 \in 0 .. Len(l)
    BY <1>1
  <2>. QED
    BY <2>1, PastIsWord, WordIsNat DEF Past, Address
<1>6. ImageLength(items) = section.length
  <2>. DEFINE S == {0} \cup {Address(items, k) + 1 : k \in Instrs(items)}
  <2>1. /\ section.length \in S /\ \A y \in S : section.length >= y
        /\ \A y \in S : y \in Nat
    BY <1>1, <1>2, <1>4, <1>5 DEF LengthAt
  <2>2. ImageLength(items) = Max(S)
    BY DEF ImageLength
  <2>. HIDE DEF S
  <2>3. ASSUME NEW x \in S, \A y \in S : x >= y PROVE x = section.length
    <3>1. x \in Nat /\ x >= section.length /\ section.length >= x
      BY <2>1, <2>3
    <3>. QED
      BY <1>4, <3>1
  <2>4. Max(S) = section.length
    BY <2>1, <2>3 DEF Max
  <2>. QED
    BY <2>2, <2>4
<1>. DEFINE here(a) == {k \in Instrs(items) : Address(items, k) = a}
            chosen(a) == CHOOSE k \in here(a) : TRUE
            cell(a) == IF here(a) = {} THEN 0
                       ELSE WordFor(items[chosen(a)].stmt.m, OperandMeaning(items, chosen(a)))
<1>7. Image(items) = [a \in 0 .. section.length - 1 |-> cell(a)]
  BY <1>6 DEF Image
<1>8. ASSUME NEW a \in 0 .. section.length - 1 PROVE section.data[a].value = cell(a)
  <2>1. a \in 0 .. section.capacity - 1
    BY <1>4
  <2>2. CASE here(a) = {}
    <3>1. \A j \in 1 .. Len(l) : IsInstr(l, j) => Address(items, j) # a
      BY <1>1, <2>2
    <3>2. section.data[a] = EmptyCell
      BY <1>2, <2>1, <3>1 DEF CellsAt
    <3>. QED
      BY <2>2, <3>2 DEF EmptyCell
  <2>3. CASE here(a) # {}
    <3>1. chosen(a) \in here(a)
      BY <2>3
    <3>2. chosen(a) \in 1 .. Len(l) /\ IsInstr(l, chosen(a)) /\ Address(items, chosen(a)) = a
          /\ items[chosen(a)].stmt = l[chosen(a)]
      BY <1>1, <3>1
    <3>. HIDE DEF chosen
    <3>3. section.data[a].value = WordFor(l[chosen(a)].m, OperandMeaning(items, chosen(a)))
      BY <1>2, <2>1, <3>2 DEF CellsAt
    <3>. QED
      BY <2>3, <3>2, <3>3
  <2>. QED
    BY <2>2, <2>3
<1>. HIDE DEF cell
<1>. QED
  BY <1>3, <1>7, <1>8 DEF SectionImage

-----------------------------------------------------------------------------
(* The assembly of a source without macros, from end to end.                 *)

(* Where eval_expr() is given what it is asked to find in the labels of the  *)
(* source and in "$", it answers with what the operand means, or with an     *)
(* error if that is nothing, and leaves the labels as they are.              *)
EvaluatesAsMeant ==
    Plain /\ pc = "assemble" /\ at <= Len(records) => Evaluates(Head(program), Items)

LEMMA FlatInit ==
    ASSUME Init, NEW l, l = Head(program), NEW items, IsFlat(l, items)
    PROVE  FlatOK(l, items)
<1>1. /\ pc = "parse" /\ sources = program /\ frames = <<Frame(Root, l)>>
      /\ DOMAIN macros = {} /\ records = <<>> /\ trees = TreesOf(program)
      /\ contexts = [c \in {Root} |-> Context(NoContext)] /\ section = EmptySection
  BY DEF Init
<1>2. Len(l) \in Nat
  BY ListBasics DEF IsFlat
<1>3. ~IsLocation(l, 0)
  BY DEF IsLocation
<1>4. Frame(Root, l) = FrameAt(l, 0)
  BY <1>3 DEF Frame, FrameAt, PendingAt
<1>5. IsBuffer(l, 0, records, [i \in {0} |-> 0])
  <2>1. Len(records) = 0 /\ 0 .. 0 = {0} /\ 1 .. 0 = {}
    BY <1>1
  <2>2. Flushed(l, 0) = 0
    BY <1>3 DEF Flushed
  <2>. QED
    BY <2>1, <2>2 DEF IsBuffer
<1>6. AllKnown(l, 0) /\ 0 \in 0 .. Len(l)
  BY <1>2 DEF AllKnown
<1>7. ParsingFlat(l)
  BY <1>1, <1>4, <1>5, <1>6 DEF ParsingFlat
<1>. QED
  BY <1>1, <1>7 DEF FlatOK

LEMMA FlatStays ==
    ASSUME NEW l, NEW items, FlatOK(l, items), UNCHANGED vars
    PROVE  FlatOK(l, items)'
BY DEF FlatOK, ParsingFlat, LabellingFlat, AssemblingFlat, TreesOf, vars, parseVars,
       passVars, auxVars

LEMMA FlatStatements ==
    ASSUME SectionInv, NEW l, NEW items, IsFlat(l, items), FlatOK(l, items),
           \/ ParseLabel \/ ParseOrg \/ ParseInstr \/ DefineMacro \/ ApplyMacro
           \/ ParseUnknown \/ EndOfList
    PROVE  FlatOK(l, items)'
<1>1. /\ pc = "parse" /\ ParsingFlat(l) /\ DOMAIN macros = {} /\ sources = program /\ ParseInv
  BY DEF FlatOK, SectionInv, ParseLabel, ParseOrg, ParseInstr, DefineMacro, ApplyMacro,
         ParseUnknown, EndOfList, Parsing
<1>2. CASE ParseLabel \/ ParseOrg \/ ParseInstr
  <2>1. ParsingFlat(l)'
    BY <1>1, <1>2, FlatParses
  <2>2. UNCHANGED <<pc, macros, sources, program>>
    BY <1>2 DEF ParseLabel, ParseOrg, ParseInstr, Locate, auxVars
  <2>. QED
    BY <1>1, <2>1, <2>2 DEF FlatOK
<1>3. CASE DefineMacro
  <2>1. PICK k \in 0 .. Len(l) : frames = <<FrameAt(l, k)>>
    BY <1>1 DEF ParsingFlat
  <2>2. Len(l) \in Nat /\ k \in Nat
    BY ListBasics DEF IsFlat
  <2>3. l[k + 1].t = "macro" /\ k + 1 <= Len(l)
    BY <1>3, <2>1, <2>2, FlatFrame DEF DefineMacro, Parsing
  <2>4. k + 1 \in 1 .. Len(l)
    BY <2>2, <2>3
  <2>. QED
    BY <2>3, <2>4 DEF IsFlat
<1>4. CASE ApplyMacro
  BY <1>1, <1>4 DEF ApplyMacro, IsMacro
<1>5. CASE ParseUnknown
  <2>1. pc' = "crashed" /\ UNCHANGED <<macros, sources, program>>
    BY <1>5 DEF ParseUnknown, parseVars, auxVars
  <2>. QED
    BY <1>1, <2>1 DEF FlatOK
<1>6. CASE EndOfList
  <2>1. pc' = "pass_one" /\ LabellingFlat(l, items)'
    BY <1>1, <1>6, FlatEnds
  <2>2. UNCHANGED <<macros, sources, program>>
    BY <1>6 DEF EndOfList
  <2>. QED
    BY <1>1, <2>1, <2>2 DEF FlatOK
<1>. QED
  BY <1>2, <1>3, <1>4, <1>5, <1>6

LEMMA FlatFirstPass ==
    ASSUME SectionInv, Plain, EndsInNoLabel, NEW l, l = Head(program),
           NEW items, IsFlat(l, items), FlatOK(l, items), PassOne \/ PassOneEnds
    PROVE  FlatOK(l, items)'
<1>1. /\ pc = "pass_one" /\ LabellingFlat(l, items) /\ DOMAIN macros = {} /\ sources = program
  BY DEF FlatOK, PassOne, PassOneEnds
<1>2. UNCHANGED <<macros, sources, program>>
  BY DEF PassOne, PassOneEnds, parseVars, auxVars
<1>3. CASE PassOne
  <2>1. CASE HasInstr /\ PutResult(Placed) = "wild"
    BY <1>1, <1>2, <1>3, <2>1 DEF FlatOK, PassOne
  <2>2. CASE ~(HasInstr /\ PutResult(Placed) = "wild")
    <3>1. pc' = "pass_one" /\ LabellingFlat(l, items)'
      BY <1>1, <1>3, <2>2, FlatPasses
    <3>. QED
      BY <1>1, <1>2, <3>1 DEF FlatOK
  <2>. QED
    BY <2>1, <2>2
<1>4. CASE PassOneEnds
  <2>1. l # <<>> => l[Len(l)].t # "label"
    BY ListParts DEF EndsInNoLabel, IsFlat
  <2>2. trees = TreesOf(program) /\ program \in Programs
    BY <1>1 DEF LabellingFlat, SectionInv, ParseInv, SourcesOK
  <2>3. \A k \in 1 .. Len(l) : l[k].t = "instr" =>
            l[k].id \in DOMAIN trees /\ trees[l[k].id] = l[k].args
    BY <2>2, FlatTrees
  <2>4. pc' = "assemble" /\ AssemblingFlat(l, items)'
    BY <1>1, <1>4, <2>1, <2>3, FlatPassed
  <2>. QED
    BY <1>1, <1>2, <2>4 DEF FlatOK
<1>. QED
  BY <1>3, <1>4

LEMMA FlatSecondPass ==
    ASSUME SectionInv, Plain, EndsInNoLabel, EvaluatesAsMeant,
           NEW l, l = Head(program), NEW items, items = Items, IsFlat(l, items),
           FlatOK(l, items),
           Locating \/ Assemble \/ AssembleFails \/ AssembleEnds
    PROVE  FlatOK(l, items)'
<1>1. /\ pc = "assemble" /\ DOMAIN macros = {} /\ sources = program
      /\ ~Overlapping(items) => AssemblingFlat(l, items)
      /\ at <= Len(records) => Evaluates(l, items)
  BY DEF FlatOK, Locating, Assemble, AssembleFails, AssembleEnds, EvaluatesAsMeant
<1>2. CASE Locating
  <2>1. pc' = "assemble" /\ UNCHANGED <<macros, sources, program>>
    BY <1>1, <1>2 DEF Locating, parseVars, auxVars
  <2>2. ~Overlapping(items) => AssemblingFlat(l, items)'
    BY <1>1, <1>2, FlatLocates
  <2>. QED
    BY <1>1, <2>1, <2>2 DEF FlatOK
<1>3. CASE Assemble
  <2>1. /\ pc' \in {"assemble", "failed", "crashed"} /\ UNCHANGED <<macros, sources, program>>
        /\ at <= Len(records)
    BY <1>1, <1>3 DEF Assemble
  <2>2. CASE PutResult(Placed) = "wild"
    <3>1. pc' = "crashed"
      BY <1>3, <2>2 DEF Assemble
    <3>. QED
      BY <1>1, <2>1, <3>1 DEF FlatOK
  <2>3. CASE PutResult(Placed) # "wild"
    <3>1. ~Overlapping(items) => pc' = "assemble" /\ AssemblingFlat(l, items)'
      BY <1>1, <1>3, <2>1, <2>3, FlatAssembles
    <3>. QED
      BY <1>1, <2>1, <3>1 DEF FlatOK
  <2>. QED
    BY <2>2, <2>3
<1>4. CASE AssembleFails
  <2>1. pc' = "failed" /\ UNCHANGED <<macros, sources, program>> /\ at <= Len(records)
    BY <1>4 DEF AssembleFails, parseVars, auxVars
  <2>2. ~Overlapping(items) => Erroneous(items)
    BY <1>1, <1>4, <2>1, FlatFails
  <2>. QED
    BY <1>1, <2>1, <2>2 DEF FlatOK
<1>5. CASE AssembleEnds
  <2>1. Len(program) = 1
    BY PlacesAssumption DEF SectionInv, ParseInv, SourcesOK
  <2>2. pc' = "done" /\ UNCHANGED <<macros, section>>
    BY <1>1, <1>5, <2>1 DEF AssembleEnds, passVars
  <2>3. l # <<>> => l[Len(l)].t # "label"
    BY ListParts DEF EndsInNoLabel, IsFlat
  <2>4. ~Overlapping(items) => AssembledTo(l, items, Len(l), section')
    BY <1>1, <1>5, <2>2, <2>3, FlatAssembled
  <2>. QED
    BY <1>1, <2>2, <2>4 DEF FlatOK
<1>. QED
  BY <1>2, <1>3, <1>4, <1>5

LEMMA FlatStep ==
    ASSUME SectionInv, EvaluatesAsMeant, FlatInv, [Next]_vars
    PROVE  FlatInv'
<1>1. program' = program
  BY DEF Next, ParseLabel, ParseOrg, Locate, DefineMacro, ApplyMacro, ParseInstr,
         ParseUnknown, EndOfList, PassOne, PassOneEnds, Locating, Assemble,
         AssembleFails, AssembleEnds, Terminated, vars, auxVars
<1>2. /\ Plain' <=> Plain
      /\ EndsInNoLabel' <=> EndsInNoLabel
      /\ Head(program)' = Head(program) /\ Items' = Items
  BY <1>1 DEF Plain, Statements, StatementsOf, ListsOf, MacrosOf, EndsInNoLabel, Items
<1>3. SUFFICES ASSUME Plain, EndsInNoLabel,
                      NEW l, l = Head(program), NEW items, items = Items
               PROVE  FlatOK(l, items)'
  BY <1>2 DEF FlatInv
<1>4. FlatOK(l, items) /\ IsFlat(l, items)
  <2>1. program \in Programs
    BY DEF SectionInv, ParseInv, SourcesOK
  <2>. QED
    BY <1>3, <2>1, FlatSource DEF FlatInv
<1>5. CASE \/ ParseLabel \/ ParseOrg \/ ParseInstr \/ DefineMacro \/ ApplyMacro
           \/ ParseUnknown \/ EndOfList
  BY <1>4, <1>5, FlatStatements
<1>6. CASE PassOne \/ PassOneEnds
  BY <1>3, <1>4, <1>6, FlatFirstPass
<1>7. CASE Locating \/ Assemble \/ AssembleFails \/ AssembleEnds
  BY <1>3, <1>4, <1>7, FlatSecondPass
<1>8. CASE Terminated \/ UNCHANGED vars
  BY <1>4, <1>8, FlatStays DEF Terminated
<1>. QED
  BY <1>5, <1>6, <1>7, <1>8 DEF Next

(* A source without macros is assembled as it means: every instruction in    *)
(* the cell that its place in the source gives it and with the value its     *)
(* operand has there, every other cell zero, and no cell more; and what is   *)
(* refused is erroneous or overlaps.  So it is for sources of any length and *)
(* words of any width, if the source does not end in a label, which the      *)
(* parser forgets, and eval_expr() makes of an expression what it means.     *)
THEOREM MeaningKeptAlways ==
    Spec /\ []EvaluatesAsMeant => [](Plain /\ EndsInNoLabel => MeaningKept)
<1>1. Init => FlatInv
  <2>. SUFFICES ASSUME Init, Plain, NEW l, l = Head(program), NEW items, items = Items
                PROVE  FlatOK(l, items)
    BY DEF FlatInv
  <2>1. program \in Programs
    BY DEF Init
  <2>2. IsFlat(l, items)
    BY <2>1, FlatSource
  <2>. QED
    BY <2>2, FlatInit
<1>2. SectionInv /\ EvaluatesAsMeant /\ FlatInv /\ [Next]_vars => FlatInv'
  BY FlatStep
<1>3. SectionInv /\ FlatInv => (Plain /\ EndsInNoLabel => MeaningKept)
  <2>. SUFFICES ASSUME SectionInv, FlatInv, Plain, EndsInNoLabel,
                       NEW l, l = Head(program), NEW items, items = Items
                PROVE  MeaningKept
    OBVIOUS
  <2>1. IsFlat(l, items) /\ FlatOK(l, items) /\ ArrayOK(section)
    BY FlatSource DEF FlatInv, SectionInv, ParseInv, SourcesOK
  <2>2. AssembledTo(l, items, Len(l), section) =>
            ~Erroneous(items) /\ SectionImage = Image(items)
    BY <2>1, ImageIs
  <2>. QED
    BY <2>1, <2>2 DEF FlatOK, MeaningKept
<1>. QED
  BY <1>1, <1>2, <1>3, SectionInOrder, PTL DEF Spec
=============================================================================
