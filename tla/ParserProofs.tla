---------------------------- MODULE ParserProofs ----------------------------
(* Theorems about what the scanner hands on, strings, for all strings,       *)
(* callers and sizes of the table, and the places of tokens, for all texts   *)
(* and all ways to cut them; and about the nodes of syntax trees, for all    *)
(* symbols and numbers of nodes.                                             *)
EXTENDS StringTable, Scanner, SyntaxTrees, FiniteSetTheorems, WellFoundedInduction, TLAPS

-----------------------------------------------------------------------------
(* The string table.                                                         *)

(* The buffer is grown enough: the string put at its end, with the null      *)
(* character, is inside the new size.                                        *)
LEMMA GrownHolds ==
    ASSUME NEW len \in Nat, sz \in Nat, ptr \in Nat, ptr <= sz
    PROVE  Grown(len) \in Nat /\ ptr + len + 1 <= Grown(len)
<1>1. CASE len < sz - ptr
  BY <1>1 DEF Grown
<1>2. CASE ~(len < sz - ptr) /\ 4 * sz - sz <= len
  BY <1>2 DEF Grown
<1>3. CASE ~(len < sz - ptr) /\ ~(4 * sz - sz <= len)
  BY <1>3 DEF Grown
<1>. QED
  BY <1>1, <1>2, <1>3

(* The part of the type invariant about the buffer.                          *)
BufferOK ==
    /\ DOMAIN buf \subseteq Nat
    /\ \A i \in DOMAIN buf : buf[i] \in Strings
    /\ sz \in Nat /\ ptr \in Nat /\ ptr <= sz
    /\ \A i \in DOMAIN buf : i + Length[buf[i]] < ptr
    /\ \A i, j \in DOMAIN buf : i < j => i + Length[buf[i]] < j

(* A string that is added finds the end of the buffer free and leaves the    *)
(* others where they are.                                                    *)
LEMMA StoredKeepsBuffer ==
    ASSUME BufferOK, NEW s \in Strings, Stored(s)
    PROVE  /\ BufferOK'
           /\ ptr \notin DOMAIN buf /\ ptr \in Nat
           /\ DOMAIN buf' = DOMAIN buf \cup {ptr}
           /\ buf'[ptr] = s
           /\ \A i \in DOMAIN buf : buf'[i] = buf[i]
<1>1. Length[s] \in Nat /\ \A i \in DOMAIN buf : Length[buf[i]] \in Nat
  BY StringTableAssumption DEF BufferOK
<1>2. ptr \notin DOMAIN buf /\ \A i \in DOMAIN buf : i \in Nat /\ i < ptr
  BY <1>1 DEF BufferOK
<1>3. /\ DOMAIN buf' = DOMAIN buf \cup {ptr}
      /\ buf'[ptr] = s
      /\ \A i \in DOMAIN buf : buf'[i] = buf[i]
  BY <1>2 DEF Stored
<1>4. ptr' = ptr + Length[s] + 1 /\ sz' \in Nat /\ ptr' <= sz'
  BY <1>1, GrownHolds DEF Stored, BufferOK
<1>5. DOMAIN buf' \subseteq Nat /\ \A i \in DOMAIN buf' : buf'[i] \in Strings
  BY <1>2, <1>3 DEF BufferOK
<1>6. \A i \in DOMAIN buf' : i + Length[buf'[i]] < ptr'
  BY <1>1, <1>2, <1>3, <1>4 DEF BufferOK
<1>7. \A i, j \in DOMAIN buf' : i < j => i + Length[buf'[i]] < j
  BY <1>1, <1>2, <1>3 DEF BufferOK
<1>. QED
  BY <1>1, <1>2, <1>3, <1>4, <1>5, <1>6, <1>7 DEF BufferOK

(* The part about the hash table.                                            *)
EntriesOK ==
    /\ htab \in Seq([key : Places, hashed : Strings, data : Nat])
    /\ \A k \in DOMAIN htab :
           htab[k].data \in DOMAIN buf /\ buf[htab[k].data] = htab[k].hashed

Inv == TypeOK /\ AnswersRight

LEMMA Parts == TypeOK => BufferOK /\ EntriesOK
  BY DEF TypeOK, BufferOK, EntriesOK

LEMMA InitInv == Init => Inv
<1> SUFFICES ASSUME Init PROVE Inv
  OBVIOUS
<1>1. DOMAIN buf = {} /\ htab = <<>> /\ DOMAIN htab = {}
  BY DEF Init
<1>2. htab \in Seq([key : Places, hashed : Strings, data : Nat])
  BY <1>1
<1>. QED
  BY <1>1, <1>2, StringTableAssumption DEF Init, Inv, TypeOK, AnswersRight

LEMMA NextInv == Inv /\ [Next]_vars => Inv'
<1> SUFFICES ASSUME Inv, [Next]_vars PROVE Inv'
  OBVIOUS
<1>. USE DEF Inv
<1>1. ASSUME NEW p \in Places, PutFound(p) PROVE Inv'
  <2>1. TypeOK'
    BY <1>1 DEF PutFound, TypeOK
  <2>2. PICK k \in Finds(text[p]) :
            answers' = answers \cup {<<text[p], htab[k].data>>}
    BY <1>1 DEF PutFound
  <2>3. k \in DOMAIN htab /\ htab[k].hashed = text[p]
    BY <2>2 DEF Finds, Matches
  <2>4. htab[k].data \in DOMAIN buf /\ buf[htab[k].data] = text[p]
    BY <2>3 DEF TypeOK
  <2>5. buf' = buf
    BY <1>1 DEF PutFound
  <2>6. AnswersRight'
    BY <2>2, <2>4, <2>5 DEF AnswersRight
  <2>. QED
    BY <2>1, <2>6
<1>2. ASSUME NEW p \in Places, Stored(text[p]),
             \/ /\ htab' = Append(htab, [key |-> p, hashed |-> text[p], data |-> ptr])
                /\ answers' = answers \cup {<<text[p], ptr>>}
                /\ status' = status
             \/ status' = "aborted" /\ UNCHANGED <<htab, answers>>
      PROVE  Inv'
  <2>1. text[p] \in Strings
    BY DEF TypeOK
  <2>2. /\ BufferOK' /\ ptr \in Nat
        /\ DOMAIN buf' = DOMAIN buf \cup {ptr}
        /\ buf'[ptr] = text[p]
        /\ \A i \in DOMAIN buf : buf'[i] = buf[i]
    BY <1>2, <2>1, StoredKeepsBuffer, Parts
  <2>3. EntriesOK'
    <3>1. CASE UNCHANGED htab
      BY <2>2, <3>1, Parts DEF EntriesOK
    <3>2. CASE htab' = Append(htab, [key |-> p, hashed |-> text[p], data |-> ptr])
      <4> DEFINE e == [key |-> p, hashed |-> text[p], data |-> ptr]
      <4>1. e \in [key : Places, hashed : Strings, data : Nat]
        BY <2>1, <2>2
      <4>2. htab' \in Seq([key : Places, hashed : Strings, data : Nat])
        BY <3>2, <4>1, Parts DEF EntriesOK
      <4>3. \A k \in DOMAIN htab' : htab'[k] = e \/ (k \in DOMAIN htab /\ htab'[k] = htab[k])
        BY <3>2, <4>1, Parts DEF EntriesOK
      <4>4. e.data = ptr /\ e.hashed = text[p]
        OBVIOUS
      <4>. HIDE DEF e
      <4>. QED
        BY <2>2, <4>2, <4>3, <4>4, Parts DEF EntriesOK
    <3>. QED
      BY <1>2, <3>1, <3>2
  <2>4. TypeOK'
    <3>1. /\ text' \in [Places -> Strings] /\ htab_size' \in Nat
          /\ status' \in {"running", "aborted"}
      BY <1>2 DEF Stored, TypeOK
    <3>. QED
      BY <2>2, <2>3, <3>1 DEF TypeOK, BufferOK, EntriesOK
  <2>5. AnswersRight'
    BY <1>2, <2>2 DEF AnswersRight
  <2>. QED
    BY <2>4, <2>5
<1>3. ASSUME NEW p \in Scanned, Scan(p) PROVE Inv'
  BY <1>3, StringTableAssumption DEF Scan, TypeOK, AnswersRight
<1>4. CASE UNCHANGED vars
  BY <1>4 DEF vars, TypeOK, AnswersRight
<1>. QED
  BY <1>1, <1>2, <1>3, <1>4 DEF Next, PutNew, PutRebuilds, Terminated

(* The strings lie one after the other inside the buffer, and every entry of *)
(* the hash table leads to its string.                                       *)
THEOREM TypeCorrect == Spec => []TypeOK
<1>1. Inv => TypeOK
  BY DEF Inv
<1>. QED
  BY <1>1, InitInv, NextInv, PTL DEF Spec

(* An index that was given out reads as the string it was given for.         *)
THEOREM AnswersAreRight == Spec => []AnswersRight
<1>1. Inv => AnswersRight
  BY DEF Inv
<1>. QED
  BY <1>1, InitInv, NextInv, PTL DEF Spec

-----------------------------------------------------------------------------
(* A string that is not stale can be found, so that it is not stored twice.  *)
Findable ==
    /\ \A k \in DOMAIN htab :
           htab[k].hashed \notin stale => text[htab[k].key] = htab[k].hashed
    /\ \A i \in DOMAIN buf :
           buf[i] \notin stale => \E k \in DOMAIN htab : htab[k].data = i
    /\ \A i, j \in DOMAIN buf : buf[i] = buf[j] /\ buf[i] \notin stale => i = j

NamesInv == Inv /\ OneIndex /\ (status = "running" => Findable)

LEMMA InitNames == Init => NamesInv
<1>1. Init => DOMAIN buf = {} /\ DOMAIN htab = {} /\ answers = {}
  BY DEF Init
<1>. QED
  BY <1>1, InitInv DEF NamesInv, OneIndex, Findable

LEMMA NextNames == NamesInv /\ [Next]_vars => NamesInv'
<1> SUFFICES ASSUME NamesInv, [Next]_vars PROVE NamesInv'
  OBVIOUS
<1>. USE DEF NamesInv
<1>1. Inv'
  BY NextInv
<1>2. ASSUME NEW p \in Places, PutFound(p) PROVE NamesInv'
  <2>1. PICK k \in Finds(text[p]) :
            answers' = answers \cup {<<text[p], htab[k].data>>}
    BY <1>2 DEF PutFound
  <2>2. k \in DOMAIN htab /\ htab[k].hashed = text[p]
    BY <2>1 DEF Finds, Matches
  <2>3. htab[k].data \in DOMAIN buf /\ buf[htab[k].data] = text[p]
    BY <2>2 DEF Inv, TypeOK
  <2>4. Findable /\ UNCHANGED stale
    BY <1>2 DEF PutFound
  <2>5. OneIndex'
    BY <2>1, <2>3, <2>4 DEF OneIndex, Findable, Inv, AnswersRight
  <2>6. Findable'
    BY <1>2, <2>4 DEF PutFound, Findable
  <2>. QED
    BY <1>1, <2>5, <2>6
<1>3. ASSUME NEW p \in Places, PutNew(p) PROVE NamesInv'
  <2> DEFINE s == text[p]
             e == [key |-> p, hashed |-> s, data |-> ptr]
  <2>1. Findable /\ Finds(s) = {} /\ Stored(s) /\ UNCHANGED <<text, stale>>
    BY <1>3 DEF PutNew, Stored
  <2>2. ASSUME NEW i \in DOMAIN buf, s \notin stale PROVE buf[i] # s
    <3>1. SUFFICES ASSUME buf[i] = s PROVE FALSE
      OBVIOUS
    <3>2. PICK k \in DOMAIN htab : htab[k].data = i
      BY <2>1, <2>2, <3>1 DEF Findable
    <3>3. htab[k].hashed = s
      BY <2>1, <3>1, <3>2 DEF Inv, TypeOK
    <3>4. text[htab[k].key] = s
      BY <2>1, <2>2, <3>3 DEF Findable
    <3>5. ~Matches(htab[k], s)
      BY <2>1, <3>2 DEF Finds
    <3>. QED
      BY <3>3, <3>4, <3>5 DEF Matches
  <2>3. s \in Strings /\ BufferOK /\ EntriesOK
    BY Parts DEF Inv, TypeOK
  <2>4. /\ ptr \notin DOMAIN buf /\ ptr \in Nat
        /\ DOMAIN buf' = DOMAIN buf \cup {ptr}
        /\ buf'[ptr] = s
        /\ \A i \in DOMAIN buf : buf'[i] = buf[i]
    BY <2>1, <2>3, StoredKeepsBuffer
  <2>5. answers' = answers \cup {<<s, ptr>>} /\ htab' = Append(htab, e)
    BY <1>3 DEF PutNew
  <2>6. /\ DOMAIN htab' = DOMAIN htab \cup {Len(htab) + 1}
        /\ htab'[Len(htab) + 1] = e
        /\ \A k \in DOMAIN htab : htab'[k] = htab[k]
    BY <2>3, <2>4, <2>5 DEF EntriesOK
  <2>7. e.key = p /\ e.hashed = s /\ e.data = ptr
    OBVIOUS
  <2>. HIDE DEF e
  <2>8. OneIndex'
    <3>1. s \notin stale => \A a \in answers : a[1] # s
      BY <2>2 DEF Inv, AnswersRight
    <3>. QED
      BY <2>1, <2>5, <3>1 DEF OneIndex
  <2>9. Findable'
    <3>1. \A k \in DOMAIN htab' :
              htab'[k].hashed \notin stale' => text'[htab'[k].key] = htab'[k].hashed
      BY <2>1, <2>6, <2>7 DEF Findable
    <3>2. \A i \in DOMAIN buf' :
              buf'[i] \notin stale' => \E k \in DOMAIN htab' : htab'[k].data = i
      BY <2>1, <2>4, <2>6, <2>7 DEF Findable
    <3>3. \A i, j \in DOMAIN buf' : buf'[i] = buf'[j] /\ buf'[i] \notin stale' => i = j
      BY <2>1, <2>2, <2>4 DEF Findable
    <3>. QED
      BY <3>1, <3>2, <3>3 DEF Findable
  <2>. QED
    BY <1>1, <2>8, <2>9
<1>4. ASSUME NEW p \in Places, PutRebuilds(p) PROVE NamesInv'
  BY <1>1, <1>4 DEF PutRebuilds, Stored, OneIndex
<1>5. ASSUME NEW p \in Scanned, Scan(p) PROVE NamesInv'
  <2>1. /\ Findable /\ stale \subseteq stale'
        /\ UNCHANGED <<buf, htab, answers>>
        /\ \A k \in DOMAIN htab :
               text'[htab[k].key] # htab[k].hashed => htab[k].hashed \in stale'
    BY <1>5 DEF Scan
  <2>2. OneIndex'
    BY <2>1 DEF OneIndex
  <2>3. Findable'
    BY <2>1 DEF Findable
  <2>. QED
    BY <1>1, <2>2, <2>3
<1>6. CASE UNCHANGED vars
  BY <1>1, <1>6 DEF vars, OneIndex, Findable
<1>. QED
  BY <1>2, <1>3, <1>4, <1>5, <1>6 DEF Next, Terminated

(* Whatever the callers do to their strings, one whose text is still behind  *)
(* its key has one index: where the text is constant, as for the names of    *)
(* the mnemonics, every string has.                                          *)
THEOREM StringsHaveOneIndex == Spec => []OneIndex
<1>1. NamesInv => OneIndex
  BY DEF NamesInv
<1>. QED
  BY <1>1, NextNames, InitNames, PTL DEF Spec

-----------------------------------------------------------------------------
(* The scanner.                                                              *)

(* Induction up to a bound.                                                  *)
LEMMA UpToLength ==
    ASSUME NEW n \in Nat, NEW T, 0 \in T, \A i \in 1 .. n : i - 1 \in T => i \in T
    PROVE  0 .. n \subseteq T
<1>. DEFINE Bad == (0 .. n) \ T
<1>. SUFFICES ASSUME Bad # {} PROVE FALSE
  OBVIOUS
<1>1. IsWellFoundedOn(OpToRel(<, Nat), Nat)
  BY NatLessThanWellFounded
<1>2. Bad \subseteq Nat
  OBVIOUS
<1>. HIDE DEF Bad
<1>3. PICK i \in Bad : \A k \in Bad : ~(<<k, i>> \in OpToRel(<, Nat))
  BY <1>1, <1>2, WFMin
<1>4. i \in 0 .. n /\ i \notin T
  BY DEF Bad
<1>5. i \in 1 .. n /\ i - 1 \in 0 .. n /\ i - 1 \in Nat
  BY <1>4
<1>6. i - 1 \notin T
  BY <1>4, <1>5
<1>7. i - 1 \in Bad /\ i - 1 < i
  BY <1>5, <1>6 DEF Bad
<1>8. <<i - 1, i>> \in OpToRel(<, Nat)
  BY <1>5, <1>7 DEF OpToRel
<1>. QED
  BY <1>3, <1>7, <1>8

(* The place of the next character.                                          *)
Newlines(s, i) == {j \in 1 .. i - 1 : s[j] = Newline}

LEMMA LastNewline ==
    ASSUME NEW s, NEW i \in Nat \ {0}
    PROVE  /\ Max({0} \cup Newlines(s, i)) \in 0 .. i - 1
           /\ \A m \in {0} \cup Newlines(s, i) :
                  (\A y \in {0} \cup Newlines(s, i) : m >= y) => Max({0} \cup Newlines(s, i)) = m
<1>. DEFINE S == {0} \cup Newlines(s, i)
            T == {m \in 0 .. i - 1 : \A y \in S : y <= m}
<1>1. S \subseteq 0 .. i - 1 /\ S \subseteq Int
  BY DEF Newlines
<1>2. \E m \in S : \A y \in S : m >= y
  <2>. DEFINE U == {k \in 0 .. i - 1 :
                       \E m \in S \cap (0 .. k) : \A y \in S \cap (0 .. k) : m >= y}
  <2>1. 0 \in U
    <3>1. 0 \in S \cap (0 .. 0) /\ \A y \in S \cap (0 .. 0) : 0 >= y
      OBVIOUS
    <3>. QED
      BY <3>1
  <2>2. ASSUME NEW k \in 1 .. i - 1, k - 1 \in U PROVE k \in U
    <3>1. PICK m \in S \cap (0 .. k - 1) : \A y \in S \cap (0 .. k - 1) : m >= y
      BY <2>2
    <3>2. CASE k \in S
      <4>1. k \in S \cap (0 .. k) /\ \A y \in S \cap (0 .. k) : k >= y
        BY <3>2
      <4>. QED
        BY <4>1
    <3>3. CASE k \notin S
      <4>1. S \cap (0 .. k) = S \cap (0 .. k - 1)
        BY <1>1, <3>3
      <4>. QED
        BY <3>1, <4>1
    <3>. QED
      BY <3>2, <3>3
  <2>. HIDE DEF U
  <2>3. 0 .. i - 1 \subseteq U
    <3>1. i - 1 \in Nat
      OBVIOUS
    <3>. QED
      BY <2>1, <2>2, <3>1, UpToLength
  <2>4. i - 1 \in U
    BY <2>3
  <2>5. S \cap (0 .. i - 1) = S
    BY <1>1
  <2>. QED
    BY <2>4, <2>5 DEF U
<1>. HIDE DEF S
<1>3. Max(S) \in S /\ \A y \in S : Max(S) >= y
  BY <1>2 DEF Max
<1>4. ASSUME NEW m \in S, \A y \in S : m >= y PROVE Max(S) = m
  <2>1. m >= Max(S) /\ Max(S) >= m /\ Max(S) \in Int /\ m \in Int
    BY <1>1, <1>3, <1>4
  <2>. QED
    BY ONLY <2>1
<1>. QED
  BY <1>1, <1>3, <1>4 DEF S

LEMMA PlaceIs ==
    ASSUME NEW s, NEW i
    PROVE  PlaceOf(s, i) = Pos(1 + Cardinality(Newlines(s, i)), i - Max({0} \cup Newlines(s, i)), i - 1)
  BY Zenon DEF PlaceOf, Newlines

LEMMA FollowsPos ==
    ASSUME NEW l, NEW c, NEW o
    PROVE  /\ Follows(Pos(l, c, o), TRUE) = Pos(l + 1, 1, o + 1)
           /\ Follows(Pos(l, c, o), FALSE) = Pos(l, c + 1, o + 1)
  BY DEF Follows, Pos

LEMMA PlaceOfNext ==
    ASSUME NEW s, NEW i \in Nat \ {0}, NEW j \in Nat \ {0}, j = i + 1
    PROVE  PlaceOf(s, j) = Follows(PlaceOf(s, i), s[i] = Newline)
<1>1. PlaceOf(s, i) = Pos(1 + Cardinality(Newlines(s, i)), i - Max({0} \cup Newlines(s, i)), i - 1)
  BY DEF PlaceOf, Newlines
<1>2. PlaceOf(s, j) = Pos(1 + Cardinality(Newlines(s, j)), j - Max({0} \cup Newlines(s, j)), j - 1)
  BY PlaceIs, Zenon
<1>3. IsFiniteSet(Newlines(s, i)) /\ Cardinality(Newlines(s, i)) \in Nat
  <2>1. IsFiniteSet(1 .. i - 1) /\ Newlines(s, i) \subseteq 1 .. i - 1
    BY FS_Interval DEF Newlines
  <2>2. IsFiniteSet(Newlines(s, i))
    BY <2>1, FS_Subset
  <2>. QED
    BY <2>2, FS_CardinalityType
<1>4. Max({0} \cup Newlines(s, i)) \in Int
  BY LastNewline
<1>5. CASE s[i] = Newline
  <2>1. Newlines(s, j) = Newlines(s, i) \cup {i} /\ i \notin Newlines(s, i)
    BY <1>5 DEF Newlines
  <2>2. Cardinality(Newlines(s, j)) = Cardinality(Newlines(s, i)) + 1
    BY <1>3, <2>1, FS_AddElement
  <2>3. Max({0} \cup Newlines(s, j)) = i
    <3>1. i \in {0} \cup Newlines(s, j) /\ \A y \in {0} \cup Newlines(s, j) : i >= y
      BY <2>1 DEF Newlines
    <3>. QED
      BY <3>1, LastNewline
  <2>4. Follows(PlaceOf(s, i), TRUE) = Pos(1 + Cardinality(Newlines(s, i)) + 1, 1, i - 1 + 1)
    BY <1>1, FollowsPos
  <2>5. /\ 1 + Cardinality(Newlines(s, i)) + 1 = 1 + (Cardinality(Newlines(s, i)) + 1)
        /\ j - i = 1 /\ i - 1 + 1 = j - 1
    BY <1>3
  <2>. QED
    BY <1>2, <1>5, <2>2, <2>3, <2>4, <2>5
<1>6. CASE s[i] # Newline
  <2>1. Newlines(s, j) = Newlines(s, i)
    BY <1>6 DEF Newlines
  <2>2. Follows(PlaceOf(s, i), FALSE) =
            Pos(1 + Cardinality(Newlines(s, i)), i - Max({0} \cup Newlines(s, i)) + 1, i - 1 + 1)
    BY <1>1, FollowsPos
  <2>3. /\ i - Max({0} \cup Newlines(s, i)) + 1 = j - Max({0} \cup Newlines(s, i))
        /\ i - 1 + 1 = j - 1
    BY <1>4
  <2>4. (s[i] = Newline) = FALSE
    BY <1>6
  <2>. QED
    BY <1>2, <2>1, <2>2, <2>3, <2>4
<1>. QED
  BY <1>5, <1>6

LEMMA BesidePos ==
    ASSUME NEW l, NEW c, NEW o
    PROVE  /\ Beside(Pos(l, c, o), TRUE) = Pos(l, c + 1, o)
           /\ Beside(Pos(l, c, o), FALSE) = Pos(l, c, o)
  BY DEF Beside, Pos

LEMMA ThereAndBack ==
    ASSUME NEW s, NEW i \in Nat \ {0}, NEW counted \in BOOLEAN
    PROVE  [[Beside(PlaceOf(s, i), counted) EXCEPT !.offset = @ + 1] EXCEPT !.offset = @ - 1]
               = Beside(PlaceOf(s, i), counted)
<1>1. PICK l, c, o : o \in Int /\ Beside(PlaceOf(s, i), counted) = Pos(l, c, o)
  <2>1. i - 1 \in Int
    OBVIOUS
  <2>2. PlaceOf(s, i) = Pos(1 + Cardinality(Newlines(s, i)), i - Max({0} \cup Newlines(s, i)), i - 1)
    BY PlaceIs, Zenon
  <2>3. \E d : Beside(PlaceOf(s, i), counted) = Pos(1 + Cardinality(Newlines(s, i)), d, i - 1)
    <3>1. CASE counted
      BY <2>2, <3>1, BesidePos
    <3>2. CASE ~counted
      BY <2>2, <3>2, BesidePos
    <3>. QED
      BY <3>1, <3>2
  <2>. QED
    BY <2>1, <2>3, Zenon
<1>2. [Pos(l, c, o) EXCEPT !.offset = @ + 1] = Pos(l, c, o + 1)
  BY DEF Pos
<1>3. [Pos(l, c, o + 1) EXCEPT !.offset = @ - 1] = Pos(l, c, (o + 1) - 1)
  BY DEF Pos
<1>4. (o + 1) - 1 = o
  BY <1>1
<1>. QED
  BY <1>1, <1>2, <1>3, <1>4, Zenon

(* A token without characters ends before it begins, in the same column.     *)
LEMMA EmptyToken ==
    ASSUME NEW first
    PROVE  ScannedFrom(first, <<>>) =
               [start |-> first, end |-> [first EXCEPT !.offset = @ - 1],
                last_char_was_newline |-> FALSE]
<1>. DEFINE Rec(f) == f = [i \in 0 .. 0 |->
                IF i = 0 THEN first ELSE Past(f[i - 1], <<>>[i], i = 0)]
            g == [i \in 0 .. 0 |-> first]
            Walk == CHOOSE f : Rec(f)
<1>1. Rec(g)
  OBVIOUS
<1>2. Rec(Walk)
  <2>. HIDE DEF Rec, g
  <2>. QED
    BY <1>1
<1>3. Walk[0] = first
  <2>. HIDE DEF Walk
  <2>. QED
    BY <1>2
<1>4. Len(<<>>) = 0 /\ (<<>> # <<>> /\ Last(<<>>) = Newline) = FALSE
  OBVIOUS
<1>5. ScannedFrom(first, <<>>) =
          [start |-> first, end |-> [Walk[Len(<<>>)] EXCEPT !.offset = @ - 1],
           last_char_was_newline |-> (<<>> # <<>> /\ Last(<<>>) = Newline)]
  <2>1. Len(<<>>) = 0
    OBVIOUS
  <2>. QED
    BY <2>1 DEF ScannedFrom
<1>. HIDE DEF Walk
<1>. QED
  BY <1>3, <1>4, <1>5

(* A token of the text is scanned from the place of its first character to   *)
(* that of its last.  If a column was counted too much, it is so only up to  *)
(* the newline the token begins with.                                        *)
LEMMA TokenPlaces ==
    ASSUME NEW s, NEW k \in Nat, NEW token, Len(token) \in Nat \ {0}, token # <<>>,
           \A i \in 1 .. Len(token) : token[i] = s[k + i],
           NEW counted \in BOOLEAN, counted => token[1] = Newline
    PROVE  ScannedFrom(Beside(PlaceOf(s, k + 1), counted), token) =
               [start |-> Beside(PlaceOf(s, k + 1), counted),
                end |-> Beside(PlaceOf(s, k + Len(token)), counted /\ Len(token) = 1),
                last_char_was_newline |-> (Last(token) = Newline)]
<1>. DEFINE n == Len(token)
            first == Beside(PlaceOf(s, k + 1), counted)
            Rec(f) == f = [i \in 0 .. n |->
                IF i = 0 THEN first ELSE Past(f[i - 1], token[i], i = n)]
            final == Beside(PlaceOf(s, k + n), counted /\ n = 1)
            ends == [final EXCEPT !.offset = @ + 1]
            g == [i \in 0 .. n |-> IF i = n THEN ends
                                   ELSE IF i = 0 THEN first ELSE PlaceOf(s, k + 1 + i)]
            Walk == CHOOSE f : Rec(f)
<1>1. n \in Nat \ {0}
  OBVIOUS
<1>2. ASSUME NEW i \in 1 .. n
      PROVE  g[i] = Past(g[i - 1], token[i], i = n)
  <2>1. i - 1 \in 0 .. n /\ i - 1 # n /\ k + 1 + (i - 1) = k + i /\ k + i \in Nat \ {0}
    BY <1>1
  <2>2. g[i - 1] = Beside(PlaceOf(s, k + i), counted /\ i = 1)
    <3>1. CASE i = 1
      BY <2>1, <3>1
    <3>2. CASE i # 1
      <4>1. g[i - 1] = PlaceOf(s, k + i)
        BY <2>1, <3>2
      <4>. HIDE DEF g
      <4>. QED
        BY <3>2, <4>1, Zenon DEF Beside
    <3>. QED
      BY <3>1, <3>2
  <2>3. CASE i = n
    <3>1. g[i] = ends /\ final = Beside(PlaceOf(s, k + i), counted /\ i = 1)
      BY <2>3
    <3>2. Past(g[i - 1], token[i], i = n) = [g[i - 1] EXCEPT !.offset = @ + 1]
      BY <2>3, Zenon DEF Past
    <3>. HIDE DEF g, final
    <3>. QED
      BY <2>2, <3>1, <3>2, Zenon
  <2>4. CASE i # n
    <3>1. g[i] = PlaceOf(s, (k + i) + 1)
      <4>1. k + 1 + i = (k + i) + 1 /\ i # 0
        BY <1>1
      <4>. QED
        BY <1>1, <2>4, <4>1
    <3>2. g[i] = Follows(PlaceOf(s, k + i), s[k + i] = Newline)
      <4>1. (k + i) + 1 \in Nat \ {0}
        BY <2>1
      <4>. HIDE DEF g
      <4>. QED
        BY <2>1, <3>1, <4>1, PlaceOfNext
    <3>3. Past(g[i - 1], token[i], i = n) = Follows(g[i - 1], token[i] = Newline)
      BY <2>4, Zenon DEF Past, Follows
    <3>4. token[i] = s[k + i]
      OBVIOUS
    <3>5. Follows(g[i - 1], token[i] = Newline) = Follows(PlaceOf(s, k + i), token[i] = Newline)
      <4>1. CASE counted /\ i = 1
        <5>1. PICK l, c, o : PlaceOf(s, k + i) = Pos(l, c, o)
          BY PlaceIs, Zenon
        <5>. HIDE DEF g
        <5>2. g[i - 1] = Pos(l, c + 1, o)
          <6>1. g[i - 1] = Beside(PlaceOf(s, k + i), TRUE)
            BY <2>2, <4>1
          <6>. QED
            BY <5>1, <6>1, BesidePos
        <5>3. (token[i] = Newline) = TRUE
          BY <4>1
        <5>4. Follows(g[i - 1], TRUE) = Pos(l + 1, 1, o + 1)
          <6>1. Follows(Pos(l, c + 1, o), TRUE) = Pos(l + 1, 1, o + 1)
            BY FollowsPos
          <6>. QED
            BY <5>2, <6>1
        <5>5. Follows(PlaceOf(s, k + i), TRUE) = Pos(l + 1, 1, o + 1)
          BY <5>1, FollowsPos
        <5>. QED
          BY <5>3, <5>4, <5>5
      <4>2. CASE ~(counted /\ i = 1)
        <5>1. g[i - 1] = PlaceOf(s, k + i)
          <6>. HIDE DEF g
          <6>. QED
            BY <2>2, <4>2, Zenon DEF Beside
        <5>. HIDE DEF g
        <5>. QED
          BY <5>1
      <4>. QED
        BY <4>1, <4>2
    <3>. HIDE DEF g
    <3>. QED
      BY <3>2, <3>3, <3>4, <3>5, Zenon
  <2>. QED
    BY <2>3, <2>4
<1>3. Rec(g)
  <2>1. g[0] = first
    BY <1>1
  <2>2. \A i \in 0 .. n : i # 0 => i \in 1 .. n
    BY <1>1
  <2>3. g = [i \in 0 .. n |-> g[i]]
    OBVIOUS
  <2>. HIDE DEF g, first
  <2>. QED
    BY <1>2, <2>1, <2>2, <2>3
<1>4. Rec(Walk)
  <2>. HIDE DEF Rec, g
  <2>. QED
    BY <1>3
<1>5. ScannedFrom(first, token) =
          [start |-> first, end |-> [Walk[n] EXCEPT !.offset = @ - 1],
           last_char_was_newline |-> (Last(token) = Newline)]
  <2>1. (token # <<>> /\ Last(token) = Newline) = (Last(token) = Newline)
    OBVIOUS
  <2>. HIDE DEF first
  <2>. QED
    BY <2>1, Zenon DEF ScannedFrom
<1>. HIDE DEF Walk, g
<1>6. Walk[0] = g[0] /\ \A i \in 1 .. n : Walk[i] = Past(Walk[i - 1], token[i], i = n)
  <2>. HIDE DEF first, n
  <2>1. g[0] = first
    BY <1>1, <1>3
  <2>2. Walk = [i \in 0 .. n |-> IF i = 0 THEN first ELSE Past(Walk[i - 1], token[i], i = n)]
    BY <1>4
  <2>. QED
    BY <1>1, <2>1, <2>2
<1>7. Walk[n] = g[n]
  <2>. DEFINE T == {i \in 0 .. n : Walk[i] = g[i]}
  <2>1. 0 \in T /\ \A i \in 1 .. n : i - 1 \in T => i \in T
    BY <1>1, <1>2, <1>6
  <2>. HIDE DEF T
  <2>2. 0 .. n \subseteq T
    BY <1>1, <2>1, UpToLength
  <2>. QED
    BY <1>1, <2>2 DEF T
<1>8. [g[n] EXCEPT !.offset = @ - 1] = final
  <2>1. g[n] = ends
    BY <1>1 DEF g
  <2>2. k + n \in Nat \ {0} /\ (counted /\ n = 1) \in BOOLEAN
    BY <1>1
  <2>. HIDE DEF final
  <2>3. [[final EXCEPT !.offset = @ + 1] EXCEPT !.offset = @ - 1] = final
    BY <2>2, ThereAndBack DEF final
  <2>. QED
    BY <2>1, <2>3
<1>. QED
  BY <1>5, <1>7, <1>8

(* The last token was empty, and the column counted for it is in loc.        *)
Counted == read > 0 /\ yytext = <<>>

(* What holds between two tokens: the place of the next character is known,  *)
(* but for the column of an empty token, and a newline follows such a one.   *)
ScanInv ==
    /\ source \in Seq(Range(source))
    /\ read \in 0 .. Len(source)
    /\ state \in {"INITIAL", "comment"}
    /\ state = "comment" => read > 0 /\ yytext # <<>>
    /\ Counted => read < Len(source) /\ source[read + 1] = Newline
    /\ Follows(loc.end, loc.last_char_was_newline) = Beside(PlaceOf(source, read + 1), Counted)
    /\ PlacesRight

LEMMA ScanInit == ScannerInit => ScanInv
<1>. SUFFICES ASSUME ScannerInit PROVE ScanInv
  OBVIOUS
<1>1. source \in Seq(Range(source)) /\ read = 0
  BY TextsAssumption DEF ScannerInit
<1>2. Follows(loc.end, loc.last_char_was_newline) = Pos(1, 1, 0)
  BY DEF ScannerInit, Follows, Pos
<1>3. PlaceOf(source, 1) = Pos(1, 1, 0)
  <2>1. Newlines(source, 1) = {}
    BY DEF Newlines
  <2>2. Max({0} \cup Newlines(source, 1)) = 0
    <3>1. 0 \in {0} \cup Newlines(source, 1) /\ \A y \in {0} \cup Newlines(source, 1) : 0 >= y
      BY <2>1
    <3>. QED
      BY <3>1, LastNewline
  <2>3. Cardinality(Newlines(source, 1)) = 0
    BY <2>1, FS_EmptySet
  <2>. QED
    BY <2>2, <2>3 DEF PlaceOf, Newlines
<1>4. Beside(PlaceOf(source, 1), Counted) = PlaceOf(source, 1)
  <2>1. Counted = FALSE
    BY <1>1 DEF Counted
  <2>. QED
    BY <2>1, Zenon DEF Beside
<1>5. state = "INITIAL"
  BY DEF ScannerInit
<1>. QED
  BY <1>1, <1>2, <1>3, <1>4, <1>5 DEF ScanInv, PlacesRight, Counted

(* A token of at least one character, behind an empty one only if it begins  *)
(* with the newline.                                                         *)
LEMMA MatchedSome ==
    ASSUME ScanInv, NEW n \in Nat, read < n, n <= Len(source), Matched(n)
    PROVE  /\ yytext' # <<>> /\ source' = source /\ read' = n
           /\ PlacesRight'
           /\ Follows(loc'.end, loc'.last_char_was_newline) = PlaceOf(source, n + 1)
<1>1. /\ yytext' = SubSeq(source, read + 1, n)
      /\ loc' = Updated(yytext')
      /\ read' = n
      /\ emptied' = Counted
      /\ source' = source
  BY DEF Matched, Counted
<1>2. source \in Seq(Range(source)) /\ Len(source) \in Nat /\ read \in Nat
  BY DEF ScanInv
<1>3. /\ Len(yytext') = n - read /\ Len(yytext') \in Nat \ {0}
      /\ \A i \in 1 .. Len(yytext') : yytext'[i] = source[read + i]
      /\ yytext' \in Seq(Range(source)) /\ yytext' # <<>>
  BY <1>1, <1>2
<1>4. Counted \in BOOLEAN /\ (Counted => yytext'[1] = Newline)
  BY <1>3 DEF Counted, ScanInv
<1>5. loc' = [start |-> Beside(PlaceOf(source, read + 1), Counted),
              end |-> Beside(PlaceOf(source, read + Len(yytext')), Counted /\ Len(yytext') = 1),
              last_char_was_newline |-> (Last(yytext') = Newline)]
  <2>1. loc' = ScannedFrom(Beside(PlaceOf(source, read + 1), Counted), yytext')
    BY <1>1 DEF Updated, ScanInv
  <2>. QED
    BY <1>2, <1>3, <1>4, <2>1, TokenPlaces
<1>6. read + Len(yytext') = n /\ read' - Len(yytext') + 1 = read + 1
  BY <1>1, <1>2, <1>3
<1>7. Last(yytext') = source[n]
  <2>1. Len(yytext') \in 1 .. Len(yytext')
    BY <1>3
  <2>. QED
    BY <1>3, <1>6, <2>1 DEF Last
<1>8. PlacesRight'
  <2>1. loc'.start = Beside(PlaceOf(source, read + 1), Counted)
        /\ loc'.end = Beside(PlaceOf(source, n), Counted /\ Len(yytext') = 1)
    BY <1>5, <1>6
  <2>2. loc'.start = Beside(PlaceOf(source', read' - Len(yytext') + 1), emptied')
        /\ loc'.end = Beside(PlaceOf(source', read'), emptied' /\ Len(yytext') = 1)
    BY <1>1, <1>6, <2>1
  <2>. QED
    BY <1>1, <1>3, <1>4, <2>2, Zenon DEF PlacesRight
<1>9. Follows(loc'.end, loc'.last_char_was_newline) = PlaceOf(source, n + 1)
  <2>1. Follows(PlaceOf(source, n), source[n] = Newline) = PlaceOf(source, n + 1)
    <3>1. n \in Nat \ {0} /\ n + 1 \in Nat \ {0}
      BY <1>2
    <3>. QED
      BY <3>1, PlaceOfNext
  <2>2. loc'.end = Beside(PlaceOf(source, n), Counted /\ Len(yytext') = 1)
        /\ loc'.last_char_was_newline = (source[n] = Newline)
    BY <1>5, <1>6, <1>7
  <2>3. CASE Counted /\ Len(yytext') = 1
    <3>1. (source[n] = Newline) = TRUE
      <4>1. Len(yytext') \in 1 .. Len(yytext') /\ 1 \in 1 .. Len(yytext')
        BY <1>3
      <4>2. yytext'[1] = source[n]
        BY <1>3, <1>6, <2>3, <4>1
      <4>. QED
        BY <1>4, <2>3, <4>2
    <3>2. PICK l, c, o : PlaceOf(source, n) = Pos(l, c, o)
      BY PlaceIs, Zenon
    <3>3. loc'.end = Pos(l, c + 1, o)
      <4>1. loc'.end = Beside(PlaceOf(source, n), TRUE)
        BY <2>2, <2>3
      <4>. QED
        BY <3>2, <4>1, BesidePos
    <3>4. /\ Follows(loc'.end, TRUE) = Pos(l + 1, 1, o + 1)
          /\ Follows(PlaceOf(source, n), TRUE) = Pos(l + 1, 1, o + 1)
      BY <3>2, <3>3, FollowsPos
    <3>. QED
      BY <2>1, <2>2, <3>1, <3>4
  <2>4. CASE ~(Counted /\ Len(yytext') = 1)
    BY <2>1, <2>2, <2>4, Zenon DEF Beside
  <2>. QED
    BY <2>3, <2>4
<1>. QED
  BY <1>1, <1>3, <1>8, <1>9

(* The empty rest of a line.                                                 *)
LEMMA MatchedNone ==
    ASSUME ScanInv, yytext # <<>>, read < Len(source), Matched(read)
    PROVE  /\ yytext' = <<>> /\ source' = source /\ read' = read
           /\ PlacesRight'
           /\ Follows(loc'.end, loc'.last_char_was_newline)
                  = Beside(PlaceOf(source, read + 1), TRUE)
<1>1. source \in Seq(Range(source)) /\ Len(source) \in Nat /\ read \in Nat
  BY DEF ScanInv
<1>2. /\ yytext' = <<>> /\ Len(yytext') = 0
      /\ loc' = Updated(yytext')
      /\ read' = read
      /\ emptied' = FALSE
      /\ source' = source
  <2>1. SubSeq(source, read + 1, read) = <<>>
    BY <1>1
  <2>2. (read > 0 /\ yytext = <<>>) = FALSE
    OBVIOUS
  <2>. QED
    BY <2>1, <2>2 DEF Matched
<1>3. Follows(loc.end, loc.last_char_was_newline) = PlaceOf(source, read + 1)
  BY Zenon DEF ScanInv, Counted, Beside
<1>4. loc' = [start |-> PlaceOf(source, read + 1),
              end |-> [PlaceOf(source, read + 1) EXCEPT !.offset = @ - 1],
              last_char_was_newline |-> FALSE]
  BY <1>2, <1>3, EmptyToken DEF Updated
<1>5. PlacesRight'
  <2>1. read' - Len(yytext') + 1 = read + 1
    BY <1>1, <1>2
  <2>2. loc'.start = PlaceOf(source, read + 1)
        /\ loc'.end = [PlaceOf(source, read + 1) EXCEPT !.offset = @ - 1]
    BY <1>4
  <2>. QED
    BY <1>2, <2>1, <2>2, Zenon DEF PlacesRight, Beside
<1>6. Follows(loc'.end, loc'.last_char_was_newline) = Beside(PlaceOf(source, read + 1), TRUE)
  <2>1. PICK l, c, o : o \in Int /\ PlaceOf(source, read + 1) = Pos(l, c, o)
    <3>1. PICK n : n = read + 1 /\ n - 1 \in Int
      BY <1>1
    <3>2. PlaceOf(source, n) = Pos(1 + Cardinality(Newlines(source, n)),
                                   n - Max({0} \cup Newlines(source, n)), n - 1)
      BY PlaceIs, Zenon
    <3>. QED
      BY <3>1, <3>2, Zenon
  <2>2. loc'.end = Pos(l, c, o - 1) /\ loc'.last_char_was_newline = FALSE
    BY <1>4, <2>1 DEF Pos
  <2>3. Follows(loc'.end, FALSE) = Pos(l, c + 1, o)
    <3>1. PICK m : m = o - 1 /\ m + 1 = o
      BY <2>1
    <3>2. Follows(Pos(l, c, m), FALSE) = Pos(l, c + 1, m + 1)
      BY FollowsPos
    <3>. QED
      BY <2>2, <3>1, <3>2
  <2>4. Beside(PlaceOf(source, read + 1), TRUE) = Pos(l, c + 1, o)
    BY <2>1, BesidePos
  <2>. QED
    BY <2>2, <2>3, <2>4
<1>. QED
  BY <1>2, <1>5, <1>6

LEMMA ScanStep == ScanInv /\ [ScannerNext]_scannerVars => ScanInv'
<1>. SUFFICES ASSUME ScanInv, [ScannerNext]_scannerVars PROVE ScanInv'
  OBVIOUS
<1>1. source \in Seq(Range(source)) /\ Len(source) \in Nat /\ read \in Nat /\ read <= Len(source)
  BY DEF ScanInv
<1>2. ASSUME NEW n \in Nat, read < n, n <= Len(source), Matched(n),
             state' \in {"INITIAL", "comment"}
      PROVE  ScanInv'
  <2>1. /\ yytext' # <<>> /\ source' = source /\ read' = n
        /\ PlacesRight'
        /\ Follows(loc'.end, loc'.last_char_was_newline) = PlaceOf(source, n + 1)
    BY <1>2, MatchedSome
  <2>2. Beside(PlaceOf(source', read' + 1), Counted') = PlaceOf(source, n + 1)
    BY <2>1, Zenon DEF Beside, Counted
  <2>. QED
    BY <1>1, <1>2, <2>1, <2>2 DEF ScanInv, Counted
<1>3. CASE Token
  <2>1. PICK n \in read + 1 .. Len(source) : Matched(n)
    BY <1>3 DEF Token
  <2>2. n \in Nat /\ read < n /\ n <= Len(source)
    BY <1>1
  <2>3. state' \in {"INITIAL", "comment"}
    BY <1>3 DEF Token
  <2>. QED
    BY <1>2, <2>1, <2>2, <2>3
<1>4. CASE Comment
  <2>1. PICK n \in read .. Len(source) - 1 : source[n + 1] = Newline /\ Matched(n)
    BY <1>4 DEF Comment
  <2>2. state' = "INITIAL" /\ yytext # <<>> /\ read > 0
    BY <1>4 DEF Comment, ScanInv
  <2>3. CASE n = read
    <3>1. read < Len(source)
      BY <1>1
    <3>2. /\ yytext' = <<>> /\ source' = source /\ read' = read
          /\ PlacesRight'
          /\ Follows(loc'.end, loc'.last_char_was_newline)
                 = Beside(PlaceOf(source, read + 1), TRUE)
      BY <2>1, <2>2, <2>3, <3>1, MatchedNone
    <3>3. Counted' = TRUE
      BY <2>2, <3>2 DEF Counted
    <3>4. read' < Len(source') /\ source'[read' + 1] = Newline
      BY <2>1, <2>3, <3>1, <3>2
    <3>5. Follows(loc'.end, loc'.last_char_was_newline)
              = Beside(PlaceOf(source', read' + 1), Counted')
      BY <3>2, <3>3, Zenon
    <3>6. source' \in Seq(Range(source')) /\ read' \in 0 .. Len(source')
      BY <1>1, <3>2
    <3>7. PlacesRight' /\ state' = "INITIAL"
      BY <2>2, <3>2
    <3>. QED
      BY <3>4, <3>5, <3>6, <3>7, Zenon DEF ScanInv
  <2>4. CASE n # read
    <3>1. n \in Nat /\ read < n /\ n <= Len(source)
      BY <1>1, <2>4
    <3>. QED
      BY <1>2, <2>1, <2>2, <3>1
  <2>. QED
    BY <2>3, <2>4
<1>5. CASE DefaultRule
  <2>1. Matched(read + 1) /\ read < Len(source) /\ state' = "comment"
    BY <1>5 DEF DefaultRule
  <2>2. read + 1 \in Nat /\ read < read + 1 /\ read + 1 <= Len(source)
    BY <1>1, <2>1
  <2>. QED
    BY <1>2, <2>1, <2>2
<1>6. CASE EndOfFile \/ UNCHANGED scannerVars
  BY <1>6 DEF EndOfFile, scannerVars, ScanInv, PlacesRight, Counted
<1>. QED
  BY <1>3, <1>4, <1>5, <1>6 DEF ScannerNext

(* The scanner knows the place of every token, whatever the text and however *)
(* it is cut, with newlines anywhere; only the newline behind an empty       *)
(* comment is a column too far.                                              *)
THEOREM PlacesAreRight == ScannerSpec => []PlacesRight
<1>1. ScanInv => PlacesRight
  BY DEF ScanInv
<1>. QED
  BY <1>1, ScanInit, ScanStep, PTL DEF ScannerSpec

-----------------------------------------------------------------------------
(* Trees in memory.                                                          *)

(* Every nonempty set of numbers has a least one.                            *)
LEMMA LeastNumber ==
    ASSUME NEW T, T \subseteq Nat, T # {}
    PROVE  \E n \in T : \A k \in T : n <= k
<1>1. IsWellFoundedOn(OpToRel(<, Nat), Nat)
  BY NatLessThanWellFounded
<1>2. PICK n \in T : \A k \in T : ~(<<k, n>> \in OpToRel(<, Nat))
  BY <1>1, WFMin
<1>3. ASSUME NEW k \in T PROVE n <= k
  <2>1. ~(<<k, n>> \in OpToRel(<, Nat)) /\ <<k, n>> \in Nat \X Nat
    BY <1>2
  <2>2. ~(k < n)
    BY <2>1 DEF OpToRel
  <2>. QED
    BY <2>2
<1>. QED
  BY <1>3

NodeSet ==
    [t : Types \cup Names, kids : Seq(Nat), heap : BOOLEAN, block : Int, rank : Nat]

LEMMA NodeIs ==
    ASSUME NEW node \in NodeSet
    PROVE  /\ node.t \in Types \cup Names /\ node.kids \in Seq(Nat) /\ node.heap \in BOOLEAN
           /\ node.block \in Int /\ node.rank \in Nat
  BY DEF NodeSet

Moved(node, block) == [node EXCEPT !.heap = FALSE, !.block = block]

LEMMA NodeMoved ==
    ASSUME NEW x \in NodeSet, NEW b \in Int
    PROVE  /\ Moved(x, b) \in NodeSet /\ Moved(x, b).t = x.t /\ Moved(x, b).kids = x.kids
           /\ Moved(x, b).rank = x.rank /\ ~Moved(x, b).heap /\ Moved(x, b).block = b
  BY DEF NodeSet, Moved

HeapNode(t, kids, block, rank) == Node(Content(t, kids), TRUE, block, rank)

LEMMA NewNode ==
    ASSUME NEW t \in Types \cup Names, NEW k \in Seq(Nat), NEW b \in Int, NEW r \in Nat
    PROVE  LET x == HeapNode(t, k, b, r)
           IN  x \in NodeSet /\ x.t = t /\ x.kids = k /\ x.heap /\ x.block = b /\ x.rank = r
  BY DEF NodeSet, HeapNode, Node, Content

LEMMA SeqOfNumbers ==
    ASSUME NEW n \in Nat, NEW f \in [1 .. n -> Nat]
    PROVE  f \in Seq(Nat)
  OBVIOUS

(* The pointers of a node that lead to others.                               *)
Kids(m, n) == Range(m.nodes[n].kids) \ {Nil}

IsMemory(m) ==
    /\ m = [nodes |-> m.nodes, last |-> m.last, freed |-> m.freed, fault |-> m.fault]
    /\ m.nodes = [n \in DOMAIN m.nodes |-> m.nodes[n]]

MemoryOK(m) ==
    /\ IsMemory(m)
    /\ m.last \in Nat /\ DOMAIN m.nodes \subseteq 1 .. m.last
    /\ m.freed \subseteq -m.last .. m.last
    /\ \A n \in DOMAIN m.nodes :
           /\ m.nodes[n] \in NodeSet
           /\ m.nodes[n].rank <= n
           /\ \A k \in Kids(m, n) : k \in DOMAIN m.nodes /\ k < n
           /\ m.nodes[n].t \in {"tuple", "instr"} =>
                  DOMAIN m.nodes[n].kids = {1, 2} /\ m.nodes[n].kids[1] # Nil
           /\ m.nodes[n].t = "list" => Nil \notin Range(m.nodes[n].kids)

LEMMA BelowDef ==
    ASSUME NEW m, MemoryOK(m)
    PROVE  /\ Below(m)[Nil] = {}
           /\ \A n \in DOMAIN m.nodes :
                  Below(m)[n] = {n} \cup UNION {Below(m)[k] : k \in Kids(m, n)}
<1>. DEFINE D == DOMAIN m.nodes
            P == D \cup {Nil}
            Closed(S) == \A a \in S : Kids(m, a) \subseteq S
            least(n) == {k \in D : \A S \in SUBSET D : n \in S /\ Closed(S) => k \in S}
            f == [n \in P |-> IF n = Nil THEN {} ELSE least(n)]
            Rec(g) == g = [n \in P |-> IF n = Nil THEN {}
                              ELSE {n} \cup UNION {g[k] : k \in Range(m.nodes[n].kids)}]
<1>1. /\ Nil \notin D
      /\ \A n \in D : Kids(m, n) \subseteq D /\ Range(m.nodes[n].kids) \subseteq P
  BY DEF MemoryOK, Kids, Nil
<1>2. ASSUME NEW n \in D PROVE n \in least(n) /\ Closed(least(n)) /\ least(n) \subseteq D
  BY <1>1
<1>3. ASSUME NEW n \in D, NEW k \in least(n) PROVE least(k) \subseteq least(n)
  <2>1. k \in D /\ least(n) \in SUBSET D /\ Closed(least(n))
    BY <1>2
  <2>. HIDE DEF Closed
  <2>. QED
    BY <2>1
<1>4. ASSUME NEW n \in D
      PROVE  least(n) = {n} \cup UNION {f[k] : k \in Range(m.nodes[n].kids)}
  <2>. DEFINE T == {n} \cup UNION {f[k] : k \in Range(m.nodes[n].kids)}
  <2>1. ASSUME NEW k \in Kids(m, n)
        PROVE  f[k] = least(k) /\ k \in D /\ k \in least(n) /\ k \in Range(m.nodes[n].kids)
    <3>1. k \in D /\ k # Nil /\ k \in P /\ k \in Range(m.nodes[n].kids)
      BY <1>1 DEF Kids
    <3>2. k \in least(n)
      BY <1>2
    <3>. HIDE DEF least
    <3>. QED
      BY <3>1, <3>2
  <2>2. \A k \in Range(m.nodes[n].kids) : k \in Kids(m, n) \/ f[k] = {}
    BY DEF Kids, Nil
  <2>3. T \subseteq least(n)
    <3>1. \A k \in Kids(m, n) : f[k] \subseteq least(n)
      <4>. HIDE DEF least, f
      <4>. QED
        BY <1>3, <2>1
    <3>2. n \in least(n)
      BY <1>2
    <3>. HIDE DEF least, f
    <3>. QED
      BY <2>2, <3>1, <3>2
  <2>4. T \in SUBSET D /\ n \in T
    <3>1. n \in T
      OBVIOUS
    <3>2. least(n) \subseteq D
      BY <1>2
    <3>. HIDE DEF least, T
    <3>. QED
      BY <2>3, <3>1, <3>2
  <2>5. Closed(T)
    <3>1. ASSUME NEW a \in T, NEW k \in Kids(m, a) PROVE k \in T
      <4>1. CASE a = n
        <5>1. f[k] = least(k) /\ k \in D /\ k \in Range(m.nodes[n].kids)
          BY <2>1, <3>1, <4>1
        <5>2. k \in least(k)
          BY <1>2, <5>1
        <5>. HIDE DEF least, f
        <5>. QED
          BY <5>1, <5>2
      <4>2. CASE a # n
        <5>1. PICK j \in Range(m.nodes[n].kids) : a \in f[j]
          BY <3>1, <4>2
        <5>2. j \in Kids(m, n)
          <6>. HIDE DEF f
          <6>. QED BY <2>2, <5>1
        <5>3. f[j] = least(j) /\ j \in D
          BY <2>1, <5>2
        <5>4. Closed(least(j))
          BY <1>2, <5>3
        <5>5. k \in f[j]
          <6>. HIDE DEF least, f
          <6>. QED BY <3>1, <5>1, <5>3, <5>4
        <5>. HIDE DEF f
        <5>. QED
          BY <5>5
      <4>. QED
        BY <4>1, <4>2
    <3>. HIDE DEF T
    <3>. QED
      BY <3>1
  <2>6. least(n) \subseteq T
    <3>. HIDE DEF T, Closed
    <3>. QED
      BY <2>4, <2>5
  <2>. HIDE DEF least, T
  <2>. QED
    BY <2>3, <2>6 DEF T
<1>5. Rec(f)
  <2>. HIDE DEF least
  <2>. QED
    BY <1>4
<1>6. Rec(Below(m))
  <2>1. \E g : Rec(g)
    <3>. HIDE DEF Rec, f
    <3>. QED BY <1>5
  <2>. HIDE DEF f
  <2>. QED
    BY <2>1 DEF Below
<1>7. Below(m)[Nil] = {}
  BY <1>6
<1>8. ASSUME NEW n \in D
      PROVE  Below(m)[n] = {n} \cup UNION {Below(m)[k] : k \in Kids(m, n)}
  <2>1. Below(m)[n] = {n} \cup UNION {Below(m)[k] : k \in Range(m.nodes[n].kids)}
    BY <1>1, <1>6
  <2>2. UNION {Below(m)[k] : k \in Range(m.nodes[n].kids)}
          = UNION {Below(m)[k] : k \in Kids(m, n)}
    <3>. HIDE DEF Rec
    <3>. QED
      BY <1>7 DEF Kids
  <2>. QED
    BY <2>1, <2>2
<1>. QED
  BY <1>7, <1>8

-----------------------------------------------------------------------------
(* The invariant.                                                            *)

Statements == {"instr", "label", "macro"}

(* A tree without statements and lists, such as an expression.               *)
Flat(m, n) == \A k \in Below(m)[n] : m.nodes[k].t \notin Statements \cup {"list"}

(* All nodes of the trees with some roots.                                   *)
Live(m, R) == UNION {Below(m)[r] : r \in R}

(* Of the nodes in S, with roots R: no two pointers lead to the same node,   *)
(* and none to a root.                                                       *)
Forest(m, R, S) ==
    /\ \A a, b \in S : \A i \in DOMAIN m.nodes[a].kids, j \in DOMAIN m.nodes[b].kids :
           m.nodes[a].kids[i] = m.nodes[b].kids[j] /\ m.nodes[a].kids[i] # Nil => a = b /\ i = j
    /\ \A a \in S : Kids(m, a) \cap R = {}

(* Nothing was freed that is still there, nor twice.                         *)
Whole(m, S) == ~m.fault /\ \A a \in S : m.nodes[a].block \notin m.freed

(* A root has a block of its own, and so has a node unless it is in the      *)
(* array of a list.  The nodes in an array are not freed by themselves.      *)
Blocks(m, R, S) ==
    /\ \A r \in R : m.nodes[r].block = r
    /\ \A a \in S : \A k \in Kids(m, a) :
           IF m.nodes[a].t = "list" THEN m.nodes[k].block = -a /\ ~m.nodes[k].heap
                                    ELSE m.nodes[k].block = k

(* What InOrder says of lists, for all the nodes in S.                       *)
Ordered(m, S) ==
    \A a \in S : m.nodes[a].t = "list" =>
        \A i, j \in DOMAIN m.nodes[a].kids :
            i < j => m.nodes[m.nodes[a].kids[i]].rank < m.nodes[m.nodes[a].kids[j]].rank

(* Of the tuples of statements a list is made from, each has an older        *)
(* statement than the one before: mk_list() has to put them in the opposite  *)
(* order.                                                                    *)
IsStatements(m, n) == m.nodes[n].t = "tuple" /\ m.nodes[m.nodes[n].kids[1]].t \in Statements

ValueRank(m, n) == m.nodes[m.nodes[n].kids[1]].rank

Descends(m, S) ==
    \A a \in S : IsStatements(m, a) /\ m.nodes[a].kids[2] # Nil =>
        LET b == m.nodes[a].kids[2]
        IN  IsStatements(m, b) /\ ValueRank(m, b) < ValueRank(m, a)

(* No statement, and no list, is below the operands of an instruction: no    *)
(* copied or evaluated tree has an array in it.                              *)
Instrs(m, S) ==
    \A a \in S : m.nodes[a].t = "instr" => Flat(m, m.nodes[a].kids[2])

NodesOK(m, R, S) ==
    /\ Forest(m, R, S)
    /\ Whole(m, S)
    /\ Blocks(m, R, S)
    /\ Ordered(m, S)
    /\ Descends(m, S)
    /\ Instrs(m, S)

Good(m, R) == MemoryOK(m) /\ R \subseteq DOMAIN m.nodes /\ NodesOK(m, R, Live(m, R))

(* What the kind of a semantic value says of its node.                       *)
Kinds == {"mnemonic", "expr", "operands", "stmt", "stmts", "head"}

KindOK(m, v) ==
    /\ v.node \in DOMAIN m.nodes /\ m.nodes[v.node].rank = v.node
    /\ v.kind \in {"expr", "operands"} => Flat(m, v.node)
    /\ v.kind = "stmt" => m.nodes[v.node].t \in Statements
    /\ v.kind = "stmts" => IsStatements(m, v.node)
    /\ v.kind = "head" => m.nodes[v.node].t = "tuple"

(* While the parser runs, its values are in the order they were made; then   *)
(* there is one tree, and the values of symbols, which are expressions.      *)
ParsingOK ==
    /\ root = Nil /\ held = {}
    /\ stack \in Seq([kind : Kinds, node : Nat])
    /\ \A i \in DOMAIN stack : KindOK(memory, stack[i])
    /\ \A i, j \in DOMAIN stack : i < j => stack[i].node < stack[j].node

RunningOK ==
    /\ root # Nil /\ stack = <<>>
    /\ root \notin held
    /\ \A h \in held : Flat(memory, h)

EndOK == root = Nil /\ stack = <<stack[1]>> /\ stack[1].kind = "finished"

TreesInv == Good(memory, Owned) /\ (ParsingOK \/ RunningOK \/ EndOK)

-----------------------------------------------------------------------------
(* Below is the least set with the pointers of its nodes.                    *)

Closed(m, S) == S \subseteq DOMAIN m.nodes /\ \A a \in S : Kids(m, a) \subseteq S

LEMMA KidsDown ==
    ASSUME NEW m, MemoryOK(m), NEW n \in DOMAIN m.nodes
    PROVE  /\ n \in Nat /\ n # Nil /\ n > 0 /\ n <= m.last
           /\ \A k \in Kids(m, n) : k \in DOMAIN m.nodes /\ k < n
  BY DEF MemoryOK, Nil

LEMMA BelowClosed ==
    ASSUME NEW m, MemoryOK(m), NEW n \in DOMAIN m.nodes
    PROVE  n \in Below(m)[n] /\ Closed(m, Below(m)[n])
<1>. DEFINE D == DOMAIN m.nodes
            T == {k \in D : ~Closed(m, Below(m)[k])}
<1>1. \A k \in D : k \in Below(m)[k]
  BY BelowDef
<1>2. T = {}
  <2> SUFFICES ASSUME T # {} PROVE FALSE
    OBVIOUS
  <2>1. T \subseteq Nat
    BY KidsDown
  <2>2. PICK a \in T : \A k \in T : a <= k
    BY <2>1, LeastNumber
  <2>3. \A k \in Kids(m, a) : k \in D /\ Closed(m, Below(m)[k])
    BY <2>2, KidsDown
  <2>4. a \in D /\ Below(m)[a] = {a} \cup UNION {Below(m)[k] : k \in Kids(m, a)}
    BY BelowDef
  <2>5. Closed(m, Below(m)[a])
    <3>1. Below(m)[a] \subseteq D
      BY <2>3, <2>4 DEF Closed
    <3>2. ASSUME NEW b \in Below(m)[a], NEW k \in Kids(m, b) PROVE k \in Below(m)[a]
      <4>1. CASE b = a
        BY <1>1, <2>3, <2>4, <3>2, <4>1
      <4>2. CASE b # a
        <5>1. PICK j \in Kids(m, a) : b \in Below(m)[j]
          BY <2>4, <3>2, <4>2
        <5>2. k \in Below(m)[j]
          BY <2>3, <3>2, <5>1 DEF Closed
        <5>. QED
          BY <2>4, <5>1, <5>2
      <4>. QED
        BY <4>1, <4>2
    <3>. QED
      BY <3>1, <3>2 DEF Closed
  <2>. QED
    BY <2>2, <2>5
<1>. QED
  BY <1>1, <1>2

LEMMA BelowLeast ==
    ASSUME NEW m, MemoryOK(m), NEW S, Closed(m, S), NEW n \in S
    PROVE  Below(m)[n] \subseteq S
<1>. DEFINE T == {k \in S : ~(Below(m)[k] \subseteq S)}
<1>1. T = {}
  <2> SUFFICES ASSUME T # {} PROVE FALSE
    OBVIOUS
  <2>1. T \subseteq Nat
    BY KidsDown DEF Closed
  <2>2. PICK a \in T : \A k \in T : a <= k
    BY <2>1, LeastNumber
  <2>3. a \in S /\ a \in DOMAIN m.nodes /\ Kids(m, a) \subseteq S
    BY DEF Closed
  <2>4. \A k \in Kids(m, a) : Below(m)[k] \subseteq S
    <3>1. \A k \in Kids(m, a) : k < a /\ k \in Nat /\ a \in Nat /\ k \in S
      BY <2>3, KidsDown
    <3>. QED
      BY <2>2, <3>1
  <2>5. Below(m)[a] \subseteq S
    BY <2>3, <2>4, BelowDef
  <2>. QED
    BY <2>5
<1>. QED
  BY <1>1

LEMMA BelowWithin ==
    ASSUME NEW m, MemoryOK(m), NEW n \in DOMAIN m.nodes, NEW k \in Below(m)[n]
    PROVE  /\ k \in DOMAIN m.nodes /\ k <= n
           /\ Below(m)[k] \subseteq Below(m)[n]
<1>1. k \in DOMAIN m.nodes /\ Below(m)[k] \subseteq Below(m)[n]
  BY BelowClosed, BelowLeast DEF Closed
<1>. DEFINE S == {a \in DOMAIN m.nodes : a <= n}
<1>2. Closed(m, S) /\ n \in S
  <2>1. \A a \in S : \A j \in Kids(m, a) : j \in S
    BY KidsDown
  <2>2. n <= n
    BY KidsDown
  <2>. QED
    BY <2>1, <2>2 DEF Closed
<1>3. k \in S
  <2>. HIDE DEF S
  <2>. QED
    BY <1>2, BelowLeast
<1>. QED
  BY <1>1, <1>3

(* Whatever is below a node has a pointer from there.                        *)
LEMMA Parent ==
    ASSUME NEW m, MemoryOK(m), NEW n \in DOMAIN m.nodes, NEW k \in Below(m)[n], k # n
    PROVE  \E p \in Below(m)[n] : k \in Kids(m, p)
<1>. DEFINE B == Below(m)[n]
            S == {n} \cup UNION {Kids(m, p) : p \in B}
<1>1. n \in B /\ Closed(m, B)
  BY BelowClosed
<1>2. S \subseteq B
  BY <1>1 DEF Closed
<1>3. Closed(m, S)
  BY <1>1, <1>2 DEF Closed
<1>4. n \in S
  OBVIOUS
<1>5. B \subseteq S
  <2>. HIDE DEF S
  <2>. QED
    BY <1>3, <1>4, BelowLeast
<1>. QED
  BY <1>5

(* What is below a node depends on the pointers there only.                  *)
LEMMA BelowKept ==
    ASSUME NEW m, MemoryOK(m), NEW w, MemoryOK(w),
           NEW n \in DOMAIN m.nodes, Below(m)[n] \subseteq DOMAIN w.nodes,
           \A a \in Below(m)[n] : w.nodes[a].kids = m.nodes[a].kids
    PROVE  Below(w)[n] = Below(m)[n]
<1>. DEFINE B == Below(m)[n]
            C == Below(w)[n] \cap B
<1>1. n \in B /\ Closed(m, B)
  BY BelowClosed
<1>2. \A a \in B : Kids(w, a) = Kids(m, a)
  BY DEF Kids
<1>3. Closed(w, B)
  BY <1>1, <1>2 DEF Closed
<1>4. Below(w)[n] \subseteq B
  BY <1>1, <1>3, BelowLeast
<1>5. n \in DOMAIN w.nodes
  BY <1>1
<1>6. n \in Below(w)[n] /\ Closed(w, Below(w)[n])
  BY <1>5, BelowClosed
<1>7. n \in C /\ Closed(m, C)
  BY <1>1, <1>2, <1>6 DEF Closed
<1>8. B \subseteq C
  <2>. HIDE DEF C
  <2>. QED
    BY <1>7, BelowLeast
<1>. QED
  BY <1>4, <1>8

-----------------------------------------------------------------------------
(* What lives, from some roots on.                                           *)

LEMMA LiveClosed ==
    ASSUME NEW m, MemoryOK(m), NEW R, R \subseteq DOMAIN m.nodes
    PROVE  R \subseteq Live(m, R) /\ Closed(m, Live(m, R))
<1>1. \A r \in R : r \in Below(m)[r] /\ Closed(m, Below(m)[r])
  BY BelowClosed
<1>. QED
  BY <1>1 DEF Live, Closed

LEMMA LiveLeast ==
    ASSUME NEW m, MemoryOK(m), NEW S, Closed(m, S), NEW R, R \subseteq S
    PROVE  Live(m, R) \subseteq S
  BY BelowLeast DEF Live

LEMMA LiveWithin ==
    ASSUME NEW m, MemoryOK(m), NEW R, R \subseteq DOMAIN m.nodes, NEW n \in Live(m, R)
    PROVE  n \in DOMAIN m.nodes /\ Below(m)[n] \subseteq Live(m, R)
<1>1. Closed(m, Live(m, R))
  BY LiveClosed
<1>. QED
  BY <1>1, BelowLeast DEF Closed

(* It is enough to look at some nodes that are closed and contain the roots. *)
LEMMA NodesWithin ==
    ASSUME NEW m, NEW R, NEW S, NEW Q, NEW T, Q \subseteq R, T \subseteq S, NodesOK(m, R, S)
    PROVE  NodesOK(m, Q, T)
<1>1. Forest(m, Q, T)
  BY DEF NodesOK, Forest
<1>2. Whole(m, T)
  BY DEF NodesOK, Whole
<1>3. Blocks(m, Q, T)
  BY DEF NodesOK, Blocks
<1>4. Ordered(m, T)
  BY DEF NodesOK, Ordered
<1>5. Descends(m, T)
  BY DEF NodesOK, Descends
<1>6. Instrs(m, T)
  BY DEF NodesOK, Instrs
<1>. QED
  BY <1>1, <1>2, <1>3, <1>4, <1>5, <1>6 DEF NodesOK

LEMMA GoodIntro ==
    ASSUME NEW m, MemoryOK(m), NEW S, Closed(m, S), NEW R, R \subseteq S, NodesOK(m, R, S)
    PROVE  Good(m, R)
  BY LiveLeast, NodesWithin DEF Good, Closed

LEMMA GoodFewer ==
    ASSUME NEW m, NEW R, Good(m, R), NEW Q, Q \subseteq R
    PROVE  Good(m, Q)
<1>1. R \subseteq Live(m, R) /\ Closed(m, Live(m, R))
  BY LiveClosed DEF Good
<1>2. NodesOK(m, Q, Live(m, R))
  BY NodesWithin DEF Good
<1>. QED
  BY <1>1, <1>2, GoodIntro DEF Good

(* In a forest a walk comes by every node once.                              *)
LEMMA NeverAgain ==
    ASSUME NEW m, NEW R, Good(m, R), NEW T, T \subseteq Live(m, R)
    PROVE  Again(m, T) = {}
<1>1. \A k \in T : k # Nil
  <2>1. \A k \in T : k \in DOMAIN m.nodes
    BY LiveWithin DEF Good
  <2>. QED
    BY <2>1, KidsDown DEF Good
<1>2. \A k \in T : ~Shared(m, T, k)
  BY <1>1 DEF Shared, Good, NodesOK, Forest
<1>. QED
  BY <1>2 DEF Again

LEMMA OneParent ==
    ASSUME NEW m, NEW R, Good(m, R), NEW p \in Live(m, R), NEW q \in Live(m, R),
           NEW k \in Kids(m, p), k \in Kids(m, q)
    PROVE  p = q
<1>1. PICK i \in DOMAIN m.nodes[p].kids : m.nodes[p].kids[i] = k
  BY DEF Kids, Range
<1>2. PICK j \in DOMAIN m.nodes[q].kids : m.nodes[q].kids[j] = k
  BY DEF Kids, Range
<1>3. k # Nil
  BY DEF Kids
<1>. QED
  BY <1>1, <1>2, <1>3 DEF Good, NodesOK, Forest

(* Trees with different roots have no node in common.                        *)
LEMMA GoodApart ==
    ASSUME NEW m, NEW R, Good(m, R), NEW r \in R, NEW s \in R, r # s
    PROVE  Below(m)[r] \cap Below(m)[s] = {}
<1>. DEFINE C == Below(m)[r] \cap Below(m)[s]
            T == {m.last - k : k \in C}
<1> SUFFICES ASSUME C # {} PROVE FALSE
  OBVIOUS
<1>1. MemoryOK(m) /\ r \in DOMAIN m.nodes /\ s \in DOMAIN m.nodes
  BY DEF Good
<1>2. \A k \in C : k \in DOMAIN m.nodes /\ k \in Nat /\ k <= m.last
  BY <1>1, BelowWithin, KidsDown
<1>3. m.last \in Nat
  BY <1>1 DEF MemoryOK
<1>4. T \subseteq Nat /\ T # {}
  BY <1>2, <1>3
<1>5. PICK b \in T : \A k \in T : b <= k
  BY <1>4, LeastNumber
<1>6. PICK a \in C : b = m.last - a
  OBVIOUS
<1>7. ASSUME NEW k \in C PROVE k <= a
  <2>1. b <= m.last - k
    BY <1>5
  <2>2. k \in Nat /\ a \in Nat
    BY <1>2
  <2>. QED
    BY <1>3, <1>6, <2>1, <2>2
<1>8. Below(m)[r] \subseteq Live(m, R) /\ Below(m)[s] \subseteq Live(m, R)
  BY DEF Live
<1>9. \A p \in Live(m, R) : r \notin Kids(m, p) /\ s \notin Kids(m, p)
  BY DEF Good, NodesOK, Forest
<1>10. a # r /\ a # s
  <2>1. CASE a = r
    BY <1>1, <1>6, <1>8, <1>9, <2>1, Parent
  <2>2. CASE a = s
    BY <1>1, <1>6, <1>8, <1>9, <2>2, Parent
  <2>. QED
    BY <2>1, <2>2
<1>11. PICK p \in Below(m)[r] : a \in Kids(m, p)
  BY <1>1, <1>6, <1>10, Parent
<1>12. PICK q \in Below(m)[s] : a \in Kids(m, q)
  BY <1>1, <1>6, <1>10, Parent
<1>13. p = q
  BY <1>8, <1>11, <1>12, OneParent
<1>14. p \in C /\ p \in DOMAIN m.nodes /\ a < p
  BY <1>1, <1>2, <1>11, <1>13, KidsDown
<1>. QED
  BY <1>2, <1>7, <1>14

-----------------------------------------------------------------------------
(* Nodes are added.                                                          *)

LEMMA ExtendedIs ==
    ASSUME NEW m, IsMemory(m), NEW more, NEW last, NEW w, w = Extended(m, more, last)
    PROVE  /\ IsMemory(w)
           /\ w.last = last /\ w.freed = m.freed /\ w.fault = m.fault
           /\ DOMAIN w.nodes = DOMAIN m.nodes \cup DOMAIN more
           /\ \A n \in DOMAIN more : w.nodes[n] = more[n]
           /\ \A n \in DOMAIN m.nodes \ DOMAIN more : w.nodes[n] = m.nodes[n]
<1>. DEFINE nodes == [n \in DOMAIN m.nodes \cup DOMAIN more |->
                          IF n \in DOMAIN more THEN more[n] ELSE m.nodes[n]]
<1>1. w = [nodes |-> nodes, last |-> last, freed |-> m.freed, fault |-> m.fault]
  BY DEF Extended, IsMemory
<1>2. w.nodes = nodes /\ w.last = last /\ w.freed = m.freed /\ w.fault = m.fault
  BY <1>1
<1>3. IsMemory(w)
  <2>. HIDE DEF nodes
  <2>1. w = [nodes |-> w.nodes, last |-> w.last, freed |-> w.freed, fault |-> w.fault]
    BY <1>1, <1>2
  <2>2. w.nodes = [n \in DOMAIN w.nodes |-> w.nodes[n]]
    BY <1>2 DEF nodes
  <2>. QED
    BY <2>1, <2>2 DEF IsMemory
<1>. QED
  BY <1>2, <1>3

Keeps(m, w) ==
    /\ MemoryOK(w)
    /\ \A n \in DOMAIN m.nodes : n \in DOMAIN w.nodes /\ w.nodes[n] = m.nodes[n]

LEMMA KeepsBelow ==
    ASSUME NEW m, MemoryOK(m), NEW w, Keeps(m, w), NEW n \in DOMAIN m.nodes
    PROVE  Below(w)[n] = Below(m)[n] /\ (Flat(m, n) => Flat(w, n))
<1>1. Below(m)[n] \subseteq DOMAIN m.nodes
  BY BelowClosed DEF Closed
<1>2. Below(w)[n] = Below(m)[n]
  BY <1>1, BelowKept DEF Keeps
<1>. QED
  BY <1>1, <1>2 DEF Flat, Keeps

LEMMA StatementsSame ==
    ASSUME NEW m, NEW w, NEW a, w.nodes[a] = m.nodes[a],
           w.nodes[m.nodes[a].kids[1]] = m.nodes[m.nodes[a].kids[1]]
    PROVE  /\ IsStatements(w, a) <=> IsStatements(m, a)
           /\ ValueRank(w, a) = ValueRank(m, a)
  BY DEF IsStatements, ValueRank

(* Nodes that stay as they are stay in order.                                *)
LEMMA KeepsNodes ==
    ASSUME NEW m, MemoryOK(m), NEW w, Keeps(m, w),
           NEW T, Closed(m, T), NEW Q, Q \subseteq T, NodesOK(m, Q, T), Whole(w, T)
    PROVE  Closed(w, T) /\ NodesOK(w, Q, T)
<1>1. \A a \in T : /\ a \in DOMAIN m.nodes /\ w.nodes[a] = m.nodes[a]
                   /\ Kids(w, a) = Kids(m, a) /\ Kids(m, a) \subseteq T
  BY DEF Keeps, Closed, Kids
<1>2. Closed(w, T)
  BY <1>1 DEF Closed, Keeps
<1>3. \A a \in T : \A i \in DOMAIN m.nodes[a].kids :
          m.nodes[a].kids[i] # Nil => m.nodes[a].kids[i] \in T
  BY <1>1 DEF Kids, Range
<1>4. Forest(w, Q, T)
  BY <1>1 DEF NodesOK, Forest
<1>5. Blocks(w, Q, T)
  <2>1. \A r \in Q : w.nodes[r].block = r
    BY <1>1 DEF NodesOK, Blocks
  <2>2. ASSUME NEW a \in T, NEW k \in Kids(w, a)
        PROVE  IF w.nodes[a].t = "list" THEN w.nodes[k].block = -a /\ ~w.nodes[k].heap
                                        ELSE w.nodes[k].block = k
    <3>1. k \in T /\ w.nodes[k] = m.nodes[k] /\ w.nodes[a] = m.nodes[a] /\ k \in Kids(m, a)
      BY <1>1
    <3>. QED
      BY <3>1 DEF NodesOK, Blocks
  <2>. QED
    BY <2>1, <2>2 DEF Blocks
<1>6. Ordered(w, T)
  <2>1. ASSUME NEW a \in T, w.nodes[a].t = "list",
               NEW i \in DOMAIN w.nodes[a].kids, NEW j \in DOMAIN w.nodes[a].kids, i < j
        PROVE  w.nodes[w.nodes[a].kids[i]].rank < w.nodes[w.nodes[a].kids[j]].rank
    <3>1. w.nodes[a] = m.nodes[a] /\ a \in DOMAIN m.nodes
      BY <1>1
    <3>2. m.nodes[a].kids[i] # Nil /\ m.nodes[a].kids[j] # Nil
      BY <2>1, <3>1 DEF MemoryOK, Range
    <3>3. m.nodes[a].kids[i] \in T /\ m.nodes[a].kids[j] \in T
      BY <1>3, <2>1, <3>1, <3>2
    <3>. QED
      BY <1>1, <2>1, <3>1, <3>3 DEF NodesOK, Ordered
  <2>. QED
    BY <2>1 DEF Ordered
<1>7. Descends(w, T)
  <2>0. Descends(m, T)
    BY DEF NodesOK
  <2>1. ASSUME NEW a \in T, IsStatements(w, a), w.nodes[a].kids[2] # Nil
        PROVE  IsStatements(w, w.nodes[a].kids[2])
               /\ ValueRank(w, w.nodes[a].kids[2]) < ValueRank(w, a)
    <3>1. a \in DOMAIN m.nodes /\ w.nodes[a] = m.nodes[a]
      BY <1>1
    <3>0. m.nodes[a].kids[2] # Nil
      BY <2>1, <3>1
    <3>. DEFINE b == m.nodes[a].kids[2]
                c == m.nodes[a].kids[1]
    <3>2. DOMAIN m.nodes[a].kids = {1, 2} /\ c # Nil
      BY <2>1, <3>1 DEF MemoryOK, IsStatements
    <3>3. b \in T /\ c \in T
      BY <1>3, <2>1, <3>1, <3>2
    <3>4. w.nodes[b] = m.nodes[b] /\ w.nodes[c] = m.nodes[c] /\ b \in DOMAIN m.nodes
      BY <1>1, <3>3
    <3>5. /\ IsStatements(w, a) <=> IsStatements(m, a)
          /\ ValueRank(w, a) = ValueRank(m, a)
      BY <3>1, <3>4, StatementsSame
    <3>6. IsStatements(m, b) /\ ValueRank(m, b) < ValueRank(m, a)
      <4>1. IsStatements(m, a)
        BY <2>1, <3>5, Zenon
      <4>. QED
        BY <2>0, <3>0, <4>1, Zenon DEF Descends
    <3>7. DOMAIN m.nodes[b].kids = {1, 2} /\ m.nodes[b].kids[1] # Nil
      BY <3>4, <3>6 DEF MemoryOK, IsStatements
    <3>8. m.nodes[b].kids[1] \in T
      <4>. HIDE DEF b, c
      <4>. QED
        BY <1>3, <3>3, <3>7
    <3>9. w.nodes[m.nodes[b].kids[1]] = m.nodes[m.nodes[b].kids[1]]
      BY <1>1, <3>8
    <3>10. w.nodes[a].kids[2] = b
      BY <3>1
    <3>. HIDE DEF b, c
    <3>11. IsStatements(w, b) /\ ValueRank(w, b) = ValueRank(m, b)
      BY <3>4, <3>6, <3>9, StatementsSame
    <3>. QED
      BY <3>5, <3>6, <3>10, <3>11
  <2>. QED
    BY <2>1, Zenon DEF Descends
<1>8. Instrs(w, T)
  <2>1. ASSUME NEW a \in T, w.nodes[a].t = "instr"
        PROVE  Flat(w, w.nodes[a].kids[2])
    <3>. DEFINE b == m.nodes[a].kids[2]
    <3>1. a \in DOMAIN m.nodes /\ w.nodes[a] = m.nodes[a]
      BY <1>1
    <3>2. Flat(m, b) /\ DOMAIN m.nodes[a].kids = {1, 2}
      BY <2>1, <3>1 DEF MemoryOK, NodesOK, Instrs
    <3>3. CASE b = Nil
      BY <3>1, <3>3, BelowDef DEF Flat, Keeps
    <3>4. CASE b # Nil
      <4>1. b \in DOMAIN m.nodes
        BY <1>1, <1>3, <3>2, <3>4
      <4>. QED
        BY <3>1, <3>2, <4>1, KeepsBelow
    <3>. QED
      BY <3>3, <3>4
  <2>. QED
    BY <2>1 DEF Instrs
<1>. QED
  BY <1>2, <1>4, <1>5, <1>6, <1>7, <1>8 DEF NodesOK

(* New nodes point to each other and to roots.                               *)
LEMMA Joined ==
    ASSUME NEW w, NEW T, Closed(w, T), NEW Q, NodesOK(w, Q, T),
           NEW N, N \cap T = {}, NEW R, NodesOK(w, R, N), R \cap T \subseteq Q,
           \A a \in N : Kids(w, a) \cap T \subseteq Q
    PROVE  NodesOK(w, R, T \cup N)
<1>. DEFINE S == T \cup N
<1>1. \A a \in T : Kids(w, a) \subseteq T /\ Kids(w, a) \cap Q = {}
  BY DEF Closed, NodesOK, Forest
<1>2. Forest(w, R, S)
  <2>1. ASSUME NEW a \in S, NEW b \in S,
               NEW i \in DOMAIN w.nodes[a].kids, NEW j \in DOMAIN w.nodes[b].kids,
               w.nodes[a].kids[i] = w.nodes[b].kids[j], w.nodes[a].kids[i] # Nil
        PROVE  a = b /\ i = j
    <3>1. w.nodes[a].kids[i] \in Kids(w, a) /\ w.nodes[a].kids[i] \in Kids(w, b)
      BY <2>1 DEF Kids, Range
    <3>2. CASE a \in N /\ b \in N
      BY <2>1, <3>2 DEF NodesOK, Forest
    <3>3. CASE a \in N /\ b \in T
      BY <1>1, <3>1, <3>3
    <3>4. CASE b \in N /\ a \in T
      BY <1>1, <3>1, <3>4
    <3>5. CASE a \in T /\ b \in T
      BY <2>1, <3>5 DEF NodesOK, Forest
    <3>. QED
      BY <3>2, <3>3, <3>4, <3>5
  <2>2. \A a \in S : Kids(w, a) \cap R = {}
    <3>1. \A a \in T : Kids(w, a) \cap R = {}
      BY <1>1
    <3>2. \A a \in N : Kids(w, a) \cap R = {}
      BY DEF NodesOK, Forest
    <3>. QED
      BY <3>1, <3>2
  <2>. QED
    BY <2>1, <2>2 DEF Forest
<1>3. Whole(w, S)
  BY DEF NodesOK, Whole
<1>4. Blocks(w, R, S)
  <2>1. \A r \in R : w.nodes[r].block = r
    BY DEF NodesOK, Blocks
  <2>2. ASSUME NEW a \in S, NEW k \in Kids(w, a)
        PROVE  IF w.nodes[a].t = "list" THEN w.nodes[k].block = -a /\ ~w.nodes[k].heap
                                        ELSE w.nodes[k].block = k
    <3>1. CASE a \in T
      BY <3>1 DEF NodesOK, Blocks
    <3>2. CASE a \in N
      BY <3>2 DEF NodesOK, Blocks
    <3>. QED
      BY <3>1, <3>2
  <2>. QED
    BY <2>1, <2>2 DEF Blocks
<1>5. Ordered(w, S)
  BY DEF NodesOK, Ordered
<1>6. Descends(w, S)
  BY DEF NodesOK, Descends
<1>7. Instrs(w, S)
  BY DEF NodesOK, Instrs
<1>. QED
  BY <1>2, <1>3, <1>4, <1>5, <1>6, <1>7 DEF NodesOK

(* mk_node() makes a tree of trees.                                          *)
(* When a node can be made of trees that are roots.                          *)
CanBeMade(m, R, Q, t, kids) ==
    /\ Q \subseteq R /\ t \in (Types \cup Names) \ {"list"} /\ kids \in Seq(Nat)
    /\ Range(kids) \ {Nil} \subseteq R \ Q
    /\ \A i, j \in DOMAIN kids : kids[i] = kids[j] /\ kids[i] # Nil => i = j
    /\ t \in {"tuple", "instr"} => DOMAIN kids = {1, 2} /\ kids[1] # Nil
    /\ t = "tuple" /\ kids[2] # Nil /\ m.nodes[kids[1]].t \in Statements =>
           IsStatements(m, kids[2]) /\ ValueRank(m, kids[2]) < m.nodes[kids[1]].rank
    /\ t = "instr" => Flat(m, kids[2])

LEMMA NodeMade ==
    ASSUME NEW m, NEW R, Good(m, R), NEW Q, NEW t, NEW kids, CanBeMade(m, R, Q, t, kids),
           NEW w, w = mk_node(m, t, kids)
    PROVE  /\ Keeps(m, w)
           /\ Newest(w) = Newest(m) + 1 /\ Newest(w) \in DOMAIN w.nodes
           /\ w.nodes[Newest(w)] = Node(Content(t, kids), FALSE, Newest(w), Newest(w))
           /\ Good(w, Q \cup {Newest(w)})
<1> SUFFICES
      ASSUME Q \subseteq R, t \in (Types \cup Names) \ {"list"}, kids \in Seq(Nat),
             Range(kids) \ {Nil} \subseteq R \ Q,
             \A i, j \in DOMAIN kids : kids[i] = kids[j] /\ kids[i] # Nil => i = j,
             t \in {"tuple", "instr"} => DOMAIN kids = {1, 2} /\ kids[1] # Nil,
             t = "tuple" /\ kids[2] # Nil /\ m.nodes[kids[1]].t \in Statements =>
                 IsStatements(m, kids[2]) /\ ValueRank(m, kids[2]) < m.nodes[kids[1]].rank,
             t = "instr" => Flat(m, kids[2])
      PROVE  /\ Keeps(m, w)
             /\ Newest(w) = Newest(m) + 1 /\ Newest(w) \in DOMAIN w.nodes
             /\ w.nodes[Newest(w)] = Node(Content(t, kids), FALSE, Newest(w), Newest(w))
             /\ Good(w, Q \cup {Newest(w)})
  BY DEF CanBeMade
<1>. DEFINE D == DOMAIN m.nodes
            new == m.last + 1
            node == Node(Content(t, kids), FALSE, new, new)
            L == Live(m, R)
<1>1. MemoryOK(m) /\ R \subseteq D /\ R \subseteq L /\ Closed(m, L) /\ L \subseteq D
  BY LiveClosed DEF Good, Closed
<1>2. m.last \in Nat /\ new \in Nat /\ new \notin D /\ new # Nil
      /\ \A n \in D : n \in Nat /\ n # Nil /\ n < new
  BY <1>1, KidsDown DEF MemoryOK, Nil
<1>3. w = Extended(m, [n \in {new} |-> node], new)
  BY DEF mk_node, Allocated, Newest
<1>4. /\ IsMemory(w)
      /\ w.last = new /\ w.freed = m.freed /\ w.fault = m.fault
      /\ DOMAIN w.nodes = D \cup {new}
      /\ w.nodes[new] = node
      /\ \A n \in D : w.nodes[n] = m.nodes[n]
  <2>. DEFINE more == [n \in {new} |-> node]
  <2>1. DOMAIN more = {new} /\ more[new] = node
    OBVIOUS
  <2>2. w = Extended(m, more, new)
    BY <1>3
  <2>3. IsMemory(m)
    BY <1>1 DEF MemoryOK
  <2>. HIDE DEF node, more
  <2>. QED
    BY <1>2, <2>1, <2>2, <2>3, ExtendedIs
<1>5. /\ node.t = t /\ node.kids = kids /\ node.block = new /\ node.rank = new
      /\ ~node.heap
  BY DEF Node, Content
<1>6. /\ Kids(w, new) = Range(kids) \ {Nil}
      /\ Kids(w, new) \subseteq R \ Q
      /\ \A n \in D : Kids(w, n) = Kids(m, n)
  BY <1>4, <1>5 DEF Kids
<1>7. MemoryOK(w)
  <2>1. w.freed \subseteq -w.last .. w.last
    <3>1. m.freed \subseteq -m.last .. m.last
      BY <1>1 DEF MemoryOK
    <3>. QED
      BY <1>2, <1>4, <3>1
  <2>2. DOMAIN w.nodes \subseteq 1 .. w.last
    BY <1>1, <1>4 DEF MemoryOK
  <2>3. node \in NodeSet
    BY <1>2 DEF Node, Content, NodeSet
  <2>4. \A k \in Kids(w, new) : k \in DOMAIN w.nodes /\ k < new
    BY <1>1, <1>2, <1>4, <1>6
  <2>5. w.nodes[new].rank <= new
    <3>1. w.nodes[new].rank = new
      BY <1>4, <1>5
    <3>. HIDE DEF new, node
    <3>. QED
      BY <1>2, <3>1
  <2>6. \A n \in D : w.nodes[n] = m.nodes[n] /\ Kids(w, n) = Kids(m, n)
    BY <1>4, <1>6
  <2>7. ASSUME NEW n \in DOMAIN w.nodes
        PROVE  /\ w.nodes[n] \in NodeSet
               /\ w.nodes[n].rank <= n
               /\ \A k \in Kids(w, n) : k \in DOMAIN w.nodes /\ k < n
               /\ w.nodes[n].t \in {"tuple", "instr"} =>
                      DOMAIN w.nodes[n].kids = {1, 2} /\ w.nodes[n].kids[1] # Nil
               /\ w.nodes[n].t = "list" => Nil \notin Range(w.nodes[n].kids)
    <3>1. CASE n = new
      <4>. HIDE DEF node
      <4>. QED
        BY <1>4, <1>5, <2>3, <2>4, <2>5, <3>1
    <3>2. CASE n # new
      <4>1. n \in D
        BY <1>4, <3>2
      <4>2. \A k \in Kids(m, n) : k \in D /\ k < n
        BY <1>1, <4>1, KidsDown
      <4>. QED
        BY <1>1, <1>4, <2>6, <4>1, <4>2 DEF MemoryOK
    <3>. QED
      BY <3>1, <3>2
  <2>. QED
    BY <1>2, <1>4, <2>1, <2>2, <2>7 DEF MemoryOK
<1>8. Keeps(m, w)
  BY <1>4, <1>7 DEF Keeps
<1>. HIDE DEF L, node
<1>9. Closed(w, L) /\ NodesOK(w, R, L)
  <2>1. NodesOK(m, R, L)
    BY DEF Good, L
  <2>2. Whole(w, L)
    BY <1>1, <1>4, <2>1 DEF NodesOK, Whole
  <2>. QED
    BY <1>1, <1>8, <2>1, <2>2, KeepsNodes
<1>10. NodesOK(w, Q \cup {new}, {new})
  <2>1. Forest(w, Q \cup {new}, {new})
    BY <1>1, <1>2, <1>4, <1>5, <1>6 DEF Forest
  <2>2. Whole(w, {new})
    <3>1. new \notin m.freed
      BY <1>1, <1>2 DEF MemoryOK
    <3>. QED
      BY <1>4, <1>5, <1>9, <3>1 DEF NodesOK, Whole
  <2>3. Blocks(w, Q \cup {new}, {new})
    <3>1. \A r \in R : w.nodes[r].block = r
      BY <1>9 DEF NodesOK, Blocks
    <3>. QED
      BY <1>4, <1>5, <1>6, <3>1 DEF Blocks
  <2>4. Ordered(w, {new})
    BY <1>4, <1>5 DEF Ordered
  <2>5. Descends(w, {new})
    <3> SUFFICES ASSUME IsStatements(w, new), kids[2] # Nil
                 PROVE  IsStatements(w, kids[2]) /\ ValueRank(w, kids[2]) < ValueRank(w, new)
      BY <1>4, <1>5 DEF Descends
    <3>1. t = "tuple" /\ DOMAIN kids = {1, 2} /\ kids[1] # Nil
      BY <1>4, <1>5 DEF IsStatements
    <3>2. kids[1] \in D /\ kids[2] \in D
      BY <1>1, <3>1 DEF Range
    <3>3. IsStatements(m, kids[2]) /\ ValueRank(m, kids[2]) < m.nodes[kids[1]].rank
      BY <1>4, <1>5, <3>1, <3>2 DEF IsStatements
    <3>4. DOMAIN m.nodes[kids[2]].kids = {1, 2} /\ m.nodes[kids[2]].kids[1] # Nil
      BY <1>1, <3>2, <3>3 DEF MemoryOK, IsStatements
    <3>5. m.nodes[kids[2]].kids[1] \in D
      <4>1. m.nodes[kids[2]].kids[1] \in Kids(m, kids[2])
        BY <3>4 DEF Kids, Range
      <4>. QED
        BY <1>1, <3>2, <4>1, KidsDown
    <3>. QED
      BY <1>4, <1>5, <3>2, <3>3, <3>5 DEF IsStatements, ValueRank
  <2>6. Instrs(w, {new})
    <3> SUFFICES ASSUME t = "instr" PROVE Flat(w, kids[2])
      BY <1>4, <1>5 DEF Instrs
    <3>1. Flat(m, kids[2]) /\ DOMAIN kids = {1, 2}
      OBVIOUS
    <3>2. CASE kids[2] = Nil
      BY <1>7, <3>2, BelowDef DEF Flat
    <3>3. CASE kids[2] # Nil
      <4>1. kids[2] \in D
        BY <1>1, <3>1, <3>3 DEF Range
      <4>. QED
        BY <1>1, <1>8, <3>1, <4>1, KeepsBelow
    <3>. QED
      BY <3>2, <3>3
  <2>. QED
    BY <2>1, <2>2, <2>3, <2>4, <2>5, <2>6 DEF NodesOK
<1>11. Good(w, Q \cup {new})
  <2>1. NodesOK(w, Q \cup {new}, L \cup {new})
    BY <1>1, <1>2, <1>6, <1>9, <1>10, Joined
  <2>2. Closed(w, L \cup {new}) /\ Q \cup {new} \subseteq L \cup {new}
    BY <1>1, <1>4, <1>6, <1>9 DEF Closed
  <2>. HIDE DEF new
  <2>. QED
    BY <1>7, <2>1, <2>2, GoodIntro
<1>. QED
  BY <1>4, <1>8, <1>11 DEF Newest, node

-----------------------------------------------------------------------------
(* Lists.                                                                    *)

LEMMA ChainDef ==
    ASSUME NEW m, MemoryOK(m)
    PROVE  \A n \in DOMAIN m.nodes \cup {Nil} :
               Chain(m)[n] = IF n = Nil \/ m.nodes[n].t # "tuple" THEN <<>>
                             ELSE <<n>> \o Chain(m)[m.nodes[n].kids[2]]
<1>. DEFINE D == DOMAIN m.nodes
            P == D \cup {Nil}
            Upto(k) == {n \in P : n <= k}
            Is(g, n) == g[n] = IF n = Nil \/ m.nodes[n].t # "tuple" THEN <<>>
                               ELSE <<n>> \o g[m.nodes[n].kids[2]]
            Part(k) == \E g : g = [n \in Upto(k) |-> g[n]] /\ \A n \in Upto(k) : Is(g, n)
            T == {k \in Nat : ~Part(k)}
<1>1. /\ m.last \in Nat /\ Nil = 0 /\ Nil \notin D
      /\ \A n \in D : n \in Nat /\ n > 0 /\ n <= m.last
  BY KidsDown DEF MemoryOK, Nil
<1>2. ASSUME NEW n \in D, m.nodes[n].t = "tuple"
      PROVE  m.nodes[n].kids[2] \in P /\ m.nodes[n].kids[2] < n
  <2>1. DOMAIN m.nodes[n].kids = {1, 2}
    BY <1>2 DEF MemoryOK
  <2>2. m.nodes[n].kids[2] = Nil \/ m.nodes[n].kids[2] \in Kids(m, n)
    BY <2>1 DEF Kids, Range
  <2>. QED
    BY <1>1, <2>2, KidsDown
<1>3. T = {}
  <2> SUFFICES ASSUME T # {} PROVE FALSE
    OBVIOUS
  <2>1. PICK k \in T : \A j \in T : k <= j
    BY LeastNumber
  <2>2. CASE k = 0
    <3>1. Upto(k) = {Nil}
      BY <1>1, <2>2
    <3>. DEFINE g == [n \in {Nil} |-> <<>>]
    <3>2. g = [n \in Upto(k) |-> g[n]] /\ \A n \in Upto(k) : Is(g, n)
      BY <3>1
    <3>3. Part(k)
      <4>. HIDE DEF g, Is, Upto
      <4>. QED
        BY <3>2
    <3>. QED
      BY <3>3
  <2>3. CASE k # 0
    <3>1. k \in Nat /\ k - 1 \in Nat /\ k - 1 \notin T
      <4>1. k \in Nat /\ k - 1 \in Nat /\ ~(k <= k - 1)
        BY <2>1, <2>3
      <4>. HIDE DEF T
      <4>. QED
        BY <2>1, <4>1
    <3>2. Part(k - 1)
      BY <3>1
    <3>3. PICK g : g = [n \in Upto(k - 1) |-> g[n]] /\ \A n \in Upto(k - 1) : Is(g, n)
      BY <3>2
    <3>. DEFINE h == [n \in Upto(k) |->
                         IF n < k THEN g[n]
                         ELSE IF n = Nil \/ m.nodes[n].t # "tuple" THEN <<>>
                         ELSE <<n>> \o g[m.nodes[n].kids[2]]]
    <3>4. /\ \A n \in Upto(k) : n < k => n \in Upto(k - 1)
          /\ \A n \in D : n <= k => n \in Upto(k)
          /\ Nil \in Upto(k) /\ Upto(k) \subseteq P
      BY <1>1, <3>1
    <3>. HIDE DEF Upto
    <3>5. ASSUME NEW n \in Upto(k) PROVE Is(h, n)
      <4>1. n < k => h[n] = g[n]
        OBVIOUS
      <4>2. ~(n < k) => h[n] = IF n = Nil \/ m.nodes[n].t # "tuple" THEN <<>>
                               ELSE <<n>> \o g[m.nodes[n].kids[2]]
        OBVIOUS
      <4>3. n < k => g[n] = IF n = Nil \/ m.nodes[n].t # "tuple" THEN <<>>
                            ELSE <<n>> \o g[m.nodes[n].kids[2]]
        BY <3>3, <3>4
      <4>. HIDE DEF T
      <4>4. ASSUME n # Nil, m.nodes[n].t = "tuple"
            PROVE  h[m.nodes[n].kids[2]] = g[m.nodes[n].kids[2]]
        <5>. DEFINE b == m.nodes[n].kids[2]
        <5>1. b \in P /\ b < n /\ n <= k /\ n \in Nat /\ b \in Nat
          BY <1>1, <1>2, <3>4, <4>4 DEF Upto
        <5>2. b \in Upto(k) /\ b < k
          <6>. HIDE DEF b
          <6>1. b < k /\ b <= k
            BY <3>1, <5>1
          <6>. QED
            BY <3>4, <5>1, <6>1
        <5>. HIDE DEF b
        <5>3. h[b] = g[b]
          BY <5>2
        <5>. QED
          BY <5>3, Zenon DEF b
      <4>. HIDE DEF h
      <4>. QED
        BY <4>1, <4>2, <4>3, <4>4
    <3>6. h = [n \in Upto(k) |-> h[n]]
      OBVIOUS
    <3>7. Part(k)
      <4>. HIDE DEF h, Is, Upto
      <4>. QED
        BY <3>5, <3>6
    <3>. QED
      BY <3>7
  <2>. QED
    BY <2>2, <2>3
<1>4. Part(m.last)
  BY <1>1, <1>3
<1>5. Upto(m.last) = P
  BY <1>1
<1>. DEFINE Rec(g) == g = [n \in P |-> IF n = Nil \/ m.nodes[n].t # "tuple" THEN <<>>
                                       ELSE <<n>> \o g[m.nodes[n].kids[2]]]
<1>6. \E g : Rec(g)
  <2>1. PICK g : g = [n \in Upto(m.last) |-> g[n]] /\ \A n \in Upto(m.last) : Is(g, n)
    BY <1>4
  <2>. HIDE DEF Upto, T
  <2>2. g = [n \in P |-> g[n]] /\ \A n \in P : Is(g, n)
    BY <1>5, <2>1
  <2>3. Rec(g)
    BY <2>2, Zenon
  <2>. QED
    BY <2>3
<1>. HIDE DEF T, Upto, Part
<1>7. Rec(Chain(m))
  BY <1>6, Zenon DEF Chain
<1>. QED
  BY <1>7, Zenon

LEMMA Prepended ==
    ASSUME NEW B, NEW a \in B, NEW d \in Seq(B), NEW c, c = <<a>> \o d
    PROVE  /\ c \in Seq(B) /\ Len(c) = Len(d) + 1 /\ Len(d) \in Nat
           /\ c[1] = a /\ \A i \in 2 .. Len(c) : c[i] = d[i - 1]
<1>1. <<a>> \in Seq(B)
  OBVIOUS
<1>. QED
  BY <1>1

LEMMA SeqWider ==
    ASSUME NEW A, NEW B, A \subseteq B, NEW d \in Seq(A)
    PROVE  d \in Seq(B) /\ Len(d) \in Nat /\ \A i \in 1 .. Len(d) : d[i] \in A
  OBVIOUS

(* The statements of the source, the last one first.                         *)
ChainOK(m, n) ==
    LET c == Chain(m)[n]
    IN  /\ c \in Seq(Below(m)[n]) /\ Len(c) > 0 /\ c[1] = n
        /\ \A i \in 1 .. Len(c) : IsStatements(m, c[i])
        /\ \A i \in 1 .. Len(c) - 1 : c[i + 1] \in Kids(m, c[i])
        /\ \A i, j \in 1 .. Len(c) :
               i < j => c[j] < c[i] /\ ValueRank(m, c[j]) < ValueRank(m, c[i])

LEMMA ChainIs ==
    ASSUME NEW m, MemoryOK(m), NEW L, Closed(m, L), Descends(m, L),
           NEW n \in L, IsStatements(m, n)
    PROVE  ChainOK(m, n)
<1>. DEFINE T == {k \in L : IsStatements(m, k) /\ ~ChainOK(m, k)}
<1>1. T = {}
  <2> SUFFICES ASSUME T # {} PROVE FALSE
    OBVIOUS
  <2>1. T \subseteq Nat
    BY KidsDown DEF Closed
  <2>2. PICK a \in T : \A k \in T : a <= k
    BY <2>1, LeastNumber
  <2>. DEFINE b == m.nodes[a].kids[2]
              c == Chain(m)[a]
              d == Chain(m)[b]
              B == Below(m)[a]
  <2>3. a \in L /\ a \in DOMAIN m.nodes /\ a # Nil /\ a \in Nat /\ IsStatements(m, a)
    BY KidsDown DEF Closed
  <2>4. DOMAIN m.nodes[a].kids = {1, 2} /\ m.nodes[a].t = "tuple"
    BY <2>3 DEF MemoryOK, IsStatements
  <2>5. b = Nil \/ b \in Kids(m, a)
    BY <2>4 DEF Kids, Range
  <2>6. b \in DOMAIN m.nodes \cup {Nil}
    BY <2>3, <2>5, KidsDown
  <2>7. c = <<a>> \o d
    BY <2>3, <2>4, ChainDef
  <2>8. a \in B
    BY <2>3, BelowClosed
  <2>9. ValueRank(m, a) \in Nat
    <3>1. m.nodes[a].kids[1] \in Kids(m, a)
      BY <2>3, <2>4 DEF MemoryOK, Kids, Range
    <3>2. m.nodes[a].kids[1] \in DOMAIN m.nodes
      BY <2>3, <3>1, KidsDown
    <3>. QED
      BY <3>2 DEF MemoryOK, NodeSet, ValueRank
  <2>10. CASE b = Nil
    <3>1. d = <<>>
      BY <2>10, ChainDef
    <3>2. c = <<a>>
      BY <2>7, <3>1
    <3>3. c \in Seq(B) /\ Len(c) = 1 /\ c[1] = a
      <4>. HIDE DEF c, B
      <4>. QED
        BY <2>8, <3>2
    <3>4. ChainOK(m, a)
      <4>. HIDE DEF c
      <4>1. \A i \in 1 .. Len(c) : i = 1
        BY <3>3
      <4>2. \A i \in 1 .. Len(c) - 1 : FALSE
        BY <3>3
      <4>. QED
        BY <2>3, <3>3, <4>1, <4>2 DEF ChainOK, c
    <3>. QED
      BY <3>4
  <2>11. CASE b # Nil
    <3>1. IsStatements(m, b) /\ ValueRank(m, b) < ValueRank(m, a)
      BY <2>3, <2>11 DEF Descends
    <3>2. b \in Kids(m, a) /\ b \in L /\ b < a /\ b \in Nat /\ b \in DOMAIN m.nodes
      BY <2>3, <2>5, <2>11, KidsDown DEF Closed
    <3>3. ChainOK(m, b)
      BY <2>2, <2>3, <3>1, <3>2
    <3>4. /\ d \in Seq(Below(m)[b]) /\ Len(d) > 0 /\ d[1] = b
          /\ \A i \in 1 .. Len(d) : IsStatements(m, d[i])
          /\ \A i \in 1 .. Len(d) - 1 : d[i + 1] \in Kids(m, d[i])
          /\ \A i, j \in 1 .. Len(d) :
                 i < j => d[j] < d[i] /\ ValueRank(m, d[j]) < ValueRank(m, d[i])
      BY <3>3, Zenon DEF ChainOK
    <3>5. Below(m)[b] \subseteq Below(m)[a]
      BY <2>3, <2>8, <3>2, BelowClosed, BelowWithin DEF Closed
    <3>6. Len(d) \in Nat /\ \A i \in 1 .. Len(d) : d[i] \in Below(m)[b]
      <4>. HIDE DEF d
      <4>. QED
        BY <3>4, SeqWider
    <3>7. /\ c \in Seq(B) /\ Len(c) = Len(d) + 1
          /\ c[1] = a /\ \A i \in 2 .. Len(c) : c[i] = d[i - 1]
      <4>1. d \in Seq(B)
        <5>. HIDE DEF d
        <5>. QED
          BY <3>4, <3>5, SeqWider
      <4>. HIDE DEF c, d, B
      <4>. QED
        BY <2>7, <2>8, <4>1, Prepended
    <3>8. \A i \in 1 .. Len(d) : d[i] \in Nat /\ d[i] <= b /\ ValueRank(m, d[i]) <= ValueRank(m, b)
                                 /\ ValueRank(m, d[i]) \in Int
      <4>1. \A i \in 1 .. Len(d) : d[i] \in DOMAIN m.nodes /\ d[i] <= b
        BY <3>2, <3>6, BelowWithin
      <4>2. ASSUME NEW i \in 1 .. Len(d) PROVE ValueRank(m, d[i]) \in Int
        <5>. HIDE DEF c, d
        <5>1. IsStatements(m, d[i]) /\ d[i] \in DOMAIN m.nodes
          BY <3>4, <4>1
        <5>2. m.nodes[d[i]].kids[1] \in Kids(m, d[i])
          BY <5>1 DEF MemoryOK, IsStatements, Kids, Range
        <5>3. m.nodes[d[i]].kids[1] \in DOMAIN m.nodes
          BY <5>1, <5>2, KidsDown
        <5>4. m.nodes[m.nodes[d[i]].kids[1]] \in NodeSet
          BY <5>3 DEF MemoryOK
        <5>5. m.nodes[m.nodes[d[i]].kids[1]].rank \in Nat
          BY <5>4, NodeIs
        <5>. QED
          BY <5>5 DEF ValueRank
      <4>3. \A i \in 1 .. Len(d) : d[i] \in Nat
        BY <4>1, KidsDown
      <4>4. ASSUME NEW i \in 1 .. Len(d) PROVE ValueRank(m, d[i]) <= ValueRank(m, b)
        <5>. HIDE DEF d
        <5>1. 1 \in 1 .. Len(d)
          BY <3>4, <3>6
        <5>2. CASE i = 1
          BY <3>4, <4>2, <5>1, <5>2
        <5>3. CASE i # 1
          <6>1. 1 < i
            BY <5>3
          <6>2. ValueRank(m, d[i]) < ValueRank(m, d[1])
            BY <3>4, <5>1, <6>1
          <6>. QED
            BY <3>4, <4>2, <5>1, <6>2
        <5>. QED
          BY <5>2, <5>3
      <4>. QED
        BY <4>1, <4>2, <4>3, <4>4
    <3>. HIDE DEF c, d
    <3>9. \A i \in 1 .. Len(c) : i = 1 \/ (i \in 2 .. Len(c) /\ i - 1 \in 1 .. Len(d))
      BY <3>6, <3>7
    <3>10. \A i \in 1 .. Len(c) : IsStatements(m, c[i])
      BY <2>3, <3>4, <3>7, <3>9
    <3>11. ASSUME NEW i \in 1 .. Len(c) - 1 PROVE c[i + 1] \in Kids(m, c[i])
      <4>1. i + 1 \in 2 .. Len(c) /\ (i + 1) - 1 = i
        BY <3>6, <3>7
      <4>2. c[i + 1] = d[i]
        BY <3>7, <4>1
      <4>3. CASE i = 1
        BY <3>2, <3>4, <3>7, <4>2, <4>3
      <4>4. CASE i # 1
        <5>1. i \in 2 .. Len(c) /\ i - 1 \in 1 .. Len(d) - 1 /\ (i - 1) + 1 = i
          BY <3>6, <3>7, <4>4
        <5>. QED
          BY <3>4, <3>7, <4>2, <5>1
      <4>. QED
        BY <4>3, <4>4
    <3>12. ASSUME NEW i \in 1 .. Len(c), NEW j \in 1 .. Len(c), i < j
           PROVE  c[j] < c[i] /\ ValueRank(m, c[j]) < ValueRank(m, c[i])
      <4>1. j \in 2 .. Len(c) /\ j - 1 \in 1 .. Len(d) /\ c[j] = d[j - 1]
        BY <3>7, <3>9, <3>12
      <4>2. CASE i = 1
        <5>1. d[j - 1] \in Nat /\ d[j - 1] <= b /\ ValueRank(m, d[j - 1]) \in Int
              /\ ValueRank(m, d[j - 1]) <= ValueRank(m, b)
          BY <3>8, <4>1
        <5>2. ValueRank(m, b) \in Int
          BY <3>4, <3>6, <3>8
        <5>. QED
          BY <2>3, <2>9, <3>1, <3>2, <3>7, <4>1, <4>2, <5>1, <5>2
      <4>3. CASE i # 1
        <5>1. i - 1 \in 1 .. Len(d) /\ c[i] = d[i - 1] /\ i - 1 < j - 1
          BY <3>7, <3>9, <3>12, <4>3
        <5>. QED
          BY <3>4, <4>1, <5>1
      <4>. QED
        BY <4>2, <4>3
    <3>13. Len(c) > 0
      BY <3>6, <3>7
    <3>14. ChainOK(m, a)
      BY <3>7, <3>10, <3>11, <3>12, <3>13 DEF ChainOK, c
    <3>. QED
      BY <3>14
  <2>. QED
    BY <2>10, <2>11
<1>. QED
  BY <1>1

LEMMA LiveParent ==
    ASSUME NEW m, NEW R, Good(m, R), NEW a \in Live(m, R)
    PROVE  a \in R \/ \E p \in Live(m, R) : a \in Kids(m, p)
<1>1. PICK r \in R : a \in Below(m)[r]
  BY DEF Live
<1>2. MemoryOK(m) /\ r \in DOMAIN m.nodes /\ Below(m)[r] \subseteq Live(m, R)
  BY DEF Good, Live
<1>. QED
  BY <1>1, <1>2, Parent

(* A live node is a block of its own or an element of an array.              *)
LEMMA BlockIs ==
    ASSUME NEW m, NEW R, Good(m, R), NEW a \in Live(m, R)
    PROVE  m.nodes[a].block = a \/ (m.nodes[a].block < 0 /\ ~m.nodes[a].heap)
<1>1. MemoryOK(m) /\ R \subseteq DOMAIN m.nodes /\ Blocks(m, R, Live(m, R))
  BY DEF Good, NodesOK
<1>2. CASE a \in R
  BY <1>1, <1>2 DEF Blocks
<1>3. CASE a \notin R
  <2>1. PICK p \in Live(m, R) : a \in Kids(m, p)
    BY <1>3, LiveParent
  <2>2. p \in Nat /\ p > 0
    BY <1>1, LiveWithin, KidsDown
  <2>. QED
    BY <1>1, <2>1, <2>2 DEF Blocks
<1>. QED
  BY <1>2, <1>3

InReach(m, spent) == spent \subseteq -m.last .. m.last

(* A walk through live nodes that frees some of their blocks and some that   *)
(* no node is in finds nothing freed.                                        *)
LEMMA WalkedIs ==
    ASSUME NEW m, NEW R, Good(m, R), NEW T, T \subseteq Live(m, R), NEW spent,
           \A k \in spent \cap T : m.nodes[k].block = k,
           InReach(m, spent)
    PROVE  LET w == Walked(m, T, spent)
           IN  /\ MemoryOK(w)
               /\ w.nodes = m.nodes /\ w.last = m.last
               /\ w.freed = m.freed \cup spent /\ ~w.fault
<1> SUFFICES ASSUME NEW w, w = Walked(m, T, spent)
             PROVE  /\ MemoryOK(w)
                    /\ w.nodes = m.nodes /\ w.last = m.last
                    /\ w.freed = m.freed \cup spent /\ ~w.fault
  OBVIOUS
<1>1. MemoryOK(m) /\ ~m.fault /\ \A a \in T : m.nodes[a].block \notin m.freed
  BY DEF Good, NodesOK, Whole
<1>2. Again(m, T) = {}
  BY NeverAgain
<1>. DEFINE fault == m.fault \/ \E n \in T :
                         \/ m.nodes[n].block \in m.freed
                         \/ n \in Again(m, T) /\ m.nodes[n].block \in spent
                         \/ n \in spent /\ m.nodes[n].block # n
<1>3. ~fault
  BY <1>1, <1>2
<1>4. m = [nodes |-> m.nodes, last |-> m.last, freed |-> m.freed, fault |-> m.fault]
  BY <1>1 DEF MemoryOK, IsMemory
<1>. HIDE DEF fault
<1>5. w = [nodes |-> m.nodes, last |-> m.last, freed |-> m.freed \cup spent, fault |-> fault]
  BY <1>4 DEF Walked, fault
<1>6. w.nodes = m.nodes /\ w.last = m.last /\ w.freed = m.freed \cup spent /\ w.fault = fault
  BY <1>5
<1>7. \A n : Kids(w, n) = Kids(m, n)
  BY <1>6 DEF Kids
<1>8. MemoryOK(w)
  <2>1. w.freed \subseteq -w.last .. w.last
    BY <1>1, <1>6 DEF MemoryOK, InReach
  <2>2. IsMemory(w)
    BY <1>1, <1>5, <1>6 DEF MemoryOK, IsMemory
  <2>. QED
    BY <1>1, <1>6, <1>7, <2>1, <2>2 DEF MemoryOK
<1>. QED
  BY <1>3, <1>6, <1>8

(* mk_list() makes a list of the statements of a tree of tuples, in their    *)
(* order.                                                                    *)
LEMMA ListMade ==
    ASSUME NEW m, NEW R, Good(m, R), NEW head \in R, IsStatements(m, head),
           NEW w, w = mk_list(m, head)
    PROVE  /\ MemoryOK(w)
           /\ \A n \in DOMAIN m.nodes : n \in DOMAIN w.nodes /\ w.nodes[n] = m.nodes[n]
           /\ Newest(w) \in DOMAIN w.nodes /\ Newest(w) > Newest(m)
           /\ w.nodes[Newest(w)].t = "list" /\ w.nodes[Newest(w)].rank = Newest(w)
           /\ Good(w, (R \ {head}) \cup {Newest(w)})
<1>. DEFINE D == DOMAIN m.nodes
            L == Live(m, R)
            c == Chain(m)[head]
            len == Len(c)
            value(i) == m.nodes[c[i]].kids[1]
            spent == Range(c) \cup {value(i) : i \in DOMAIN c}
            T == L \ spent
<1>1. /\ MemoryOK(m) /\ R \subseteq D /\ R \subseteq L /\ Closed(m, L) /\ L \subseteq D
      /\ NodesOK(m, R, L)
  BY LiveClosed DEF Good, Closed
<1>2. m.last \in Nat /\ \A n \in D : n \in Nat /\ n # Nil /\ n > 0 /\ n <= m.last
  BY <1>1, KidsDown DEF MemoryOK
<1>3. /\ c \in Seq(Below(m)[head]) /\ len > 0 /\ c[1] = head
      /\ \A i \in 1 .. len : IsStatements(m, c[i])
      /\ \A i \in 1 .. len - 1 : c[i + 1] \in Kids(m, c[i])
      /\ \A i, j \in 1 .. len :
             i < j => c[j] < c[i] /\ ValueRank(m, c[j]) < ValueRank(m, c[i])
  BY <1>1, ChainIs DEF ChainOK, NodesOK
<1>4. Below(m)[head] \subseteq L
  BY DEF Live
<1>5. c \in Seq(L) /\ len \in Nat /\ DOMAIN c = 1 .. len /\ \A i \in 1 .. len : c[i] \in L
  <2>. HIDE DEF c, L
  <2>. QED
    BY <1>3, <1>4, SeqWider
<1>. HIDE DEF L, c
<1>6. ASSUME NEW i \in 1 .. len
      PROVE  /\ c[i] \in L /\ c[i] \in D /\ m.nodes[c[i]].t = "tuple"
             /\ value(i) \in Kids(m, c[i]) /\ value(i) \in L /\ value(i) \in D
             /\ m.nodes[value(i)].t \in Statements
             /\ DOMAIN m.nodes[c[i]].kids = {1, 2}
             /\ value(i) = m.nodes[c[i]].kids[1] /\ value(i) # Nil
  <2>1. c[i] \in L /\ c[i] \in D /\ m.nodes[c[i]].t = "tuple" /\ m.nodes[value(i)].t \in Statements
    BY <1>1, <1>3, <1>5 DEF IsStatements
  <2>2. DOMAIN m.nodes[c[i]].kids = {1, 2} /\ value(i) # Nil
    BY <1>1, <2>1 DEF MemoryOK
  <2>3. value(i) \in Kids(m, c[i])
    BY <2>2 DEF Kids, Range
  <2>4. value(i) \in L
    BY <1>1, <2>1, <2>3 DEF Closed
  <2>. QED
    BY <1>1, <2>1, <2>2, <2>3, <2>4
<1>. HIDE DEF D
<1>7. ASSUME NEW i \in 1 .. len, NEW j \in 1 .. len, c[i] = c[j] PROVE i = j
  <2>1. c[i] \in Nat /\ c[j] \in Nat
    BY <1>2, <1>6
  <2>2. \A k, l \in 1 .. len : k < l => c[l] < c[k]
    BY <1>3
  <2>. HIDE DEF len
  <2>3. ASSUME i < j PROVE FALSE
    <3>1. c[j] < c[i]
      BY <2>2, <2>3
    <3>. QED
      BY <1>7, <2>1, <3>1
  <2>4. ASSUME j < i PROVE FALSE
    <3>1. c[i] < c[j]
      BY <2>2, <2>4
    <3>. QED
      BY <1>7, <2>1, <3>1
  <2>. QED
    BY <1>5, <2>3, <2>4
<1>8. ASSUME NEW i \in 1 .. len, NEW j \in 1 .. len, value(i) = value(j) PROVE i = j
  <2>1. c[i] = c[j]
    BY <1>6, <1>8, OneParent DEF L
  <2>. QED
    BY <1>7, <2>1
<1>9. spent \subseteq L
  BY <1>5, <1>6 DEF Range
<1>10. ASSUME NEW k \in spent
       PROVE  k = head \/ \E i \in 1 .. len : k \in Kids(m, c[i])
  <2>1. CASE k \in Range(c)
    <3>1. PICK i \in 1 .. len : k = c[i]
      BY <1>5, <2>1 DEF Range
    <3>2. CASE i = 1
      BY <1>3, <3>1, <3>2
    <3>3. CASE i # 1
      <4>1. i - 1 \in 1 .. len - 1 /\ i - 1 \in 1 .. len /\ (i - 1) + 1 = i
        BY <1>5, <3>3
      <4>2. c[i] \in Kids(m, c[i - 1])
        BY <1>3, <4>1
      <4>. QED
        BY <3>1, <4>1, <4>2
    <3>. QED
      BY <3>2, <3>3
  <2>2. CASE k \notin Range(c)
    <3>1. PICK i \in 1 .. len : k = value(i)
      BY <1>5, <2>2
    <3>. QED
      BY <1>6, <3>1
  <2>. QED
    BY <2>1, <2>2
<1>11. \A a \in L : Kids(m, a) \cap R = {}
  BY <1>1 DEF NodesOK, Forest
<1>12. ASSUME NEW a \in L, NEW k \in Kids(m, a), k \in spent PROVE a \in spent
  <2>1. k # head
    BY <1>11, <1>12
  <2>2. PICK i \in 1 .. len : k \in Kids(m, c[i])
    BY <1>10, <1>12, <2>1
  <2>3. a = c[i]
    BY <1>6, <1>12, <2>2, OneParent DEF L
  <2>. QED
    BY <1>5, <2>3 DEF Range
<1>13. \A k \in spent : m.nodes[k].block = k
  <2>1. Blocks(m, R, L)
    BY <1>1 DEF NodesOK
  <2>2. m.nodes[head].block = head
    BY <2>1 DEF Blocks
  <2>3. ASSUME NEW i \in 1 .. len, NEW k \in Kids(m, c[i]) PROVE m.nodes[k].block = k
    <3>1. c[i] \in L /\ m.nodes[c[i]].t # "list"
      BY <1>6
    <3>. QED
      BY <2>1, <3>1 DEF Blocks
  <2>. QED
    BY <1>10, <2>2, <2>3
<1>. HIDE DEF spent
<1>. DEFINE list == m.last + (len + 1)
            walked == Walked(m, spent, spent)
            order == [i \in DOMAIN c |-> len + 1 - i]
            from(i) == value(order[i])
            E == {m.last + i : i \in DOMAIN c}
            elements ==
                [n \in E |-> [m.nodes[from(n - m.last)] EXCEPT !.heap = FALSE, !.block = -list]]
            node == Node(Content("list", [i \in DOMAIN c |-> m.last + i]), TRUE, list, list)
            some == Extended(walked, elements, list)
            last == [n \in {list} |-> node]
<1>14. w = Extended(some, last, list)
  BY Zenon DEF mk_list, Listed, Newest, c, spent
<1>15. /\ MemoryOK(walked)
       /\ walked.nodes = m.nodes /\ walked.last = m.last
       /\ walked.freed = m.freed \cup spent /\ ~walked.fault
  <2>1. InReach(m, spent)
    <3>1. \A k \in spent : k \in Nat /\ k <= m.last
      BY <1>1, <1>2, <1>9
    <3>. QED
      BY <1>2, <3>1 DEF InReach
  <2>2. spent \subseteq Live(m, R)
    BY <1>9 DEF L
  <2>3. \A k \in spent \cap spent : m.nodes[k].block = k
    BY <1>13
  <2>. QED
    BY <2>1, <2>2, <2>3, WalkedIs
<1>. HIDE DEF walked
<1>16. /\ list \in Nat /\ list > m.last /\ list \notin D
       /\ \A i \in 1 .. len : /\ m.last + i \in Nat /\ m.last + i > m.last /\ m.last + i < list
                              /\ m.last + i \notin D /\ m.last + i # list /\ m.last + i # Nil
                              /\ m.last + i \in E /\ (m.last + i) - m.last = i
                              /\ order[i] = len + 1 - i /\ order[i] \in 1 .. len
  BY <1>2, <1>5 DEF Nil
<1>. HIDE DEF order, list
<1>17. /\ DOMAIN elements = E
       /\ \A i \in 1 .. len :
              elements[m.last + i] = [m.nodes[from(i)] EXCEPT !.heap = FALSE, !.block = -list]
  <2>. HIDE DEF value, E
  <2>. QED
    BY <1>16, Zenon
<1>. HIDE DEF elements
<1>18. /\ IsMemory(some)
       /\ some.last = list /\ some.freed = m.freed \cup spent /\ ~some.fault
       /\ DOMAIN some.nodes = D \cup E
       /\ \A n \in E : some.nodes[n] = elements[n]
       /\ \A n \in D : some.nodes[n] = m.nodes[n]
  <2>1. IsMemory(walked)
    BY <1>15 DEF MemoryOK
  <2>2. \A n \in D : n \notin E
    BY <1>5, <1>16
  <2>. HIDE DEF some, E
  <2>3. some = Extended(walked, elements, list)
    BY DEF some
  <2>4. DOMAIN elements = E
    BY <1>17
  <2>5. /\ IsMemory(some)
        /\ some.last = list /\ some.freed = walked.freed /\ some.fault = walked.fault
        /\ DOMAIN some.nodes = DOMAIN walked.nodes \cup DOMAIN elements
        /\ \A n \in DOMAIN elements : some.nodes[n] = elements[n]
        /\ \A n \in DOMAIN walked.nodes \ DOMAIN elements : some.nodes[n] = walked.nodes[n]
    BY <2>1, <2>3, ExtendedIs
  <2>. QED
    BY <1>15, <2>2, <2>4, <2>5 DEF D
<1>. HIDE DEF some
<1>19. /\ IsMemory(w)
       /\ w.last = list /\ w.freed = m.freed \cup spent /\ ~w.fault
       /\ DOMAIN w.nodes = D \cup E \cup {list}
       /\ w.nodes[list] = node
       /\ \A i \in 1 .. len : w.nodes[m.last + i] = elements[m.last + i]
       /\ \A n \in D : w.nodes[n] = m.nodes[n]
  <2>1. DOMAIN last = {list} /\ last[list] = node
    OBVIOUS
  <2>2. list \notin D /\ list \notin E /\ \A i \in 1 .. len : m.last + i \in E
    BY <1>5, <1>16
  <2>. HIDE DEF last, E, node
  <2>. QED
    BY <1>14, <1>18, <2>1, <2>2, ExtendedIs
<1>20. /\ node.t = "list" /\ node.heap /\ node.block = list /\ node.rank = list
       /\ node.kids = [i \in 1 .. len |-> m.last + i]
       /\ node \in NodeSet
  <2>. DEFINE kids == [i \in DOMAIN c |-> m.last + i]
  <2>1. kids = [i \in 1 .. len |-> m.last + i]
    BY <1>5
  <2>2. kids \in [1 .. len -> Nat]
    BY <1>16, <2>1
  <2>3. kids \in Seq(Nat)
    <3>. HIDE DEF kids
    <3>. QED
      BY <1>5, <2>2, SeqOfNumbers
  <2>4. "list" \in Types \cup Names /\ list \in Nat /\ list \in Int
    BY <1>16 DEF Types
  <2>. HIDE DEF kids
  <2>5. node = HeapNode("list", kids, list, list)
    BY DEF HeapNode, kids
  <2>. DEFINE x == HeapNode("list", kids, list, list)
  <2>6. x \in NodeSet /\ x.t = "list" /\ x.kids = kids /\ x.heap /\ x.block = list /\ x.rank = list
    BY <2>3, <2>4, NewNode
  <2>. HIDE DEF node, x
  <2>7. node = x
    BY <2>5 DEF x
  <2>. QED
    BY <2>1, <2>6, <2>7
<1>21. ASSUME NEW i \in 1 .. len
       PROVE  LET v == from(i)
                  e == w.nodes[m.last + i]
              IN  /\ v \in D /\ v \in L /\ v \in spent
                  /\ e \in NodeSet
                  /\ e.t = m.nodes[v].t /\ e.kids = m.nodes[v].kids /\ e.rank = m.nodes[v].rank
                  /\ ~e.heap /\ e.block = -list /\ e.t \in Statements
                  /\ Kids(w, m.last + i) = Kids(m, v)
  <2>. DEFINE v == from(i)
              e == w.nodes[m.last + i]
  <2>1. order[i] \in 1 .. len
    BY <1>16
  <2>2. v \in D /\ v \in L /\ v \in spent /\ m.nodes[v].t \in Statements
    BY <1>5, <1>6, <2>1 DEF spent
  <2>. HIDE DEF v
  <2>3. m.nodes[v] \in NodeSet
    BY <1>1, <2>2 DEF MemoryOK, D
  <2>4. e = Moved(m.nodes[v], -list)
    BY <1>17, <1>19, Zenon DEF v, Moved
  <2>. HIDE DEF e
  <2>5. e \in NodeSet /\ e.t = m.nodes[v].t /\ e.kids = m.nodes[v].kids /\ e.rank = m.nodes[v].rank
        /\ ~e.heap /\ e.block = -list
    <3>. DEFINE node_v == m.nodes[v]
                block == -list
    <3>1. block \in Int
      BY <1>16
    <3>2. node_v \in NodeSet /\ e = Moved(node_v, block)
      BY <2>3, <2>4
    <3>. HIDE DEF node_v, block
    <3>3. /\ e \in NodeSet /\ e.t = node_v.t /\ e.kids = node_v.kids /\ e.rank = node_v.rank
          /\ ~e.heap /\ e.block = block
      BY <3>1, <3>2, NodeMoved
    <3>. QED
      BY <3>3 DEF node_v, block
  <2>6. Kids(w, m.last + i) = Kids(m, v)
    BY <2>5 DEF Kids, e
  <2>. QED
    BY <2>2, <2>5, <2>6 DEF e, v
<1>. HIDE DEF node, value
<1>22. Kids(w, list) = E
  <2>1. Range(node.kids) = E
    BY <1>5, <1>16, <1>20 DEF Range
  <2>2. Nil \notin E
    BY <1>5, <1>16
  <2>. HIDE DEF E
  <2>. QED
    BY <1>19, <2>1, <2>2 DEF Kids
<1>23. \A n \in D : Kids(w, n) = Kids(m, n)
  BY <1>19 DEF Kids
<1>24. \A n \in E : \E i \in 1 .. len : n = m.last + i
  BY <1>5
<1>25. Statements = {"instr", "label", "macro"}
  BY DEF Statements
<1>26. \A n \in D : n <= m.last /\ n < list /\ n \in Nat
  BY <1>2, <1>16
<1>. HIDE DEF E, from
<1>27. MemoryOK(w)
  <2>1. w.freed \subseteq -w.last .. w.last
    <3>1. m.freed \subseteq -m.last .. m.last
      BY <1>1 DEF MemoryOK
    <3>2. \A k \in spent : k \in D
      BY <1>1, <1>9
    <3>3. \A k \in m.freed : k \in -list .. list
      BY <1>2, <1>16, <3>1
    <3>4. \A k \in spent : k \in -list .. list
      BY <1>16, <1>26, <3>2
    <3>. QED
      BY <1>19, <3>3, <3>4
  <2>2. DOMAIN w.nodes \subseteq 1 .. w.last
    <3>1. \A n \in D : n \in 1 .. list
      BY <1>2, <1>16, <1>26
    <3>2. \A n \in E : n \in 1 .. list
      BY <1>2, <1>16, <1>24
    <3>3. list \in 1 .. list
      BY <1>2, <1>16
    <3>. QED
      BY <1>19, <3>1, <3>2, <3>3
  <2>3. ASSUME NEW n \in DOMAIN w.nodes
        PROVE  /\ w.nodes[n] \in NodeSet
               /\ w.nodes[n].rank <= n
               /\ \A k \in Kids(w, n) : k \in DOMAIN w.nodes /\ k < n
               /\ w.nodes[n].t \in {"tuple", "instr"} =>
                      DOMAIN w.nodes[n].kids = {1, 2} /\ w.nodes[n].kids[1] # Nil
               /\ w.nodes[n].t = "list" => Nil \notin Range(w.nodes[n].kids)
    <3>1. CASE n = list
      <4>1. \A k \in E : k \in DOMAIN w.nodes /\ k < list
        BY <1>16, <1>19, <1>24
      <4>2. Nil \notin Range(node.kids)
        BY <1>16, <1>20 DEF Range
      <4>3. node.rank <= list
        BY <1>16, <1>20
      <4>. QED
        BY <1>19, <1>20, <1>22, <3>1, <4>1, <4>2, <4>3
    <3>2. CASE n \in D
      <4>1. \A k \in Kids(m, n) : k \in D /\ k < n
        BY <1>1, <3>2, KidsDown DEF D
      <4>. QED
        BY <1>1, <1>19, <1>23, <3>2, <4>1 DEF MemoryOK, D
    <3>3. CASE n \in E
      <4>1. PICK i \in 1 .. len : n = m.last + i
        BY <1>24, <3>3
      <4>. DEFINE v == from(i)
                  e == w.nodes[m.last + i]
      <4>0. /\ v \in D /\ e \in NodeSet /\ e.t \in Statements
            /\ e.t = m.nodes[v].t /\ e.kids = m.nodes[v].kids /\ e.rank = m.nodes[v].rank
            /\ Kids(w, m.last + i) = Kids(m, v)
        BY <1>21
      <4>. HIDE DEF v, e
      <4>2. v \in D /\ v \in Nat /\ v < n
        <5>1. m.last + i > m.last /\ m.last + i \in Nat
          BY <1>16
        <5>2. v \in Nat /\ v <= m.last
          BY <1>26, <4>0
        <5>. QED
          BY <1>2, <4>0, <4>1, <5>1, <5>2
      <4>3. \A k \in Kids(m, v) : k \in D /\ k < v /\ k \in Nat
        BY <1>1, <1>26, <4>2, KidsDown DEF D
      <4>4. m.nodes[v].rank <= v /\ m.nodes[v].rank \in Nat
            /\ (m.nodes[v].t \in {"tuple", "instr"} =>
                   DOMAIN m.nodes[v].kids = {1, 2} /\ m.nodes[v].kids[1] # Nil)
        BY <1>1, <4>2, NodeIs DEF MemoryOK, D
      <4>5. n \in Nat
        BY <1>16, <4>1
      <4>6. w.nodes[n].rank <= n
        BY <4>0, <4>1, <4>2, <4>4, <4>5 DEF e
      <4>7. \A k \in Kids(w, n) : k \in DOMAIN w.nodes /\ k < n
        BY <1>19, <4>0, <4>1, <4>2, <4>3, <4>5
      <4>. QED
        BY <4>0, <1>25, <4>1, <4>4, <4>6, <4>7 DEF e
    <3>. QED
      BY <1>19, <3>1, <3>2, <3>3
  <2>. QED
    BY <1>16, <1>19, <2>1, <2>2, <2>3 DEF MemoryOK
<1>28. Keeps(m, w)
  BY <1>19, <1>27 DEF Keeps, D
<1>. DEFINE N == E \cup {list}
            VK == UNION {Kids(m, value(i)) : i \in 1 .. len}
            Q == (R \ {head}) \cup VK
            Roots == (R \ {head}) \cup {list}
<1>29. ASSUME NEW i \in 1 .. len
       PROVE  value(i) \in L /\ value(i) \in spent /\ m.nodes[value(i)].t \in Statements
  BY <1>5, <1>6 DEF spent
<1>30. head \in spent
  BY <1>3, <1>5 DEF spent, Range
<1>31. ASSUME NEW i \in 1 .. len, NEW k \in Kids(m, value(i)) PROVE k \in L /\ k \notin spent
  <2>1. k \in L
    BY <1>1, <1>29 DEF Closed
  <2>2. k # head
    BY <1>11, <1>29
  <2>3. ASSUME NEW j \in 1 .. len, k \in Kids(m, c[j]) PROVE FALSE
    <3>1. value(i) = c[j]
      BY <1>6, <1>29, <2>3, OneParent DEF L
    <3>2. m.nodes[value(i)].t \in Statements /\ m.nodes[c[j]].t = "tuple"
      BY <1>6, <1>29
    <3>. QED
      BY <1>25, <3>1, <3>2
  <2>. QED
    BY <1>10, <2>1, <2>2, <2>3
<1>32. ASSUME NEW r \in R, r # head PROVE r \in L /\ r \notin spent
  BY <1>1, <1>6, <1>10, <1>11, <1>32
<1>33. Q \subseteq T /\ T \subseteq L /\ T \subseteq D
  BY <1>1, <1>31, <1>32
<1>34. Closed(m, T)
  <2>1. \A a \in T : Kids(m, a) \subseteq T
    BY <1>1, <1>12 DEF Closed
  <2>. QED
    BY <1>33, <2>1 DEF Closed, D
<1>35. NodesOK(m, Q, T)
  <2>1. NodesOK(m, R \ {head}, T)
    <3>1. R \ {head} \subseteq R
      OBVIOUS
    <3>. HIDE DEF T
    <3>. QED
      BY <1>1, <1>33, <3>1, NodesWithin
  <2>2. \A a \in T : Kids(m, a) \cap Q = {}
    <3>1. ASSUME NEW a \in T, NEW i \in 1 .. len, NEW k \in Kids(m, value(i)), k \in Kids(m, a)
          PROVE  FALSE
      <4>1. a \in L /\ a \notin spent
        OBVIOUS
      <4>2. a = value(i)
        BY <1>29, <3>1, <4>1, OneParent DEF L
      <4>. QED
        BY <1>29, <4>1, <4>2
    <3>2. \A a \in T : Kids(m, a) \cap R = {}
      BY <1>11
    <3>. QED
      BY <3>1, <3>2
  <2>3. \A r \in Q : m.nodes[r].block = r
    <3>1. Blocks(m, R, L)
      BY <1>1 DEF NodesOK
    <3>2. \A r \in R : m.nodes[r].block = r
      BY <3>1 DEF Blocks
    <3>3. ASSUME NEW i \in 1 .. len, NEW k \in Kids(m, value(i)) PROVE m.nodes[k].block = k
      <4>1. m.nodes[value(i)].t # "list" /\ value(i) \in L
        BY <1>25, <1>29
      <4>. QED
        BY <3>1, <4>1 DEF Blocks
    <3>. QED
      BY <3>2, <3>3
  <2>4. Forest(m, Q, T)
    BY <2>1, <2>2 DEF NodesOK, Forest
  <2>5. Blocks(m, Q, T)
    BY <2>1, <2>3 DEF NodesOK, Blocks
  <2>. QED
    BY <2>1, <2>4, <2>5 DEF NodesOK
<1>36. Whole(w, T)
  <2>1. ASSUME NEW a \in T PROVE w.nodes[a].block \notin w.freed
    <3>1. a \in L /\ a \in D /\ a \notin spent /\ w.nodes[a] = m.nodes[a]
      BY <1>19, <1>33
    <3>2. m.nodes[a].block \notin m.freed
      BY <1>1, <3>1 DEF NodesOK, Whole
    <3>3. m.nodes[a].block = a \/ m.nodes[a].block < 0
      BY <3>1, BlockIs DEF L
    <3>4. \A k \in spent : k \in Nat
      BY <1>1, <1>9, <1>26
    <3>5. m.nodes[a].block \notin spent
      BY <3>1, <3>3, <3>4
    <3>. QED
      BY <1>19, <3>1, <3>2, <3>5
  <2>. QED
    BY <1>19, <2>1 DEF Whole
<1>37. Closed(w, T) /\ NodesOK(w, Q, T)
  <2>. HIDE DEF T, Q
  <2>. QED
    BY <1>1, <1>28, <1>33, <1>34, <1>35, <1>36, KeepsNodes
<1>. HIDE DEF T, Q, VK
<1>38. ASSUME NEW i \in 1 .. len
       PROVE  LET e == w.nodes[m.last + i]
                  v == from(i)
              IN  /\ v \in L /\ v \in spent
                  /\ e.t = m.nodes[v].t /\ e.kids = m.nodes[v].kids /\ e.rank = m.nodes[v].rank
                  /\ ~e.heap /\ e.block = -list /\ e.t \in Statements
                  /\ e.t # "list" /\ e.t # "tuple"
                  /\ Kids(w, m.last + i) = Kids(m, v)
                  /\ Kids(m, v) \subseteq D /\ Kids(m, v) \subseteq Q /\ Kids(m, v) \subseteq L
  <2>1. from(i) \in L /\ from(i) = value(order[i]) /\ order[i] \in 1 .. len
    BY <1>16, <1>21 DEF from
  <2>2. Kids(m, from(i)) \subseteq L /\ Kids(m, from(i)) \subseteq D
    BY <1>1, <2>1 DEF Closed
  <2>3. Kids(m, from(i)) \subseteq Q
    BY <2>1 DEF Q, VK
  <2>4. \A t \in Statements : t # "list" /\ t # "tuple"
    BY <1>25
  <2>. QED
    BY <1>21, <2>1, <2>2, <2>3, <2>4
<1>39. ASSUME NEW i \in 1 .. len, NEW j \in 1 .. len, from(i) = from(j) PROVE i = j
  <2>1. order[i] = order[j]
    <3>1. order[i] \in 1 .. len /\ order[j] \in 1 .. len
      BY <1>16
    <3>2. value(order[i]) = value(order[j])
      BY <1>39 DEF from
    <3>. QED
      BY <1>8, <3>1, <3>2
  <2>2. order[i] = len + 1 - i /\ order[j] = len + 1 - j
    BY <1>16
  <2>3. i \in Int /\ j \in Int /\ len \in Int
    BY <1>5
  <2>4. len + 1 - i = len + 1 - j
    BY <2>1, <2>2
  <2>. HIDE DEF len
  <2>. QED
    BY <2>3, <2>4
<1>40. N \cap T = {} /\ N \cap D = {} /\ N \cap R = {} /\ Roots \cap T \subseteq Q
  <2>1. N \cap D = {}
    BY <1>16, <1>24
  <2>2. Roots \cap T \subseteq Q
    BY <1>16, <1>33 DEF Q
  <2>. QED
    BY <1>1, <1>33, <2>1, <2>2 DEF D
<1>41. \A a \in N : a = list \/ \E i \in 1 .. len : a = m.last + i
  BY <1>24
<1>42. \A a \in N : Kids(w, a) \cap T \subseteq Q
  BY <1>22, <1>38, <1>40, <1>41
<1>43. Forest(w, Roots, N)
  <2>1. ASSUME NEW a \in N, NEW b \in N,
               NEW x \in DOMAIN w.nodes[a].kids, NEW y \in DOMAIN w.nodes[b].kids,
               w.nodes[a].kids[x] = w.nodes[b].kids[y], w.nodes[a].kids[x] # Nil
        PROVE  a = b /\ x = y
    <3>1. w.nodes[a].kids[x] \in Kids(w, a) /\ w.nodes[a].kids[x] \in Kids(w, b)
      BY <2>1 DEF Kids, Range
    <3>2. CASE a = list /\ b = list
      <4>1. x \in 1 .. len /\ y \in 1 .. len /\ m.last + x = m.last + y
        BY <1>19, <1>20, <2>1, <3>2
      <4>. QED
        BY <1>2, <3>2, <4>1
    <3>3. CASE a = list /\ b # list
      BY <1>22, <1>38, <1>40, <1>41, <3>1, <3>3
    <3>4. CASE a # list /\ b = list
      BY <1>22, <1>38, <1>40, <1>41, <3>1, <3>4
    <3>5. CASE a # list /\ b # list
      <4>1. PICK i \in 1 .. len : a = m.last + i
        BY <1>41, <3>5
      <4>2. PICK j \in 1 .. len : b = m.last + j
        BY <1>41, <3>5
      <4>3. from(i) \in L /\ w.nodes[a].kids = m.nodes[from(i)].kids
        BY <1>38, <4>1
      <4>4. from(j) \in L /\ w.nodes[b].kids = m.nodes[from(j)].kids
        BY <1>38, <4>2
      <4>5. from(i) = from(j) /\ x = y
        BY <1>1, <2>1, <4>3, <4>4 DEF NodesOK, Forest
      <4>. QED
        BY <1>39, <4>1, <4>2, <4>5
    <3>. QED
      BY <3>2, <3>3, <3>4, <3>5
  <2>2. ASSUME NEW a \in N PROVE Kids(w, a) \cap Roots = {}
    <3>1. CASE a = list
      <4>1. E \cap R = {} /\ list \notin E
        BY <1>16, <1>24, <1>40
      <4>. QED
        BY <1>22, <3>1, <4>1
    <3>2. CASE a # list
      <4>1. PICK i \in 1 .. len : a = m.last + i
        BY <1>41, <3>2
      <4>2. Kids(w, a) = Kids(m, from(i)) /\ from(i) \in L /\ Kids(w, a) \subseteq D
        BY <1>38, <4>1
      <4>. QED
        BY <1>11, <1>16, <4>2
    <3>. QED
      BY <3>1, <3>2
  <2>. QED
    BY <2>1, <2>2 DEF Forest
<1>44. Whole(w, N)
  <2>1. list \notin w.freed /\ -list \notin w.freed
    <3>1. m.freed \subseteq -m.last .. m.last
      BY <1>1 DEF MemoryOK
    <3>2. \A k \in spent : k \in Nat /\ k <= m.last
      BY <1>1, <1>9, <1>26
    <3>. QED
      BY <1>2, <1>16, <1>19, <3>1, <3>2
  <2>. QED
    BY <1>19, <1>20, <1>38, <1>41, <2>1 DEF Whole
<1>45. Blocks(w, Roots, N)
  <2>1. ASSUME NEW r \in Roots PROVE w.nodes[r].block = r
    <3>1. CASE r = list
      BY <1>19, <1>20, <3>1
    <3>2. CASE r # list
      BY <1>1, <1>19, <3>2 DEF NodesOK, Blocks
    <3>. QED
      BY <3>1, <3>2
  <2>2. ASSUME NEW a \in N, NEW k \in Kids(w, a)
        PROVE  IF w.nodes[a].t = "list" THEN w.nodes[k].block = -a /\ ~w.nodes[k].heap
                                        ELSE w.nodes[k].block = k
    <3>1. CASE a = list
      <4>1. PICK i \in 1 .. len : k = m.last + i
        BY <1>22, <1>24, <2>2, <3>1
      <4>. QED
        BY <1>19, <1>20, <1>38, <3>1, <4>1
    <3>2. CASE a # list
      <4>1. PICK i \in 1 .. len : a = m.last + i
        BY <1>41, <3>2
      <4>2. k \in Q /\ k \in D /\ w.nodes[a].t # "list"
        BY <1>38, <2>2, <4>1
      <4>3. m.nodes[k].block = k
        BY <1>35, <4>2 DEF NodesOK, Blocks
      <4>. QED
        BY <1>19, <4>2, <4>3
    <3>. QED
      BY <3>1, <3>2
  <2>. QED
    BY <2>1, <2>2 DEF Blocks
<1>46. Ordered(w, N)
  <2>1. ASSUME NEW x \in 1 .. len, NEW y \in 1 .. len, x < y
        PROVE  w.nodes[m.last + x].rank < w.nodes[m.last + y].rank
    <3>1. order[x] \in 1 .. len /\ order[y] \in 1 .. len /\ order[y] < order[x]
      <4>1. order[x] = len + 1 - x /\ order[y] = len + 1 - y
            /\ order[x] \in 1 .. len /\ order[y] \in 1 .. len
        BY <1>16
      <4>. QED
        BY <1>5, <2>1, <4>1
    <3>2. ValueRank(m, c[order[x]]) < ValueRank(m, c[order[y]])
      BY <1>3, <3>1
    <3>3. \A i \in 1 .. len : w.nodes[m.last + i].rank = ValueRank(m, c[order[i]])
      BY <1>38 DEF from, value, ValueRank
    <3>. QED
      BY <3>2, <3>3
  <2>. QED
    BY <1>19, <1>20, <1>38, <1>41, <2>1 DEF Ordered
<1>47. Descends(w, N)
  <2>1. \A a \in N : w.nodes[a].t # "tuple"
    BY <1>19, <1>20, <1>38, <1>41
  <2>. QED
    BY <2>1 DEF Descends, IsStatements
<1>48. Instrs(w, N)
  <2>1. ASSUME NEW a \in N, w.nodes[a].t = "instr" PROVE Flat(w, w.nodes[a].kids[2])
    <3>1. a # list
      BY <1>19, <1>20, <2>1
    <3>2. PICK i \in 1 .. len : a = m.last + i
      BY <1>41, <3>1
    <3>. DEFINE v == from(i)
                b == m.nodes[v].kids[2]
    <3>3. v \in L /\ m.nodes[v].t = "instr" /\ w.nodes[a].kids = m.nodes[v].kids
          /\ Kids(m, v) \subseteq D
      BY <1>38, <2>1, <3>2
    <3>4. Flat(m, b)
      BY <1>1, <3>3 DEF NodesOK, Instrs
    <3>5. DOMAIN m.nodes[v].kids = {1, 2}
      BY <1>1, <3>3 DEF MemoryOK, D
    <3>6. b = Nil \/ b \in Kids(m, v)
      BY <3>5 DEF Kids, Range
    <3>7. CASE b = Nil
      BY <1>27, <3>3, <3>7, BelowDef DEF Flat
    <3>8. CASE b \in Kids(m, v)
      BY <1>1, <1>28, <3>3, <3>4, <3>8, KeepsBelow DEF D
    <3>. QED
      BY <3>6, <3>7, <3>8
  <2>. QED
    BY <2>1 DEF Instrs
<1>49. NodesOK(w, Roots, N)
  BY <1>43, <1>44, <1>45, <1>46, <1>47, <1>48 DEF NodesOK
<1>50. NodesOK(w, Roots, T \cup N)
  <2>. HIDE DEF Roots, N
  <2>. QED
    BY <1>37, <1>40, <1>42, <1>49, Joined
<1>51. Closed(w, T \cup N)
  <2>1. ASSUME NEW a \in N PROVE Kids(w, a) \subseteq T \cup N
    <3>1. CASE a = list
      BY <1>22, <3>1
    <3>2. CASE a # list
      <4>1. PICK i \in 1 .. len : a = m.last + i
        BY <1>41, <3>2
      <4>. QED
        BY <1>33, <1>38, <4>1
    <3>. QED
      BY <3>1, <3>2
  <2>2. T \cup N \subseteq DOMAIN w.nodes
    BY <1>19, <1>33
  <2>. QED
    BY <1>37, <2>1, <2>2 DEF Closed
<1>52. Roots \subseteq T \cup N
  BY <1>33 DEF Q
<1>53. Good(w, Roots)
  <2>. HIDE DEF Roots, N
  <2>. QED
    BY <1>27, <1>50, <1>51, <1>52, GoodIntro
<1>54. Newest(w) = list /\ Newest(w) > Newest(m)
  BY <1>16, <1>19 DEF Newest
<1>. QED
  BY <1>19, <1>20, <1>27, <1>53, <1>54 DEF D

-----------------------------------------------------------------------------
(* Copies.                                                                   *)

LEMMA LeastOf ==
    ASSUME NEW T, T \subseteq Nat, T # {}
    PROVE  Min(T) \in T /\ \A k \in T : Min(T) <= k
<1>1. \E n \in T : \A k \in T : n <= k
  BY LeastNumber
<1>. QED
  BY <1>1 DEF Min

(* ast_copy_tree() makes a tree of its own.                                  *)
LEMMA TreeCopied ==
    ASSUME NEW m, NEW R, Good(m, R), NEW n \in Live(m, R), Flat(m, n),
           NEW w, w = ast_copy_tree(m, n)
    PROVE  /\ Keeps(m, w)
           /\ Newest(w) \in DOMAIN w.nodes /\ Newest(w) > Newest(m)
           /\ Flat(w, Newest(w))
           /\ Good(w, R \cup {Newest(w)})
<1>. DEFINE D == DOMAIN m.nodes
            L == Live(m, R)
            tree == Below(m)[n]
            distance == Newest(m) + 1 - Min(tree)
            copy(k) == IF k = Nil THEN Nil ELSE k + distance
            copies(k) == [i \in DOMAIN m.nodes[k].kids |-> copy(m.nodes[k].kids[i])]
            new(k, c) == HeapNode(m.nodes[k].t, copies(k), c, c)
            N == {copy(k) : k \in tree}
            more == [c \in N |-> new(c - distance, c)]
            walked == Walked(m, tree, {})
            top == n + distance
            Roots == R \cup {top}
<1>1. /\ MemoryOK(m) /\ R \subseteq D /\ R \subseteq L /\ Closed(m, L) /\ L \subseteq D
      /\ NodesOK(m, R, L) /\ n \in D /\ n \in L
  BY LiveClosed DEF Good, Closed
<1>2. m.last \in Nat /\ \A k \in D : k \in Nat /\ k # Nil /\ k > 0 /\ k <= m.last
  BY <1>1, KidsDown DEF MemoryOK
<1>3. /\ tree \subseteq L /\ tree \subseteq D /\ n \in tree /\ Closed(m, tree)
      /\ \A k \in tree : k <= n
  BY <1>1, LiveWithin, BelowClosed, BelowWithin DEF Closed
<1>4. \A k \in tree : m.nodes[k].t \notin Statements /\ m.nodes[k].t # "list"
  BY DEF Flat
<1>. HIDE DEF L, tree
<1>5. Min(tree) \in Nat /\ Min(tree) <= m.last /\ \A k \in tree : Min(tree) <= k
  <2>1. tree \subseteq Nat /\ tree # {}
    BY <1>2, <1>3
  <2>2. Min(tree) \in tree /\ \A k \in tree : Min(tree) <= k
    BY <2>1, LeastOf
  <2>. QED
    BY <1>2, <1>3, <2>2
<1>6. distance \in Nat /\ distance > 0 /\ distance = m.last + 1 - Min(tree)
  BY <1>2, <1>5 DEF Newest
<1>7. ASSUME NEW k \in tree
      PROVE  /\ k \in D /\ k \in Nat /\ k # Nil /\ copy(k) = k + distance
             /\ k + distance \in Nat /\ k + distance > m.last /\ k + distance <= top
             /\ k + distance \notin D /\ k + distance # Nil
             /\ k + distance \in N /\ (k + distance) - distance = k
  <2>1. k \in D /\ k \in Nat /\ k # Nil /\ k <= n /\ n \in Nat /\ Min(tree) <= k
    BY <1>1, <1>2, <1>3, <1>5
  <2>2. k + distance > m.last
    BY <1>2, <1>5, <1>6, <2>1
  <2>. HIDE DEF distance
  <2>3. k + distance \in Nat /\ k + distance <= top /\ (k + distance) - distance = k
        /\ k + distance # Nil
    BY <1>2, <1>6, <2>1 DEF Nil
  <2>4. k + distance \notin D
    BY <1>2, <2>2, <2>3
  <2>5. k + distance \in N
    BY <2>1
  <2>. HIDE DEF N
  <2>. QED
    BY <2>1, <2>2, <2>3, <2>4, <2>5
<1>8. \A a \in N : \E k \in tree : a = k + distance
  BY <1>7
<1>9. w = Extended(walked, more, top)
  <2>1. copy(n) = top
    BY <1>3, <1>7
  <2>2. w = Extended(walked, more, copy(n))
    BY DEF ast_copy_tree, HeapNode, tree
  <2>. HIDE DEF more, walked, top, copy
  <2>. QED
    BY <2>1, <2>2
<1>10. /\ MemoryOK(walked)
       /\ walked.nodes = m.nodes /\ walked.last = m.last
       /\ walked.freed = m.freed /\ ~walked.fault
  <2>1. tree \subseteq Live(m, R)
    BY <1>3 DEF L
  <2>. DEFINE none == {}
  <2>2. m.freed \cup none = m.freed
    OBVIOUS
  <2>3. walked.freed = m.freed \cup none /\ MemoryOK(walked) /\ walked.nodes = m.nodes
        /\ walked.last = m.last /\ ~walked.fault
    <3>1. walked = Walked(m, tree, none)
      BY DEF walked
    <3>2. \A k \in none \cap tree : m.nodes[k].block = k
      OBVIOUS
    <3>3. InReach(m, none)
      BY DEF InReach
    <3>. HIDE DEF walked, none
    <3>4. /\ Walked(m, tree, none).freed = m.freed \cup none
          /\ MemoryOK(Walked(m, tree, none))
          /\ Walked(m, tree, none).nodes = m.nodes
          /\ Walked(m, tree, none).last = m.last /\ ~Walked(m, tree, none).fault
      BY <2>1, <3>2, <3>3, WalkedIs
    <3>. QED
      BY <3>1, <3>4
  <2>. HIDE DEF walked, none
  <2>. QED
    BY <2>2, <2>3
<1>. HIDE DEF walked
<1>11. DOMAIN more = N /\ \A k \in tree : more[k + distance] = new(k, k + distance)
  <2>. HIDE DEF new, distance, N
  <2>. QED
    BY <1>7
<1>. HIDE DEF more, distance
<1>12. /\ IsMemory(w)
       /\ w.last = top /\ w.freed = m.freed /\ ~w.fault
       /\ DOMAIN w.nodes = D \cup N
       /\ \A k \in tree : w.nodes[k + distance] = new(k, k + distance)
       /\ \A k \in D : w.nodes[k] = m.nodes[k]
  <2>1. IsMemory(walked)
    BY <1>10 DEF MemoryOK
  <2>2. /\ IsMemory(w)
        /\ w.last = top /\ w.freed = walked.freed /\ w.fault = walked.fault
        /\ DOMAIN w.nodes = DOMAIN walked.nodes \cup DOMAIN more
        /\ \A k \in DOMAIN more : w.nodes[k] = more[k]
        /\ \A k \in DOMAIN walked.nodes \ DOMAIN more : w.nodes[k] = walked.nodes[k]
    BY <1>9, <2>1, ExtendedIs
  <2>3. \A k \in D : k \notin N
    BY <1>7, <1>8
  <2>. HIDE DEF N, new
  <2>. QED
    BY <1>7, <1>10, <1>11, <2>2, <2>3
<1>. HIDE DEF N
<1>13. ASSUME NEW k \in tree
       PROVE  LET a == k + distance
                  old == m.nodes[k]
                  x == w.nodes[a]
              IN  /\ x \in NodeSet /\ x.t = old.t /\ x.heap /\ x.block = a /\ x.rank = a
                  /\ DOMAIN x.kids = DOMAIN old.kids
                  /\ \A i \in DOMAIN old.kids :
                         IF old.kids[i] = Nil THEN x.kids[i] = Nil
                         ELSE old.kids[i] \in Kids(m, k) /\ old.kids[i] \in tree
                              /\ x.kids[i] = old.kids[i] + distance /\ x.kids[i] # Nil
                  /\ \A c \in Kids(w, a) : \E j \in Kids(m, k) : j \in tree /\ c = j + distance
  <2>. DEFINE a == k + distance
              old == m.nodes[k]
              kids == [i \in DOMAIN old.kids |-> copy(old.kids[i])]
              x == w.nodes[a]
  <2>1. old \in NodeSet /\ a \in Nat
    BY <1>1, <1>7 DEF MemoryOK
  <2>2. old.kids \in Seq(Nat) /\ old.t \in Types \cup Names
    <3>. HIDE DEF old
    <3>. QED
      BY <2>1, NodeIs
  <2>3. \A i \in DOMAIN old.kids : old.kids[i] = Nil \/ old.kids[i] \in Kids(m, k)
    BY DEF Kids, Range
  <2>4. \A j \in Kids(m, k) : j \in tree /\ copy(j) = j + distance /\ j + distance \in Nat
                              /\ j + distance # Nil
    <3>1. Kids(m, k) \subseteq tree
      BY <1>3 DEF Closed
    <3>. QED
      BY <1>7, <3>1
  <2>5. \A i \in DOMAIN old.kids : kids[i] \in Nat
    BY <2>3, <2>4 DEF Nil
  <2>6. kids \in Seq(Nat) /\ DOMAIN kids = DOMAIN old.kids
    <3>1. DOMAIN old.kids = 1 .. Len(old.kids) /\ Len(old.kids) \in Nat
      BY <2>2
    <3>2. kids \in [1 .. Len(old.kids) -> Nat]
      BY <2>5, <3>1
    <3>3. DOMAIN kids = DOMAIN old.kids
      OBVIOUS
    <3>. HIDE DEF kids, old
    <3>. QED
      BY <3>1, <3>2, <3>3, SeqOfNumbers
  <2>7. x = HeapNode(old.t, kids, a, a)
    BY <1>12
  <2>8. \A i \in DOMAIN old.kids : kids[i] = copy(old.kids[i])
    OBVIOUS
  <2>. DEFINE y == HeapNode(old.t, kids, a, a)
  <2>9. y \in NodeSet /\ y.t = old.t /\ y.kids = kids /\ y.heap /\ y.block = a /\ y.rank = a
    <3>. HIDE DEF kids, old, a
    <3>. QED
      BY <2>1, <2>2, <2>6, NewNode
  <2>. HIDE DEF y
  <2>10. x \in NodeSet /\ x.t = old.t /\ x.kids = kids /\ x.heap /\ x.block = a /\ x.rank = a
    <3>1. x = y
      BY <2>7 DEF y
    <3>. HIDE DEF x, kids, old, a
    <3>. QED
      BY <2>9, <3>1
  <2>11. ASSUME NEW i \in DOMAIN old.kids
         PROVE  IF old.kids[i] = Nil THEN x.kids[i] = Nil
                ELSE old.kids[i] \in Kids(m, k) /\ old.kids[i] \in tree
                     /\ x.kids[i] = old.kids[i] + distance /\ x.kids[i] # Nil
    <3>1. x.kids[i] = copy(old.kids[i])
      <4>. HIDE DEF x, old, copy
      <4>. QED
        BY <2>8, <2>10
    <3>. HIDE DEF x, old, kids
    <3>. QED
      BY <2>3, <2>4, <3>1
  <2>12. ASSUME NEW c \in Kids(w, a) PROVE \E j \in Kids(m, k) : j \in tree /\ c = j + distance
    <3>1. PICK i \in DOMAIN old.kids : c = x.kids[i] /\ c # Nil
      <4>1. DOMAIN x.kids = DOMAIN old.kids
        <5>. HIDE DEF x, kids, old
        <5>. QED
          BY <2>6, <2>10
      <4>. QED
        BY <2>12, <4>1 DEF Kids, Range
    <3>. HIDE DEF x, old, kids
    <3>. QED
      BY <2>11, <3>1
  <2>13. DOMAIN x.kids = DOMAIN old.kids
    <3>. HIDE DEF x, kids, old
    <3>. QED
      BY <2>6, <2>10
  <2>. HIDE DEF kids
  <2>. QED
    BY <2>10, <2>11, <2>12, <2>13
<1>. HIDE DEF new, copy
<1>14. ASSUME NEW a \in N
       PROVE  \E k \in tree : /\ a = k + distance /\ a \in Nat /\ a > m.last /\ a <= top /\ a # Nil
                              /\ a \notin D /\ k \in D /\ k \in Nat
                              /\ w.nodes[a].t = m.nodes[k].t /\ w.nodes[a].t # "list"
                              /\ w.nodes[a].t \notin Statements
  BY <1>4, <1>7, <1>8, <1>13
<1>15. top \in N /\ top \in Nat /\ top > m.last /\ top \notin D
  BY <1>3, <1>7
<1>. HIDE DEF top
<1>16. \A k \in D : Kids(w, k) = Kids(m, k)
  BY <1>12 DEF Kids
<1>17. \A a \in N : Kids(w, a) \subseteq N
  <2>1. ASSUME NEW k \in tree, NEW c \in Kids(w, k + distance) PROVE c \in N
    <3>1. PICK j \in Kids(m, k) : j \in tree /\ c = j + distance
      BY <1>13, <2>1
    <3>. QED
      BY <1>7, <3>1
  <2>. QED
    BY <1>8, <2>1
<1>18. MemoryOK(w)
  <2>1. w.freed \subseteq -w.last .. w.last
    <3>1. m.freed \subseteq -m.last .. m.last
      BY <1>1 DEF MemoryOK
    <3>. QED
      BY <1>2, <1>12, <1>15, <3>1
  <2>2. DOMAIN w.nodes \subseteq 1 .. w.last
    <3>1. \A k \in D : k \in 1 .. top
      BY <1>2, <1>15
    <3>2. \A a \in N : a \in 1 .. top
      BY <1>2, <1>14, <1>15
    <3>. QED
      BY <1>12, <3>1, <3>2
  <2>3. ASSUME NEW a \in DOMAIN w.nodes
        PROVE  /\ w.nodes[a] \in NodeSet
               /\ w.nodes[a].rank <= a
               /\ \A c \in Kids(w, a) : c \in DOMAIN w.nodes /\ c < a
               /\ w.nodes[a].t \in {"tuple", "instr"} =>
                      DOMAIN w.nodes[a].kids = {1, 2} /\ w.nodes[a].kids[1] # Nil
               /\ w.nodes[a].t = "list" => Nil \notin Range(w.nodes[a].kids)
    <3>1. CASE a \in D
      <4>1. \A k \in Kids(m, a) : k \in D /\ k < a
        BY <1>1, <3>1, KidsDown
      <4>. QED
        BY <1>1, <1>12, <1>16, <3>1, <4>1 DEF MemoryOK
    <3>2. CASE a \in N
      <4>1. PICK k \in tree : a = k + distance
        BY <1>8, <3>2
      <4>. DEFINE old == m.nodes[k]
                  x == w.nodes[k + distance]
      <4>2. /\ x \in NodeSet /\ x.t = old.t /\ x.rank = k + distance
            /\ DOMAIN x.kids = DOMAIN old.kids
            /\ \A i \in DOMAIN old.kids :
                   IF old.kids[i] = Nil THEN x.kids[i] = Nil
                   ELSE old.kids[i] \in Kids(m, k) /\ old.kids[i] \in tree
                        /\ x.kids[i] = old.kids[i] + distance /\ x.kids[i] # Nil
            /\ \A c \in Kids(w, k + distance) : \E j \in Kids(m, k) : j \in tree /\ c = j + distance
        BY <1>13
      <4>3. k \in D /\ k \in Nat /\ k + distance \in Nat /\ old.t # "list"
        BY <1>4, <1>7
      <4>4. old.t \in {"tuple", "instr"} => DOMAIN old.kids = {1, 2} /\ old.kids[1] # Nil
        BY <1>1, <4>3 DEF MemoryOK
      <4>. HIDE DEF old, x
      <4>5. ASSUME NEW c \in Kids(w, k + distance)
            PROVE  c \in DOMAIN w.nodes /\ c < k + distance
        <5>1. PICK j \in Kids(m, k) : j \in tree /\ c = j + distance
          BY <4>2, <4>5
        <5>2. j < k /\ j \in Nat /\ j + distance \in N
          BY <1>1, <1>7, <4>3, <5>1, KidsDown
        <5>. QED
          BY <1>6, <1>12, <4>3, <5>1, <5>2
      <4>6. x.rank <= k + distance
        BY <4>2, <4>3
      <4>7. x.t \in {"tuple", "instr"} => DOMAIN x.kids = {1, 2} /\ x.kids[1] # Nil
        BY <4>2, <4>4
      <4>8. w.nodes[a] = x
        BY <4>1 DEF x
      <4>. QED
        BY <4>1, <4>2, <4>3, <4>5, <4>6, <4>7, <4>8
    <3>. QED
      BY <1>12, <3>1, <3>2
  <2>4. w.last \in Nat
    BY <1>12, <1>15
  <2>. QED
    BY <1>12, <2>1, <2>2, <2>3, <2>4 DEF MemoryOK
<1>19. Keeps(m, w)
  BY <1>12, <1>18 DEF Keeps
<1>20. Closed(w, L) /\ NodesOK(w, R, L)
  <2>1. Whole(w, L)
    BY <1>1, <1>12 DEF NodesOK, Whole
  <2>. QED
    BY <1>1, <1>19, <2>1, KeepsNodes
<1>21. Closed(w, N)
  BY <1>12, <1>17 DEF Closed
<1>22. N \cap D = {} /\ N \cap L = {} /\ N \cap R = {} /\ Roots \cap L \subseteq R
  BY <1>1, <1>14, <1>15
<1>23. Forest(w, Roots, N)
  <2>1. ASSUME NEW a \in N, NEW b \in N,
               NEW i \in DOMAIN w.nodes[a].kids, NEW j \in DOMAIN w.nodes[b].kids,
               w.nodes[a].kids[i] = w.nodes[b].kids[j], w.nodes[a].kids[i] # Nil
        PROVE  a = b /\ i = j
    <3>1. PICK k \in tree : a = k + distance
      BY <1>8
    <3>2. PICK l \in tree : b = l + distance
      BY <1>8
    <3>3. /\ DOMAIN w.nodes[a].kids = DOMAIN m.nodes[k].kids
          /\ m.nodes[k].kids[i] # Nil /\ m.nodes[k].kids[i] \in tree
          /\ w.nodes[a].kids[i] = m.nodes[k].kids[i] + distance
      BY <1>13, <2>1, <3>1
    <3>4. /\ DOMAIN w.nodes[b].kids = DOMAIN m.nodes[l].kids
          /\ m.nodes[l].kids[j] # Nil /\ m.nodes[l].kids[j] \in tree
          /\ w.nodes[b].kids[j] = m.nodes[l].kids[j] + distance
      BY <1>13, <2>1, <3>2
    <3>5. m.nodes[k].kids[i] = m.nodes[l].kids[j]
      <4>. DEFINE p == m.nodes[k].kids[i]
                  q == m.nodes[l].kids[j]
      <4>1. (p + distance) - distance = p /\ (q + distance) - distance = q
        BY <1>7, <3>3, <3>4
      <4>2. p + distance = q + distance
        BY <2>1, <3>3, <3>4
      <4>. HIDE DEF p, q
      <4>3. p = q
        BY <4>1, <4>2
      <4>. QED
        BY <4>3 DEF p, q
    <3>6. k \in L /\ l \in L /\ i \in DOMAIN m.nodes[k].kids /\ j \in DOMAIN m.nodes[l].kids
      BY <1>3, <2>1, <3>3, <3>4
    <3>7. k = l /\ i = j
      BY <1>1, <3>3, <3>5, <3>6 DEF NodesOK, Forest
    <3>. QED
      BY <3>1, <3>2, <3>7
  <2>2. ASSUME NEW a \in N PROVE Kids(w, a) \cap Roots = {}
    <3>1. Kids(w, a) \cap R = {}
      BY <1>17, <1>22
    <3>2. ASSUME top \in Kids(w, a) PROVE FALSE
      <4>1. PICK k \in tree : a = k + distance
        BY <1>8
      <4>2. k \in Nat /\ k <= n /\ n \in Nat /\ a \in Nat /\ a <= top
        BY <1>1, <1>2, <1>3, <1>7, <1>14
      <4>3. top < a
        <5>1. a \in DOMAIN w.nodes
          BY <1>12
        <5>. QED
          BY <1>18, <3>2, <5>1, KidsDown
      <4>. QED
        BY <1>15, <4>2, <4>3
    <3>. QED
      BY <3>1, <3>2
  <2>. QED
    BY <2>1, <2>2 DEF Forest
<1>24. Whole(w, N)
  <2>1. ASSUME NEW a \in N PROVE w.nodes[a].block \notin w.freed
    <3>1. w.nodes[a].block = a
      BY <1>8, <1>13
    <3>2. a \in Nat /\ a > m.last
      BY <1>14
    <3>3. m.freed \subseteq -m.last .. m.last
      BY <1>1 DEF MemoryOK
    <3>. QED
      BY <1>2, <1>12, <3>1, <3>2, <3>3
  <2>. QED
    BY <1>12, <2>1 DEF Whole
<1>25. Blocks(w, Roots, N)
  <2>1. \A a \in N : w.nodes[a].block = a /\ w.nodes[a].t # "list"
    BY <1>8, <1>13, <1>14
  <2>2. \A r \in R : w.nodes[r].block = r
    BY <1>20 DEF NodesOK, Blocks
  <2>. QED
    BY <1>15, <1>17, <2>1, <2>2 DEF Blocks
<1>26. Ordered(w, N)
  BY <1>14 DEF Ordered
<1>27. Descends(w, N)
  <2>1. ASSUME NEW a \in N PROVE ~IsStatements(w, a)
    <3> SUFFICES ASSUME IsStatements(w, a) PROVE FALSE
      OBVIOUS
    <3>1. w.nodes[a].t = "tuple" /\ a \in DOMAIN w.nodes
      BY <1>12 DEF IsStatements
    <3>2. w.nodes[a].kids[1] \in Kids(w, a)
      BY <1>18, <3>1 DEF MemoryOK, Kids, Range
    <3>3. w.nodes[a].kids[1] \in N
      BY <1>17, <3>2
    <3>. QED
      BY <1>14, <3>3 DEF IsStatements
  <2>. QED
    BY <2>1 DEF Descends
<1>28. Instrs(w, N)
  BY <1>14 DEF Instrs, Statements
<1>29. NodesOK(w, Roots, N)
  BY <1>23, <1>24, <1>25, <1>26, <1>27, <1>28 DEF NodesOK
<1>30. NodesOK(w, Roots, L \cup N)
  <2>1. \A a \in N : Kids(w, a) \cap L \subseteq R
    BY <1>17, <1>22
  <2>. HIDE DEF Roots
  <2>. QED
    BY <1>20, <1>22, <1>29, <2>1, Joined
<1>31. Good(w, Roots)
  <2>1. Closed(w, L \cup N)
    BY <1>20, <1>21 DEF Closed
  <2>2. Roots \subseteq L \cup N
    BY <1>1, <1>15
  <2>. HIDE DEF Roots
  <2>. QED
    BY <1>18, <1>30, <2>1, <2>2, GoodIntro
<1>32. Flat(w, top)
  <2>1. Below(w)[top] \subseteq N
    BY <1>15, <1>18, <1>21, BelowLeast
  <2>. QED
    BY <1>14, <2>1 DEF Flat
<1>33. Newest(w) = top /\ Newest(w) > Newest(m) /\ top \in DOMAIN w.nodes
  BY <1>12, <1>15 DEF Newest
<1>. QED
  BY <1>19, <1>31, <1>32, <1>33

-----------------------------------------------------------------------------
(* Evaluation.                                                               *)

(* eval_expr() leaves trees, of which parts have become numbers.             *)
LEMMA NumberIsNone == "number" \notin Statements
  BY DEF Statements

LEMMA TreeEvaluated ==
    ASSUME NEW m, NEW R, Good(m, R), NEW n \in Live(m, R), Flat(m, n),
           NEW known, known \subseteq Names, NEW w, w = eval_expr(m, n, known)
    PROVE  /\ Good(w, R)
           /\ DOMAIN w.nodes = DOMAIN m.nodes
           /\ \A k \in DOMAIN m.nodes : Flat(m, k) => Flat(w, k)
<1>. DEFINE D == DOMAIN m.nodes
            L == Live(m, R)
            tree == Below(m)[n]
            numbers == {k \in tree : BecomesNumber(m, k, known)}
            terms == UNION {Below(m)[k] \ {k} : k \in numbers}
            spent == {k \in terms : m.nodes[k].heap}
            walked == Walked(m, tree, spent)
            number(k) == [m.nodes[k] EXCEPT !.t = "number", !.kids = <<>>]
            more == [k \in numbers |-> number(k)]
            T == L \ terms
<1>1. /\ MemoryOK(m) /\ R \subseteq D /\ R \subseteq L /\ Closed(m, L) /\ L \subseteq D
      /\ NodesOK(m, R, L) /\ n \in D /\ n \in L
  BY LiveClosed DEF Good, Closed
<1>2. m.last \in Nat /\ \A k \in D : k \in Nat /\ k # Nil /\ k > 0 /\ k <= m.last
  BY <1>1, KidsDown DEF MemoryOK
<1>3. /\ tree \subseteq L /\ tree \subseteq D /\ n \in tree /\ Closed(m, tree)
      /\ \A k \in tree : Below(m)[k] \subseteq tree
  BY <1>1, LiveWithin, BelowClosed, BelowWithin DEF Closed
<1>4. ASSUME NEW k \in numbers
      PROVE  k \in tree /\ k \in D /\ m.nodes[k].t \notin Statements \cup {"list", "tuple"}
  <2>1. k \in tree /\ k \in D /\ BecomesNumber(m, k, known)
    BY <1>3
  <2>2. k \in Below(m)[k]
    BY <1>1, <2>1, BelowClosed
  <2>3. m.nodes[k].t \in Names \cup {"number", "sum"}
    BY <2>1, <2>2 DEF BecomesNumber
  <2>. QED
    BY <2>1, <2>3, NamesAssumption DEF Types, Statements
<1>. HIDE DEF L, tree, numbers
<1>5. \A k \in numbers : Below(m)[k] \subseteq tree
  BY <1>3, <1>4
<1>6. terms \subseteq tree
  BY <1>5
<1>7. ASSUME NEW c \in terms
      PROVE  \E k \in numbers : \E p \in Below(m)[k] : c \in Kids(m, p) /\ c \in Below(m)[k] /\ c # k
  <2>1. PICK k \in numbers : c \in Below(m)[k] /\ c # k
    OBVIOUS
  <2>. QED
    BY <1>1, <1>4, <2>1, Parent
<1>8. \A a \in L : Kids(m, a) \cap R = {}
  BY <1>1 DEF NodesOK, Forest
<1>. HIDE DEF terms
<1>9. R \cap terms = {} /\ R \subseteq T
  BY <1>1, <1>3, <1>5, <1>7, <1>8
<1>10. ASSUME NEW a \in T, a \notin numbers, NEW c \in Kids(m, a) PROVE c \in T
  <2>1. c \in L /\ a \in L
    BY <1>1 DEF Closed
  <2>2. ASSUME c \in terms PROVE FALSE
    <3>1. PICK k \in numbers : \E p \in Below(m)[k] : c \in Kids(m, p) /\ c \in Below(m)[k] /\ c # k
      BY <1>7, <2>2
    <3>2. PICK p \in Below(m)[k] : c \in Kids(m, p)
      BY <3>1
    <3>3. p \in L
      BY <1>3, <1>5, <3>2
    <3>4. p = a
      BY <2>1, <3>2, <3>3, OneParent DEF L
    <3>5. a # k /\ a \in Below(m)[k]
      BY <1>10, <3>2, <3>4
    <3>6. a \in terms
      BY <3>5 DEF terms
    <3>. QED
      BY <3>6
  <2>. QED
    BY <2>1, <2>2
<1>11. \A a \in L : m.nodes[a].block = a \/ (m.nodes[a].block < 0 /\ ~m.nodes[a].heap)
  BY BlockIs DEF L
<1>12. spent \subseteq terms /\ \A k \in spent : m.nodes[k].block = k /\ k \in D /\ k \in L
  BY <1>1, <1>3, <1>6, <1>11
<1>. HIDE DEF spent
<1>13. /\ MemoryOK(walked)
       /\ walked.nodes = m.nodes /\ walked.last = m.last
       /\ walked.freed = m.freed \cup spent /\ ~walked.fault
  <2>1. tree \subseteq Live(m, R)
    BY <1>3 DEF L
  <2>2. \A k \in spent \cap tree : m.nodes[k].block = k
    BY <1>12
  <2>3. InReach(m, spent)
    <3>1. \A k \in spent : k \in Nat /\ k <= m.last
      BY <1>2, <1>12
    <3>. QED
      BY <1>2, <3>1 DEF InReach
  <2>. QED
    BY <2>1, <2>2, <2>3, WalkedIs
<1>14. w = Extended(walked, more, m.last)
  BY DEF eval_expr, Newest, Terms, terms, spent, numbers, tree
<1>. HIDE DEF walked
<1>15. DOMAIN more = numbers /\ \A k \in numbers : more[k] = number(k)
  OBVIOUS
<1>. HIDE DEF more
<1>16. /\ IsMemory(w)
       /\ w.last = m.last /\ w.freed = m.freed \cup spent /\ ~w.fault
       /\ DOMAIN w.nodes = D
       /\ \A k \in numbers : w.nodes[k] = number(k)
       /\ \A k \in D : k \notin numbers => w.nodes[k] = m.nodes[k]
  <2>1. IsMemory(walked)
    BY <1>13 DEF MemoryOK
  <2>2. /\ IsMemory(w)
        /\ w.last = m.last /\ w.freed = walked.freed /\ w.fault = walked.fault
        /\ DOMAIN w.nodes = DOMAIN walked.nodes \cup DOMAIN more
        /\ \A k \in DOMAIN more : w.nodes[k] = more[k]
        /\ \A k \in DOMAIN walked.nodes \ DOMAIN more : w.nodes[k] = walked.nodes[k]
    BY <1>14, <2>1, ExtendedIs
  <2>3. numbers \subseteq D
    BY <1>4
  <2>. HIDE DEF number
  <2>. QED
    BY <1>13, <1>15, <2>2, <2>3
<1>17. ASSUME NEW k \in numbers
       PROVE  /\ w.nodes[k] \in NodeSet /\ w.nodes[k].t = "number" /\ w.nodes[k].kids = <<>>
              /\ w.nodes[k].heap = m.nodes[k].heap /\ w.nodes[k].block = m.nodes[k].block
              /\ w.nodes[k].rank = m.nodes[k].rank
              /\ Kids(w, k) = {}
  <2>1. m.nodes[k] \in NodeSet
    BY <1>1, <1>4 DEF MemoryOK
  <2>2. w.nodes[k] = number(k)
    BY <1>16
  <2>3. "number" \in Types \cup Names /\ <<>> \in Seq(Nat)
    BY DEF Types
  <2>4. /\ w.nodes[k] \in NodeSet /\ w.nodes[k].t = "number" /\ w.nodes[k].kids = <<>>
        /\ w.nodes[k].heap = m.nodes[k].heap /\ w.nodes[k].block = m.nodes[k].block
        /\ w.nodes[k].rank = m.nodes[k].rank
    BY <2>1, <2>2, <2>3 DEF NodeSet
  <2>5. Kids(w, k) = {}
    BY <2>4 DEF Kids, Range
  <2>. QED
    BY <2>4, <2>5
<1>. HIDE DEF number
<1>18. \A k \in D : k \notin numbers => w.nodes[k] = m.nodes[k] /\ Kids(w, k) = Kids(m, k)
  BY <1>16 DEF Kids
<1>19. \A k \in D : /\ w.nodes[k].block = m.nodes[k].block /\ w.nodes[k].rank = m.nodes[k].rank
                    /\ (w.nodes[k].heap <=> m.nodes[k].heap)
                    /\ Kids(w, k) \subseteq Kids(m, k)
                    /\ (w.nodes[k].t # "number" => k \notin numbers)
                    /\ (m.nodes[k].t \in Statements \cup {"list", "tuple"} => k \notin numbers)
  BY <1>4, <1>17, <1>18
<1>20. MemoryOK(w)
  <2>1. w.freed \subseteq -w.last .. w.last
    <3>1. m.freed \subseteq -m.last .. m.last
      BY <1>1 DEF MemoryOK
    <3>2. \A k \in spent : k \in -m.last .. m.last
      BY <1>2, <1>12
    <3>. QED
      BY <1>16, <3>1, <3>2
  <2>2. ASSUME NEW a \in D
        PROVE  /\ w.nodes[a] \in NodeSet
               /\ w.nodes[a].rank <= a
               /\ \A c \in Kids(w, a) : c \in D /\ c < a
               /\ w.nodes[a].t \in {"tuple", "instr"} =>
                      DOMAIN w.nodes[a].kids = {1, 2} /\ w.nodes[a].kids[1] # Nil
               /\ w.nodes[a].t = "list" => Nil \notin Range(w.nodes[a].kids)
    <3>1. w.nodes[a].rank <= a
      BY <1>1, <1>19 DEF MemoryOK
    <3>2. \A c \in Kids(w, a) : c \in D /\ c < a
      BY <1>1, <1>19, KidsDown
    <3>3. CASE a \in numbers
      BY <1>17, <3>1, <3>2, <3>3
    <3>4. CASE a \notin numbers
      BY <1>1, <1>18, <3>1, <3>2, <3>4 DEF MemoryOK
    <3>. QED
      BY <3>3, <3>4
  <2>3. DOMAIN w.nodes \subseteq 1 .. w.last /\ w.last \in Nat
    BY <1>1, <1>16 DEF MemoryOK
  <2>. QED
    BY <1>16, <2>1, <2>2, <2>3 DEF MemoryOK
<1>21. ASSUME NEW k \in D PROVE Below(w)[k] \subseteq Below(m)[k]
  <2>1. Closed(m, Below(m)[k]) /\ k \in Below(m)[k]
    BY <1>1, BelowClosed
  <2>2. Closed(w, Below(m)[k])
    BY <1>16, <1>19, <2>1 DEF Closed
  <2>. QED
    BY <1>20, <2>1, <2>2, BelowLeast
<1>22. ASSUME NEW k \in D, Flat(m, k) PROVE Flat(w, k)
  <2>1. \A j \in Below(m)[k] : j \in D
    BY <1>1, BelowClosed DEF Closed
  <2>2. \A j \in D : w.nodes[j].t = "number" \/ w.nodes[j].t = m.nodes[j].t
    BY <1>17, <1>18
  <2>3. "number" \notin Statements \cup {"list"}
    BY DEF Statements
  <2>. QED
    BY <1>21, <1>22, <2>1, <2>2, <2>3 DEF Flat
<1>23. \A a \in T : a \in L /\ a \in D /\ a \notin terms /\ Kids(w, a) \subseteq T
  BY <1>1, <1>10, <1>17, <1>18
<1>24. Closed(w, T)
  BY <1>16, <1>23 DEF Closed
<1>. HIDE DEF T
<1>25. Forest(w, R, T)
  <2>1. ASSUME NEW a \in T, NEW b \in T,
               NEW i \in DOMAIN w.nodes[a].kids, NEW j \in DOMAIN w.nodes[b].kids,
               w.nodes[a].kids[i] = w.nodes[b].kids[j], w.nodes[a].kids[i] # Nil
        PROVE  a = b /\ i = j
    <3>1. a \notin numbers /\ b \notin numbers
      BY <1>17, <2>1
    <3>2. w.nodes[a] = m.nodes[a] /\ w.nodes[b] = m.nodes[b]
      BY <1>18, <1>23, <3>1
    <3>. QED
      BY <1>1, <1>23, <2>1, <3>2 DEF NodesOK, Forest
  <2>2. \A a \in T : Kids(w, a) \cap R = {}
    BY <1>8, <1>19, <1>23
  <2>. QED
    BY <2>1, <2>2 DEF Forest
<1>26. Whole(w, T)
  <2>1. ASSUME NEW a \in T PROVE w.nodes[a].block \notin w.freed
    <3>1. a \in L /\ a \in D /\ a \notin terms /\ w.nodes[a].block = m.nodes[a].block
      BY <1>19, <1>23
    <3>2. m.nodes[a].block \notin m.freed
      BY <1>1, <3>1 DEF NodesOK, Whole
    <3>3. m.nodes[a].block = a \/ m.nodes[a].block < 0
      BY <1>11, <3>1
    <3>4. m.nodes[a].block \notin spent
      BY <1>2, <1>12, <3>1, <3>3
    <3>. QED
      BY <1>16, <3>1, <3>2, <3>4
  <2>. QED
    BY <1>16, <2>1 DEF Whole
<1>27. Blocks(w, R, T)
  <2>1. Blocks(m, R, L)
    BY <1>1 DEF NodesOK
  <2>2. \A r \in R : w.nodes[r].block = r
    BY <1>1, <1>19, <2>1 DEF Blocks
  <2>3. ASSUME NEW a \in T, NEW k \in Kids(w, a)
        PROVE  IF w.nodes[a].t = "list" THEN w.nodes[k].block = -a /\ ~w.nodes[k].heap
                                        ELSE w.nodes[k].block = k
    <3>1. a \in L /\ a \in D /\ k \in Kids(m, a) /\ k \in D
      BY <1>19, <1>23
    <3>2. a \notin numbers
      BY <1>17, <2>3
    <3>3. w.nodes[a] = m.nodes[a]
      BY <1>18, <3>1, <3>2
    <3>. QED
      BY <1>19, <2>1, <3>1, <3>3 DEF Blocks
  <2>. QED
    BY <2>2, <2>3 DEF Blocks
<1>28. ASSUME NEW a \in T, w.nodes[a].t \in {"list", "tuple", "instr"}
       PROVE  /\ w.nodes[a] = m.nodes[a] /\ a \in L /\ a \in D
              /\ \A i \in DOMAIN m.nodes[a].kids :
                     m.nodes[a].kids[i] = Nil \/ m.nodes[a].kids[i] \in D
  <2>1. a \in L /\ a \in D /\ a \notin numbers
    BY <1>19, <1>23, <1>28
  <2>2. \A k \in Kids(m, a) : k \in D
    BY <1>1, <2>1, KidsDown
  <2>. QED
    BY <1>18, <2>1, <2>2 DEF Kids, Range
<1>29. Ordered(w, T)
  <2>1. ASSUME NEW a \in T, w.nodes[a].t = "list",
               NEW i \in DOMAIN w.nodes[a].kids, NEW j \in DOMAIN w.nodes[a].kids, i < j
        PROVE  w.nodes[w.nodes[a].kids[i]].rank < w.nodes[w.nodes[a].kids[j]].rank
    <3>1. w.nodes[a] = m.nodes[a] /\ a \in L /\ a \in D
      BY <1>28, <2>1
    <3>2. m.nodes[a].kids[i] # Nil /\ m.nodes[a].kids[j] # Nil
      BY <1>1, <2>1, <3>1 DEF MemoryOK, Range
    <3>3. m.nodes[a].kids[i] \in D /\ m.nodes[a].kids[j] \in D
      BY <1>28, <2>1, <3>1, <3>2
    <3>. QED
      BY <1>1, <1>19, <2>1, <3>1, <3>3 DEF NodesOK, Ordered
  <2>. QED
    BY <2>1 DEF Ordered
<1>30. Descends(w, T)
  <2>0. Descends(m, L) /\ MemoryOK(m)
    BY <1>1 DEF NodesOK
  <2>1. \A k \in D : m.nodes[k].t \in Statements \cup {"tuple"} => w.nodes[k] = m.nodes[k]
    BY <1>18, <1>19
  <2>2. \A k \in D : w.nodes[k].t \in Statements => m.nodes[k].t \in Statements
    <3>. QED
      BY <1>17, <1>18, NumberIsNone
  <2>3. ASSUME NEW a \in T, IsStatements(w, a), w.nodes[a].kids[2] # Nil
        PROVE  IsStatements(w, w.nodes[a].kids[2])
               /\ ValueRank(w, w.nodes[a].kids[2]) < ValueRank(w, a)
    <3>. DEFINE b == m.nodes[a].kids[2]
                c == m.nodes[a].kids[1]
    <3>1. w.nodes[a].t = "tuple"
      BY <2>3 DEF IsStatements
    <3>2. w.nodes[a] = m.nodes[a] /\ a \in L /\ a \in D
      BY <1>28, <3>1
    <3>3. DOMAIN m.nodes[a].kids = {1, 2} /\ c # Nil /\ b # Nil
      BY <1>1, <2>3, <3>1, <3>2 DEF MemoryOK
    <3>4. b \in D /\ c \in D
      BY <1>28, <3>1, <3>2, <3>3
    <3>5. m.nodes[c].t \in Statements
      BY <2>2, <2>3, <3>2, <3>4 DEF IsStatements
    <3>6. IsStatements(m, a)
      BY <3>1, <3>2, <3>5 DEF IsStatements
    <3>7. IsStatements(m, b) /\ ValueRank(m, b) < ValueRank(m, a)
      BY <2>0, <3>2, <3>3, <3>6 DEF Descends
    <3>. HIDE DEF b, c
    <3>8. DOMAIN m.nodes[b].kids = {1, 2} /\ m.nodes[b].kids[1] # Nil /\ m.nodes[b].t = "tuple"
      BY <2>0, <3>4, <3>7 DEF MemoryOK, IsStatements
    <3>9. m.nodes[b].kids[1] \in Kids(m, b)
      BY <3>8 DEF Kids, Range
    <3>10. m.nodes[b].kids[1] \in D
      BY <2>0, <3>4, <3>9, KidsDown
    <3>11. w.nodes[b] = m.nodes[b] /\ w.nodes[c] = m.nodes[c]
           /\ w.nodes[m.nodes[b].kids[1]] = m.nodes[m.nodes[b].kids[1]]
      BY <2>1, <3>4, <3>5, <3>7, <3>8, <3>10 DEF IsStatements
    <3>12. w.nodes[a].kids[2] = b
      BY <3>2 DEF b
    <3>13. /\ ValueRank(w, a) = ValueRank(m, a)
           /\ IsStatements(w, b) /\ ValueRank(w, b) = ValueRank(m, b)
      BY <3>2, <3>7, <3>11, StatementsSame DEF c
    <3>. QED
      BY <3>7, <3>12, <3>13
  <2>. QED
    BY <2>3 DEF Descends
<1>31. Instrs(w, T)
  <2>1. ASSUME NEW a \in T, w.nodes[a].t = "instr" PROVE Flat(w, w.nodes[a].kids[2])
    <3>. DEFINE b == m.nodes[a].kids[2]
    <3>1. w.nodes[a] = m.nodes[a] /\ a \in L /\ a \in D
      BY <1>28, <2>1
    <3>2. Flat(m, b) /\ DOMAIN m.nodes[a].kids = {1, 2}
      BY <1>1, <2>1, <3>1 DEF NodesOK, Instrs, MemoryOK
    <3>3. CASE b = Nil
      BY <1>20, <3>1, <3>3, BelowDef DEF Flat
    <3>4. CASE b # Nil
      <4>1. b \in D
        BY <1>28, <2>1, <3>1, <3>2, <3>4
      <4>. QED
        BY <1>22, <3>1, <3>2, <4>1
    <3>. QED
      BY <3>3, <3>4
  <2>. QED
    BY <2>1 DEF Instrs
<1>32. NodesOK(w, R, T)
  BY <1>25, <1>26, <1>27, <1>29, <1>30, <1>31 DEF NodesOK
<1>33. Good(w, R)
  BY <1>9, <1>20, <1>24, <1>32, GoodIntro
<1>. QED
  BY <1>16, <1>22, <1>33

-----------------------------------------------------------------------------
(* The end.                                                                  *)

(* ast_free_tree() frees a tree and leaves the others.                       *)
LEMMA TreeFreed ==
    ASSUME NEW m, NEW R, Good(m, R), NEW n \in R,
           \A r \in R : r # n => Flat(m, r),
           NEW w, w = ast_free_tree(m, n)
    PROVE  Good(w, R \ {n}) /\ w.nodes = m.nodes
<1>. DEFINE D == DOMAIN m.nodes
            L == Live(m, R)
            tree == Below(m)[n]
            arrays == {-k : k \in {j \in tree : m.nodes[j].t = "list"}}
            flagged == {k \in tree : m.nodes[k].heap}
            spent == flagged \cup arrays
            Q == R \ {n}
            T == Live(m, Q)
<1>1. /\ MemoryOK(m) /\ R \subseteq D /\ R \subseteq L /\ L \subseteq D
      /\ NodesOK(m, R, L) /\ n \in D /\ Blocks(m, R, L)
  BY LiveClosed DEF Good, Closed, NodesOK
<1>2. m.last \in Nat /\ \A k \in D : k \in Nat /\ k # Nil /\ k > 0 /\ k <= m.last
  BY <1>1, KidsDown DEF MemoryOK
<1>3. tree \subseteq L /\ tree \subseteq D
  BY <1>1 DEF Live
<1>4. \A a \in L : m.nodes[a].block = a \/ (m.nodes[a].block < 0 /\ ~m.nodes[a].heap)
  BY BlockIs
<1>5. /\ Q \subseteq T /\ Closed(m, T) /\ T \subseteq L
  <2>1. Q \subseteq D
    BY <1>1
  <2>2. Q \subseteq T /\ Closed(m, T)
    BY <1>1, <2>1, LiveClosed
  <2>3. T \subseteq L
    BY DEF Live
  <2>. QED
    BY <2>2, <2>3
<1>6. T \cap tree = {}
  BY GoodApart DEF Live
<1>7. ASSUME NEW a \in T PROVE m.nodes[a].block = a
  <2>1. PICK r \in Q : a \in Below(m)[r]
    BY DEF Live
  <2>2. r \in R /\ r \in D /\ Flat(m, r) /\ Below(m)[r] \subseteq L
    BY <1>1, <2>1 DEF Live
  <2>3. CASE a = r
    BY <1>1, <2>2, <2>3 DEF Blocks
  <2>4. CASE a # r
    <3>1. PICK p \in Below(m)[r] : a \in Kids(m, p)
      BY <1>1, <2>1, <2>2, <2>4, Parent
    <3>2. m.nodes[p].t # "list" /\ p \in L
      BY <2>2, <3>1 DEF Flat
    <3>. QED
      BY <1>1, <3>1, <3>2 DEF Blocks
  <2>. QED
    BY <2>3, <2>4
<1>. HIDE DEF L, tree, T
<1>8. \A k \in arrays : k \in Int /\ k < 0 /\ -m.last <= k /\ k <= m.last
  BY <1>2, <1>3
<1>9. \A k \in flagged : k \in tree /\ k \in Nat /\ k <= m.last /\ m.nodes[k].block = k
  BY <1>2, <1>3, <1>4
<1>10. w = Walked(m, tree, spent)
  BY DEF ast_free_tree, tree
<1>. HIDE DEF arrays, flagged
<1>11. \A k \in spent : (k \in tree /\ k \in Nat /\ m.nodes[k].block = k) \/ k < 0
  BY <1>8, <1>9
<1>12. /\ MemoryOK(w)
       /\ w.nodes = m.nodes /\ w.last = m.last
       /\ w.freed = m.freed \cup spent /\ ~w.fault
  <2>1. tree \subseteq Live(m, R)
    BY <1>3 DEF L
  <2>2. \A k \in spent \cap tree : m.nodes[k].block = k
    <3>1. \A k \in tree : ~(k < 0)
      BY <1>2, <1>3
    <3>. QED
      BY <1>11, <3>1
  <2>3. InReach(m, spent)
    <3>1. \A k \in arrays : k \in -m.last .. m.last
      BY <1>2, <1>8
    <3>2. \A k \in flagged : k \in -m.last .. m.last
      BY <1>2, <1>9
    <3>. QED
      BY <3>1, <3>2 DEF InReach
  <2>. HIDE DEF spent
  <2>. QED
    BY <1>10, <2>1, <2>2, <2>3, WalkedIs
<1>13. Keeps(m, w)
  BY <1>12 DEF Keeps
<1>14. NodesOK(m, Q, T)
  <2>1. Q \subseteq R
    OBVIOUS
  <2>. QED
    BY <1>1, <1>5, <2>1, NodesWithin
<1>15. Whole(w, T)
  <2>1. ASSUME NEW a \in T PROVE w.nodes[a].block \notin w.freed
    <3>1. a \in L /\ a \in D /\ a \in Nat /\ a > 0 /\ a \notin tree
      BY <1>1, <1>2, <1>5, <1>6
    <3>2. m.nodes[a].block = a /\ a \notin m.freed
      BY <1>1, <1>7, <3>1 DEF NodesOK, Whole
    <3>3. a \notin spent
      BY <1>11, <3>1
    <3>. QED
      BY <1>12, <3>2, <3>3
  <2>. QED
    BY <1>12, <2>1 DEF Whole
<1>16. Closed(w, T) /\ NodesOK(w, Q, T)
  <2>. HIDE DEF Q
  <2>. QED
    BY <1>1, <1>5, <1>13, <1>14, <1>15, KeepsNodes
<1>17. Good(w, Q)
  BY <1>5, <1>12, <1>16, GoodIntro
<1>. QED
  BY <1>12, <1>17

-----------------------------------------------------------------------------
(* The invariant holds in the beginning.                                     *)

LEMMA TreesInitInv ==
    ASSUME TreesInit
    PROVE  TreesInv
<1>. DEFINE nodes == [n \in {} |-> Nil]
<1>1. memory = [nodes |-> nodes, last |-> 0, freed |-> {}, fault |-> FALSE]
  BY DEF TreesInit, NoMemory
<1>2. /\ memory.nodes = nodes /\ memory.last = 0 /\ memory.freed = {} /\ ~memory.fault
      /\ DOMAIN memory.nodes = {}
  BY <1>1
<1>3. IsMemory(memory)
  <2>1. memory = [nodes |-> memory.nodes, last |-> memory.last,
                  freed |-> memory.freed, fault |-> memory.fault]
    BY <1>1
  <2>2. memory.nodes = [n \in DOMAIN memory.nodes |-> memory.nodes[n]]
    BY <1>2
  <2>. QED
    BY <2>1, <2>2 DEF IsMemory
<1>4. MemoryOK(memory)
  BY <1>2, <1>3 DEF MemoryOK
<1>5. Owned = {} /\ Live(memory, {}) = {}
  BY DEF TreesInit, Owned, Live, Nil
<1>6. NodesOK(memory, {}, {})
  BY <1>2 DEF NodesOK, Forest, Whole, Blocks, Ordered, Descends, Instrs
<1>7. Good(memory, Owned)
  BY <1>4, <1>5, <1>6 DEF Good
<1>8. ParsingOK
  BY DEF TreesInit, ParsingOK
<1>. QED
  BY <1>7, <1>8 DEF TreesInv

-----------------------------------------------------------------------------
(* The parser reduces the top of its stack to a value of a new node.         *)

(* The nodes of the stack without the top n values.                          *)
Rest(n) == {stack[i].node : i \in 1 .. Len(stack) - n}

LEMMA KindKept ==
    ASSUME NEW m, MemoryOK(m), NEW w, Keeps(m, w), NEW v, KindOK(m, v)
    PROVE  KindOK(w, v)
<1>1. v.node \in DOMAIN m.nodes /\ w.nodes[v.node] = m.nodes[v.node]
      /\ v.node \in DOMAIN w.nodes
  BY DEF KindOK, Keeps
<1>2. Flat(m, v.node) => Flat(w, v.node)
  BY <1>1, KeepsBelow
<1>3. ASSUME IsStatements(m, v.node) PROVE IsStatements(w, v.node)
  <2>1. m.nodes[v.node].t = "tuple"
    BY <1>3 DEF IsStatements
  <2>2. DOMAIN m.nodes[v.node].kids = {1, 2} /\ m.nodes[v.node].kids[1] # Nil
    BY <1>1, <2>1 DEF MemoryOK
  <2>3. m.nodes[v.node].kids[1] \in Kids(m, v.node)
    BY <2>2 DEF Kids, Range
  <2>4. w.nodes[m.nodes[v.node].kids[1]] = m.nodes[m.nodes[v.node].kids[1]]
    BY <1>1, <2>3, KidsDown DEF Keeps
  <2>. QED
    BY <1>1, <1>3, <2>4 DEF IsStatements
<1>. QED
  BY <1>1, <1>2, <1>3 DEF KindOK

LEMMA ElementIn ==
    ASSUME NEW E, NEW s \in Seq(E), NEW i \in 1 .. Len(s)
    PROVE  s[i] \in E
  OBVIOUS

LEMMA Prefix ==
    ASSUME NEW E, NEW s \in Seq(E), NEW n \in 0 .. Len(s)
    PROVE  /\ SubSeq(s, 1, n) \in Seq(E) /\ Len(SubSeq(s, 1, n)) = n
           /\ \A i \in 1 .. n : SubSeq(s, 1, n)[i] = s[i]
  OBVIOUS

LEMMA TopOne ==
    ASSUME NEW a, TopKinds(<<a>>)
    PROVE  Len(stack) >= 1 /\ Top(1).kind = a
<1>1. Len(<<a>>) = 1 /\ DOMAIN <<a>> = {1}
  OBVIOUS
<1>2. [k \in {1} |-> Top(1 + 1 - k).kind] = <<a>> /\ Len(stack) >= 1
  BY <1>1 DEF TopKinds
<1>. QED
  BY <1>2

LEMMA TopTwo ==
    ASSUME NEW a, NEW b, TopKinds(<<a, b>>)
    PROVE  Len(stack) >= 2 /\ Top(2).kind = a /\ Top(1).kind = b
<1>1. Len(<<a, b>>) = 2 /\ DOMAIN <<a, b>> = {1, 2}
  OBVIOUS
<1>2. [k \in {1, 2} |-> Top(2 + 1 - k).kind] = <<a, b>> /\ Len(stack) >= 2
  BY <1>1 DEF TopKinds
<1>. QED
  BY <1>2

LEMMA StackNodes ==
    ASSUME ParsingOK
    PROVE  /\ stack \in Seq([kind : Kinds, node : Nat]) /\ Len(stack) \in Nat
           /\ DOMAIN stack = 1 .. Len(stack)
           /\ Owned = Rest(0)
           /\ Len(stack) >= 1 =>
                  /\ Top(1) = stack[Len(stack)] /\ Top(1).kind \in Kinds
                  /\ KindOK(memory, Top(1))
                  /\ Owned = Rest(1) \cup {Top(1).node} /\ Top(1).node \notin Rest(1)
           /\ Len(stack) >= 2 =>
                  /\ Top(2) = stack[Len(stack) - 1] /\ Top(2).kind \in Kinds
                  /\ KindOK(memory, Top(2)) /\ Top(2).node < Top(1).node
                  /\ Rest(1) = Rest(2) \cup {Top(2).node}
                  /\ Top(2).node \notin Rest(2) /\ Top(1).node \notin Rest(2)
<1>. DEFINE len == Len(stack)
<1>1. /\ stack \in Seq([kind : Kinds, node : Nat]) /\ len \in Nat /\ DOMAIN stack = 1 .. len
      /\ \A i \in 1 .. len : /\ stack[i].kind \in Kinds /\ stack[i].node \in Nat
                             /\ KindOK(memory, stack[i])
      /\ \A i, j \in 1 .. len : i < j => stack[i].node < stack[j].node
  <2>1. stack \in Seq([kind : Kinds, node : Nat])
    BY DEF ParsingOK
  <2>2. len \in Nat /\ DOMAIN stack = 1 .. len
    BY <2>1
  <2>3. \A i \in 1 .. len : stack[i] \in [kind : Kinds, node : Nat]
    BY <2>1, ElementIn
  <2>. QED
    BY <2>1, <2>2, <2>3 DEF ParsingOK
<1>2. Owned = Rest(0)
  <2>1. {k \in DOMAIN stack : stack[k].kind # "finished"} = 1 .. len
    BY <1>1 DEF Kinds
  <2>2. 1 .. len = 1 .. len - 0
    BY <1>1
  <2>3. held = {} /\ {root} \ {Nil} = {}
    BY DEF ParsingOK
  <2>. QED
    BY <2>1, <2>2, <2>3 DEF Owned, Rest
<1>3. ASSUME len >= 1
      PROVE  /\ Top(1) = stack[len] /\ Top(1).kind \in Kinds /\ KindOK(memory, Top(1))
             /\ Owned = Rest(1) \cup {Top(1).node} /\ Top(1).node \notin Rest(1)
  <2>1. Top(1) = stack[len] /\ len \in 1 .. len
    BY <1>1, <1>3 DEF Top
  <2>2. 1 .. len - 0 = (1 .. len - 1) \cup {len}
    BY <1>1, <1>3
  <2>3. Owned = Rest(1) \cup {Top(1).node}
    BY <1>2, <2>1, <2>2 DEF Rest
  <2>4. \A i \in 1 .. len - 1 : stack[i].node < stack[len].node /\ stack[i].node \in Nat
    BY <1>1, <1>3
  <2>5. Top(1).node \notin Rest(1)
    BY <1>1, <2>1, <2>4 DEF Rest
  <2>. QED
    BY <1>1, <2>1, <2>3, <2>5
<1>4. ASSUME len >= 2
      PROVE  /\ Top(2) = stack[len - 1] /\ Top(2).kind \in Kinds
             /\ KindOK(memory, Top(2)) /\ Top(2).node < Top(1).node
             /\ Rest(1) = Rest(2) \cup {Top(2).node}
             /\ Top(2).node \notin Rest(2) /\ Top(1).node \notin Rest(2)
  <2>1. Top(2) = stack[len - 1] /\ len - 1 \in 1 .. len
        /\ Top(1) = stack[len] /\ len \in 1 .. len
    BY <1>1, <1>4 DEF Top
  <2>2. 1 .. len - 1 = (1 .. len - 2) \cup {len - 1}
    BY <1>1, <1>4
  <2>3. Rest(1) = Rest(2) \cup {Top(2).node}
    BY <2>1, <2>2 DEF Rest
  <2>4. ASSUME NEW i \in 1 .. len - 2
        PROVE  /\ stack[i].node < stack[len - 1].node
               /\ stack[i].node < stack[len].node /\ stack[i].node \in Nat
    <3>1. i \in 1 .. len /\ i < len - 1 /\ i < len
      BY <1>1, <1>4
    <3>. QED
      BY <1>1, <2>1, <3>1
  <2>5. Top(2).node \notin Rest(2) /\ Top(1).node \notin Rest(2)
    BY <1>1, <2>1, <2>4 DEF Rest
  <2>6. Top(2).node < Top(1).node
    BY <1>1, <1>4, <2>1
  <2>. QED
    BY <1>1, <2>1, <2>3, <2>5, <2>6
<1>. QED
  BY <1>1, <1>2, <1>3, <1>4

LEMMA Reduced ==
    ASSUME ParsingOK, MemoryOK(memory), NEW n \in 0 .. Len(stack), NEW kind \in Kinds,
           NEW m, Keeps(memory, m), Newest(m) > Newest(memory),
           Good(m, Rest(n) \cup {Newest(m)}), KindOK(m, Value(kind, Newest(m))),
           Reduce(n, kind, m)
    PROVE  TreesInv'
<1>. DEFINE old == Len(stack) - n
            kept == SubSeq(stack, 1, old)
            new == Value(kind, Newest(m))
            E == [kind : Kinds, node : Nat]
<1>1. /\ stack \in Seq(E) /\ Len(stack) \in Nat /\ DOMAIN stack = 1 .. Len(stack)
      /\ old \in Nat /\ old <= Len(stack)
  BY StackNodes
<1>2. MemoryOK(m) /\ Newest(m) \in Nat
  BY DEF Keeps, MemoryOK, Newest
<1>3. new \in E /\ new.kind = kind /\ new.node = Newest(m)
  BY <1>2 DEF Value
<1>4. kept \in Seq(E) /\ Len(kept) = old /\ \A i \in 1 .. old : kept[i] = stack[i]
  <2>1. old \in 0 .. Len(stack)
    BY <1>1
  <2>. HIDE DEF old, E
  <2>. QED
    BY <1>1, <2>1, Prefix
<1>5. memory' = m /\ root' = root /\ held' = held /\ stack' = Append(kept, new)
  BY DEF Reduce
<1>. HIDE DEF kept, new, old, E
<1>6. /\ stack' \in Seq(E) /\ DOMAIN stack' = 1 .. old + 1
      /\ \A i \in 1 .. old : stack'[i] = stack[i]
      /\ stack'[old + 1] = new
  BY <1>1, <1>3, <1>4, <1>5
<1>7. \A i \in 1 .. old : i \in DOMAIN stack /\ KindOK(memory, stack[i])
  BY <1>1 DEF ParsingOK
<1>8. \A i \in DOMAIN stack' : KindOK(m, stack'[i])
  <2>1. \A i \in 1 .. old : KindOK(m, stack'[i])
    BY <1>6, <1>7, KindKept
  <2>2. KindOK(m, stack'[old + 1])
    BY <1>6 DEF new
  <2>. QED
    BY <1>1, <1>6, <2>1, <2>2
<1>9. \A i, j \in DOMAIN stack' : i < j => stack'[i].node < stack'[j].node
  <2>1. \A i, j \in 1 .. old : i < j => stack'[i].node < stack'[j].node
    BY <1>6, <1>7 DEF ParsingOK
  <2>2. \A i \in 1 .. old : stack'[i].node < stack'[old + 1].node
    <3>1. ASSUME NEW i \in 1 .. old PROVE stack[i].node < Newest(m)
      <4>1. stack[i].node \in DOMAIN memory.nodes
        BY <1>7 DEF KindOK
      <4>2. stack[i].node \in Nat /\ stack[i].node <= memory.last
        BY <4>1, KidsDown
      <4>. QED
        BY <1>2, <4>2 DEF Newest, MemoryOK
    <3>. QED
      BY <1>3, <1>6, <3>1
  <2>3. \A i \in DOMAIN stack' : i \in 1 .. old \/ i = old + 1
    BY <1>1, <1>6
  <2>4. \A i, j \in DOMAIN stack' : i < j => i \in 1 .. old
    BY <1>1, <1>6
  <2>. QED
    BY <2>1, <2>2, <2>3, <2>4
<1>10. ParsingOK'
  BY <1>5, <1>6, <1>8, <1>9 DEF ParsingOK, E
<1>11. Owned' = Rest(n) \cup {Newest(m)}
  <2>1. \A i \in DOMAIN stack' : stack'[i].kind # "finished"
    <3>1. Len(stack') = old + 1
      BY <1>1, <1>6
    <3>2. \A i \in DOMAIN stack' : stack'[i] \in E
      BY <1>6, <3>1, ElementIn
    <3>. QED
      BY <3>2 DEF Kinds, E
  <2>2. held' = {} /\ {root'} \ {Nil} = {}
    BY <1>5 DEF ParsingOK
  <2>3. {k \in DOMAIN stack' : stack'[k].kind # "finished"} = 1 .. old + 1
    BY <1>6, <2>1
  <2>4. Owned' = {stack'[i].node : i \in 1 .. old + 1}
    BY <2>2, <2>3 DEF Owned
  <2>5. 1 .. old + 1 = (1 .. old) \cup {old + 1}
    BY <1>1
  <2>6. stack'[old + 1].node = Newest(m)
    BY <1>3, <1>6
  <2>. QED
    BY <1>6, <2>4, <2>5, <2>6 DEF Rest, old
<1>. QED
  BY <1>5, <1>10, <1>11 DEF TreesInv

LEMMA LeafMade ==
    ASSUME NEW m, NEW R, Good(m, R), NEW t \in (Types \cup Names) \ {"list", "tuple", "instr"},
           NEW w, w = Leaf(m, t)
    PROVE  /\ Keeps(m, w)
           /\ Newest(w) > Newest(m) /\ Newest(w) \in DOMAIN w.nodes
           /\ w.nodes[Newest(w)].t = t /\ w.nodes[Newest(w)].rank = Newest(w)
           /\ t \notin Statements => Flat(w, Newest(w))
           /\ Good(w, R \cup {Newest(w)})
<1>1. << >> \in Seq(Nat) /\ Range(<< >>) = {} /\ DOMAIN << >> = {}
  BY DEF Range
<1>2. w = mk_node(m, t, << >>)
  BY DEF Leaf
<1>3. /\ Keeps(m, w)
      /\ Newest(w) = Newest(m) + 1 /\ Newest(w) \in DOMAIN w.nodes
      /\ w.nodes[Newest(w)] = Node(Content(t, << >>), FALSE, Newest(w), Newest(w))
      /\ Good(w, R \cup {Newest(w)})
  <2>1. CanBeMade(m, R, R, t, << >>)
    BY <1>1 DEF CanBeMade
  <2>. QED
    BY <1>2, <2>1, NodeMade
<1>4. /\ w.nodes[Newest(w)].t = t /\ w.nodes[Newest(w)].rank = Newest(w)
      /\ w.nodes[Newest(w)].kids = << >>
  BY <1>3 DEF Node, Content
<1>5. Newest(m) \in Nat
  BY DEF Good, MemoryOK, Newest
<1>6. ASSUME t \notin Statements PROVE Flat(w, Newest(w))
  <2>1. Below(w)[Newest(w)] = {Newest(w)}
    <3>1. Kids(w, Newest(w)) = {}
      BY <1>1, <1>4 DEF Kids
    <3>2. MemoryOK(w)
      BY <1>3 DEF Keeps
    <3>. QED
      BY <1>3, <3>1, <3>2, BelowDef
  <2>. QED
    BY <1>4, <1>6, <2>1 DEF Flat
<1>7. Newest(w) > Newest(m)
  BY <1>3, <1>5
<1>. QED
  BY <1>3, <1>4, <1>6, <1>7

LEMMA PairMade ==
    ASSUME NEW m, NEW R, Good(m, R), NEW t \in {"sum", "tuple", "instr", "macro"},
           NEW a \in R, NEW b \in R \cup {Nil}, a # b,
           t = "tuple" /\ b # Nil /\ m.nodes[a].t \in Statements =>
               IsStatements(m, b) /\ ValueRank(m, b) < m.nodes[a].rank,
           t = "instr" => Flat(m, b),
           NEW w, w = mk_node(m, t, <<a, b>>)
    PROVE  /\ Keeps(m, w)
           /\ Newest(w) > Newest(m) /\ Newest(w) \in DOMAIN w.nodes
           /\ w.nodes[Newest(w)].t = t /\ w.nodes[Newest(w)].rank = Newest(w)
           /\ t \in {"sum", "tuple"} /\ Flat(m, a) /\ Flat(m, b) => Flat(w, Newest(w))
           /\ t = "tuple" /\ m.nodes[a].t \in Statements => IsStatements(w, Newest(w))
           /\ Good(w, (R \ {a, b}) \cup {Newest(w)})
<1>. DEFINE kids == <<a, b>>
            Q == R \ {a, b}
<1>1. MemoryOK(m) /\ R \subseteq DOMAIN m.nodes /\ a \in DOMAIN m.nodes
      /\ a \in Nat /\ a # Nil /\ b \in Nat /\ (b # Nil => b \in DOMAIN m.nodes)
  BY KidsDown DEF Good, Nil
<1>2. /\ kids \in Seq(Nat) /\ Range(kids) = {a, b} /\ DOMAIN kids = {1, 2}
      /\ kids[1] = a /\ kids[2] = b
  BY <1>1 DEF Range
<1>3. t \in (Types \cup Names) \ {"list"} /\ Q \subseteq R /\ Range(kids) \ {Nil} \subseteq R \ Q
  BY <1>2 DEF Types
<1>4. \A i, j \in DOMAIN kids : kids[i] = kids[j] /\ kids[i] # Nil => i = j
  BY <1>2
<1>5. w = mk_node(m, t, kids)
  OBVIOUS
<1>. HIDE DEF kids, Q
<1>6. /\ Keeps(m, w)
      /\ Newest(w) = Newest(m) + 1 /\ Newest(w) \in DOMAIN w.nodes
      /\ w.nodes[Newest(w)] = Node(Content(t, kids), FALSE, Newest(w), Newest(w))
      /\ Good(w, Q \cup {Newest(w)})
  <2>1. t \in {"tuple", "instr"} => DOMAIN kids = {1, 2} /\ kids[1] # Nil
    BY <1>1, <1>2
  <2>2. t = "tuple" /\ kids[2] # Nil /\ m.nodes[kids[1]].t \in Statements =>
            IsStatements(m, kids[2]) /\ ValueRank(m, kids[2]) < m.nodes[kids[1]].rank
    BY <1>2
  <2>3. t = "instr" => Flat(m, kids[2])
    BY <1>2
  <2>4. kids \in Seq(Nat) /\ Q \subseteq R /\ Range(kids) \ {Nil} \subseteq R \ Q
        /\ t \in (Types \cup Names) \ {"list"}
    BY <1>2, <1>3
  <2>5. CanBeMade(m, R, Q, t, kids)
    BY <1>4, <2>1, <2>2, <2>3, <2>4 DEF CanBeMade
  <2>. QED
    BY <1>5, <2>5, NodeMade
<1>7. /\ w.nodes[Newest(w)].t = t /\ w.nodes[Newest(w)].rank = Newest(w)
      /\ w.nodes[Newest(w)].kids = kids
  BY <1>6 DEF Node, Content
<1>8. Newest(m) \in Nat
  BY <1>1 DEF MemoryOK, Newest
<1>9. ASSUME t \in {"sum", "tuple"}, Flat(m, a), Flat(m, b) PROVE Flat(w, Newest(w))
  <2>1. MemoryOK(w)
    BY <1>6 DEF Keeps
  <2>2. Below(w)[Newest(w)] = {Newest(w)} \cup UNION {Below(w)[k] : k \in Kids(w, Newest(w))}
    BY <1>6, <2>1, BelowDef
  <2>3. Kids(w, Newest(w)) \subseteq {a, b} \ {Nil}
    BY <1>2, <1>7 DEF Kids
  <2>4. \A k \in {a, b} \ {Nil} : Flat(w, k)
    BY <1>1, <1>6, <1>9, KeepsBelow
  <2>5. t \notin Statements \cup {"list"}
    BY <1>9 DEF Statements
  <2>. QED
    BY <1>7, <2>2, <2>3, <2>4, <2>5 DEF Flat
<1>10. ASSUME t = "tuple", m.nodes[a].t \in Statements PROVE IsStatements(w, Newest(w))
  BY <1>1, <1>2, <1>6, <1>7, <1>10 DEF IsStatements, Keeps
<1>. QED
  BY <1>6, <1>7, <1>8, <1>9, <1>10 DEF Q

(* When the parser is not done.                                              *)
LEMMA StillParsing ==
    ASSUME TreesInv, root = Nil, stack = <<>> \/ Top(1).kind # "finished"
    PROVE  ParsingOK
<1>1. ASSUME EndOK PROVE FALSE
  <2>1. stack = <<stack[1]>> /\ stack[1].kind = "finished"
    BY <1>1 DEF EndOK
  <2>2. Len(stack) = 1
    BY <2>1
  <2>3. Top(1) = stack[1]
    BY <2>2 DEF Top
  <2>4. stack # << >>
    BY <2>1
  <2>. QED
    BY <2>1, <2>3, <2>4
<1>. QED
  BY <1>1 DEF TreesInv, RunningOK

(* Where the parser knows what is on its stack, the program is still parsing. *)
LEMMA TopParsing ==
    ASSUME TreesInv, Len(stack) >= 1, Top(1).kind # "finished"
    PROVE  ParsingOK /\ root = Nil
<1>1. stack # << >>
  OBVIOUS
<1>2. ~RunningOK
  BY <1>1 DEF RunningOK
<1>3. root = Nil
  BY <1>2 DEF TreesInv, ParsingOK, EndOK
<1>. QED
  BY <1>3, StillParsing

LEMMA LeafPushed ==
    ASSUME TreesInv, ParsingOK, NEW t \in (Types \cup Names) \ {"list", "tuple", "instr"},
           NEW kind \in {"mnemonic", "expr", "stmt"},
           kind = "expr" => t \notin Statements, kind = "stmt" => t \in Statements,
           Reduce(0, kind, Leaf(memory, t))
    PROVE  TreesInv'
<1>. DEFINE w == Leaf(memory, t)
<1>1. /\ Keeps(memory, w)
      /\ Newest(w) > Newest(memory) /\ Newest(w) \in DOMAIN w.nodes
      /\ w.nodes[Newest(w)].t = t /\ w.nodes[Newest(w)].rank = Newest(w)
      /\ t \notin Statements => Flat(w, Newest(w))
      /\ Good(w, Owned \cup {Newest(w)})
  BY LeafMade DEF TreesInv
<1>. HIDE DEF w
<1>2. KindOK(w, Value(kind, Newest(w)))
  BY <1>1 DEF KindOK, Value
<1>3. MemoryOK(memory) /\ 0 \in 0 .. Len(stack) /\ Owned = Rest(0)
  BY StackNodes DEF TreesInv, Good
<1>4. kind \in Kinds /\ Reduce(0, kind, w)
  BY DEF Kinds, w
<1>. QED
  BY <1>1, <1>2, <1>3, <1>4, Reduced

(* When a pair of roots makes a value of a kind.                             *)
Fits(m, kind, t, a, b) ==
    /\ a # b /\ t \in {"sum", "tuple", "instr", "macro"}
    /\ t = "tuple" /\ b # Nil /\ m.nodes[a].t \in Statements =>
           IsStatements(m, b) /\ ValueRank(m, b) < m.nodes[a].rank
    /\ t = "instr" => Flat(m, b)
    /\ kind \in {"expr", "operands"} =>
           t \in {"sum", "tuple"} /\ Flat(m, a) /\ Flat(m, b)
    /\ kind = "stmt" => t \in {"instr", "macro"}
    /\ kind = "stmts" => t = "tuple" /\ m.nodes[a].t \in Statements
    /\ kind = "head" => t = "tuple"

LEMMA PairFits ==
    ASSUME NEW m, NEW R, Good(m, R), NEW kind \in Kinds, NEW t,
           NEW a \in R, NEW b \in R \cup {Nil}, Fits(m, kind, t, a, b),
           NEW w, w = mk_node(m, t, <<a, b>>)
    PROVE  /\ Keeps(m, w) /\ Newest(w) > Newest(m)
           /\ KindOK(w, Value(kind, Newest(w)))
           /\ Good(w, (R \ {a, b}) \cup {Newest(w)})
<1>1. t \in {"sum", "tuple", "instr", "macro"} /\ a # b
  BY DEF Fits
<1>2. t = "tuple" /\ b # Nil /\ m.nodes[a].t \in Statements =>
          IsStatements(m, b) /\ ValueRank(m, b) < m.nodes[a].rank
  BY DEF Fits
<1>3. t = "instr" => Flat(m, b)
  BY DEF Fits
<1>4. /\ Keeps(m, w)
      /\ Newest(w) > Newest(m) /\ Newest(w) \in DOMAIN w.nodes
      /\ w.nodes[Newest(w)].t = t /\ w.nodes[Newest(w)].rank = Newest(w)
      /\ t \in {"sum", "tuple"} /\ Flat(m, a) /\ Flat(m, b) => Flat(w, Newest(w))
      /\ t = "tuple" /\ m.nodes[a].t \in Statements => IsStatements(w, Newest(w))
      /\ Good(w, (R \ {a, b}) \cup {Newest(w)})
  BY <1>1, <1>2, <1>3, PairMade
<1>5. KindOK(w, Value(kind, Newest(w)))
  BY <1>4 DEF KindOK, Value, Fits, Statements
<1>. QED
  BY <1>4, <1>5

LEMMA PairReduced ==
    ASSUME TreesInv, ParsingOK, NEW n \in 0 .. Len(stack), NEW kind \in Kinds, NEW t,
           NEW a \in Owned, NEW b \in Owned \cup {Nil}, Fits(memory, kind, t, a, b),
           Owned \ {a, b} = Rest(n), Reduce(n, kind, mk_node(memory, t, <<a, b>>))
    PROVE  TreesInv'
<1>. DEFINE w == mk_node(memory, t, <<a, b>>)
<1>1. /\ Keeps(memory, w) /\ Newest(w) > Newest(memory)
      /\ KindOK(w, Value(kind, Newest(w)))
      /\ Good(w, (Owned \ {a, b}) \cup {Newest(w)})
  BY PairFits DEF TreesInv
<1>2. MemoryOK(memory)
  BY DEF TreesInv, Good
<1>3. Reduce(n, kind, w)
  OBVIOUS
<1>. HIDE DEF w
<1>. QED
  BY <1>1, <1>2, <1>3, Reduced

LEMMA OwnedNodes ==
    ASSUME TreesInv
    PROVE  /\ Good(memory, Owned) /\ MemoryOK(memory)
           /\ Owned \subseteq DOMAIN memory.nodes /\ Nil \notin Owned
           /\ Below(memory)[Nil] = {} /\ Flat(memory, Nil)
<1>1. Good(memory, Owned) /\ MemoryOK(memory) /\ Owned \subseteq DOMAIN memory.nodes
  BY DEF TreesInv, Good
<1>2. Below(memory)[Nil] = {}
  BY <1>1, BelowDef
<1>. QED
  BY <1>1, <1>2, KidsDown DEF Flat

LEMMA MnemonicInv ==
    ASSUME TreesInv, Mnemonic
    PROVE  TreesInv'
<1>1. ParsingOK
  BY StillParsing DEF Mnemonic, AtStatement, Parsing
<1>2. "mnemonic" \in (Types \cup Names) \ {"list", "tuple", "instr"}
  BY DEF Types
<1>. QED
  BY <1>1, <1>2, LeafPushed DEF Mnemonic

LEMMA LocationInv ==
    ASSUME TreesInv, Location
    PROVE  TreesInv'
<1>1. ParsingOK
  BY StillParsing DEF Location, AtStatement, Parsing
<1>2. "label" \in (Types \cup Names) \ {"list", "tuple", "instr"} /\ "label" \in Statements
  BY DEF Types, Statements
<1>. QED
  BY <1>1, <1>2, LeafPushed DEF Location

LEMMA NotStatement ==
    ASSUME NEW t \in Names \cup {"number"}
    PROVE  t \in (Types \cup Names) \ {"list", "tuple", "instr"} /\ t \notin Statements
  BY NamesAssumption DEF Types, Statements

LEMMA OperandInv ==
    ASSUME TreesInv, NEW t \in Names \cup {"number"}, Operand(t)
    PROVE  TreesInv'
<1>1. ParsingOK
  BY StillParsing DEF Operand, Parsing
<1>2. t \in (Types \cup Names) \ {"list", "tuple", "instr"} /\ t \notin Statements
  BY NotStatement
<1>. QED
  BY <1>1, <1>2, LeafPushed DEF Operand

LEMMA TermInv ==
    ASSUME TreesInv, NEW t \in Names \cup {"number"}, Term(t)
    PROVE  TreesInv'
<1>. DEFINE m == Leaf(memory, t)
            a == Top(1).node
            R == Owned \cup {Newest(m)}
            w == mk_node(m, "sum", <<a, Newest(m)>>)
<1>1. Len(stack) >= 1 /\ Top(1).kind = "expr"
  BY TopOne DEF Term
<1>2. ParsingOK
  BY <1>1, TopParsing
<1>3. /\ KindOK(memory, Top(1)) /\ Owned = Rest(1) \cup {a} /\ a \notin Rest(1)
      /\ 1 \in 0 .. Len(stack)
  BY <1>1, <1>2, StackNodes
<1>4. a \in DOMAIN memory.nodes /\ Flat(memory, a)
  BY <1>1, <1>3 DEF KindOK
<1>5. /\ Good(memory, Owned) /\ MemoryOK(memory) /\ Owned \subseteq DOMAIN memory.nodes
  BY OwnedNodes
<1>6. t \in (Types \cup Names) \ {"list", "tuple", "instr"} /\ t \notin Statements
  BY NotStatement
<1>7. /\ Keeps(memory, m)
      /\ Newest(m) > Newest(memory) /\ Newest(m) \in DOMAIN m.nodes
      /\ Flat(m, Newest(m)) /\ Good(m, R)
  BY <1>5, <1>6, LeafMade
<1>8. Reduce(1, "expr", w)
  BY DEF Term
<1>. HIDE DEF m
<1>9. Newest(m) \notin DOMAIN memory.nodes /\ Newest(m) \in Nat /\ Newest(memory) \in Nat
  <2>1. \A k \in DOMAIN memory.nodes : k \in Nat /\ k <= memory.last
    BY <1>5, KidsDown
  <2>2. MemoryOK(m)
    BY <1>7 DEF Keeps
  <2>. QED
    BY <1>5, <1>7, <2>1, <2>2 DEF Newest, MemoryOK
<1>10. a # Newest(m) /\ Flat(m, a)
  BY <1>4, <1>5, <1>7, <1>9, KeepsBelow
<1>11. Fits(m, "expr", "sum", a, Newest(m))
  BY <1>7, <1>10 DEF Fits
<1>12. a \in R /\ Newest(m) \in R \cup {Nil} /\ "expr" \in Kinds
  BY <1>3 DEF Kinds
<1>13. R \ {a, Newest(m)} = Rest(1)
  BY <1>3, <1>5, <1>9
<1>14. /\ Keeps(m, w) /\ Newest(w) > Newest(m)
       /\ KindOK(w, Value("expr", Newest(w)))
       /\ Good(w, Rest(1) \cup {Newest(w)})
  <2>1. /\ Keeps(m, w) /\ Newest(w) > Newest(m)
        /\ KindOK(w, Value("expr", Newest(w)))
        /\ Good(w, (R \ {a, Newest(m)}) \cup {Newest(w)})
    <3>. HIDE DEF a, R
    <3>. QED
      BY <1>7, <1>11, <1>12, PairFits
  <2>. QED
    BY <1>13, <2>1
<1>. HIDE DEF w, a, R
<1>15. Keeps(memory, w)
  BY <1>7, <1>14 DEF Keeps
<1>16. Newest(w) > Newest(memory)
  <2>1. Newest(w) \in Nat
    BY <1>14 DEF Keeps, MemoryOK, Newest
  <2>. QED
    BY <1>7, <1>9, <1>14, <2>1
<1>. QED
  BY <1>2, <1>3, <1>5, <1>8, <1>12, <1>14, <1>15, <1>16, Reduced

LEMMA LastOperandInv ==
    ASSUME TreesInv, LastOperand
    PROVE  TreesInv'
<1>. DEFINE a == Top(1).node
<1>1. Len(stack) >= 1 /\ Top(1).kind = "expr"
  BY TopOne DEF LastOperand
<1>2. ParsingOK
  BY <1>1, TopParsing
<1>3. /\ KindOK(memory, Top(1)) /\ Owned = Rest(1) \cup {a} /\ a \notin Rest(1)
      /\ 1 \in 0 .. Len(stack)
  BY <1>1, <1>2, StackNodes
<1>4. Flat(memory, a) /\ Flat(memory, Nil) /\ Nil \notin Owned
  BY <1>1, <1>3, OwnedNodes DEF KindOK
<1>5. Fits(memory, "operands", "tuple", a, Nil) /\ "operands" \in Kinds
  BY <1>3, <1>4 DEF Fits, Kinds
<1>6. a \in Owned /\ Nil \in Owned \cup {Nil} /\ Owned \ {a, Nil} = Rest(1)
  BY <1>3, <1>4
<1>7. Reduce(1, "operands", mk_node(memory, "tuple", <<a, Nil>>))
  BY DEF LastOperand
<1>. HIDE DEF a
<1>. QED
  BY <1>2, <1>3, <1>5, <1>6, <1>7, PairReduced

LEMMA MoreOperandsInv ==
    ASSUME TreesInv, MoreOperands
    PROVE  TreesInv'
<1>. DEFINE a == Top(2).node
            b == Top(1).node
<1>1. Len(stack) >= 2 /\ Top(2).kind = "expr" /\ Top(1).kind = "operands"
  BY TopTwo DEF MoreOperands
<1>2. ParsingOK
  BY <1>1, TopParsing
<1>3. /\ KindOK(memory, Top(1)) /\ KindOK(memory, Top(2)) /\ a < b
      /\ Owned = Rest(2) \cup {a, b} /\ a \notin Rest(2) /\ b \notin Rest(2)
      /\ 2 \in 0 .. Len(stack)
  BY <1>1, <1>2, StackNodes
<1>4. Flat(memory, a) /\ Flat(memory, b) /\ a # b
  <2>1. a \in Nat /\ b \in Nat
    BY <1>3, OwnedNodes, KidsDown
  <2>. QED
    BY <1>1, <1>3, <2>1 DEF KindOK
<1>5. memory.nodes[a].t \notin Statements
  <2>1. a \in Below(memory)[a]
    BY <1>3, OwnedNodes, BelowClosed
  <2>. QED
    BY <1>4, <2>1 DEF Flat
<1>6. Fits(memory, "operands", "tuple", a, b) /\ "operands" \in Kinds
  BY <1>4, <1>5 DEF Fits, Kinds
<1>7. a \in Owned /\ b \in Owned \cup {Nil} /\ Owned \ {a, b} = Rest(2)
  BY <1>3
<1>8. Reduce(2, "operands", mk_node(memory, "tuple", <<a, b>>))
  BY DEF MoreOperands
<1>. HIDE DEF a, b
<1>. QED
  BY <1>2, <1>3, <1>6, <1>7, <1>8, PairReduced

LEMMA InstrInv ==
    ASSUME TreesInv, Instr
    PROVE  TreesInv'
<1>1. CASE /\ TopKinds(<<"mnemonic", "operands">>)
           /\ Reduce(2, "stmt", mk_node(memory, "instr", <<Top(2).node, Top(1).node>>))
  <2>. DEFINE a == Top(2).node
              b == Top(1).node
  <2>1. Len(stack) >= 2 /\ Top(2).kind = "mnemonic" /\ Top(1).kind = "operands"
    BY <1>1, TopTwo
  <2>2. ParsingOK
    BY <2>1, TopParsing
  <2>3. /\ KindOK(memory, Top(1)) /\ KindOK(memory, Top(2)) /\ a < b
        /\ Owned = Rest(2) \cup {a, b} /\ a \notin Rest(2) /\ b \notin Rest(2)
        /\ 2 \in 0 .. Len(stack)
    BY <2>1, <2>2, StackNodes
  <2>4. Flat(memory, b) /\ a # b
    <3>1. a \in Nat /\ b \in Nat
      BY <2>3, OwnedNodes, KidsDown
    <3>. QED
      BY <2>1, <2>3, <3>1 DEF KindOK
  <2>5. Fits(memory, "stmt", "instr", a, b) /\ "stmt" \in Kinds
    BY <2>4 DEF Fits, Kinds
  <2>6. a \in Owned /\ b \in Owned \cup {Nil} /\ Owned \ {a, b} = Rest(2)
    BY <2>3
  <2>7. Reduce(2, "stmt", mk_node(memory, "instr", <<a, b>>))
    BY <1>1
  <2>. HIDE DEF a, b
  <2>. QED
    BY <2>2, <2>3, <2>5, <2>6, <2>7, PairReduced
<1>2. CASE /\ TopKinds(<<"mnemonic">>)
           /\ Reduce(1, "stmt", mk_node(memory, "instr", <<Top(1).node, Nil>>))
  <2>. DEFINE a == Top(1).node
  <2>1. Len(stack) >= 1 /\ Top(1).kind = "mnemonic"
    BY <1>2, TopOne
  <2>2. ParsingOK
    BY <2>1, TopParsing
  <2>3. Owned = Rest(1) \cup {a} /\ a \notin Rest(1) /\ 1 \in 0 .. Len(stack)
    BY <2>1, <2>2, StackNodes
  <2>4. Flat(memory, Nil) /\ Nil \notin Owned
    BY OwnedNodes
  <2>5. Fits(memory, "stmt", "instr", a, Nil) /\ "stmt" \in Kinds
    BY <2>3, <2>4 DEF Fits, Kinds
  <2>6. a \in Owned /\ Nil \in Owned \cup {Nil} /\ Owned \ {a, Nil} = Rest(1)
    BY <2>3, <2>4
  <2>7. Reduce(1, "stmt", mk_node(memory, "instr", <<a, Nil>>))
    BY <1>2
  <2>. HIDE DEF a
  <2>. QED
    BY <2>2, <2>3, <2>5, <2>6, <2>7, PairReduced
<1>. QED
  BY <1>1, <1>2 DEF Instr

LEMMA StatementInv ==
    ASSUME TreesInv, Statement
    PROVE  TreesInv'
<1>1. CASE /\ TopKinds(<<"stmts", "stmt">>)
           /\ Reduce(2, "stmts", mk_node(memory, "tuple", <<Top(1).node, Top(2).node>>))
  <2>. DEFINE a == Top(1).node
              b == Top(2).node
  <2>1. Len(stack) >= 2 /\ Top(2).kind = "stmts" /\ Top(1).kind = "stmt"
    BY <1>1, TopTwo
  <2>2. ParsingOK
    BY <2>1, TopParsing
  <2>3. /\ KindOK(memory, Top(1)) /\ KindOK(memory, Top(2)) /\ b < a
        /\ Owned = Rest(2) \cup {a, b} /\ a \notin Rest(2) /\ b \notin Rest(2)
        /\ 2 \in 0 .. Len(stack)
    BY <2>1, <2>2, StackNodes
  <2>4. /\ a \in Nat /\ b \in Nat /\ b \in DOMAIN memory.nodes /\ MemoryOK(memory)
    BY <2>3, OwnedNodes, KidsDown
  <2>5. /\ memory.nodes[a].t \in Statements /\ memory.nodes[a].rank = a
        /\ IsStatements(memory, b)
    BY <2>1, <2>3 DEF KindOK
  <2>6. ValueRank(memory, b) < memory.nodes[a].rank
    <3>. DEFINE v == memory.nodes[b].kids[1]
    <3>1. DOMAIN memory.nodes[b].kids = {1, 2} /\ v # Nil
      BY <2>4, <2>5 DEF MemoryOK, IsStatements
    <3>2. v \in Kids(memory, b)
      BY <3>1 DEF Kids, Range
    <3>3. v \in DOMAIN memory.nodes /\ v < b
      BY <2>4, <3>2, KidsDown
    <3>4. memory.nodes[v].rank <= v /\ memory.nodes[v] \in NodeSet
      BY <2>4, <3>3 DEF MemoryOK
    <3>5. memory.nodes[v].rank \in Nat /\ v \in Nat
      BY <2>4, <3>3, <3>4, KidsDown, NodeIs
    <3>. HIDE DEF a, b
    <3>. QED
      BY <2>3, <2>4, <2>5, <3>3, <3>4, <3>5 DEF ValueRank, v
  <2>7. Fits(memory, "stmts", "tuple", a, b) /\ "stmts" \in Kinds
    BY <2>3, <2>4, <2>5, <2>6 DEF Fits, Kinds
  <2>8. a \in Owned /\ b \in Owned \cup {Nil} /\ Owned \ {a, b} = Rest(2)
    BY <2>3
  <2>9. Reduce(2, "stmts", mk_node(memory, "tuple", <<a, b>>))
    BY <1>1
  <2>. HIDE DEF a, b
  <2>. QED
    BY <2>2, <2>3, <2>7, <2>8, <2>9, PairReduced
<1>2. CASE /\ TopKinds(<<"stmt">>) /\ ~TopKinds(<<"stmts", "stmt">>)
           /\ Reduce(1, "stmts", mk_node(memory, "tuple", <<Top(1).node, Nil>>))
  <2>. DEFINE a == Top(1).node
  <2>1. Len(stack) >= 1 /\ Top(1).kind = "stmt"
    BY <1>2, TopOne
  <2>2. ParsingOK
    BY <2>1, TopParsing
  <2>3. /\ KindOK(memory, Top(1)) /\ Owned = Rest(1) \cup {a} /\ a \notin Rest(1)
        /\ 1 \in 0 .. Len(stack)
    BY <2>1, <2>2, StackNodes
  <2>4. Nil \notin Owned /\ memory.nodes[a].t \in Statements
    BY <2>1, <2>3, OwnedNodes DEF KindOK
  <2>5. Fits(memory, "stmts", "tuple", a, Nil) /\ "stmts" \in Kinds
    BY <2>3, <2>4 DEF Fits, Kinds
  <2>6. a \in Owned /\ Nil \in Owned \cup {Nil} /\ Owned \ {a, Nil} = Rest(1)
    BY <2>3, <2>4
  <2>7. Reduce(1, "stmts", mk_node(memory, "tuple", <<a, Nil>>))
    BY <1>2
  <2>. HIDE DEF a
  <2>. QED
    BY <2>2, <2>3, <2>5, <2>6, <2>7, PairReduced
<1>. QED
  BY <1>1, <1>2 DEF Statement

LEMMA KeepsOn ==
    ASSUME NEW m, MemoryOK(m), NEW w, Keeps(m, w), Newest(w) > Newest(m)
    PROVE  /\ Newest(m) \in Nat /\ Newest(w) \in Nat /\ MemoryOK(w)
           /\ DOMAIN m.nodes \subseteq DOMAIN w.nodes
           /\ \A k \in DOMAIN m.nodes : k <= Newest(m) /\ w.nodes[k] = m.nodes[k]
           /\ Newest(w) \notin DOMAIN m.nodes
<1>1. \A k \in DOMAIN m.nodes : k \in Nat /\ k <= m.last
  BY KidsDown
<1>2. m.last \in Nat /\ w.last \in Nat
  BY DEF Keeps, MemoryOK
<1>. QED
  BY <1>1, <1>2 DEF Keeps, Newest

LEMMA MacroHeadInv ==
    ASSUME TreesInv, MacroHead
    PROVE  TreesInv'
<1>. DEFINE m == Leaf(memory, "name")
            a == Newest(m)
            R == Owned \cup {a}
            w == mk_node(m, "tuple", <<a, Nil>>)
<1>1. ParsingOK
  BY StillParsing DEF MacroHead, AtStatement, Parsing
<1>2. Owned = Rest(0) /\ 0 \in 0 .. Len(stack)
  BY <1>1, StackNodes
<1>3. Good(memory, Owned) /\ MemoryOK(memory) /\ Owned \subseteq DOMAIN memory.nodes
  BY OwnedNodes
<1>4. "name" \in (Types \cup Names) \ {"list", "tuple", "instr"} /\ "name" \notin Statements
  BY DEF Types, Statements
<1>5. /\ Keeps(memory, m) /\ Newest(m) > Newest(memory) /\ m.nodes[a].t = "name"
      /\ Good(m, R)
  BY <1>3, <1>4, LeafMade
<1>6. Reduce(0, "head", w)
  BY DEF MacroHead
<1>. HIDE DEF m
<1>7. /\ a \notin DOMAIN memory.nodes /\ a # Nil /\ Nil \notin R
      /\ Newest(m) \in Nat /\ Newest(memory) \in Nat /\ MemoryOK(m)
  <2>1. /\ a \notin DOMAIN memory.nodes /\ MemoryOK(m)
        /\ Newest(m) \in Nat /\ Newest(memory) \in Nat
    BY <1>3, <1>5, KeepsOn
  <2>2. \A k \in DOMAIN m.nodes : k # Nil
    BY <2>1, KidsDown
  <2>. QED
    BY <1>5, <2>1, <2>2 DEF Good
<1>8. Fits(m, "head", "tuple", a, Nil) /\ "head" \in Kinds
  BY <1>7 DEF Fits, Kinds
<1>9. a \in R /\ Nil \in R \cup {Nil} /\ R \ {a, Nil} = Rest(0)
  BY <1>2, <1>3, <1>7
<1>10. /\ Keeps(m, w) /\ Newest(w) > Newest(m)
       /\ KindOK(w, Value("head", Newest(w)))
       /\ Good(w, (R \ {a, Nil}) \cup {Newest(w)})
  <2>. HIDE DEF a, R
  <2>. QED
    BY <1>5, <1>8, <1>9, PairFits
<1>. HIDE DEF w, a, R
<1>11. Keeps(memory, w)
  BY <1>5, <1>10 DEF Keeps
<1>12. Newest(w) > Newest(memory)
  <2>1. Newest(w) \in Nat
    BY <1>7, <1>10, KeepsOn
  <2>. QED
    BY <1>5, <1>7, <1>10, <2>1
<1>. QED
  BY <1>1, <1>2, <1>3, <1>6, <1>8, <1>9, <1>10, <1>11, <1>12, Reduced

LEMMA EndMacroInv ==
    ASSUME TreesInv, EndMacro
    PROVE  TreesInv'
<1>. DEFINE h == Top(2).node
            s == Top(1).node
            named == Leaf(memory, "name")
            listed == mk_list(named, s)
            pair == mk_node(listed, "tuple", <<h, Newest(listed)>>)
            w == mk_node(pair, "macro", <<Newest(named), Newest(pair)>>)
            n == Newest(named)
            l == Newest(listed)
            p == Newest(pair)
            R1 == Owned \cup {n}
            R2 == (R1 \ {s}) \cup {l}
            R3 == (R2 \ {h, l}) \cup {p}
<1>1. Len(stack) >= 2 /\ Top(2).kind = "head" /\ Top(1).kind = "stmts"
  BY TopTwo DEF EndMacro
<1>2. ParsingOK
  BY <1>1, TopParsing
<1>3. /\ KindOK(memory, Top(1)) /\ KindOK(memory, Top(2)) /\ h < s
      /\ Owned = Rest(2) \cup {h, s} /\ h \notin Rest(2) /\ s \notin Rest(2)
      /\ 2 \in 0 .. Len(stack)
  BY <1>1, <1>2, StackNodes
<1>4. Good(memory, Owned) /\ MemoryOK(memory) /\ Owned \subseteq DOMAIN memory.nodes
  BY OwnedNodes
<1>5. /\ h \in DOMAIN memory.nodes /\ s \in DOMAIN memory.nodes /\ h # s
      /\ memory.nodes[h].t = "tuple"
  <2>1. h \in Nat /\ s \in Nat
    BY <1>3, <1>4, KidsDown
  <2>. QED
    BY <1>1, <1>3, <1>4, <2>1 DEF KindOK
<1>6. Reduce(2, "stmt", w)
  BY DEF EndMacro
<1>7. "name" \in (Types \cup Names) \ {"list", "tuple", "instr"} /\ "name" \notin Statements
  BY DEF Types, Statements
<1>8. Keeps(memory, named) /\ n > Newest(memory) /\ Good(named, R1)
  BY <1>4, <1>7, LeafMade
<1>. HIDE DEF named
<1>9. /\ Newest(memory) \in Nat /\ n \in Nat /\ MemoryOK(named)
      /\ DOMAIN memory.nodes \subseteq DOMAIN named.nodes
      /\ named.nodes[h] = memory.nodes[h]
      /\ n \notin DOMAIN memory.nodes
  BY <1>4, <1>5, <1>8, KeepsOn
<1>10. IsStatements(named, s)
  <2>1. KindOK(named, Top(1))
    BY <1>3, <1>4, <1>8, KindKept
  <2>. QED
    BY <1>1, <2>1 DEF KindOK
<1>11. Keeps(named, listed) /\ l > n /\ l \in DOMAIN listed.nodes /\ Good(listed, R2)
  <2>1. s \in R1
    BY <1>3
  <2>. HIDE DEF R1, s
  <2>. QED
    BY <1>8, <1>10, <2>1, ListMade DEF Keeps
<1>. HIDE DEF listed
<1>12. /\ l \in Nat /\ MemoryOK(listed) /\ DOMAIN named.nodes \subseteq DOMAIN listed.nodes
       /\ listed.nodes[h] = memory.nodes[h] /\ l \notin DOMAIN named.nodes
  BY <1>5, <1>9, <1>11, KeepsOn
<1>13. h # l /\ h # n /\ s # n /\ s # l /\ n # l
  BY <1>5, <1>9, <1>11, <1>12
<1>14. R2 = Rest(2) \cup {h, n, l} /\ n \notin Rest(2) /\ l \notin Rest(2)
  BY <1>3, <1>4, <1>5, <1>9, <1>12, <1>13
<1>15. Fits(listed, "head", "tuple", h, l)
  BY <1>5, <1>12, <1>13 DEF Fits, Statements
<1>16. h \in R2 /\ l \in R2 \cup {Nil} /\ "head" \in Kinds /\ "stmt" \in Kinds
  BY <1>14 DEF Kinds
<1>17. Keeps(listed, pair) /\ p > l /\ Good(pair, R3)
  <2>. HIDE DEF h, l, R2
  <2>. QED
    BY <1>11, <1>15, <1>16, PairFits DEF l
<1>. HIDE DEF pair
<1>18. p \in Nat /\ MemoryOK(pair) /\ p \notin DOMAIN listed.nodes
       /\ DOMAIN listed.nodes \subseteq DOMAIN pair.nodes
  BY <1>12, <1>17, KeepsOn
<1>19. p # n /\ p \notin Rest(2)
  BY <1>3, <1>4, <1>9, <1>12, <1>11, <1>17, <1>18
<1>20. R3 = Rest(2) \cup {n, p}
  BY <1>3, <1>13, <1>14
<1>21. Fits(pair, "stmt", "macro", n, p)
  BY <1>19 DEF Fits
<1>22. n \in R3 /\ p \in R3 \cup {Nil} /\ R3 \ {n, p} = Rest(2)
  BY <1>14, <1>19, <1>20
<1>23. /\ Keeps(pair, w) /\ Newest(w) > p /\ KindOK(w, Value("stmt", Newest(w)))
       /\ Good(w, (R3 \ {n, p}) \cup {Newest(w)})
  <2>. HIDE DEF n, p, R3
  <2>. QED
    BY <1>16, <1>17, <1>21, <1>22, PairFits DEF n, p
<1>. HIDE DEF w, R1, R2, R3
<1>24. Keeps(memory, w)
  <2>1. Keeps(memory, listed)
    BY <1>8, <1>11 DEF Keeps
  <2>2. Keeps(memory, pair)
    BY <1>17, <2>1 DEF Keeps
  <2>. QED
    BY <1>23, <2>2 DEF Keeps
<1>25. Newest(w) > Newest(memory)
  <2>1. Newest(w) \in Nat
    BY <1>18, <1>23, KeepsOn
  <2>. QED
    BY <1>8, <1>9, <1>11, <1>12, <1>17, <1>18, <1>23, <2>1
<1>26. Good(w, Rest(2) \cup {Newest(w)})
  BY <1>22, <1>23
<1>. QED
  BY <1>2, <1>3, <1>4, <1>6, <1>16, <1>23, <1>24, <1>25, <1>26, Reduced

LEMMA AcceptInv ==
    ASSUME TreesInv, Accept
    PROVE  TreesInv'
<1>. DEFINE s == Top(1).node
            w == mk_list(memory, s)
<1>1. Len(stack) = 1 /\ Top(1).kind = "stmts"
  BY TopOne DEF Accept
<1>2. ParsingOK
  BY <1>1, TopParsing
<1>3. KindOK(memory, Top(1)) /\ Owned = Rest(1) \cup {s}
  BY <1>1, <1>2, StackNodes
<1>4. Rest(1) = {}
  BY <1>1 DEF Rest
<1>5. Good(memory, Owned) /\ MemoryOK(memory)
  BY OwnedNodes
<1>6. IsStatements(memory, s)
  BY <1>1, <1>3 DEF KindOK
<1>7. /\ MemoryOK(w) /\ Newest(w) \in DOMAIN w.nodes
      /\ Good(w, (Owned \ {s}) \cup {Newest(w)})
  BY <1>3, <1>5, <1>6, ListMade
<1>8. memory' = w /\ root' = Newest(w) /\ stack' = <<>> /\ held' = held /\ held = {}
  BY <1>2 DEF Accept, ParsingOK
<1>. HIDE DEF w
<1>9. Newest(w) # Nil
  BY <1>7, KidsDown
<1>10. Owned' = {Newest(w)}
  BY <1>8, <1>9 DEF Owned
<1>11. RunningOK'
  BY <1>8, <1>9 DEF RunningOK
<1>12. (Owned \ {s}) \cup {Newest(w)} = {Newest(w)}
  BY <1>3, <1>4
<1>. QED
  BY <1>7, <1>8, <1>10, <1>11, <1>12 DEF TreesInv

LEMMA Running ==
    ASSUME TreesInv, root # Nil
    PROVE  RunningOK /\ Owned = held \cup {root}
<1>1. RunningOK
  BY DEF TreesInv, ParsingOK, EndOK
<1>2. DOMAIN stack = {}
  BY <1>1 DEF RunningOK
<1>. QED
  BY <1>1, <1>2 DEF Owned

(* An operand is in the tree, and has no statements below it.                *)
LEMMA OperandsFlat ==
    ASSUME TreesInv, root # Nil, NEW n \in Operands
    PROVE  n \in Live(memory, Owned) /\ Flat(memory, n)
<1>. DEFINE m == memory
            L == Live(m, Owned)
<1>1. root \in Owned /\ Good(m, Owned) /\ MemoryOK(m) /\ Owned \subseteq DOMAIN m.nodes
      /\ root \in DOMAIN m.nodes /\ Below(m)[Nil] = {}
  BY Running, OwnedNodes
<1>2. Below(m)[root] \subseteq L /\ Closed(m, L) /\ L \subseteq DOMAIN m.nodes
  BY <1>1, LiveClosed DEF Live, Closed
<1>0. PICK a \in Below(m)[root] :
          /\ m.nodes[a].t = "instr"
          /\ \E k \in Below(m)[m.nodes[a].kids[2]] :
                 m.nodes[k].t = "tuple" /\ n = m.nodes[k].kids[1]
  BY DEF Operands
<1>. DEFINE b == m.nodes[a].kids[2]
<1>3. PICK k \in Below(m)[b] : m.nodes[k].t = "tuple" /\ n = m.nodes[k].kids[1]
  BY <1>0
<1>4. a \in L /\ a \in DOMAIN m.nodes
  BY <1>2
<1>5. Flat(m, b)
  BY <1>0, <1>1, <1>4 DEF Good, NodesOK, Instrs
<1>6. b # Nil
  BY <1>1
<1>7. b \in L /\ b \in DOMAIN m.nodes
  <2>1. DOMAIN m.nodes[a].kids = {1, 2}
    BY <1>0, <1>1, <1>4 DEF MemoryOK
  <2>2. b \in Kids(m, a)
    BY <1>6, <2>1 DEF Kids, Range
  <2>. QED
    BY <1>2, <1>4, <2>2 DEF Closed
<1>8. Closed(m, Below(m)[b]) /\ Below(m)[b] \subseteq L
  BY <1>1, <1>7, BelowClosed, LiveWithin
<1>9. k \in Below(m)[b] /\ k \in DOMAIN m.nodes
  BY <1>8 DEF Closed
<1>10. n \in Kids(m, k)
  <2>1. DOMAIN m.nodes[k].kids = {1, 2} /\ m.nodes[k].kids[1] # Nil
    BY <1>1, <1>3, <1>9 DEF MemoryOK
  <2>. QED
    BY <1>3, <2>1 DEF Kids, Range
<1>11. n \in Below(m)[b] /\ n \in L
  BY <1>8, <1>9, <1>10 DEF Closed
<1>12. Below(m)[n] \subseteq Below(m)[b]
  BY <1>1, <1>8, <1>11, BelowLeast
<1>. QED
  BY <1>5, <1>11, <1>12 DEF Flat

LEMMA EvaluateInv ==
    ASSUME TreesInv, NEW n \in Operands \cup held, NEW known \in SUBSET Names,
           Evaluate(n, known)
    PROVE  TreesInv'
<1>. DEFINE w == eval_expr(memory, n, known)
<1>1. root # Nil
  BY DEF Evaluate
<1>2. RunningOK /\ Owned = held \cup {root} /\ Good(memory, Owned) /\ MemoryOK(memory)
      /\ Owned \subseteq DOMAIN memory.nodes
  BY <1>1, Running, OwnedNodes
<1>3. n \in Live(memory, Owned) /\ Flat(memory, n)
  <2>1. CASE n \in Operands
    BY <1>1, <2>1, OperandsFlat
  <2>2. CASE n \in held
    BY <1>2, <2>2, LiveClosed DEF RunningOK
  <2>. QED
    BY <2>1, <2>2
<1>4. /\ Good(w, Owned)
      /\ \A k \in DOMAIN memory.nodes : Flat(memory, k) => Flat(w, k)
  BY <1>2, <1>3, TreeEvaluated
<1>5. memory' = w /\ held' \subseteq held /\ stack' = stack /\ root' = root
  BY DEF Evaluate
<1>. HIDE DEF w
<1>6. RunningOK'
  BY <1>2, <1>4, <1>5 DEF RunningOK
<1>7. Owned' = held' \cup {root}
  <2>1. stack' = <<>> /\ root # Nil
    BY <1>2, <1>5 DEF RunningOK
  <2>. QED
    BY <1>5, <2>1 DEF Owned
<1>8. Good(w, Owned')
  BY <1>2, <1>4, <1>5, <1>7, GoodFewer
<1>. QED
  BY <1>5, <1>6, <1>8 DEF TreesInv

LEMMA CopyArgumentInv ==
    ASSUME TreesInv, NEW n \in Operands \cup held, NEW known \in SUBSET Names,
           CopyArgument(n, known)
    PROVE  TreesInv'
<1>. DEFINE copied == ast_copy_tree(memory, n)
            copy == Newest(copied)
            w == eval_expr(copied, copy, known)
            R == Owned \cup {copy}
<1>1. root # Nil /\ n \in Operands
  BY DEF CopyArgument
<1>2. RunningOK /\ Owned = held \cup {root} /\ Good(memory, Owned) /\ MemoryOK(memory)
      /\ Owned \subseteq DOMAIN memory.nodes
  BY <1>1, Running, OwnedNodes
<1>3. n \in Live(memory, Owned) /\ Flat(memory, n)
  BY <1>1, OperandsFlat
<1>4. /\ Keeps(memory, copied) /\ copy \in DOMAIN copied.nodes /\ copy > Newest(memory)
      /\ Flat(copied, copy) /\ Good(copied, R)
  BY <1>2, <1>3, TreeCopied
<1>5. memory' = w /\ held' \subseteq held \cup {copy} /\ stack' = stack /\ root' = root
  BY DEF CopyArgument
<1>. HIDE DEF copied
<1>6. copy \notin DOMAIN memory.nodes /\ MemoryOK(copied)
  BY <1>2, <1>4, KeepsOn
<1>7. copy \in Live(copied, R)
  BY <1>4, <1>6, LiveClosed DEF Good
<1>8. /\ Good(w, R)
      /\ \A k \in DOMAIN copied.nodes : Flat(copied, k) => Flat(w, k)
  <2>. HIDE DEF copy, R
  <2>. QED
    BY <1>4, <1>7, TreeEvaluated
<1>. HIDE DEF w
<1>9. \A h \in held \cup {copy} : Flat(w, h)
  <2>1. \A h \in held : h \in DOMAIN memory.nodes /\ Flat(memory, h)
    BY <1>2 DEF RunningOK
  <2>2. \A h \in held : h \in DOMAIN copied.nodes /\ Flat(copied, h)
    BY <1>2, <1>4, <2>1, KeepsBelow DEF Keeps
  <2>. QED
    BY <1>4, <1>8, <2>2
<1>10. RunningOK'
  <2>1. root # copy
    BY <1>2, <1>6
  <2>. QED
    BY <1>2, <1>5, <1>9, <2>1 DEF RunningOK
<1>11. Owned' = held' \cup {root}
  <2>1. stack' = <<>> /\ root # Nil
    BY <1>2, <1>5 DEF RunningOK
  <2>. QED
    BY <1>5, <2>1 DEF Owned
<1>12. Good(w, Owned')
  <2>1. Owned' \subseteq R
    BY <1>2, <1>5, <1>11
  <2>. QED
    BY <1>8, <2>1, GoodFewer
<1>. QED
  BY <1>5, <1>10, <1>12 DEF TreesInv

LEMMA FinishInv ==
    ASSUME TreesInv, Finish
    PROVE  TreesInv'
<1>. DEFINE w == ast_free_tree(memory, root)
<1>1. root # Nil
  BY DEF Finish
<1>2. RunningOK /\ Owned = held \cup {root} /\ Good(memory, Owned) /\ Nil \notin Owned
  BY <1>1, Running, OwnedNodes
<1>3. root \in Owned /\ \A r \in Owned : r # root => Flat(memory, r)
  BY <1>2 DEF RunningOK
<1>4. Good(w, Owned \ {root})
  BY <1>2, <1>3, TreeFreed
<1>5. memory' = w /\ stack' = <<Value("finished", root)>> /\ root' = Nil /\ held' = held
  BY DEF Finish
<1>. HIDE DEF w
<1>6. Owned' = held
  <2>1. DOMAIN stack' = {1} /\ stack'[1].kind = "finished"
    BY <1>5 DEF Value
  <2>2. {k \in DOMAIN stack' : stack'[k].kind # "finished"} = {}
    BY <2>1
  <2>. QED
    BY <1>5, <2>2 DEF Owned
<1>7. Owned \ {root} = held
  BY <1>2 DEF RunningOK
<1>8. EndOK'
  <2>1. stack' = <<stack'[1]>> /\ stack'[1].kind = "finished"
    BY <1>5 DEF Value
  <2>. QED
    BY <1>5, <2>1 DEF EndOK
<1>. QED
  BY <1>4, <1>5, <1>6, <1>7, <1>8 DEF TreesInv

LEMMA TreesSame ==
    ASSUME TreesInv, UNCHANGED treeVars
    PROVE  TreesInv'
  BY DEF treeVars, TreesInv, Owned, ParsingOK, RunningOK, EndOK

LEMMA TreesNextInv ==
    ASSUME TreesInv, [TreesNext]_treeVars
    PROVE  TreesInv'
<1>1. CASE Mnemonic BY <1>1, MnemonicInv
<1>2. CASE Location BY <1>2, LocationInv
<1>3. CASE LastOperand BY <1>3, LastOperandInv
<1>4. CASE MoreOperands BY <1>4, MoreOperandsInv
<1>5. CASE Instr BY <1>5, InstrInv
<1>6. CASE Statement BY <1>6, StatementInv
<1>7. CASE MacroHead BY <1>7, MacroHeadInv
<1>8. CASE EndMacro BY <1>8, EndMacroInv
<1>9. CASE Accept BY <1>9, AcceptInv
<1>10. CASE Finish BY <1>10, FinishInv
<1>11. CASE Finished \/ GivenUp BY <1>11, TreesSame DEF Finished, GivenUp
<1>12. CASE \E t \in Names \cup {"number"} : Operand(t) \/ Term(t)
  BY <1>12, OperandInv, TermInv
<1>13. CASE \E n \in Operands \cup held, known \in SUBSET Names :
                CopyArgument(n, known) \/ Evaluate(n, known)
  BY <1>13, CopyArgumentInv, EvaluateInv
<1>14. CASE UNCHANGED treeVars BY <1>14, TreesSame
<1>. QED
  BY <1>1, <1>2, <1>3, <1>4, <1>5, <1>6, <1>7, <1>8, <1>9, <1>10, <1>11, <1>12, <1>13, <1>14
     DEF TreesNext

LEMMA TreesInvAlways == TreesSpec => []TreesInv
<1>1. TreesInit => TreesInv
  BY TreesInitInv
<1>2. TreesInv /\ [TreesNext]_treeVars => TreesInv'
  BY TreesNextInv
<1>. QED
  BY <1>1, <1>2, PTL DEF TreesSpec

-----------------------------------------------------------------------------
(* What the invariant says of the nodes the program goes on from.            *)

(* bas never comes to a node of a syntax tree that was freed, and frees none *)
(* twice, however the grammar built the trees of statements and macros and   *)
(* whatever arguments were copied, evaluated and kept as values of symbols;  *)
(* and what the parser, the tree and the symbols point to is still there.    *)
THEOREM NothingDanglesAlways == TreesSpec => []NothingDangles
<1>1. TreesInv => NothingDangles
  <2> SUFFICES ASSUME TreesInv PROVE NothingDangles
    OBVIOUS
  <2>1. Whole(memory, Live(memory, Owned))
    BY DEF TreesInv, Good, NodesOK
  <2>2. ASSUME NEW n \in Owned, NEW k \in Below(memory)[n] PROVE ~Gone(k)
    BY <2>1 DEF Whole, Live, Gone
  <2>. QED
    BY <2>1, <2>2 DEF NothingDangles, Whole
<1>. QED
  BY <1>1, TreesInvAlways, PTL

(* No node is ever in two of the trees the parser has on its stack, of the   *)
(* source and of the symbols' values: what the evaluation of one rewrites in *)
(* place, or frees, is in no other.                                          *)
THEOREM ApartAlways == TreesSpec => []Apart
<1>1. TreesInv => Apart
  BY GoodApart DEF TreesInv, Apart
<1>. QED
  BY <1>1, TreesInvAlways, PTL

(* mk_list() leaves the statements of the source, and of every macro in it,  *)
(* in the order in which they were parsed, for as long as the tree is there. *)
THEOREM InOrderAlways == TreesSpec => []InOrder
<1>1. TreesInv => InOrder
  <2> SUFFICES ASSUME TreesInv PROVE InOrder
    OBVIOUS
  <2>1. Ordered(memory, Live(memory, Owned))
    BY DEF TreesInv, Good, NodesOK
  <2>. QED
    BY <2>1 DEF Ordered, Live, InOrder
<1>. QED
  BY <1>1, TreesInvAlways, PTL
=============================================================================
