--------------------------- MODULE WritingProofs ---------------------------
(* What bas's exit status says about the file, and what the file says to a   *)
(* loader, for every section, format, word width, buffer and disk.           *)
EXTENDS Writing, DataProofs, SequenceTheorems, FiniteSetTheorems

-----------------------------------------------------------------------------
(* Sequences.                                                                *)

(* The first k elements of a sequence put behind another.                    *)
LEMMA Moved ==
    ASSUME NEW S, NEW d \in Seq(S), NEW s \in Seq(S), NEW k \in 0 .. Len(s)
    PROVE  LET e == d \o SubSeq(s, 1, k)
           IN  /\ e \in Seq(S) /\ Len(e) = Len(d) + k
               /\ \A i \in 1 .. Len(d) : e[i] = d[i]
               /\ \A i \in 1 .. k : e[Len(d) + i] = s[i]
<1>1. Len(s) \in Nat /\ Len(d) \in Nat /\ k \in Nat
  BY LenProperties
<1>2. \A i \in 1 .. k : s[i] \in S
  BY <1>1, ElementOfSeq
<1>3. /\ SubSeq(s, 1, k) \in Seq(S)
      /\ Len(SubSeq(s, 1, k)) = IF 1 <= k THEN k - 1 + 1 ELSE 0
      /\ \A i \in 1 .. k - 1 + 1 : SubSeq(s, 1, k)[i] = s[1 + i - 1]
  BY <1>1, <1>2, SubSeqProperties
<1>4. Len(SubSeq(s, 1, k)) = k /\ \A i \in 1 .. k : SubSeq(s, 1, k)[i] = s[i]
  BY <1>1, <1>3
<1>. DEFINE t == SubSeq(s, 1, k)
<1>5. /\ d \o t \in Seq(S) /\ Len(d \o t) = Len(d) + Len(t)
      /\ \A i \in 1 .. Len(d) + Len(t) :
             (d \o t)[i] = IF i <= Len(d) THEN d[i] ELSE t[i - Len(d)]
  BY <1>3, ConcatProperties
<1>. QED
  BY <1>1, <1>4, <1>5

(* The others.                                                               *)
LEMMA Left ==
    ASSUME NEW S, NEW s \in Seq(S), NEW k \in 0 .. Len(s)
    PROVE  LET e == SubSeq(s, k + 1, Len(s))
           IN  /\ e \in Seq(S) /\ Len(e) = Len(s) - k
               /\ \A i \in 1 .. Len(s) - k : e[i] = s[k + i]
<1>1. Len(s) \in Nat /\ k \in Nat /\ k <= Len(s)
  BY LenProperties
<1>2. \A i \in k + 1 .. Len(s) : s[i] \in S
  BY <1>1, ElementOfSeq
<1>3. /\ SubSeq(s, k + 1, Len(s)) \in Seq(S)
      /\ Len(SubSeq(s, k + 1, Len(s))) =
            IF k + 1 <= Len(s) THEN Len(s) - (k + 1) + 1 ELSE 0
      /\ \A i \in 1 .. Len(s) - (k + 1) + 1 :
            SubSeq(s, k + 1, Len(s))[i] = s[k + 1 + i - 1]
  BY <1>1, <1>2, SubSeqProperties
<1>. QED
  BY <1>1, <1>3

-----------------------------------------------------------------------------
(* The calls of the writers.                                                 *)

Piece == {Todo[i] : i \in DOMAIN Todo}

LEMMA LineLengthPositive ==
    ASSUME NEW f
    PROVE  LineLength(f) \in Nat \ {0}
  BY BitsAssumption DEF LineLength

LEMMA TodoShape ==
    ASSUME words \in Sections, format \in WriterFormats
    PROVE  /\ Todo \in Seq(Piece)
           /\ Len(Todo) \in Nat /\ DOMAIN Todo = 1 .. Len(Todo)
           /\ \A i \in 1 .. Len(Todo) : Todo[i] \in Piece
<1>1. Len(words) \in Nat
  BY WritingAssumption, LenProperties
<1>2. \E n \in Nat : Todo = [i \in 1 .. n |-> Todo[i]]
  <2>1. CASE format = "logisim"
    <3>1. Todo = [a \in 1 .. Len(words) + 1 |->
                    IF a = 1 THEN [t |-> "header"] ELSE [t |-> "hex"]]
      BY <2>1 DEF Todo, Calls
    <3>2. Todo = [i \in 1 .. Len(words) + 1 |-> Todo[i]]
      BY <3>1
    <3>. QED
      BY <1>1, <3>2
  <2>2. CASE format = "binary"
    <3>1. Todo = [a \in 1 .. Len(words) |-> [t |-> "cell", word |-> words[a]]]
      BY <2>2 DEF Todo, Calls
    <3>2. Todo = [i \in 1 .. Len(words) |-> Todo[i]]
      BY <3>1
    <3>. QED
      BY <1>1, <3>2
  <2>3. CASE format \notin {"logisim", "binary"}
    <3>. DEFINE n == Len(words) * LineLength(format)
    <3>1. Todo = [k \in 1 .. n |->
                    LET a == (k - 1) \div LineLength(format)
                        i == ((k - 1) % LineLength(format)) + 1
                    IN  LinePiece(words[a + 1], format, a, i)]
      BY <2>3 DEF Todo, Calls
    <3>2. Todo = [i \in 1 .. n |-> Todo[i]]
      BY <3>1
    <3>3. \A a, b \in Nat : a * b \in Nat
      OBVIOUS
    <3>4. n \in Nat
      BY <1>1, <3>3, LineLengthPositive
    <3>. HIDE DEF n
    <3>. QED
      BY <3>2, <3>4
  <2>. QED
    BY <2>1, <2>2, <2>3
<1>3. PICK n \in Nat : Todo = [i \in 1 .. n |-> Todo[i]]
  BY <1>2
<1>4. DOMAIN Todo = 1 .. n
  BY <1>3
<1>5. \A i \in 1 .. n : Todo[i] \in Piece
  BY <1>4 DEF Piece
<1>6. Todo \in Seq(Piece) /\ Len(Todo) = n
  BY <1>3, <1>4, <1>5
<1>. QED
  BY <1>4, <1>5, <1>6

(* Without addresses, the only call whose result is not looked at is the     *)
(* first of a file.                                                          *)
LEMMA UncheckedIsFirst ==
    ASSUME words \in Sections, format \in WriterFormats, ~Addressed(format),
           NEW n \in DOMAIN Todo, ~Checked(Todo[n])
    PROVE  n = 1
<1>1. CASE format = "logisim"
  BY <1>1 DEF Todo, Calls, Checked
<1>2. CASE format = "binary"
  BY <1>2 DEF Todo, Calls, Checked
<1>3. CASE format \notin {"logisim", "binary"}
  <2>. DEFINE a == (n - 1) \div LineLength(format)
              i == ((n - 1) % LineLength(format)) + 1
  <2>1. Todo[n] = LinePiece(words[a + 1], format, a, i)
    BY <1>3 DEF Todo, Calls
  <2>. HIDE DEF a, i
  <2>2. Todo[n].t \in {"newline", "bit"}
    BY <2>1 DEF LinePiece, Newline, Bit
  <2>. QED
    BY <2>2 DEF Checked
<1>. QED
  BY <1>1, <1>2, <1>3

-----------------------------------------------------------------------------
(* The inductive invariant.  While the disk has room, and in the formats     *)
(* without addresses as long as nothing has failed, disk and stream together *)
(* are what has been called for; after a failure without that the disk is    *)
(* full, so that what is on it stays as it is.                               *)

Types ==
    /\ pc \in {"open", "write", "close", "exited"}
    /\ words \in Sections /\ format \in WriterFormats
    /\ next \in 1 .. Len(Todo) + 1
    /\ disk \in Seq(Piece) /\ stream \in Seq(Piece)
    /\ Len(stream) <= BufSize
    /\ Len(disk) + Len(stream) < next
    /\ room \in Nat
    /\ rc \in {"ok", "error"}

OnDisk == \A i \in 1 .. Len(disk) : disk[i] = Todo[i]

Intact ==
    /\ Len(disk) + Len(stream) = next - 1
    /\ \A i \in 1 .. Len(stream) : stream[i] = Todo[Len(disk) + i]

Kept ==
    pc # "exited" /\ (room # 0 \/ (rc = "ok" /\ ~Addressed(format))) => Intact

Stages ==
    /\ pc \in {"open", "write"} => rc = "ok"
    /\ pc = "close" /\ rc = "ok" => next = Len(Todo) + 1

Inv == Types /\ OnDisk /\ Kept /\ Stages /\ SuccessAlmostTold

LEMMA InitInv == Init => Inv
<1>. SUFFICES ASSUME Init PROVE Inv
  OBVIOUS
<1>1. Len(Todo) \in Nat
  BY TodoShape DEF Init
<1>2. <<>> \in Seq(Piece) /\ Len(<<>>) = 0
  OBVIOUS
<1>3. Types
  BY <1>1, <1>2, WritingAssumption DEF Init, Types
<1>4. OnDisk /\ Kept /\ Stages /\ SuccessAlmostTold
  BY <1>2 DEF Init, OnDisk, Kept, Intact, Stages, SuccessAlmostTold
<1>. QED
  BY <1>3, <1>4 DEF Inv

(* The disk after the stream was written out: longer by what it took, and    *)
(* still the beginning of the file.                                          *)
LEMMA WriteOutKeeps ==
    ASSUME Inv, WriteOut, pc # "exited"
    PROVE  /\ Taken \in 0 .. Len(stream)
           /\ disk' \in Seq(Piece)
           /\ Len(disk') = Len(disk) + Taken
           /\ \A i \in 1 .. Len(disk') : disk'[i] = Todo[i]
           /\ room' \in Nat /\ (Taken < Len(stream) => room' = 0)
<1>1. Len(stream) \in Nat /\ Len(disk) \in Nat /\ room \in Nat
  BY LenProperties DEF Inv, Types
<1>2. Taken \in 0 .. Len(stream) /\ Taken <= room /\ (Taken < Len(stream) => Taken = room)
  BY <1>1 DEF Taken
<1>3. /\ disk' \in Seq(Piece) /\ Len(disk') = Len(disk) + Taken
      /\ \A i \in 1 .. Len(disk) : disk'[i] = disk[i]
      /\ \A i \in 1 .. Taken : disk'[Len(disk) + i] = stream[i]
  BY <1>2, Moved DEF WriteOut, Inv, Types
<1>4. Taken = 0 \/ Intact
  BY <1>1, <1>2 DEF Inv, Kept
<1>5. \A i \in 1 .. Taken : disk'[Len(disk) + i] = Todo[Len(disk) + i]
  BY <1>1, <1>2, <1>3, <1>4 DEF Intact
<1>6. \A i \in 1 .. Len(disk') : disk'[i] = Todo[i]
  <2>. SUFFICES ASSUME NEW i \in 1 .. Len(disk') PROVE disk'[i] = Todo[i]
    OBVIOUS
  <2>1. CASE i <= Len(disk)
    BY <1>1, <1>3, <2>1 DEF Inv, OnDisk
  <2>2. CASE i > Len(disk)
    <3>. DEFINE k == i - Len(disk)
    <3>1. k \in 1 .. Taken /\ i = Len(disk) + k
      BY <1>1, <1>2, <1>3, <2>2
    <3>. QED
      BY <1>5, <3>1
  <2>. QED
    BY <1>1, <2>1, <2>2
<1>7. room' \in Nat /\ (Taken < Len(stream) => room' = 0)
  BY <1>1, <1>2 DEF WriteOut
<1>. QED
  BY <1>2, <1>3, <1>6, <1>7

(* A piece that goes into the stream.                                        *)
LEMMA CallStoresKeeps == Inv /\ CallStores => Inv'
<1>. SUFFICES ASSUME Inv, CallStores PROVE Inv'
  OBVIOUS
<1>1. Todo' = Todo /\ Piece' = Piece
  BY DEF CallStores, fixedVars, Todo, Piece
<1>2. Len(stream) \in Nat /\ Len(disk) \in Nat
  BY LenProperties DEF Inv, Types
<1>3. Len(Todo) \in Nat /\ next \in 1 .. Len(Todo) /\ Todo[next] \in Piece
  BY TodoShape DEF Inv, Types, CallStores, Calling
<1>4. /\ stream' \in Seq(Piece) /\ Len(stream') = Len(stream) + 1
      /\ \A i \in 1 .. Len(stream) : stream'[i] = stream[i]
      /\ stream'[Len(stream) + 1] = Todo[next]
  BY <1>3, AppendProperties DEF CallStores, Inv, Types
<1>5. /\ next' = next + 1 /\ pc = "write" /\ Len(stream) < BufSize
      /\ UNCHANGED <<pc, words, format, disk, room, rc>>
  BY DEF CallStores, Calling, fixedVars
<1>6. Types'
  BY <1>1, <1>2, <1>3, <1>4, <1>5, WritingAssumption DEF Inv, Types
<1>7. OnDisk'
  BY <1>1, <1>5 DEF Inv, OnDisk
<1>8. Kept'
  <2>. SUFFICES ASSUME Intact PROVE Intact'
    BY <1>5 DEF Inv, Kept
  <2>1. Len(disk') + Len(stream') = next' - 1
    BY <1>2, <1>3, <1>4, <1>5 DEF Intact
  <2>2. ASSUME NEW i \in 1 .. Len(stream') PROVE stream'[i] = Todo'[Len(disk') + i]
    <3>1. CASE i <= Len(stream)
      BY <1>1, <1>2, <1>4, <1>5, <2>2, <3>1 DEF Intact
    <3>2. CASE i = Len(stream) + 1
      <4>1. next = Len(disk) + i
        BY <1>2, <1>3, <3>2 DEF Intact
      <4>. QED
        BY <1>1, <1>4, <1>5, <3>2, <4>1
    <3>. QED
      BY <1>2, <1>4, <2>2, <3>1, <3>2
  <2>. QED
    BY <2>1, <2>2 DEF Intact
<1>9. Stages' /\ SuccessAlmostTold'
  BY <1>5 DEF Inv, Stages, SuccessAlmostTold
<1>. QED
  BY <1>6, <1>7, <1>8, <1>9 DEF Inv

(* The stream has gone to the disk whole: there was room for it, so that     *)
(* nothing had failed.                                                       *)
LEMMA CallWritesOutKeeps == Inv /\ CallWritesOut => Inv'
<1>. SUFFICES ASSUME Inv, CallWritesOut PROVE Inv'
  OBVIOUS
<1>1. Todo' = Todo /\ Piece' = Piece
  BY DEF CallWritesOut, fixedVars, Todo, Piece
<1>2. Len(stream) \in Nat /\ Len(disk) \in Nat
  BY LenProperties DEF Inv, Types
<1>3. Len(Todo) \in Nat /\ next \in 1 .. Len(Todo) /\ Todo[next] \in Piece
  BY TodoShape DEF Inv, Types, CallWritesOut, Calling
<1>4. /\ next' = next + 1 /\ pc = "write" /\ Len(stream) = BufSize
      /\ Taken = BufSize /\ WriteOut /\ stream' = <<Todo[next]>>
      /\ UNCHANGED <<pc, words, format, rc>>
  BY DEF CallWritesOut, Calling, fixedVars
<1>5. /\ disk' \in Seq(Piece) /\ Len(disk') = Len(disk) + Len(stream)
      /\ \A i \in 1 .. Len(disk') : disk'[i] = Todo[i]
      /\ room' \in Nat
  BY <1>4, WriteOutKeeps
<1>6. stream' \in Seq(Piece) /\ Len(stream') = 1 /\ stream'[1] = Todo[next]
  BY <1>3, <1>4
<1>7. Intact
  BY <1>2, <1>4, WritingAssumption DEF Inv, Types, Kept, Taken
<1>8. Len(disk') = next - 1
  BY <1>5, <1>7 DEF Intact
<1>9. Types'
  BY <1>1, <1>2, <1>3, <1>4, <1>5, <1>6, <1>8, WritingAssumption DEF Inv, Types
<1>10. OnDisk'
  BY <1>1, <1>5 DEF OnDisk
<1>11. Intact'
  BY <1>1, <1>3, <1>4, <1>6, <1>8 DEF Intact
<1>12. Kept' /\ Stages' /\ SuccessAlmostTold'
  BY <1>4, <1>11 DEF Inv, Kept, Stages, SuccessAlmostTold
<1>. QED
  BY <1>9, <1>10, <1>12 DEF Inv

(* The disk is full.  If the call is passed over and the format has no       *)
(* addresses it was the first, for which the stream is never full.           *)
LEMMA CallFailsKeeps == Inv /\ CallFails => Inv'
<1>. SUFFICES ASSUME Inv, CallFails PROVE Inv'
  OBVIOUS
<1>1. Todo' = Todo /\ Piece' = Piece
  BY DEF CallFails, fixedVars, Todo, Piece
<1>2. Len(stream) \in Nat /\ Len(disk) \in Nat
  BY LenProperties DEF Inv, Types
<1>3. /\ Len(Todo) \in Nat /\ DOMAIN Todo = 1 .. Len(Todo)
      /\ next \in 1 .. Len(Todo)
  BY TodoShape DEF Inv, Types, CallFails, Calling
<1>4. /\ pc = "write" /\ Len(stream) = BufSize /\ Taken < BufSize /\ WriteOut
      /\ stream' \in {<<>>, SubSeq(stream, Taken + 1, Len(stream))}
      /\ UNCHANGED <<words, format>>
  BY DEF CallFails, Calling, fixedVars
<1>5. /\ Taken \in 0 .. Len(stream)
      /\ disk' \in Seq(Piece) /\ Len(disk') = Len(disk) + Taken
      /\ \A i \in 1 .. Len(disk') : disk'[i] = Todo[i]
      /\ room' = 0
  BY <1>4, WriteOutKeeps
<1>6. stream' \in Seq(Piece) /\ Len(stream') \in 0 .. Len(stream) - Taken
  <2>1. CASE stream' = <<>>
    BY <1>2, <1>5, <2>1
  <2>2. CASE stream' = SubSeq(stream, Taken + 1, Len(stream))
    BY <1>2, <1>5, <2>2, Left DEF Inv, Types
  <2>. QED
    BY <1>4, <2>1, <2>2
<1>7. next > 1
  BY <1>2, <1>3, <1>4, WritingAssumption DEF Inv, Types
<1>8. CASE Checked(Todo[next])
  <2>1. rc' = "error" /\ pc' = "close" /\ next' = next
    BY <1>8 DEF CallFails
  <2>2. Types'
    BY <1>1, <1>2, <1>3, <1>4, <1>5, <1>6, <2>1, WritingAssumption DEF Inv, Types
  <2>3. OnDisk'
    BY <1>1, <1>5 DEF OnDisk
  <2>4. Kept' /\ Stages' /\ SuccessAlmostTold'
    BY <1>5, <2>1 DEF Kept, Stages, SuccessAlmostTold
  <2>. QED
    BY <2>2, <2>3, <2>4 DEF Inv
<1>9. CASE ~Checked(Todo[next])
  <2>1. next' = next + 1 /\ UNCHANGED <<pc, rc>>
    BY <1>9 DEF CallFails
  <2>2. Addressed(format)
    BY <1>3, <1>7, <1>9, UncheckedIsFirst DEF Inv, Types
  <2>3. Types'
    BY <1>1, <1>2, <1>3, <1>4, <1>5, <1>6, <2>1, WritingAssumption DEF Inv, Types
  <2>4. OnDisk'
    BY <1>1, <1>5 DEF OnDisk
  <2>5. Kept' /\ Stages' /\ SuccessAlmostTold'
    BY <1>4, <1>5, <2>1, <2>2 DEF Inv, Kept, Stages, SuccessAlmostTold, Addressed
  <2>. QED
    BY <2>3, <2>4, <2>5 DEF Inv
<1>. QED
  BY <1>8, <1>9

(* The end of a run with success: all has been called for.  Either the       *)
(* stream goes out whole, or the disk is full.                               *)
LEMMA FileCloseKeeps == Inv /\ Close => Inv'
<1>. SUFFICES ASSUME Inv, Close PROVE Inv'
  OBVIOUS
<1>1. Todo' = Todo /\ Piece' = Piece
  BY DEF Close, fixedVars, Todo, Piece
<1>2. Len(stream) \in Nat /\ Len(disk) \in Nat /\ room \in Nat
  BY LenProperties DEF Inv, Types
<1>3. Len(Todo) \in Nat /\ Todo \in Seq(Piece)
  BY TodoShape DEF Inv, Types
<1>4. /\ pc = "close" /\ pc' = "exited" /\ WriteOut /\ stream' = <<>>
      /\ UNCHANGED <<words, format, next, rc>>
  BY DEF Close, fixedVars
<1>5. /\ Taken \in 0 .. Len(stream)
      /\ disk' \in Seq(Piece) /\ Len(disk') = Len(disk) + Taken
      /\ \A i \in 1 .. Len(disk') : disk'[i] = Todo[i]
      /\ room' \in Nat /\ (Taken < Len(stream) => room' = 0)
  BY <1>4, WriteOutKeeps
<1>6. stream' \in Seq(Piece) /\ Len(stream') = 0
  BY <1>4
<1>7. Types'
  BY <1>1, <1>2, <1>3, <1>4, <1>5, <1>6, WritingAssumption DEF Inv, Types
<1>8. OnDisk' /\ Kept' /\ Stages'
  BY <1>1, <1>4, <1>5 DEF OnDisk, Kept, Stages
<1>9. ASSUME rc = "ok" PROVE SuccessAlmostTold'
  <2>1. next = Len(Todo) + 1
    BY <1>4, <1>9 DEF Inv, Stages
  <2>2. CASE Intact /\ Taken = Len(stream)
    <3>1. Len(disk') = Len(Todo)
      BY <1>2, <1>3, <1>5, <2>1, <2>2 DEF Intact
    <3>2. disk' = Todo
      BY <1>3, <1>5, <3>1, SeqEqual
    <3>. QED
      BY <1>1, <3>2 DEF SuccessAlmostTold
  <2>3. CASE Intact /\ Taken < Len(stream)
    <3>1. Len(Todo) - Len(disk') <= BufSize
      BY <1>2, <1>3, <1>5, <2>1, <2>3, WritingAssumption DEF Intact, Inv, Types
    <3>. QED
      BY <1>1, <1>5, <2>3, <3>1 DEF SuccessAlmostTold
  <2>4. CASE ~Intact
    <3>1. room = 0 /\ Addressed(format)
      BY <1>4, <1>9, <2>4 DEF Inv, Kept
    <3>2. Taken = 0 /\ room' = room - Taken
      <4>1. Taken = 0
        BY <1>2, <3>1 DEF Taken
      <4>2. room' = room - Taken
        BY <1>4 DEF WriteOut
      <4>. QED
        BY <4>1, <4>2
    <3>3. room' = 0
      BY <3>1, <3>2
    <3>. QED
      BY <1>4, <3>1, <3>3 DEF SuccessAlmostTold, Addressed
  <2>. QED
    BY <1>2, <1>5, <2>2, <2>3, <2>4
<1>10. SuccessAlmostTold'
  BY <1>4, <1>9 DEF SuccessAlmostTold
<1>. QED
  BY <1>7, <1>8, <1>10 DEF Inv

LEMMA NextInv == Inv /\ [Next]_vars => Inv'
<1>. SUFFICES ASSUME Inv, [Next]_vars PROVE Inv'
  OBVIOUS
<1>. USE DEF Inv, Types, OnDisk, Kept, Intact, Stages, SuccessAlmostTold,
             Todo, Piece, fixedVars
<1>1. CASE OpenFails
  BY <1>1 DEF OpenFails
<1>2. CASE Open
  BY <1>2 DEF Open
<1>3. CASE CallStores
  BY <1>3, CallStoresKeeps
<1>4. CASE CallWritesOut
  BY <1>4, CallWritesOutKeeps
<1>5. CASE CallFails
  BY <1>5, CallFailsKeeps
<1>6. CASE WriterReturns
  <2>1. next = Len(Todo) + 1
    BY <1>6, TodoShape DEF WriterReturns
  <2>. QED
    BY <1>6, <2>1 DEF WriterReturns
<1>7. CASE Close
  BY <1>7, FileCloseKeeps
<1>8. CASE UNCHANGED vars
  BY <1>8 DEF vars
<1>. QED
  BY <1>1, <1>2, <1>3, <1>4, <1>5, <1>6, <1>7, <1>8 DEF Next, Terminated

LEMMA Invariant == Spec => []Inv
  BY InitInv, NextInv, PTL DEF Spec

-----------------------------------------------------------------------------
(* The stages, the result and the stream are of their types, the disk holds  *)
(* the beginning of the file, and no piece is in two places.                 *)
THEOREM TypeCorrect == Spec => []TypeOK
<1>1. Inv => TypeOK
  <2>. SUFFICES ASSUME Inv PROVE TypeOK
    OBVIOUS
  <2>1. Len(disk) \in Nat /\ Len(stream) \in Nat /\ Len(Todo) \in Nat
    BY LenProperties, TodoShape DEF Inv, Types
  <2>2. Len(disk) <= Len(Todo)
    BY <2>1 DEF Inv, Types
  <2>3. SubSeq(disk, 1, Len(disk)) = SubSeq(Todo, 1, Len(disk))
    <3>1. \A i \in 1 .. Len(disk) : disk[i] = Todo[i]
      BY DEF Inv, OnDisk
    <3>. QED
      BY <2>1, <3>1
  <2>. QED
    BY <2>1, <2>2, <2>3 DEF Inv, Types, TypeOK, IsPrefix
<1>. QED
  BY <1>1, Invariant, PTL

(* bas's success means a complete file, or a full disk: then at most one     *)
(* buffer is missing, unless the format has addresses.                       *)
THEOREM SuccessIsAlmostTold == Spec => []SuccessAlmostTold
<1>1. Inv => SuccessAlmostTold
  BY DEF Inv
<1>. QED
  BY <1>1, Invariant, PTL

-----------------------------------------------------------------------------
(* What a loader finds of a file that was cut short.                         *)

(* The places of a set that is given in order.                               *)
LEMMA NthOf ==
    ASSUME NEW m \in Nat, NEW f \in [1 .. m -> Nat], NEW S,
           \A i, j \in 1 .. m : i < j => f[i] < f[j],
           S = {f[k] : k \in 1 .. m}
    PROVE  Cardinality(S) = m /\ \A k \in 1 .. m : Nth(S, k) = f[k]
<1>1. ASSUME NEW k \in 0 .. m PROVE Cardinality({f[i] : i \in 1 .. k}) = k
  <2>. DEFINE T == {f[i] : i \in 1 .. k}
              g == [i \in 1 .. k |-> f[i]]
  <2>1. g \in [1 .. k -> T] /\ \A t \in T : \E i \in 1 .. k : g[i] = t
    OBVIOUS
  <2>2. ASSUME NEW i \in 1 .. k, NEW j \in 1 .. k, g[i] = g[j] PROVE i = j
    <3>1. i \in 1 .. m /\ j \in 1 .. m /\ f[i] = f[j] /\ f[i] \in Nat
      BY <2>2
    <3>2. ~(i < j) /\ ~(j < i)
      BY <3>1
    <3>. QED
      BY <3>1, <3>2
  <2>3. g \in Bijection(1 .. k, T)
    BY <2>1, <2>2 DEF Bijection, Injection, Surjection, IsInjective
  <2>4. ExistsBijection(1 .. k, T)
    BY <2>3 DEF ExistsBijection
  <2>5. k \in Nat
    OBVIOUS
  <2>. HIDE DEF T
  <2>6. Cardinality(T) = k
    BY <2>4, <2>5, FS_CountingElements
  <2>. QED
    BY <2>6 DEF T
<1>2. ASSUME NEW k \in 1 .. m
      PROVE  {x \in S : x <= f[k]} = {f[i] : i \in 1 .. k}
  <2>1. ASSUME NEW i \in 1 .. m PROVE f[i] <= f[k] <=> i <= k
    <3>1. f[i] \in Nat /\ f[k] \in Nat
      OBVIOUS
    <3>2. i < k => f[i] < f[k]
      OBVIOUS
    <3>3. k < i => f[k] < f[i]
      OBVIOUS
    <3>. QED
      BY <3>1, <3>2, <3>3
  <2>2. ASSUME NEW x \in S, x <= f[k] PROVE x \in {f[i] : i \in 1 .. k}
    <3>1. PICK i \in 1 .. m : x = f[i]
      OBVIOUS
    <3>2. i \in 1 .. k
      BY <2>1, <2>2, <3>1
    <3>. QED
      BY <3>1, <3>2
  <2>3. ASSUME NEW i \in 1 .. k PROVE f[i] \in S /\ f[i] <= f[k]
    <3>1. i \in 1 .. m /\ i <= k
      OBVIOUS
    <3>. QED
      BY <2>1, <3>1
  <2>. QED
    BY <2>2, <2>3
<1>3. Cardinality(S) = m
  <2>1. m \in 0 .. m
    OBVIOUS
  <2>. QED
    BY <1>1, <2>1
<1>4. ASSUME NEW k \in 1 .. m PROVE Nth(S, k) = f[k]
  <2>. DEFINE Is(i) == Cardinality({j \in S : j <= i}) = k
  <2>1. f[k] \in S /\ Is(f[k])
    BY <1>1, <1>2
  <2>2. ASSUME NEW i \in S, Is(i) PROVE i = f[k]
    <3>1. PICK l \in 1 .. m : i = f[l]
      OBVIOUS
    <3>2. Cardinality({j \in S : j <= i}) = l
      BY <1>1, <1>2, <3>1
    <3>. QED
      BY <2>2, <3>1, <3>2
  <2>3. Nth(S, k) = CHOOSE i \in S : Is(i)
    BY DEF Nth
  <2>. HIDE DEF Is
  <2>. QED
    BY <2>1, <2>2, <2>3
<1>. QED
  BY <1>3, <1>4

(* Multiples of the length of a line.                                        *)
LEMMA Multiples ==
    ASSUME NEW L \in Nat \ {0}, NEW a \in Nat, NEW b \in Nat
    PROVE  /\ a * L \in Nat /\ (a + 1) * L = a * L + L
           /\ a < b <=> a * L < b * L
           /\ a < b => a * L + L <= b * L
<1>1. a * L \in Nat /\ b * L \in Nat /\ (a + 1) * L = a * L + L
  OBVIOUS
<1>2. ASSUME NEW x \in Nat, NEW y \in Nat, x < y PROVE x * L + L <= y * L
  <2>1. PICK c \in Nat : y = (x + 1) + c
    <3>1. y - (x + 1) \in Nat /\ y = (x + 1) + (y - (x + 1))
      BY <1>2
    <3>. QED
      BY <3>1
  <2>2. y * L = (x * L + L) + c * L /\ c * L \in Nat /\ x * L \in Nat
    BY <2>1
  <2>. QED
    BY <2>2
<1>3. b < a => b * L + L <= a * L
  BY <1>2
<1>4. a < b => a * L + L <= b * L
  BY <1>2
<1>. QED
  BY <1>1, <1>3, <1>4

LEMMA Split ==
    ASSUME NEW L \in Nat \ {0}, NEW k \in Nat, NEW r \in 1 .. L
    PROVE  /\ k * L + r - 1 \in Nat
           /\ (k * L + r - 1) \div L = k /\ ((k * L + r - 1) % L) + 1 = r
<1>1. /\ L * k \in Nat /\ k * L = L * k /\ r - 1 \in 0 .. L - 1
      /\ k * L + r - 1 = L * k + (r - 1)
  OBVIOUS
<1>2. ASSUME NEW m \in Nat \ {0}, NEW x \in Nat, NEW y \in 0 .. m - 1
      PROVE  (m * x + y) % m = y /\ (m * x + y) \div m = x
  OBVIOUS
<1>3. (L * k + (r - 1)) % L = r - 1 /\ (L * k + (r - 1)) \div L = k
  BY <1>1, <1>2
<1>. QED
  BY <1>1, <1>3

(* The formats of bits, piece by piece.                                      *)
Bits == format \in {"bits", "bits.ssem", "bits.snp"}
L == LineLength(format)

LEMMA LineLengthIs ==
    /\ WordBits \in Nat \ {0} /\ L \in Nat /\ 2 <= L
    /\ L = IF Addressed(format) THEN WordBits + 2 ELSE WordBits + 1
<1>1. WordBits \in Nat /\ Modulus = PowerOfTwo[WordBits] /\ PowerOfTwo[0] = 1
  BY BitsAssumption, PowerOfTwoDef
<1>2. Modulus # 1
  <2>1. OperandSpan * DataSpan \in Nat
    BY WordsAssumption
  <2>2. 8 * OperandSpan * DataSpan = 8 * (OperandSpan * DataSpan)
    BY WordsAssumption
  <2>3. \A x \in Nat : 8 * x # 1
    OBVIOUS
  <2>. QED
    BY <2>1, <2>2, <2>3 DEF Modulus
<1>3. WordBits # 0
  BY <1>1, <1>2
<1>. QED
  BY <1>1, <1>3 DEF L, LineLength

LEMMA PieceAt ==
    ASSUME words \in Sections, Bits
    PROVE  /\ Len(words) \in Nat /\ Len(words) * L \in Nat
           /\ DOMAIN Todo = 1 .. Len(words) * L /\ Len(Todo) = Len(words) * L
           /\ \A k \in 0 .. Len(words) - 1, r \in 1 .. L :
                  /\ k * L + r \in 1 .. Len(words) * L
                  /\ Todo[k * L + r] = LinePiece(words[k + 1], format, k, r)
<1>1. Len(words) \in Nat /\ L \in Nat \ {0}
  BY WritingAssumption, LenProperties, LineLengthIs
<1>2. Len(words) * L \in Nat
  BY <1>1, Multiples
<1>3. Todo = [n \in 1 .. Len(words) * L |->
                LET a == (n - 1) \div L
                    i == ((n - 1) % L) + 1
                IN  LinePiece(words[a + 1], format, a, i)]
  BY DEF Bits, L, Todo, Calls
<1>4. DOMAIN Todo = 1 .. Len(words) * L
  BY <1>3
<1>5. Len(Todo) = Len(words) * L
  <2>1. format \in WriterFormats
    BY DEF Bits, WriterFormats, ReaderFormats
  <2>. QED
    BY <1>2, <1>4, <2>1, TodoShape
<1>6. ASSUME NEW k \in 0 .. Len(words) - 1, NEW r \in 1 .. L
      PROVE  /\ k * L + r \in 1 .. Len(words) * L
             /\ Todo[k * L + r] = LinePiece(words[k + 1], format, k, r)
  <2>1. k \in Nat /\ k < Len(words)
    BY <1>1
  <2>2. k * L \in Nat /\ k * L + L <= Len(words) * L
    BY <1>1, <2>1, Multiples
  <2>3. k * L + r \in 1 .. Len(words) * L
    BY <1>1, <1>2, <2>2
  <2>4. ((k * L + r) - 1) \div L = k /\ (((k * L + r) - 1) % L) + 1 = r
    BY <1>1, <2>1, Split
  <2>. QED
    BY <1>3, <2>3, <2>4
<1>. QED
  BY <1>1, <1>2, <1>4, <1>5, <1>6

(* A newline ends each line, and nothing else does.                          *)
LEMMA NewlineLast ==
    ASSUME NEW w, NEW a, NEW r \in 1 .. L
    PROVE  LinePiece(w, format, a, r) = Newline <=> r = L
<1>1. Newline.t = "newline" /\ \A b : Bit(b).t = "bit" /\ Address(b).t = "address"
  BY DEF Newline, Bit, Address
<1>2. \A b : Bit(b) # Newline /\ Address(b) # Newline
  BY <1>1
<1>. QED
  BY <1>2 DEF LinePiece, L

LEMMA InLine ==
    ASSUME NEW n \in Nat, NEW i \in 1 .. n * L
    PROVE  \E k \in 0 .. n - 1, r \in 1 .. L : i = k * L + r
<1>1. L \in Nat \ {0} /\ i \in Nat \ {0}
  BY LineLengthIs
<1>2. PICK x \in Nat, y \in 0 .. L - 1 : i - 1 = L * x + y
  <2>1. \A m \in Nat \ {0}, j \in Nat :
            j \div m \in Nat /\ j % m \in 0 .. m - 1 /\ j = m * (j \div m) + (j % m)
    OBVIOUS
  <2>2. i - 1 \in Nat
    BY <1>1
  <2>. QED
    BY <1>1, <2>1, <2>2
<1>3. x * L \in Nat /\ x * L = L * x /\ n * L \in Nat
  BY <1>1, Multiples
<1>4. i = x * L + (y + 1) /\ y + 1 \in 1 .. L
  BY <1>1, <1>2, <1>3
<1>5. x < n
  <2>1. x * L < n * L
    BY <1>3, <1>4
  <2>. QED
    BY <1>1, <2>1, Multiples
<1>6. x \in 0 .. n - 1
  BY <1>5
<1>. QED
  BY <1>4, <1>6

(* A beginning of the file with q whole lines and a remainder.               *)
Begins(d, q, rem) ==
    /\ DOMAIN d = 1 .. Len(d) /\ Len(d) = q * L + rem
    /\ q \in Nat /\ rem \in 0 .. L - 1 /\ Len(d) <= Len(words) * L
    /\ \A i \in 1 .. Len(d) : d[i] = Todo[i]

Begun(q, rem) == IF rem = 0 THEN q ELSE q + 1
First(k) == (k - 1) * L + 1
PastEnd(q, rem, k) == IF k <= q THEN k * L ELSE q * L + rem + 1

LEMMA BegunWithin ==
    ASSUME words \in Sections, Bits, NEW d, NEW q, NEW rem, Begins(d, q, rem)
    PROVE  /\ Begun(q, rem) \in 0 .. Len(words) /\ Len(d) \in Nat
           /\ \A k \in 1 .. Begun(q, rem) :
                  /\ First(k) \in 1 .. Len(d)
                  /\ k <= q => k * L \in Nat /\ k * L <= Len(d) /\ k * L = (k - 1) * L + L
                  /\ k > q => k = q + 1 /\ rem # 0
<1>1. L \in Nat \ {0} /\ 2 <= L /\ Len(words) \in Nat /\ q \in Nat /\ rem \in 0 .. L - 1
  BY PieceAt, LineLengthIs DEF Begins
<1>2. q * L \in Nat /\ Len(words) * L \in Nat
  BY <1>1, Multiples
<1>3. Len(d) \in Nat /\ Len(d) = q * L + rem /\ Len(d) <= Len(words) * L
  BY <1>1, <1>2 DEF Begins
<1>4. q <= Len(words)
  <2>1. ~(Len(words) * L < q * L)
    BY <1>1, <1>2, <1>3
  <2>. QED
    BY <1>1, <2>1, Multiples
<1>5. rem # 0 => q < Len(words)
  <2>1. rem # 0 => q * L < Len(words) * L
    BY <1>1, <1>2, <1>3
  <2>. QED
    BY <1>1, <2>1, Multiples
<1>6. Begun(q, rem) \in 0 .. Len(words)
  BY <1>1, <1>4, <1>5 DEF Begun
<1>7. ASSUME NEW k \in 1 .. Begun(q, rem)
      PROVE  /\ First(k) \in 1 .. Len(d)
             /\ k <= q => k * L \in Nat /\ k * L <= Len(d) /\ k * L = (k - 1) * L + L
             /\ k > q => k = q + 1 /\ rem # 0
  <2>1. k \in Nat /\ k >= 1 /\ (rem = 0 => k <= q) /\ k <= q + 1
    BY <1>1 DEF Begun
  <2>2. (k - 1) \in Nat /\ (k - 1) + 1 = k
    BY <2>1
  <2>3. /\ (k - 1) * L \in Nat /\ k * L \in Nat /\ k * L = (k - 1) * L + L
        /\ k - 1 < q => (k - 1) * L + L <= q * L
    BY <1>1, <2>1, <2>2, Multiples
  <2>4. CASE k <= q
    BY <1>1, <1>2, <1>3, <2>1, <2>3, <2>4 DEF First
  <2>5. CASE k > q
    <3>1. k - 1 = q /\ rem # 0
      BY <1>1, <2>1, <2>5
    <3>. QED
      BY <1>1, <1>2, <1>3, <2>5, <3>1 DEF First
  <2>. QED
    BY <1>1, <2>1, <2>4, <2>5
<1>. QED
  BY <1>3, <1>6, <1>7

(* Where lines begin.                                                        *)
LEMMA StartsAre ==
    ASSUME words \in Sections, Bits, NEW d, NEW q, NEW rem, Begins(d, q, rem)
    PROVE  Starts(d) = {First(k) : k \in 1 .. Begun(q, rem)}
<1>1. L \in Nat \ {0} /\ 2 <= L /\ Len(words) \in Nat /\ q \in Nat /\ rem \in 0 .. L - 1
  BY PieceAt, LineLengthIs DEF Begins
<1>2. q * L \in Nat /\ Len(words) * L \in Nat /\ Len(d) \in Nat
  BY <1>1, Multiples, BegunWithin
<1>3. DOMAIN d = 1 .. Len(d) /\ Len(d) = q * L + rem /\ Len(d) <= Len(words) * L
  BY DEF Begins
<1>4. ASSUME NEW i \in Starts(d)
      PROVE  \E k \in 1 .. Begun(q, rem) : i = First(k)
  <2>1. i \in 1 .. Len(d) /\ (i = 1 \/ d[i - 1] = Newline)
    BY <1>3 DEF Starts
  <2>2. CASE i = 1
    <3>1. q * L + rem # 0
      BY <1>2, <1>3, <2>1
    <3>2. q = 0 => q * L = 0
      BY <1>1
    <3>3. 1 \in 1 .. Begun(q, rem)
      BY <1>1, <3>1, <3>2 DEF Begun
    <3>4. First(1) = 1
      BY <1>1 DEF First
    <3>. QED
      BY <2>2, <3>3, <3>4
  <2>3. CASE i # 1
    <3>1. i - 1 \in 1 .. Len(words) * L /\ i - 1 \in 1 .. Len(d)
      BY <1>2, <1>3, <2>1, <2>3
    <3>2. PICK k \in 0 .. Len(words) - 1, r \in 1 .. L : i - 1 = k * L + r
      BY <1>1, <3>1, InLine
    <3>3. Todo[i - 1] = Newline
      BY <2>1, <2>3, <3>1 DEF Begins
    <3>4. r = L
      BY <3>2, <3>3, PieceAt, NewlineLast
    <3>5. k \in Nat /\ k * L \in Nat /\ (k + 1) * L = k * L + L
      BY <1>1, Multiples
    <3>6. i = First(k + 2)
      <4>1. (k + 2) - 1 = k + 1
        BY <3>5
      <4>. QED
        BY <1>1, <2>1, <3>2, <3>4, <3>5, <4>1 DEF First
    <3>7. (k + 1) * L + 1 <= q * L + rem
      BY <1>1, <1>3, <2>1, <3>2, <3>4, <3>5
    <3>8. k + 1 <= q /\ (k + 1 = q => rem # 0)
      <4>1. q < k + 1 => q * L + L <= (k + 1) * L
        BY <1>1, <3>5, Multiples
      <4>2. k + 1 = q => (k + 1) * L = q * L
        OBVIOUS
      <4>. QED
        BY <1>1, <1>2, <3>5, <3>7, <4>1, <4>2
    <3>9. k + 2 \in 1 .. Begun(q, rem)
      BY <1>1, <3>5, <3>8 DEF Begun
    <3>. QED
      BY <3>6, <3>9
  <2>. QED
    BY <2>2, <2>3
<1>5. ASSUME NEW k \in 1 .. Begun(q, rem)
      PROVE  First(k) \in Starts(d)
  <2>1. First(k) \in 1 .. Len(d)
    BY BegunWithin
  <2>2. k \in Nat /\ k >= 1 /\ k <= Len(words) /\ k <= q + 1
    BY <1>1, BegunWithin DEF Begun
  <2>3. CASE k = 1
    <3>1. First(k) = 1
      BY <1>1, <2>3 DEF First
    <3>. QED
      BY <1>3, <2>1, <3>1 DEF Starts
  <2>4. CASE k # 1
    <3>1. k - 2 \in 0 .. Len(words) - 1 /\ L \in 1 .. L /\ (k - 2) + 1 = k - 1
      BY <1>1, <2>2, <2>4
    <3>2. (k - 2) * L + L = (k - 1) * L
      BY <1>1, <3>1, Multiples
    <3>3. Todo[(k - 2) * L + L] = Newline
      BY <3>1, PieceAt, NewlineLast
    <3>4. First(k) - 1 = (k - 1) * L
      <4>1. k - 1 \in Nat
        BY <2>2
      <4>2. (k - 1) * L \in Nat
        BY <1>1, <4>1, Multiples
      <4>. QED
        BY <4>2 DEF First
    <3>5. First(k) - 1 \in 1 .. Len(d)
      <4>1. k - 1 \in Nat \ {0}
        BY <2>2, <2>4
      <4>2. (k - 1) * L # 0
        BY <1>1, <4>1
      <4>. QED
        BY <1>2, <2>1, <3>4, <4>2
    <3>6. d[First(k) - 1] = Newline
      BY <3>2, <3>3, <3>4, <3>5 DEF Begins
    <3>. QED
      BY <1>3, <2>1, <3>6 DEF Starts
  <2>. QED
    BY <2>3, <2>4
<1>. QED
  BY <1>4, <1>5

(* What is in the k-th line and where it ends.                               *)
LEMMA LinePieces ==
    ASSUME words \in Sections, Bits, NEW d, NEW q, NEW rem, Begins(d, q, rem),
           NEW k \in 1 .. Begun(q, rem)
    PROVE  LET e == PastEnd(q, rem, k)
               x == (k - 1) * L
           IN  /\ x \in Nat /\ First(k) = x + 1 /\ First(k) <= Len(d)
               /\ e \in First(k) + 1 .. Len(d) + 1 /\ e <= x + L
               /\ k <= q => e = x + L
               /\ e = Len(d) + 1 \/ d[e] = Newline
               /\ \A r \in 1 .. e - First(k) :
                      /\ r < L /\ d[x + r] # Newline
                      /\ d[x + r] = LinePiece(words[k], format, k - 1, r)
<1>. DEFINE e == PastEnd(q, rem, k)
            x == (k - 1) * L
<1>1. L \in Nat \ {0} /\ 2 <= L /\ Len(words) \in Nat /\ q \in Nat /\ rem \in 0 .. L - 1
  BY PieceAt, LineLengthIs DEF Begins
<1>2. /\ Len(d) = q * L + rem /\ Len(d) \in Nat /\ Len(d) <= Len(words) * L
      /\ DOMAIN d = 1 .. Len(d)
      /\ First(k) \in 1 .. Len(d) /\ k \in Nat /\ k >= 1 /\ k <= Len(words)
      /\ q * L \in Nat
  BY <1>1, BegunWithin, Multiples DEF Begins
<1>3. x \in Nat /\ First(k) = x + 1 /\ k - 1 \in 0 .. Len(words) - 1
  <2>1. k - 1 \in Nat
    BY <1>2
  <2>. QED
    BY <1>1, <1>2, <2>1, Multiples DEF First
<1>4. /\ e \in First(k) + 1 .. Len(d) + 1 /\ e <= x + L
      /\ k <= q => e = x + L
      /\ k > q => e = Len(d) + 1
  <2>1. CASE k <= q
    <3>1. e = k * L /\ k * L = x + L /\ k * L <= Len(d)
      BY <2>1, BegunWithin DEF PastEnd
    <3>. HIDE DEF e, x
    <3>. QED
      BY <1>1, <1>2, <1>3, <2>1, <3>1
  <2>2. CASE k > q
    <3>1. k - 1 = q /\ rem # 0
      BY <1>1, <2>2, BegunWithin
    <3>2. e = q * L + rem + 1 /\ x = q * L
      BY <1>1, <1>2, <2>2, <3>1 DEF PastEnd
    <3>. HIDE DEF e, x
    <3>. QED
      BY <1>1, <1>2, <1>3, <2>2, <3>1, <3>2
  <2>. QED
    BY <1>1, <1>2, <2>1, <2>2
<1>5. ASSUME NEW r \in 1 .. L, x + r <= Len(d)
      PROVE  /\ d[x + r] = LinePiece(words[k], format, k - 1, r)
             /\ d[x + r] = Newline <=> r = L
  <2>1. Todo[x + r] = LinePiece(words[(k - 1) + 1], format, k - 1, r)
    BY <1>3, PieceAt
  <2>2. x + r \in 1 .. Len(d)
    BY <1>1, <1>2, <1>3, <1>5
  <2>3. d[x + r] = Todo[x + r] /\ (k - 1) + 1 = k
    BY <1>2, <2>2 DEF Begins
  <2>. QED
    BY <2>1, <2>3, NewlineLast
<1>. HIDE DEF e, x
<1>6. e = Len(d) + 1 \/ d[e] = Newline
  <2>1. CASE k <= q
    <3>1. e = x + L /\ L \in 1 .. L
      BY <1>1, <1>4, <2>1
    <3>2. x + L <= Len(d) => d[x + L] = Newline
      BY <1>5, <3>1
    <3>3. e <= Len(d) \/ e = Len(d) + 1
      BY <1>2, <1>4
    <3>. QED
      BY <3>1, <3>2, <3>3
  <2>. QED
    BY <1>1, <1>2, <1>4, <2>1
<1>7. ASSUME NEW r \in 1 .. e - First(k)
      PROVE  /\ r < L /\ d[x + r] # Newline
             /\ d[x + r] = LinePiece(words[k], format, k - 1, r)
  <2>1. r \in 1 .. L /\ r < L /\ x + r <= Len(d)
    BY <1>1, <1>2, <1>3, <1>4
  <2>. QED
    BY <1>1, <1>5, <2>1
<1>. QED
  BY <1>2, <1>3, <1>4, <1>6, <1>7 DEF e, x

LEMMA LineEnds ==
    ASSUME words \in Sections, Bits, NEW d, NEW q, NEW rem, Begins(d, q, rem),
           NEW k \in 1 .. Begun(q, rem)
    PROVE  LineEnd(d, First(k)) = PastEnd(q, rem, k)
<1>. DEFINE e == PastEnd(q, rem, k)
            x == (k - 1) * L
            i == First(k)
            Is(y) == /\ y = Len(d) + 1 \/ d[y] = Newline
                     /\ \A j \in i .. y - 1 : d[j] # Newline
<1>1. /\ x \in Nat /\ i = x + 1 /\ e \in i + 1 .. Len(d) + 1 /\ Len(d) \in Nat
      /\ e = Len(d) + 1 \/ d[e] = Newline
      /\ \A r \in 1 .. e - i : d[x + r] # Newline
  BY LinePieces, BegunWithin
<1>. HIDE DEF e, x, i
<1>2. \A j \in i .. e - 1 : d[j] # Newline
  <2>. SUFFICES ASSUME NEW j \in i .. e - 1 PROVE d[j] # Newline
    OBVIOUS
  <2>1. j - x \in 1 .. e - i /\ x + (j - x) = j
    BY <1>1
  <2>. QED
    BY <1>1, <2>1
<1>3. e \in i .. Len(d) + 1 /\ Is(e)
  BY <1>1, <1>2
<1>4. ASSUME NEW y \in i .. Len(d) + 1, Is(y) PROVE y = e
  <2>1. CASE y < e
    <3>1. y \in i .. e - 1 /\ y # Len(d) + 1
      BY <1>1, <2>1
    <3>. QED
      BY <1>2, <1>4, <3>1
  <2>2. CASE e < y
    <3>1. e \in i .. y - 1 /\ e # Len(d) + 1
      BY <1>1, <2>2
    <3>. QED
      BY <1>1, <1>4, <3>1
  <2>. QED
    BY <1>1, <2>1, <2>2
<1>5. LineEnd(d, i) = CHOOSE y \in i .. Len(d) + 1 : Is(y)
  BY DEF LineEnd
<1>. HIDE DEF Is
<1>. QED
  BY <1>3, <1>4, <1>5 DEF e, i

(* What the loader takes a line for: if it is whole, for what ObjectFile has *)
(* there; if it was cut, for an error.                                       *)
LEMMA ItemOfLine ==
    ASSUME Bits, NEW S, NEW line \in Seq(S), NEW w \in Word, NEW a \in Nat,
           Len(line) \in 1 .. L - 1,
           \A r \in 1 .. Len(line) : line[r] = LinePiece(w, format, a, r)
    PROVE  /\ Len(line) = L - 1 =>
                  ItemOf(line) =
                      IF Addressed(format)
                        THEN [kind |-> "addressed", addr |-> a,
                              bits |-> BitsOf(w, Ssem(format))]
                        ELSE [kind |-> "bits", bits |-> BitsOf(w, Ssem(format))]
           /\ Len(line) < L - 1 => ItemOf(line) = [kind |-> "junk"]
<1>. DEFINE bits == BitsOf(w, Ssem(format))
<1>1. /\ WordBits \in Nat \ {0} /\ L \in Nat /\ Len(line) \in Nat
      /\ L = IF Addressed(format) THEN WordBits + 2 ELSE WordBits + 1
      /\ DOMAIN line = 1 .. Len(line) /\ line # <<>> /\ Head(line) = line[1]
      /\ 1 \in 1 .. Len(line)
  BY LineLengthIs, LenProperties
<1>2. bits = [i \in 1 .. WordBits |-> bits[i]]
  BY DEF BitsOf
<1>3. \A b : Bit(b).t = "bit" /\ Bit(b).bit = b
  BY DEF Bit
<1>4. Address(a).t = "address" /\ Address(a).addr = a
  BY DEF Address
<1>5. Range(line) = {line[r] : r \in 1 .. Len(line)}
  BY <1>1 DEF Range
<1>. HIDE DEF bits
<1>6. CASE ~Addressed(format)
  <2>1. \A r \in 1 .. Len(line) : line[r] = Bit(bits[r])
    BY <1>1, <1>6 DEF LinePiece, bits, L
  <2>2. Head(line).t # "address"
    BY <1>1, <1>3, <2>1
  <2>3. CASE Len(line) = L - 1
    <3>1. IsBits(line)
      BY <1>1, <1>3, <1>5, <1>6, <2>1, <2>3 DEF IsBits
    <3>2. DigitsOf(line) = bits
      <4>1. Len(line) = WordBits
        BY <1>1, <1>6, <2>3
      <4>2. DigitsOf(line) = [i \in 1 .. WordBits |-> bits[i]]
        BY <1>1, <1>3, <2>1, <4>1 DEF DigitsOf
      <4>. QED
        BY <1>2, <4>2
    <3>. QED
      BY <1>1, <1>6, <2>3, <3>1, <3>2 DEF ItemOf, bits
  <2>4. CASE Len(line) < L - 1
    <3>1. Len(line) # WordBits
      <4>1. L = WordBits + 1 /\ WordBits \in Nat /\ Len(line) \in Nat
        BY <1>1, <1>6
      <4>2. \A x, y \in Nat : x < y + 1 - 1 => x # y
        OBVIOUS
      <4>. QED
        BY ONLY <2>4, <4>1, <4>2
    <3>2. ~IsBits(line)
      BY <3>1 DEF IsBits
    <3>. QED
      BY <1>1, <2>2, <2>4, <3>2 DEF ItemOf
  <2>. QED
    BY <1>1, <2>3, <2>4
<1>7. CASE Addressed(format)
  <2>1. /\ line[1] = Address(a)
        /\ \A r \in 2 .. Len(line) : line[r] = Bit(bits[r - 1])
    BY <1>1, <1>7 DEF LinePiece, bits, L
  <2>2. ~IsBits(line)
    <3>1. line[1] \in Range(line) /\ line[1].t # "bit"
      BY <1>1, <1>4, <1>5, <2>1
    <3>. QED
      BY <3>1 DEF IsBits
  <2>3. /\ Tail(line) \in Seq(S) /\ Len(Tail(line)) = Len(line) - 1
        /\ \A i \in 1 .. Len(Tail(line)) : Tail(line)[i] = line[i + 1]
        /\ DOMAIN Tail(line) = 1 .. Len(line) - 1
    BY <1>1, HeadTailProperties, LenProperties
  <2>4. CASE Len(line) = L - 1
    <3>1. Len(Tail(line)) = WordBits /\ DOMAIN Tail(line) = 1 .. WordBits
      BY <1>1, <1>7, <2>3, <2>4
    <3>2. ASSUME NEW i \in 1 .. WordBits PROVE Tail(line)[i] = Bit(bits[i])
      <4>1. i + 1 \in 2 .. Len(line) /\ (i + 1) - 1 = i
        BY <1>1, <1>7, <2>4
      <4>. QED
        BY <2>1, <2>3, <3>1, <4>1
    <3>3. IsBits(Tail(line))
      BY <1>3, <3>1, <3>2 DEF IsBits, Range
    <3>4. DigitsOf(Tail(line)) = bits
      <4>1. DigitsOf(Tail(line)) = [i \in 1 .. WordBits |-> bits[i]]
        BY <1>3, <3>1, <3>2 DEF DigitsOf
      <4>. QED
        BY <1>2, <4>1
    <3>. QED
      BY <1>1, <1>4, <1>7, <2>1, <2>2, <2>4, <3>3, <3>4 DEF ItemOf, bits
  <2>5. CASE Len(line) < L - 1
    <3>1. Len(Tail(line)) # WordBits
      <4>1. /\ L = WordBits + 2 /\ Len(Tail(line)) = Len(line) - 1
            /\ WordBits \in Nat /\ Len(line) \in Nat
        BY <1>1, <1>7, <2>3
      <4>2. \A x, y \in Nat : x < y + 2 - 1 => x - 1 # y
        OBVIOUS
      <4>. QED
        BY ONLY <2>5, <4>1, <4>2
    <3>2. ~IsBits(Tail(line))
      BY <3>1 DEF IsBits
    <3>. QED
      BY <1>1, <2>2, <2>5, <3>2 DEF ItemOf
  <2>. QED
    BY <1>1, <2>4, <2>5
<1>. QED
  BY <1>6, <1>7

(* The file as the loader sees it: the items of ObjectFile, but for the last *)
(* if it was cut, which is an error.                                         *)
LEMMA FileIs ==
    ASSUME words \in Sections, Bits, NEW d \in Seq(Piece), NEW q, NEW rem,
           Begins(d, q, rem)
    PROVE  /\ DOMAIN FileOf(d) = 1 .. Begun(q, rem)
           /\ FileOf(d) = [k \in 1 .. Begun(q, rem) |-> FileOf(d)[k]]
           /\ \A k \in 1 .. Begun(q, rem) :
                  \/ FileOf(d)[k] = Written(words, format)[k]
                  \/ FileOf(d)[k] = [kind |-> "junk"] /\ k > q
<1>. DEFINE m == Begun(q, rem)
            f == [k \in 1 .. m |-> First(k)]
            e(k) == PastEnd(q, rem, k)
            x(k) == (k - 1) * L
<1>1. /\ m \in 0 .. Len(words) /\ m \in Nat /\ Len(words) \in Nat /\ Len(d) \in Nat
      /\ L \in Nat \ {0} /\ 2 <= L
  BY BegunWithin, PieceAt, LineLengthIs
<1>2. Cardinality(Starts(d)) = m /\ \A k \in 1 .. m : Nth(Starts(d), k) = First(k)
  <2>1. ASSUME NEW k \in 1 .. m PROVE First(k) \in Nat
    <3>1. First(k) \in 1 .. Len(d)
      BY BegunWithin
    <3>. QED
      BY <1>1, <3>1
  <2>2. ASSUME NEW i \in 1 .. m, NEW j \in 1 .. m, i < j PROVE f[i] < f[j]
    <3>1. i - 1 \in Nat /\ j - 1 \in Nat /\ i - 1 < j - 1
      BY <1>1, <2>2
    <3>2. (i - 1) * L < (j - 1) * L /\ (i - 1) * L \in Nat /\ (j - 1) * L \in Nat
      BY <1>1, <3>1, Multiples
    <3>. QED
      BY <3>2 DEF First
  <2>3. Starts(d) = {f[k] : k \in 1 .. m}
    BY StartsAre
  <2>4. f \in [1 .. m -> Nat]
    BY <2>1
  <2>5. \A k \in 1 .. m : f[k] = First(k)
    OBVIOUS
  <2>. HIDE DEF f, m
  <2>6. Cardinality(Starts(d)) = m /\ \A k \in 1 .. m : Nth(Starts(d), k) = f[k]
    BY <1>1, <2>2, <2>3, <2>4, NthOf
  <2>. QED
    BY <2>5, <2>6
<1>3. Lines(d) = [k \in 1 .. m |-> LineFrom(d, First(k))]
  BY <1>2 DEF Lines
<1>4. FileOf(d) = [k \in 1 .. m |-> ItemOf(LineFrom(d, First(k)))]
  <2>1. format \notin {"logisim", "binary"}
    BY DEF Bits
  <2>. QED
    BY <1>3, <2>1 DEF FileOf
<1>5. ASSUME NEW k \in 1 .. m
      PROVE  \/ FileOf(d)[k] = Written(words, format)[k]
             \/ FileOf(d)[k] = [kind |-> "junk"] /\ k > q
  <2>. DEFINE line == LineFrom(d, First(k))
  <2>1. /\ x(k) \in Nat /\ First(k) = x(k) + 1
        /\ e(k) \in First(k) + 1 .. Len(d) + 1 /\ e(k) <= x(k) + L
        /\ k <= q => e(k) = x(k) + L
        /\ \A r \in 1 .. e(k) - First(k) :
               d[x(k) + r] = LinePiece(words[k], format, k - 1, r)
    BY LinePieces
  <2>2. line = SubSeq(d, First(k), e(k) - 1)
    BY LineEnds DEF LineFrom
  <2>. HIDE DEF e, x, m
  <2>3. \A i \in First(k) .. e(k) - 1 : i \in 1 .. Len(d)
    BY <1>1, <2>1
  <2>4. First(k) \in Int /\ e(k) - 1 \in Int
    BY <1>1, <2>1
  <2>5. /\ line \in Seq(Piece)
        /\ Len(line) = IF First(k) <= e(k) - 1 THEN e(k) - 1 - First(k) + 1 ELSE 0
        /\ \A r \in 1 .. e(k) - 1 - First(k) + 1 : line[r] = d[First(k) + r - 1]
    <3>1. \A i \in First(k) .. e(k) - 1 : d[i] \in Piece
      BY <2>3, ElementOfSeq
    <3>. HIDE DEF line
    <3>. QED
      BY <2>2, <2>4, <3>1, SubSeqProperties
  <2>. HIDE DEF line
  <2>6. /\ Len(line) = e(k) - First(k) /\ Len(line) \in 1 .. L - 1
        /\ \A r \in 1 .. Len(line) : line[r] = d[x(k) + r]
        /\ k <= q => Len(line) = L - 1
    <3>1. Len(line) = e(k) - First(k) /\ Len(line) \in 1 .. L - 1
      <4>1. /\ L \in Nat /\ x(k) \in Nat /\ e(k) \in Int /\ First(k) \in Int
            /\ First(k) = x(k) + 1 /\ First(k) + 1 <= e(k) /\ e(k) <= x(k) + L
        BY <1>1, <2>1, <2>4
      <4>2. Len(line) = e(k) - 1 - First(k) + 1
        BY <2>5, <4>1
      <4>. QED
        BY ONLY <4>1, <4>2
    <3>2. ASSUME NEW r \in 1 .. Len(line) PROVE line[r] = d[x(k) + r]
      <4>1. First(k) + r - 1 = x(k) + r
        BY <2>1
      <4>2. r \in 1 .. e(k) - 1 - First(k) + 1
        <5>1. First(k) \in Int /\ e(k) \in Int
          BY <1>1, <2>1
        <5>2. e(k) - 1 - First(k) + 1 = e(k) - First(k)
          BY ONLY <5>1
        <5>. QED
          BY <3>1, <5>2
      <4>. QED
        BY <2>5, <4>1, <4>2
    <3>3. k <= q => Len(line) = L - 1
      <4>1. L \in Nat /\ x(k) \in Nat /\ First(k) = x(k) + 1
        BY <1>1, <2>1
      <4>2. k <= q => e(k) = x(k) + L
        BY <2>1
      <4>. QED
        BY ONLY <3>1, <4>1, <4>2
    <3>. QED
      BY <3>1, <3>2, <3>3
  <2>7. \A r \in 1 .. Len(line) : line[r] = LinePiece(words[k], format, k - 1, r)
    BY <2>1, <2>6
  <2>8. k \in DOMAIN words /\ words[k] \in Word /\ k - 1 \in Nat
    <3>1. k \in 1 .. Len(words) /\ words \in Seq(Word)
      BY <1>1, WritingAssumption DEF m
    <3>. QED
      BY <3>1, LenProperties, ElementOfSeq
  <2>9. Written(words, format)[k] =
            IF Addressed(format)
              THEN [kind |-> "addressed", addr |-> k - 1,
                    bits |-> BitsOf(words[k], Ssem(format))]
              ELSE [kind |-> "bits", bits |-> BitsOf(words[k], Ssem(format))]
    <3>1. Written(words, format) = BitsFile(words, format)
      BY DEF Bits, Written
    <3>. QED
      BY <2>8, <3>1 DEF BitsFile
  <2>10. FileOf(d)[k] = ItemOf(line)
    BY <1>4 DEF line, m
  <2>11. CASE Len(line) = L - 1
    BY <2>5, <2>6, <2>7, <2>8, <2>9, <2>10, <2>11, ItemOfLine
  <2>12. CASE Len(line) # L - 1
    <3>1. Len(line) < L - 1 /\ k > q
      <4>1. q \in Nat
        BY DEF Begins
      <4>. QED
        BY <1>1, <2>6, <2>12, <4>1
    <3>. QED
      BY <2>5, <2>6, <2>7, <2>8, <2>10, <3>1, ItemOfLine
  <2>. QED
    BY <2>11, <2>12
<1>. QED
  BY <1>4, <1>5

(* What it makes of it.                                                      *)
LEMMA BitsLoad ==
    ASSUME words \in Sections, Bits, NEW d \in Seq(Piece), Len(d) <= Len(Todo),
           \A i \in 1 .. Len(d) : d[i] = Todo[i]
    PROVE  /\ Refused(FileOf(d)) \/ IsPrefix(LoadedWords(FileOf(d)), words)
           /\ d = Todo => FileOf(d) = Written(words, format)
<1>. DEFINE file == FileOf(d)
            q == Len(d) \div L
            rem == Len(d) % L
            m == Begun(q, rem)
<1>1. /\ L \in Nat \ {0} /\ Len(words) \in Nat /\ Len(d) \in Nat
      /\ Len(Todo) = Len(words) * L /\ DOMAIN d = 1 .. Len(d)
  BY LineLengthIs, PieceAt, LenProperties
<1>2. q \in Nat /\ rem \in 0 .. L - 1 /\ Len(d) = q * L + rem
  <2>1. \A a \in Nat \ {0}, n \in Nat :
            n \div a \in Nat /\ n % a \in 0 .. a - 1 /\ n = (n \div a) * a + (n % a)
    OBVIOUS
  <2>. QED
    BY <1>1, <2>1
<1>. HIDE DEF q, rem
<1>3. Begins(d, q, rem)
  BY <1>1, <1>2 DEF Begins
<1>4. m \in 0 .. Len(words)
  BY <1>3, BegunWithin
<1>5. /\ DOMAIN file = 1 .. m
      /\ file = [k \in 1 .. m |-> file[k]]
      /\ \A k \in 1 .. m : \/ file[k] = Written(words, format)[k]
                           \/ file[k] = [kind |-> "junk"] /\ k > q
  BY <1>3, FileIs
<1>6. /\ words \in Seq(Word) /\ DOMAIN words = 1 .. Len(words)
      /\ \A k \in 1 .. Len(words) : words[k] \in Word
  BY WritingAssumption, LenProperties, ElementOfSeq
<1>7. /\ Written(words, format) = [k \in 1 .. Len(words) |-> Written(words, format)[k]]
      /\ \A k \in 1 .. Len(words) :
             /\ IsStatement(Written(words, format)[k], format)
             /\ Written(words, format)[k].bits = BitsOf(words[k], Ssem(format))
  <2>1. Written(words, format) = BitsFile(words, format)
    BY DEF Bits, Written
  <2>. QED
    BY <1>6, <2>1 DEF BitsFile, IsStatement
<1>. HIDE DEF file, m
<1>8. CASE \E k \in 1 .. m : file[k] = [kind |-> "junk"]
  <2>1. PICK k \in 1 .. m : file[k] = [kind |-> "junk"]
    BY <1>8
  <2>2. k \in DOMAIN file \ Statements(file) /\ ~IsIgnored(file[k])
    BY <1>5, <2>1 DEF Statements, IsStatement, IsIgnored
  <2>3. Refused(file)
    BY <2>2 DEF Refused
  <2>4. d # Todo
    <3>. SUFFICES ASSUME d = Todo PROVE FALSE
      OBVIOUS
    <3>1. q * L + rem = Len(words) * L
      BY <1>1, <1>2
    <3>2. k \in 1 .. Len(words) /\ k <= Len(words) /\ k \in Nat
      BY <1>1, <1>4
    <3>3. k > q
      <4>1. Written(words, format)[k].kind \in {"addressed", "bits"}
        BY <1>7, <3>2 DEF IsStatement
      <4>2. Written(words, format)[k] # [kind |-> "junk"]
        BY <4>1
      <4>. QED
        BY <1>5, <2>1, <4>2
    <3>4. q < Len(words)
      BY <1>1, <1>2, <3>2, <3>3
    <3>5. q * L + L <= Len(words) * L /\ q * L \in Nat
      BY <1>1, <1>2, <3>4, Multiples
    <3>. QED
      BY <1>1, <1>2, <3>1, <3>5
  <2>. QED
    BY <2>3, <2>4 DEF file
<1>9. CASE \A k \in 1 .. m : file[k] # [kind |-> "junk"]
  <2>1. \A k \in 1 .. m : file[k] = Written(words, format)[k] /\ k \in 1 .. Len(words)
    BY <1>1, <1>4, <1>5, <1>9
  <2>2. Statements(file) = 1 .. m
    BY <1>5, <1>7, <2>1 DEF Statements
  <2>3. Cardinality(1 .. m) = m /\ \A k \in 1 .. m : Nth(1 .. m, k) = k
    <3>. DEFINE f == [k \in 1 .. m |-> k]
    <3>1. /\ f \in [1 .. m -> Nat] /\ m \in Nat /\ 1 .. m = {f[k] : k \in 1 .. m}
          /\ \A i, j \in 1 .. m : i < j => f[i] < f[j]
      BY <1>1, <1>4
    <3>2. \A k \in 1 .. m : f[k] = k
      OBVIOUS
    <3>. HIDE DEF f
    <3>3. Cardinality(1 .. m) = m /\ \A k \in 1 .. m : Nth(1 .. m, k) = f[k]
      BY <3>1, NthOf
    <3>. QED
      BY <3>2, <3>3
  <2>4. LoadedWords(file) = [k \in 1 .. m |-> words[k]]
    <3>1. format # "binary" /\ Ssem(format) \in BOOLEAN
      BY DEF Bits, Ssem
    <3>2. LoadedWords(file) = [k \in 1 .. m |-> WordOf(file[k].bits, Ssem(format))]
      BY <2>2, <2>3, <3>1 DEF LoadedWords
    <3>3. ASSUME NEW k \in 1 .. m
          PROVE  WordOf(file[k].bits, Ssem(format)) = words[k]
      <4>1. file[k].bits = BitsOf(words[k], Ssem(format)) /\ words[k] \in Word
        BY <1>6, <1>7, <2>1
      <4>. QED
        BY <3>1, <4>1, BitsRoundTrip
    <3>. QED
      BY <3>2, <3>3
  <2>5. IsPrefix([k \in 1 .. m |-> words[k]], words)
    <3>. DEFINE s == [k \in 1 .. m |-> words[k]]
    <3>1. m \in Nat /\ m <= Len(words) /\ \A k \in 1 .. m : k \in 1 .. Len(words)
      BY <1>1, <1>4
    <3>2. s \in Seq(Word) /\ Len(s) = m
      BY <1>6, <3>1
    <3>3. SubSeq(s, 1, m) = s
      BY <3>1, <3>2
    <3>4. SubSeq(words, 1, m) = s
      BY <1>6, <3>1
    <3>. QED
      BY <3>1, <3>2, <3>3, <3>4 DEF IsPrefix
  <2>6. d = Todo => file = Written(words, format)
    <3>. SUFFICES ASSUME d = Todo PROVE file = Written(words, format)
      OBVIOUS
    <3>1. q * L + rem = Len(words) * L /\ q * L \in Nat
      BY <1>1, <1>2, Multiples
    <3>2. q = Len(words) /\ rem = 0
      <4>1. q < Len(words) => q * L + L <= Len(words) * L
        BY <1>1, <1>2, Multiples
      <4>2. Len(words) < q => Len(words) * L + L <= q * L
        BY <1>1, <1>2, Multiples
      <4>3. q = Len(words)
        BY <1>1, <1>2, <3>1, <4>1, <4>2
      <4>. QED
        BY <1>1, <1>2, <3>1, <4>3
    <3>3. m = Len(words)
      BY <3>2 DEF m, Begun
    <3>. QED
      BY <1>5, <1>7, <2>1, <3>3
  <2>. QED
    BY <2>4, <2>5, <2>6 DEF file
<1>. QED
  BY <1>8, <1>9

LEMMA OthersLoad ==
    ASSUME words \in Sections, format \in WriterFormats, ~Bits, NEW d \in Seq(Piece),
           Len(d) <= Len(Todo), \A i \in 1 .. Len(d) : d[i] = Todo[i]
    PROVE  /\ format = "binary" => IsPrefix(LoadedWords(FileOf(d)), words)
           /\ d = Todo => FileOf(d) = Written(words, format)
<1>1. /\ words \in Seq(Word) /\ DOMAIN words = 1 .. Len(words) /\ Len(words) \in Nat
      /\ \A k \in 1 .. Len(words) : words[k] \in Word
      /\ Len(d) \in Nat /\ DOMAIN d = 1 .. Len(d)
  BY WritingAssumption, LenProperties, ElementOfSeq
<1>2. CASE format = "binary"
  <2>1. Todo = [a \in 1 .. Len(words) |-> [t |-> "cell", word |-> words[a]]]
    BY <1>2 DEF Todo, Calls
  <2>2. Len(Todo) = Len(words) /\ DOMAIN Todo = 1 .. Len(words)
    BY <2>1, <1>1, TodoShape
  <2>3. ASSUME NEW i \in 1 .. Len(d)
        PROVE  i \in 1 .. Len(words) /\ d[i].word = words[i]
    <3>1. i \in 1 .. Len(words)
      BY <1>1, <2>2
    <3>2. d[i] = Todo[i] /\ Todo[i].word = words[i]
      BY <2>1, <3>1
    <3>. QED
      BY <3>1, <3>2
  <2>4. FileOf(d) = [i \in 1 .. Len(d) |-> [kind |-> "cell", word |-> words[i]]]
    BY <1>1, <1>2, <2>3 DEF FileOf
  <2>5. LoadedWords(FileOf(d)) = [i \in 1 .. Len(d) |-> words[i]]
    BY <1>2, <2>4 DEF LoadedWords
  <2>6. IsPrefix([i \in 1 .. Len(d) |-> words[i]], words)
    <3>. DEFINE s == [i \in 1 .. Len(d) |-> words[i]]
    <3>1. s \in Seq(Word) /\ Len(s) = Len(d) /\ Len(d) <= Len(words)
      BY <1>1, <2>2, <2>3
    <3>2. SubSeq(s, 1, Len(d)) = s /\ SubSeq(words, 1, Len(d)) = s
      BY <1>1, <3>1
    <3>. QED
      BY <3>1, <3>2 DEF IsPrefix
  <2>7. Written(words, format) = [a \in 1 .. Len(words) |-> [kind |-> "cell", word |-> words[a]]]
    BY <1>1, <1>2 DEF Written, BinaryFile
  <2>. QED
    BY <1>2, <2>2, <2>4, <2>5, <2>6, <2>7
<1>3. CASE format = "logisim"
  <2>1. Todo = [a \in 1 .. Len(words) + 1 |->
                  IF a = 1 THEN [t |-> "header"] ELSE [t |-> "hex"]]
    BY <1>3 DEF Todo, Calls
  <2>2. DOMAIN Todo = 1 .. Len(words) + 1
    BY <2>1
  <2>. DEFINE hex == [a \in 1 .. Len(words) |-> [kind |-> "hex"]]
              one == <<[kind |-> "hex"]>>
              K == {[kind |-> "hex"]}
  <2>3. Written(words, format) = one \o hex
    BY <1>1, <1>3 DEF Written, LogisimFile
  <2>4. /\ one \in Seq(K) /\ hex \in Seq(K) /\ Len(one) = 1 /\ Len(hex) = Len(words)
        /\ one[1] = [kind |-> "hex"]
    BY <1>1
  <2>. HIDE DEF one, hex, K
  <2>5. /\ one \o hex \in Seq(K) /\ Len(one \o hex) = 1 + Len(words)
        /\ DOMAIN (one \o hex) = 1 .. Len(words) + 1
    <3>1. one \o hex \in Seq(K) /\ Len(one \o hex) = Len(one) + Len(hex)
      BY <2>4, ConcatProperties
    <3>2. DOMAIN (one \o hex) = 1 .. Len(one \o hex)
      BY <3>1, LenProperties
    <3>3. 1 + Len(words) = Len(words) + 1
      BY <1>1
    <3>. QED
      BY <2>4, <3>1, <3>2, <3>3
  <2>6. ASSUME NEW i \in 1 .. Len(words) + 1
        PROVE  (one \o hex)[i] = [kind |-> "hex"]
    <3>1. i \in 1 .. Len(one \o hex)
      BY <1>1, <2>5
    <3>2. (one \o hex)[i] \in K
      BY <2>5, <3>1, ElementOfSeq
    <3>. QED
      BY <3>2 DEF K
  <2>7. one \o hex = [i \in 1 .. Len(words) + 1 |-> [kind |-> "hex"]]
    <3>. DEFINE s == one \o hex
    <3>1. s \in [1 .. Len(words) + 1 -> K]
      <4>1. s \in [1 .. Len(s) -> K]
        BY <2>5, LenProperties, ElementOfSeq
      <4>. QED
        BY <2>5, <4>1, LenProperties
    <3>. QED
      BY <2>6, <3>1
  <2>8. d = Todo => FileOf(d) = [i \in 1 .. Len(words) + 1 |-> [kind |-> "hex"]]
    BY <1>3, <2>2 DEF FileOf
  <2>. QED
    BY <1>3, <2>3, <2>7, <2>8
<1>. QED
  BY <1>2, <1>3 DEF Bits, WriterFormats, ReaderFormats

(* Wherever the disk gives out, in the middle of a line, of the section or   *)
(* not at all, a loader refuses the file or loads a beginning of the         *)
(* section; and a file that is complete is what the loaders are proved to    *)
(* read back.                                                                *)
THEOREM LoadsBeginnings == Spec => []LoadsPrefix
<1>1. Inv => LoadsPrefix
  <2>. SUFFICES ASSUME Inv PROVE LoadsPrefix
    OBVIOUS
  <2>1. /\ words \in Sections /\ format \in WriterFormats /\ disk \in Seq(Piece)
        /\ Len(disk) <= Len(Todo) /\ \A i \in 1 .. Len(disk) : disk[i] = Todo[i]
    <3>1. Len(disk) \in Nat /\ Len(stream) \in Nat /\ Len(Todo) \in Nat
      BY LenProperties, TodoShape DEF Inv, Types
    <3>. QED
      BY <3>1 DEF Inv, Types, OnDisk
  <2>2. CASE Bits
    <3>1. format # "binary"
      BY <2>2 DEF Bits
    <3>. QED
      BY <2>1, <2>2, <3>1, BitsLoad DEF LoadsPrefix
  <2>3. CASE ~Bits
    <3>1. format \in ReaderFormats => format = "binary"
      BY <2>3 DEF Bits, ReaderFormats
    <3>. QED
      BY <2>1, <2>3, <3>1, OthersLoad DEF LoadsPrefix
  <2>. QED
    BY <2>2, <2>3
<1>. QED
  BY <1>1, Invariant, PTL
=============================================================================
