------------------------------ MODULE Writing ------------------------------
(* The last stage of bas, libbaby/writer.c, call by call of the C library:   *)
(* write_section() opens the file, the writer of the format puts the section *)
(* into the stream piece by piece, the stream is closed, and main makes the  *)
(* result its exit status.  The disk has room for so much and no more.       *)
EXTENDS ObjectFile, SequencesExt

CONSTANTS
    Sections,       \* the words of sections bas may have assembled
    BufSize,        \* pieces the stream holds before it writes them out
    Rooms           \* pieces the disk may have room for

ASSUME WritingAssumption ==
    /\ Sections \subseteq Seq(Word)
    /\ BufSize \in Nat \ {0}
    /\ Rooms \subseteq Nat

(* A piece is what one call puts into the stream.                            *)
Address(a) == [t |-> "address", addr |-> a]
Bit(b) == [t |-> "bit", bit |-> b]
Newline == [t |-> "newline"]

(* One turn of bits_writer(): the address, a bit per turn, the newline.      *)
LineLength(format) == IF Addressed(format) THEN WordBits + 2 ELSE WordBits + 1

LinePiece(word, format, a, i) ==
    LET bits == BitsOf(word, Ssem(format))
    IN  IF i = LineLength(format) THEN Newline
        ELSE IF ~Addressed(format) THEN Bit(bits[i])
        ELSE IF i = 1 THEN Address(a)
        ELSE Bit(bits[i - 1])

(* The calls of each writer, in order.                                       *)
Calls(words, format) ==
    CASE format = "logisim" ->
           [a \in 1 .. Len(words) + 1 |->
               IF a = 1 THEN [t |-> "header"] ELSE [t |-> "hex"]]
      [] format = "binary" ->
           [a \in 1 .. Len(words) |-> [t |-> "cell", word |-> words[a]]]
      [] OTHER ->
           [n \in 1 .. Len(words) * LineLength(format) |->
               LET a == (n - 1) \div LineLength(format)
                   i == ((n - 1) % LineLength(format)) + 1
               IN  LinePiece(words[a + 1], format, a, i)]

(* The results of these calls are not looked at.                             *)
(* Mutant: nor are those of fputc().                                         *)
CheckedButBits(piece) == piece.t \notin {"header", "address", "bit", "newline"}

Checked(piece) == piece.t \notin {"header", "address"}

VARIABLES
    pc,             \* "open", "write", "close", "exited"
    words, format,  \* the section, and the -O option
    next,           \* the next call of the writer
    stream,         \* what the stream still holds
    disk,           \* what is in the file
    room,           \* room left on the disk
    rc              \* the result so far: "ok" or "error"

vars == <<pc, words, format, next, stream, disk, room, rc>>
fixedVars == <<words, format>>

Todo == Calls(words, format)

Init ==
    /\ pc = "open"
    /\ words \in Sections /\ format \in WriterFormats
    /\ next = 1 /\ stream = <<>> /\ disk = <<>>
    /\ room \in Rooms
    /\ rc = "ok"

-----------------------------------------------------------------------------
(* write_section().                                                          *)

OpenFails ==
    /\ pc = "open"
    /\ rc' = "error" /\ pc' = "exited"
    /\ UNCHANGED <<fixedVars, next, stream, disk, room>>

Open ==
    /\ pc = "open"
    /\ pc' = "write"
    /\ UNCHANGED <<fixedVars, next, stream, disk, room, rc>>

(* The part of the stream the disk takes when it is written out.             *)
Taken == IF room < Len(stream) THEN room ELSE Len(stream)
WriteOut ==
    /\ disk' = disk \o SubSeq(stream, 1, Taken)
    /\ room' = room - Taken

Calling == pc = "write" /\ next <= Len(Todo)

CallStores ==
    /\ Calling /\ Len(stream) < BufSize
    /\ stream' = Append(stream, Todo[next])
    /\ next' = next + 1
    /\ UNCHANGED <<pc, fixedVars, disk, room, rc>>

CallWritesOut ==
    /\ Calling /\ Len(stream) = BufSize /\ Taken = BufSize
    /\ WriteOut
    /\ stream' = <<Todo[next]>>
    /\ next' = next + 1
    /\ UNCHANGED <<pc, fixedVars, rc>>

(* The disk is full.  What it did not take stays in the stream or is         *)
(* dropped, as the library likes; the piece of the call is lost.             *)
CallFails ==
    /\ Calling /\ Len(stream) = BufSize /\ Taken < BufSize
    /\ WriteOut
    /\ stream' \in {<<>>, SubSeq(stream, Taken + 1, Len(stream))}
    /\ IF Checked(Todo[next])
         THEN rc' = "error" /\ pc' = "close" /\ next' = next
         ELSE next' = next + 1 /\ UNCHANGED <<pc, rc>>
    /\ UNCHANGED fixedVars

WriterReturns ==
    /\ pc = "write" /\ next > Len(Todo)
    /\ pc' = "close"
    /\ UNCHANGED <<fixedVars, next, stream, disk, room, rc>>

(* Mutant: what the stream holds is written out and kept.                    *)
CloseKeeps ==
    /\ pc = "close"
    /\ WriteOut
    /\ pc' = "exited"
    /\ UNCHANGED <<fixedVars, next, stream, rc>>

(* fclose() writes out the rest.  Nobody looks at what it returns.           *)
Close ==
    /\ pc = "close"
    /\ WriteOut
    /\ stream' = <<>>
    /\ pc' = "exited"
    /\ UNCHANGED <<fixedVars, next, rc>>

Terminated == pc = "exited" /\ UNCHANGED vars

Next ==
    \/ OpenFails \/ Open
    \/ CallStores \/ CallWritesOut \/ CallFails \/ WriterReturns
    \/ Close \/ Terminated

Spec == Init /\ [][Next]_vars

-----------------------------------------------------------------------------
(* What the loader takes the file for.                                       *)

(* The k-th of a set of places in a sequence.                                *)
Nth(places, k) == CHOOSE i \in places : Cardinality({j \in places : j <= i}) = k

(* The lines of a file; the last may lack its end.                           *)
Starts(d) == {i \in DOMAIN d : i = 1 \/ d[i - 1] = Newline}
LineEnd(d, i) ==
    CHOOSE e \in i .. Len(d) + 1 :
        /\ e = Len(d) + 1 \/ d[e] = Newline
        /\ \A j \in i .. e - 1 : d[j] # Newline
LineFrom(d, i) == SubSeq(d, i, LineEnd(d, i) - 1)
Lines(d) ==
    [k \in 1 .. Cardinality(Starts(d)) |-> LineFrom(d, Nth(Starts(d), k))]

(* Mutant: the expressions of the loader ask for some digits, not for 32.    *)
IsBitsOfAnyLength(line) ==
    Len(line) \in 1 .. WordBits /\ \A p \in Range(line) : p.t = "bit"

IsBits(line) == Len(line) = WordBits /\ \A p \in Range(line) : p.t = "bit"

DigitsOf(line) ==
    [i \in 1 .. WordBits |-> IF i \in DOMAIN line THEN line[i].bit ELSE 0]

ItemOf(line) ==
    IF line = <<>> THEN [kind |-> "ignored"]
    ELSE IF IsBits(line) THEN [kind |-> "bits", bits |-> DigitsOf(line)]
    ELSE IF Head(line).t = "address" /\ IsBits(Tail(line))
      THEN [kind |-> "addressed", addr |-> Head(line).addr,
            bits |-> DigitsOf(Tail(line))]
      ELSE [kind |-> "junk"]

FileOf(d) ==
    CASE format = "logisim" -> [i \in DOMAIN d |-> [kind |-> "hex"]]
      [] format = "binary" -> [i \in DOMAIN d |-> [kind |-> "cell", word |-> d[i].word]]
      [] OTHER -> [k \in DOMAIN Lines(d) |-> ItemOf(Lines(d)[k])]

(* The statements of a file of bits, if none of its lines is an error.       *)
Statements(file) == {i \in DOMAIN file : IsStatement(file[i], format)}
Refused(file) ==
    \/ \E i \in DOMAIN file \ Statements(file) : ~IsIgnored(file[i])
    \/ \E k \in 1 .. Cardinality(Statements(file)) :
           ~Sequential(file[Nth(Statements(file), k)], format, k - 1)

LoadedWords(file) ==
    IF format = "binary" THEN [i \in DOMAIN file |-> file[i].word]
    ELSE [k \in 1 .. Cardinality(Statements(file)) |->
             WordOf(file[Nth(Statements(file), k)].bits, Ssem(format))]

-----------------------------------------------------------------------------
(* Properties.                                                               *)

(* The type invariant.  The disk holds the beginning of the file and no      *)
(* piece is in two places.                                                   *)
TypeOK ==
    /\ pc \in {"open", "write", "close", "exited"}
    /\ words \in Sections /\ format \in WriterFormats
    /\ next \in 1 .. Len(Todo) + 1
    /\ Len(stream) <= BufSize
    /\ Len(disk) + Len(stream) < next
    /\ IsPrefix(disk, Todo)
    /\ room \in Nat
    /\ rc \in {"ok", "error"}

(* However short the disk cuts the file, in the middle of a line or of the   *)
(* section, and whatever bas says, a loader refuses what is there or takes   *)
(* it for a beginning of the section, never for another program.  A file     *)
(* that is there to its end is the one ObjectFile says.                      *)
LoadsPrefix ==
    /\ pc = "exited" /\ format \in ReaderFormats =>
           \/ format # "binary" /\ Refused(FileOf(disk))
           \/ IsPrefix(LoadedWords(FileOf(disk)), words)
    /\ disk = Todo => FileOf(disk) = Written(words, format)

(* When bas exits with success the file is complete; or the disk is full,    *)
(* and then the format is the one whose addresses are written unchecked, or  *)
(* no more is missing than one buffer, which only fclose() knew of.          *)
SuccessAlmostTold ==
    pc = "exited" /\ rc = "ok" =>
        \/ disk = Todo
        \/ room = 0 /\ Addressed(format)
        \/ room = 0 /\ Len(Todo) - Len(disk) <= BufSize
=============================================================================
