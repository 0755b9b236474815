--------------------------- MODULE LoadingProofs ---------------------------
(* What a tool has in memory when it has loaded an object file, for every    *)
(* file, word width, address width, page limit and command line.             *)
EXTENDS Loading, DataProofs, SequenceTheorems, FiniteSetTheorems

-----------------------------------------------------------------------------
(* The inductive invariant, in parts.                                        *)

(* Types.  The two passes start at the top of the file; the program does not *)
(* count more statements than it has read lines.                             *)
OfFormat(f) ==
    \A i \in DOMAIN f : f[i].kind \in (IF format = "binary"
        THEN {"cell", "missing"}
        ELSE {"bits", "addressed", "hex", "ignored", "junk", "missing"})

FileOK ==
    /\ \/ file = NoFile
       \/ file \in Seq(Item) /\ Len(file) < AddrSpan
    /\ OfFormat(file)

TypeInv ==
    /\ pc \in {"options", "round", "stat", "size", "grow", "map", "load",
               "ready", "failed", "aborted"}
    /\ tool \in {"bsim", "bdump"} /\ tool \in Tools /\ format \in ReaderFormats
    /\ asked \in Seq(Nat) /\ args \in Seq(Nat)
    /\ requested \in 0 .. AddrSpan - 1
    /\ memorySize \in 0 .. AddrSpan - 1
    /\ pageSize \in 0 .. AddrSpan - 1
    /\ length \in 0 .. AddrSpan - 1
    /\ pos \in Nat /\ maxAddr \in 0 .. pos
    /\ pc \notin {"stat", "load", "ready", "failed"} => pos = 0
    /\ pc = "stat" /\ file # NoFile => pos <= Len(file)
    /\ pc = "stat" /\ format = "binary" => pos = 0
    /\ rewritten \in BOOLEAN /\ broken \in BOOLEAN
    /\ FileOK

(* The options, of which all but the last Len(args) have been taken: the     *)
(* memory is a power of two that has room for each, unless it has            *)
(* overflowed, when bsim turns for ever.                                     *)
Option(i) == asked[i] % AddrSpan
OptionsTaken == Len(asked) - Len(args)

Rounded ==
    /\ MemoryChecks(memorySize) /\ DefaultSize <= memorySize
    /\ \A i \in 1 .. OptionsTaken :
           Option(i) <= memorySize \/ (pc = "round" /\ i = OptionsTaken)
    /\ \/ memorySize = DefaultSize
       \/ \E i \in 1 .. OptionsTaken : memorySize < 2 * Option(i)

SizeInv ==
    /\ Len(args) <= Len(asked)
    /\ \A j \in 1 .. Len(args) : args[j] = asked[OptionsTaken + j]
    /\ pc \notin {"options", "round"} => args = <<>>
    /\ pc = "round" => OptionsTaken > 0 /\ requested = Option(OptionsTaken)
    /\ Rounded \/ (pc = "round" /\ memorySize = 0 /\ requested > 0)

(* The page grows from the memory in the same way.                           *)
Grown ==
    /\ MemoryChecks(pageSize) /\ memorySize <= pageSize
    /\ pageSize = memorySize \/ pageSize < 2 * length

PageInv ==
    /\ pc # "aborted"
    /\ pc \in {"size", "grow"} => tool = "bsim"
    /\ pc = "map" => tool = "bdump"
    /\ pc = "grow" => Grown \/ (pageSize = 0 /\ length > 0)
    /\ pc \in {"load", "ready"} =>
           /\ page \in Page(pageSize)
           /\ tool = "bsim" => Grown /\ length <= pageSize /\ pageSize <= MaxSize
           /\ tool = "bdump" => pageSize = length
    /\ pc = "failed" => page = <<>> \/ page \in Page(pageSize)
    /\ pc \notin {"load", "ready", "failed"} => page = <<>>

(* What the lines up to the k-th say of the file: none is bad, and the       *)
(* statements among them are numbered.                                       *)
StatementsBefore(i) == {j \in Statements : j < i}

GoodUpTo(k) ==
    \A i \in 1 .. k :
        /\ i \in Statements \/ IsIgnored(file[i])
        /\ Addressed(format) /\ i \in Statements =>
               file[i].addr = Cardinality(StatementsBefore(i))

PassInv ==
    /\ GoodUpTo(pos)
    /\ maxAddr = Cardinality(StatementsBefore(pos + 1))

VerdictInv ==
    ~rewritten =>
        /\ broken => pc \in {"ready", "failed"}
        /\ pc \in {"size", "grow", "map", "load", "ready"} =>
               /\ file # NoFile
               /\ format # "binary" =>
                      GoodUpTo(Len(file)) /\ length = Cardinality(Statements)
        /\ pc \in {"stat", "load"} /\ format # "binary" /\ file # NoFile => PassInv
        /\ format # "binary" /\ pc = "ready" => length # 0 /\ ~broken
        /\ pc = "failed" => ~Loadable \/ Unread

(* The cells of the page that have been loaded are the section's.            *)
LoadedSoFar ==
    \A i \in 0 .. pageSize - 1 :
        page[i] = IF i < pos THEN origin.words[i + 1] ELSE 0

TripInv ==
    ~rewritten /\ origin # ByHand =>
        /\ origin \in ByBas /\ file = Seen(Written(origin.words, origin.format))
        /\ SameFormat =>
               /\ pc \in {"size", "grow", "map", "load", "ready"} =>
                      length = Len(origin.words)
               /\ format # "binary" /\ pc \in {"stat", "load"} => maxAddr = pos
               /\ pc \in {"load", "ready"} =>
                      pos <= length /\ (tool = "bsim" => LoadedSoFar)
               /\ pc = "ready" => broken \/ pos = length

-----------------------------------------------------------------------------
(* Powers of two.                                                            *)

(* The next one is twice as large.                                           *)
LEMMA PowersSpaced ==
    ASSUME NEW m \in Nat, NEW n \in Nat, MemoryChecks(m), MemoryChecks(n), m < n
    PROVE  2 * m <= n
<1>. DEFINE Bad == {x \in Nat : /\ MemoryChecks(x)
                                /\ \E y \in Nat : MemoryChecks(y) /\ x < y /\ ~(2 * x <= y)}
<1>. SUFFICES ASSUME Bad # {} PROVE FALSE
  OBVIOUS
<1>1. PICK x \in Bad : \A z \in Bad : x <= z
  <2>1. Bad \subseteq Nat
    OBVIOUS
  <2>. HIDE DEF Bad
  <2>. QED
    BY <2>1, LeastElement
<1>2. PICK y \in Nat : MemoryChecks(y) /\ x < y /\ ~(2 * x <= y)
  OBVIOUS
<1>3. x \in Nat \ {0} /\ OddPart[x] = 1 /\ y \in Nat \ {0} /\ OddPart[y] = 1
  BY <1>2 DEF MemoryChecks
<1>4. ASSUME NEW n0 \in Nat \ {0}, OddPart[n0] = 1, n0 # 1
      PROVE  /\ n0 % 2 = 0 /\ n0 \div 2 \in Nat \ {0} /\ n0 = 2 * (n0 \div 2)
             /\ MemoryChecks(n0 \div 2)
  <2>1. n0 % 2 = 0 /\ OddPart[n0 \div 2] = 1
    BY <1>4, OddPartDef
  <2>. QED
    BY <2>1 DEF MemoryChecks
<1>5. y # 1 /\ x # 1
  <2>1. y # 1
    BY <1>2, <1>3
  <2>2. y = 2 * (y \div 2) /\ y \div 2 \in Nat \ {0}
    BY <1>3, <1>4, <2>1
  <2>. QED
    BY <1>2, <2>1, <2>2
<1>6. /\ x \div 2 \in Nat \ {0} /\ x = 2 * (x \div 2) /\ MemoryChecks(x \div 2)
      /\ y \div 2 \in Nat \ {0} /\ y = 2 * (y \div 2) /\ MemoryChecks(y \div 2)
  BY <1>3, <1>4, <1>5
<1>7. x \div 2 < y \div 2 /\ ~(2 * (x \div 2) <= y \div 2) /\ x \div 2 < x
  BY <1>2, <1>6
<1>8. x \div 2 \in Bad
  BY <1>6, <1>7
<1>. QED
  BY <1>1, <1>6, <1>7, <1>8

(* An addr_t that doubles a power of two holds the next one, or zero.        *)
LEMMA DoublingWorks ==
    ASSUME NEW m \in 0 .. AddrSpan - 1, MemoryChecks(m)
    PROVE  \/ Doubled(m) = 0
           \/ /\ Doubled(m) = 2 * m /\ Doubled(m) \in 0 .. AddrSpan - 1
              /\ MemoryChecks(Doubled(m))
<1>1. AddrSpan \in Nat /\ MemoryChecks(AddrSpan) /\ m \in Nat /\ m < AddrSpan
  BY LoadingAssumption
<1>2. 2 * m <= AddrSpan
  BY <1>1, PowersSpaced
<1>3. AddrSpan # 0 /\ m # 0 /\ OddPart[m] = 1
  BY <1>1 DEF MemoryChecks
<1>4. CASE 2 * m = AddrSpan
  BY <1>1, <1>3, <1>4 DEF Doubled
<1>5. CASE 2 * m < AddrSpan
  <2>1. Doubled(m) = 2 * m
    <3>1. \A n \in Nat, a \in Nat : n < a => n % a = n
      OBVIOUS
    <3>2. 2 * m \in Nat
      BY <1>1
    <3>. QED
      BY <1>1, <1>5, <3>1, <3>2 DEF Doubled
  <2>2. 2 * m \in Nat \ {0} /\ (2 * m) % 2 = 0 /\ (2 * m) \div 2 = m
    BY <1>1, <1>3
  <2>3. OddPart[2 * m] = 1
    BY <1>3, <2>2, OddPartDef
  <2>. QED
    BY <1>1, <1>5, <2>1, <2>2, <2>3 DEF MemoryChecks
<1>. QED
  BY <1>1, <1>2, <1>4, <1>5

(* Below a power of two a page is addressed directly.                        *)
LEMMA DirectIndex ==
    ASSUME NEW size \in Nat, MemoryChecks(size), NEW i \in 0 .. size - 1
    PROVE  WriteIndex(size, i) = i /\ ReadIndex(size, i) = i
<1>1. size \in Nat \ {0} /\ i \in Nat /\ i < size
  BY DEF MemoryChecks
<1>2. i % size = i
  BY <1>1
<1>. QED
  BY <1>1, <1>2, FoldsAgree DEF ReadIndex
-----------------------------------------------------------------------------
(* Files.                                                                    *)

LEMMA FunctionIsSeq ==
    ASSUME NEW S, NEW n \in Nat, NEW s \in [1 .. n -> S]
    PROVE  s \in Seq(S) /\ Len(s) = n /\ DOMAIN s = 1 .. n
<1>1. s \in Seq(S)
  BY SeqDef
<1>. QED
  BY <1>1, LenProperties

LEMMA ItemKinds ==
    ASSUME NEW line \in Item
    PROVE  /\ line.kind \in {"cell", "bits", "addressed", "hex", "ignored", "junk"}
           /\ line.kind = "cell" => line.word \in Word
           /\ line.kind = "bits" => line.bits \in [1 .. WordBits -> {0, 1}]
           /\ line.kind = "addressed" =>
                  line.addr \in Nat /\ line.bits \in [1 .. WordBits -> {0, 1}]
  BY DEF Item

(* What a writer writes, line by line.                                       *)
LEMMA WrittenLines ==
    ASSUME NEW words \in Sections, NEW f \in WriterFormats
    PROVE  LET t == Written(words, f)
           IN  /\ words \in Seq(Word) /\ Len(words) \in Nat
               /\ t \in Seq(Item) /\ Len(t) < AddrSpan /\ DOMAIN t = 1 .. Len(t)
               /\ f = "logisim" => /\ Len(t) = Len(words) + 1
                                   /\ \A i \in 1 .. Len(t) : t[i].kind = "hex"
               /\ f # "logisim" => Len(t) = Len(words)
               /\ f = "binary" => \A i \in 1 .. Len(words) :
                      t[i].kind = "cell" /\ t[i].word = words[i]
               /\ f \in {"bits", "bits.ssem", "bits.snp"} =>
                      \A i \in 1 .. Len(words) :
                          /\ t[i].kind = IF Addressed(f) THEN "addressed" ELSE "bits"
                          /\ Addressed(f) => t[i].addr = i - 1
                          /\ t[i].bits = BitsOf(words[i], Ssem(f))
<1>. DEFINE t == Written(words, f)
            n == Len(words)
<1>1. /\ words \in Seq(Word) /\ n \in Nat /\ DOMAIN words = 1 .. n
      /\ n + 1 < AddrSpan /\ AddrSpan \in Nat
      /\ \A i \in 1 .. n : words[i] \in Word
  BY LoadingAssumption, LenProperties, ElementOfSeq
<1>2. CASE f = "logisim"
  <2>. DEFINE hex == [kind |-> "hex"]
              head == <<hex>>
              tail == [a \in 1 .. n |-> hex]
  <2>1. hex \in Item
    BY DEF Item
  <2>. HIDE DEF hex
  <2>2. head \in Seq(Item) /\ Len(head) = 1 /\ head[1] = hex
    BY <2>1
  <2>3. tail \in Seq(Item) /\ Len(tail) = n
    <3>1. tail \in [1 .. n -> Item]
      BY <2>1
    <3>. HIDE DEF tail
    <3>. QED
      BY <1>1, <3>1, FunctionIsSeq
  <2>4. t = head \o tail
    BY <1>1, <1>2 DEF Written, LogisimFile, hex
  <2>. HIDE DEF head, tail
  <2>5. /\ t \in Seq(Item) /\ Len(t) = 1 + n
        /\ \A i \in 1 .. 1 + n : t[i] = IF i <= 1 THEN head[i] ELSE tail[i - 1]
    BY <2>2, <2>3, <2>4, ConcatProperties
  <2>6. DOMAIN t = 1 .. Len(t)
    BY <2>5, LenProperties
  <2>7. \A i \in 1 .. 1 + n : t[i] = hex
    <3>1. \A i \in 1 .. 1 + n : IF i <= 1 THEN i = 1 ELSE i - 1 \in 1 .. n
      BY <1>1
    <3>2. \A i \in 1 .. n : tail[i] = hex
      BY DEF tail
    <3>. QED
      BY <2>2, <2>5, <3>1, <3>2
  <2>8. hex.kind = "hex"
    BY DEF hex
  <2>. HIDE DEF t
  <2>. QED
    BY <1>1, <1>2, <2>5, <2>6, <2>7, <2>8 DEF t
<1>3. CASE f = "binary"
  <2>1. t = [a \in 1 .. n |-> [kind |-> "cell", word |-> words[a]]]
    BY <1>1, <1>3 DEF Written, BinaryFile
  <2>2. t \in [1 .. n -> Item]
    <3>1. ASSUME NEW a \in 1 .. n PROVE [kind |-> "cell", word |-> words[a]] \in Item
      BY <1>1 DEF Item
    <3>. QED
      BY <2>1, <3>1
  <2>3. t \in Seq(Item) /\ Len(t) = n /\ DOMAIN t = 1 .. n
    <3>. HIDE DEF t
    <3>. QED
      BY <1>1, <2>2, FunctionIsSeq
  <2>4. \A i \in 1 .. n : t[i].kind = "cell" /\ t[i].word = words[i]
    BY <2>1
  <2>. HIDE DEF t
  <2>. QED
    BY <1>1, <1>3, <2>3, <2>4 DEF t
<1>4. CASE f \in {"bits", "bits.ssem", "bits.snp"}
  <2>. DEFINE line(a) == IF Addressed(f)
                           THEN [kind |-> "addressed", addr |-> a - 1,
                                 bits |-> BitsOf(words[a], Ssem(f))]
                           ELSE [kind |-> "bits", bits |-> BitsOf(words[a], Ssem(f))]
  <2>1. t = [a \in 1 .. n |-> line(a)]
    BY <1>1, <1>4 DEF Written, BitsFile
  <2>2. ASSUME NEW a \in 1 .. n
        PROVE  /\ line(a) \in Item
               /\ line(a).kind = IF Addressed(f) THEN "addressed" ELSE "bits"
               /\ Addressed(f) => line(a).addr = a - 1
               /\ line(a).bits = BitsOf(words[a], Ssem(f))
    <3>1. Ssem(f) \in BOOLEAN /\ a - 1 \in Nat
      BY <1>1 DEF Ssem
    <3>2. BitsOf(words[a], Ssem(f)) \in [1 .. WordBits -> {0, 1}]
      BY <1>1, <3>1, BitsOfBits
    <3>. QED
      BY <3>1, <3>2 DEF Item
  <2>. HIDE DEF line
  <2>3. t \in [1 .. n -> Item]
    BY <2>1, <2>2
  <2>4. t \in Seq(Item) /\ Len(t) = n /\ DOMAIN t = 1 .. n
    <3>. HIDE DEF t
    <3>. QED
      BY <1>1, <2>3, FunctionIsSeq
  <2>5. \A i \in 1 .. n :
             /\ t[i].kind = IF Addressed(f) THEN "addressed" ELSE "bits"
             /\ Addressed(f) => t[i].addr = i - 1
             /\ t[i].bits = BitsOf(words[i], Ssem(f))
    <3>1. \A i \in 1 .. n : t[i] = line(i)
      BY <2>1
    <3>. QED
      BY <2>2, <3>1
  <2>6. f # "logisim" /\ f # "binary"
    BY <1>4
  <2>7. Len(t) < AddrSpan
    BY <1>1, <2>4
  <2>. HIDE DEF t
  <2>. QED
    BY <1>1, <2>4, <2>5, <2>6, <2>7 DEF t
<1>. QED
  BY <1>2, <1>3, <1>4 DEF WriterFormats, ReaderFormats

(* A file is not a missing one.                                              *)
LEMMA SomeFile ==
    ASSUME NEW f \in Seq(Item)
    PROVE  f # NoFile
<1>. SUFFICES ASSUME f = NoFile PROVE FALSE
  OBVIOUS
<1>1. Len(f) = 1 /\ f[1].kind = "missing"
  BY DEF NoFile
<1>2. 1 \in 1 .. Len(f)
  BY <1>1
<1>3. f[1] \in Item
  BY <1>2, ElementOfSeq
<1>. QED
  BY <1>1, <1>3, ItemKinds

LEMMA FilesAre ==
    ASSUME NEW f \in Files
    PROVE  f \in Seq(Item) /\ Len(f) < AddrSpan
<1>1. CASE f \in OtherFiles
  BY <1>1, LoadingAssumption
<1>2. ASSUME NEW s \in Sections, NEW w \in WriterFormats, f = Written(s, w)
      PROVE  f \in Seq(Item) /\ Len(f) < AddrSpan
  BY <1>2, WrittenLines
<1>. QED
  BY <1>1, <1>2 DEF Files

(* What a loader sees is cells or lines, whatever the file is.               *)
LEMMA SeenFile ==
    ASSUME NEW f \in Files \cup {NoFile}
    PROVE  /\ \/ Seen(f) = NoFile
              \/ Seen(f) \in Seq(Item) /\ Len(Seen(f)) < AddrSpan
           /\ OfFormat(Seen(f))
<1>1. CASE f = NoFile
  <2>1. Seen(f) = NoFile
    BY <1>1 DEF Seen
  <2>. QED
    BY <2>1 DEF OfFormat, NoFile
<1>2. CASE f # NoFile
  <2>1. f \in Files /\ f \in Seq(Item) /\ Len(f) < AddrSpan
    BY <1>2, FilesAre
  <2>2. DOMAIN f = 1 .. Len(f) /\ \A i \in DOMAIN f : f[i] \in Item
    BY <2>1, LenProperties, ElementOfSeq
  <2>3. CASE format = "binary" /\ \A i \in DOMAIN f : f[i].kind = "cell"
    <3>1. Seen(f) = f
      BY <1>2, <2>3 DEF Seen
    <3>. QED
      BY <2>1, <2>3, <3>1 DEF OfFormat
  <2>4. CASE format = "binary" /\ ~(\A i \in DOMAIN f : f[i].kind = "cell")
    <3>. DEFINE w == AsWords(f)
                c == BinaryFile(w)
    <3>1. Seen(f) = c
      BY <1>2, <2>4 DEF Seen
    <3>2. w \in Seq(Word) /\ Len(w) < AddrSpan
      BY <2>1, LoadingAssumption
    <3>3. Len(w) \in Nat /\ DOMAIN w = 1 .. Len(w) /\ \A i \in 1 .. Len(w) : w[i] \in Word
      BY <3>2, LenProperties, ElementOfSeq
    <3>. HIDE DEF w
    <3>4. c \in [1 .. Len(w) -> Item] /\ \A i \in 1 .. Len(w) : c[i].kind = "cell"
      <4>1. ASSUME NEW i \in 1 .. Len(w) PROVE [kind |-> "cell", word |-> w[i]] \in Item
        BY <3>3 DEF Item
      <4>. QED
        BY <3>3, <4>1 DEF BinaryFile
    <3>. HIDE DEF c
    <3>5. c \in Seq(Item) /\ Len(c) = Len(w) /\ DOMAIN c = 1 .. Len(w)
      BY <3>3, <3>4, FunctionIsSeq
    <3>. QED
      BY <2>4, <3>1, <3>2, <3>4, <3>5 DEF OfFormat
  <2>5. CASE format # "binary" /\ \A i \in DOMAIN f : f[i].kind # "cell"
    <3>1. Seen(f) = f
      BY <1>2, <2>5 DEF Seen
    <3>2. \A i \in DOMAIN f :
             f[i].kind \in {"bits", "addressed", "hex", "ignored", "junk", "missing"}
      BY <2>2, <2>5, ItemKinds
    <3>. QED
      BY <2>1, <2>5, <3>1, <3>2 DEF OfFormat
  <2>6. CASE format # "binary" /\ ~(\A i \in DOMAIN f : f[i].kind # "cell")
    <3>. DEFINE l == AsLines(f)
    <3>1. Seen(f) = l
      BY <1>2, <2>6 DEF Seen
    <3>2. l \in Seq(TextItem) /\ Len(l) < AddrSpan
      BY <2>1, LoadingAssumption
    <3>. HIDE DEF l
    <3>3. /\ DOMAIN l = 1 .. Len(l) /\ Len(l) \in Nat
          /\ \A i \in 1 .. Len(l) : l[i] \in Item /\ l[i].kind # "cell"
      BY <3>2, LenProperties, ElementOfSeq DEF TextItem
    <3>4. l \in Seq(Item)
      <4>1. l \in [1 .. Len(l) -> Item]
        BY <3>2, <3>3, LenProperties
      <4>. QED
        BY <3>3, <4>1, FunctionIsSeq
    <3>5. \A i \in DOMAIN l :
             l[i].kind \in {"bits", "addressed", "hex", "ignored", "junk", "missing"}
      BY <3>3, ItemKinds
    <3>. QED
      BY <2>6, <3>1, <3>2, <3>4, <3>5 DEF OfFormat
  <2>. QED
    BY <2>3, <2>4, <2>5, <2>6
<1>. QED
  BY <1>1, <1>2

(* A loader of text sees the lines of any writer of text, the binary one the *)
(* words of the binary one, as they were written.                            *)
LEMMA SeenWritten ==
    ASSUME NEW words \in Sections, NEW f \in WriterFormats,
           f = "binary" <=> format = "binary"
    PROVE  Seen(Written(words, f)) = Written(words, f)
<1>. DEFINE t == Written(words, f)
<1>1. /\ t \in Seq(Item) /\ DOMAIN t = 1 .. Len(t) /\ t # NoFile
      /\ Len(words) \in Nat /\ Len(t) \in Nat
      /\ f = "logisim" => \A i \in 1 .. Len(t) : t[i].kind = "hex"
      /\ f # "logisim" => Len(t) = Len(words)
      /\ f = "binary" => \A i \in 1 .. Len(words) : t[i].kind = "cell"
      /\ f \in {"bits", "bits.ssem", "bits.snp"} => \A i \in 1 .. Len(words) :
             t[i].kind = IF Addressed(f) THEN "addressed" ELSE "bits"
  BY WrittenLines, SomeFile, LenProperties
<1>. HIDE DEF t
<1>2. CASE f = "binary"
  <2>1. \A i \in DOMAIN t : t[i].kind = "cell"
    BY <1>1, <1>2
  <2>. QED
    BY <1>1, <1>2, <2>1 DEF Seen, t
<1>3. CASE f # "binary"
  <2>1. \A i \in DOMAIN t : t[i].kind # "cell"
    BY <1>1, <1>3 DEF WriterFormats, ReaderFormats
  <2>. QED
    BY <1>1, <1>3, <2>1 DEF Seen, t
<1>. QED
  BY <1>2, <1>3

(* The line the loader is at.                                                *)
LEMMA LineAt ==
    ASSUME TypeInv, file # NoFile, pos < Len(file)
    PROVE  /\ pos + 1 \in DOMAIN file /\ DOMAIN file = 1 .. Len(file) /\ Len(file) \in Nat
           /\ Line \in Item
           /\ format = "binary" => Line.word \in Word
           /\ format # "binary" /\ IsStatement(Line, format) =>
                  Line.bits \in [1 .. WordBits -> {0, 1}]
<1>1. file \in Seq(Item) /\ OfFormat(file) /\ pos \in Nat
  BY DEF TypeInv, FileOK
<1>2. DOMAIN file = 1 .. Len(file) /\ Len(file) \in Nat
  BY <1>1, LenProperties
<1>3. pos + 1 \in 1 .. Len(file)
  BY <1>1, <1>2
<1>4. Line \in Item
  BY <1>1, <1>3, ElementOfSeq DEF Line
<1>5. format = "binary" => Line.kind \in {"cell", "missing"}
  BY <1>1, <1>2, <1>3 DEF OfFormat, Line
<1>6. /\ format = "binary" => Line.word \in Word
      /\ format # "binary" /\ IsStatement(Line, format) =>
                  Line.bits \in [1 .. WordBits -> {0, 1}]
  BY <1>4, <1>5, ItemKinds DEF IsStatement
<1>. QED
  BY <1>2, <1>3, <1>4, <1>6
-----------------------------------------------------------------------------
(* Types.                                                                    *)

LEMMA TypeInit == Init => TypeInv
<1>. SUFFICES ASSUME Init PROVE TypeInv
  OBVIOUS
<1>1. /\ DefaultSize \in 0 .. AddrSpan - 1 /\ 0 \in 0 .. AddrSpan - 1
      /\ asked \in Seq(Nat) /\ tool \in {"bsim", "bdump"}
  <2>1. /\ DefaultSize \in Nat /\ MaxSize \in Nat /\ AddrSpan \in Nat
        /\ DefaultSize <= MaxSize /\ MaxSize < AddrSpan
        /\ Requests \subseteq Seq(Nat) /\ Tools \subseteq {"bsim", "bdump"}
    BY LoadingAssumption
  <2>. QED
    BY <2>1 DEF Init
<1>2. PICK f \in Files \cup {NoFile} : file = Seen(f)
  <2>1. CASE origin \in ByBas /\ file = Seen(Written(origin.words, origin.format))
    <3>1. origin.words \in Sections /\ origin.format \in WriterFormats
      BY <2>1 DEF ByBas
    <3>. QED
      BY <2>1, <3>1 DEF Files
  <2>2. CASE \E f \in OtherFiles \cup {NoFile} : file = Seen(f)
    BY <2>2 DEF Files
  <2>. QED
    BY <2>1, <2>2 DEF Init
<1>3. args \in Seq(Nat)
  BY <1>1 DEF Init
<1>4. FileOK
  BY <1>2, SeenFile DEF FileOK
<1>5. /\ pc = "options" /\ tool \in Tools /\ format \in ReaderFormats
      /\ requested = 0 /\ memorySize = DefaultSize
      /\ pageSize = 0 /\ length = 0 /\ pos = 0 /\ maxAddr = 0
      /\ rewritten \in BOOLEAN /\ broken \in BOOLEAN
  BY DEF Init
<1>. QED
  BY <1>1, <1>3, <1>4, <1>5 DEF TypeInv

LEMMA TypeStep == TypeInv /\ [Next]_vars => TypeInv'
<1>. SUFFICES ASSUME TypeInv, [Next]_vars PROVE TypeInv'
  OBVIOUS
<1>1. AddrSpan \in Nat \ {0} /\ MaxSize \in Nat /\ MaxSize < AddrSpan
  BY LoadingAssumption
<1>2. \A n \in Nat : Doubled(n) \in 0 .. AddrSpan - 1 /\ n % AddrSpan \in 0 .. AddrSpan - 1
  BY <1>1 DEF Doubled
<1>3. /\ file' = file /\ format' = format => FileOK'
      /\ file # NoFile => Len(file) \in Nat
  BY LenProperties DEF TypeInv, FileOK, OfFormat
<1>4. CASE TakeRequest
  <2>1. Head(args) \in Nat /\ Tail(args) \in Seq(Nat)
    BY <1>4, HeadTailProperties DEF TakeRequest, TypeInv
  <2>. QED
    BY <1>2, <1>3, <1>4, <2>1 DEF TakeRequest, TypeInv, fixedVars, faultVars
<1>5. CASE Round
  <2>1. memorySize' \in 0 .. AddrSpan - 1 /\ pc' \in {"round", "options"} /\ pc = "round"
    <3>1. memorySize \in 0 .. AddrSpan - 1 /\ memorySize \in Nat
      BY <1>1 DEF TypeInv
    <3>2. pc = "round" /\ memorySize' \in {memorySize, Doubled(memorySize)}
          /\ pc' \in {"round", "options"}
      BY <1>5 DEF Round
    <3>. QED
      BY <1>2, <3>1, <3>2
  <2>2. UNCHANGED <<fixedVars, file, args, requested, pageSize, length, pos, maxAddr, faultVars>>
    BY <1>5 DEF Round
  <2>. QED
    BY <1>3, <2>1, <2>2 DEF TypeInv, fixedVars, faultVars
<1>6. CASE \/ EndOfOptions \/ StatFails \/ BadLine \/ NothingToLoad \/ OpenFails
           \/ LoadEnd \/ BinaryEnd \/ ReadFails
  <2>1. /\ UNCHANGED <<fixedVars, file, sizeVars, length, pos, maxAddr, rewritten>>
        /\ broken' \in BOOLEAN
        /\ \/ pc = "options" /\ pc' = "stat"
           \/ pc' \in {"ready", "failed"}
    BY <1>6 DEF EndOfOptions, StatFails, BadLine, NothingToLoad, OpenFails, LoadEnd,
       BinaryEnd, ReadFails, TypeInv, faultVars
  <2>2. /\ pc' \in {"stat", "ready", "failed"}
        /\ pc' = "stat" => pos = 0 /\ (file # NoFile => Len(file) \in Nat)
    BY <1>3, <2>1 DEF TypeInv
  <2>. QED
    BY <1>3, <2>1, <2>2 DEF TypeInv, fixedVars, sizeVars
<1>7. CASE BinaryStat
  <2>1. file \in Seq(Item) /\ Len(file) \in 0 .. AddrSpan - 1
    BY <1>1, <1>7, LenProperties DEF BinaryStat, TypeInv, FileOK
  <2>. QED
    BY <1>3, <1>7, <2>1 DEF BinaryStat, AfterStat, TypeInv, fixedVars, faultVars, sizeVars
<1>8. CASE StatLine \/ LoadLine
  <2>1. pos < Len(file) /\ file # NoFile
    BY <1>8 DEF StatLine, LoadLine, ReadLine
  <2>2. pos + 1 \in Nat /\ pos + 1 <= Len(file) /\ maxAddr' \in 0 .. pos + 1
    BY <1>8, <2>1, LineAt DEF StatLine, LoadLine, ReadLine, TypeInv
  <2>. QED
    BY <1>3, <1>8, <2>2
       DEF StatLine, LoadLine, ReadLine, TypeInv, fixedVars, faultVars, sizeVars
<1>9. CASE StatEnd
  <2>1. file \in Seq(Item) /\ Len(file) \in 0 .. AddrSpan - 1
    BY <1>1, <1>9, LenProperties DEF StatEnd, TypeInv, FileOK
  <2>2. maxAddr \in 0 .. AddrSpan - 1
    BY <1>1, <1>9, <2>1 DEF StatEnd, TypeInv
  <2>. QED
    BY <1>3, <1>9, <2>2 DEF StatEnd, AfterStat, TypeInv, fixedVars, faultVars, sizeVars
<1>10. CASE BeginPage
  BY <1>3, <1>10 DEF BeginPage, TypeInv, fixedVars, faultVars
<1>11. CASE GrowPage
  BY <1>1, <1>2, <1>3, <1>11 DEF GrowPage, TypeInv, fixedVars, faultVars
<1>12. CASE MapPage
  BY <1>3, <1>12 DEF MapPage, TypeInv, fixedVars, faultVars, sizeVars
<1>13. CASE MapSection
  BY <1>3, <1>13 DEF MapSection, TypeInv, fixedVars, faultVars
<1>14. CASE Rewrite
  <2>1. FileOK'
    <3>1. PICK f \in Files \cup {NoFile} : file' = Seen(f)
      BY <1>14 DEF Rewrite, Files, Seen
    <3>2. format' = format
      BY <1>14 DEF Rewrite, fixedVars
    <3>. QED
      BY <3>1, <3>2, SeenFile DEF FileOK, OfFormat
  <2>. QED
    BY <1>14, <2>1 DEF Rewrite, TypeInv, fixedVars, sizeVars
<1>15. CASE LoadCell
  BY <1>3, <1>15 DEF LoadCell, TypeInv, fixedVars, faultVars, sizeVars
<1>16. CASE Terminated \/ UNCHANGED vars
  BY <1>3, <1>16 DEF Terminated, vars, TypeInv, fixedVars, faultVars, sizeVars
<1>. QED
  BY <1>4, <1>5, <1>6, <1>7, <1>8, <1>9, <1>10, <1>11, <1>12, <1>13, <1>14, <1>15, <1>16
     DEF Next, Main
-----------------------------------------------------------------------------
(* The options.                                                              *)

LEMMA SizeInit == Init => SizeInv
<1>. SUFFICES ASSUME Init PROVE SizeInv
  OBVIOUS
<1>1. /\ pc = "options" /\ args = asked /\ memorySize = DefaultSize
      /\ DefaultSize \in Nat /\ MemoryChecks(DefaultSize) /\ Len(asked) \in Nat
  BY LoadingAssumption, LenProperties DEF Init
<1>2. OptionsTaken = 0
  BY <1>1 DEF OptionsTaken
<1>. QED
  BY <1>1, <1>2 DEF SizeInv, Rounded

LEMMA SizeStep == TypeInv /\ SizeInv /\ [Next]_vars => SizeInv'
<1>. SUFFICES ASSUME TypeInv, SizeInv, [Next]_vars PROVE SizeInv'
  OBVIOUS
<1>. DEFINE taken == OptionsTaken
<1>1. /\ Len(args) \in Nat /\ Len(asked) \in Nat /\ taken \in Nat
      /\ taken = Len(asked) - Len(args) /\ AddrSpan \in Nat
      /\ memorySize \in 0 .. AddrSpan - 1 /\ requested \in 0 .. AddrSpan - 1
      /\ memorySize \in Nat /\ requested \in Nat
  BY LoadingAssumption, LenProperties DEF TypeInv, SizeInv, OptionsTaken
<1>2. \A i \in 1 .. taken : Option(i) \in Nat
  <2>1. AddrSpan \in Nat \ {0}
    BY LoadingAssumption
  <2>2. \A i \in 1 .. Len(asked) : asked[i] \in Nat
    BY ElementOfSeq DEF TypeInv
  <2>. QED
    BY <1>1, <2>1, <2>2 DEF Option
<1>3. CASE TakeRequest
  <2>1. /\ pc = "options" /\ pc' = "round" /\ args # <<>> /\ args' = Tail(args)
        /\ requested' = Head(args) % AddrSpan
        /\ UNCHANGED <<asked, memorySize>>
    BY <1>3 DEF TakeRequest, fixedVars
  <2>2. /\ Head(args) = args[1] /\ Len(args') = Len(args) - 1 /\ Len(args) > 0
        /\ \A i \in 1 .. Len(args') : args'[i] = args[i + 1]
    BY <1>1, <2>1, HeadTailProperties DEF TypeInv
  <2>3. OptionsTaken' = taken + 1 /\ taken + 1 <= Len(asked)
    BY <1>1, <2>1, <2>2 DEF OptionsTaken
  <2>4. /\ \A j \in 1 .. Len(args) : args[j] = asked[taken + j]
        /\ Rounded
    BY <2>1 DEF SizeInv
  <2>. HIDE DEF taken
  <2>5. \A j \in 1 .. Len(args') : args'[j] = asked[(taken + 1) + j]
    BY <1>1, <2>2, <2>4
  <2>6. requested' = Option(taken + 1)
    BY <1>1, <2>1, <2>2, <2>4 DEF Option
  <2>7. \A i : Option(i)' = Option(i)
    BY <2>1 DEF Option
  <2>8. Rounded'
    <3>1. /\ MemoryChecks(memorySize) /\ DefaultSize <= memorySize
          /\ \A i \in 1 .. taken : Option(i) <= memorySize
          /\ \/ memorySize = DefaultSize
             \/ \E i \in 1 .. taken : memorySize < 2 * Option(i)
      BY <2>1, <2>4 DEF Rounded, taken
    <3>2. 1 .. taken \subseteq 1 .. taken + 1
          /\ \A i \in 1 .. taken + 1 : i \in 1 .. taken \/ i = taken + 1
      BY <1>1
    <3>. QED
      BY <2>1, <2>3, <2>7, <3>1, <3>2 DEF Rounded
  <2>. QED
    BY <1>1, <2>1, <2>2, <2>3, <2>5, <2>6, <2>7, <2>8 DEF SizeInv
<1>4. CASE Round
  <2>1. /\ pc = "round" /\ UNCHANGED <<args, asked, requested>>
        /\ IF memorySize < requested
             THEN memorySize' = Doubled(memorySize) /\ pc' = "round"
             ELSE memorySize' = memorySize /\ pc' = "options"
    BY <1>4 DEF Round, fixedVars
  <2>2. /\ taken > 0 /\ requested = Option(taken)
        /\ Rounded \/ (memorySize = 0 /\ requested > 0)
        /\ taken \in 1 .. taken
    BY <1>1, <2>1 DEF SizeInv
  <2>3. OptionsTaken' = taken /\ \A i : Option(i)' = Option(i)
    BY <2>1 DEF OptionsTaken, Option
  <2>4. Rounded' \/ (pc' = "round" /\ memorySize' = 0 /\ requested' > 0)
    <3>1. CASE ~Rounded
      <4>1. memorySize = 0 /\ requested > 0 /\ Doubled(0) = 0
        BY <2>2, <3>1, LoadingAssumption DEF Doubled
      <4>. QED
        BY <2>1, <4>1
    <3>2. CASE Rounded /\ memorySize < requested
      <4>1. /\ MemoryChecks(memorySize) /\ DefaultSize <= memorySize
            /\ \A i \in 1 .. taken : Option(i) <= memorySize \/ i = taken
        BY <3>2, <2>1 DEF Rounded
      <4>2. CASE memorySize' = 0
        BY <1>1, <2>1, <3>2, <4>2
      <4>3. CASE memorySize' = 2 * memorySize /\ MemoryChecks(memorySize')
        <5>1. memorySize' < 2 * Option(taken) /\ memorySize <= memorySize'
              /\ memorySize' \in Nat
          BY <1>1, <2>2, <3>2, <4>3
        <5>2. DefaultSize <= memorySize'
          BY <1>1, <4>1, <5>1, LoadingAssumption
        <5>3. \A i \in 1 .. taken : Option(i) <= memorySize' \/ i = taken
          BY <1>1, <1>2, <4>1, <5>1
        <5>4. pc' = "round"
          BY <2>1, <3>2
        <5>. HIDE DEF taken
        <5>. QED
          BY <2>2, <2>3, <4>3, <5>1, <5>2, <5>3, <5>4 DEF Rounded
      <4>. QED
        BY <1>1, <2>1, <3>2, <4>1, <4>2, <4>3, DoublingWorks
    <3>3. CASE Rounded /\ ~(memorySize < requested)
      <4>1. pc' = "options" /\ memorySize' = memorySize /\ Option(taken) <= memorySize
        BY <1>1, <2>1, <2>2, <3>3
      <4>2. \A i \in 1 .. taken : Option(i) <= memorySize
        BY <3>3, <4>1 DEF Rounded
      <4>. QED
        BY <2>3, <3>3, <4>1, <4>2 DEF Rounded
    <3>. QED
      BY <3>1, <3>2, <3>3
  <2>5. \A j \in 1 .. Len(args) : args[j] = asked[taken + j]
    BY DEF SizeInv
  <2>6. pc' \in {"options", "round"}
    BY <2>1
  <2>. HIDE DEF taken
  <2>. QED
    BY <1>1, <2>1, <2>2, <2>3, <2>4, <2>5, <2>6 DEF SizeInv
<1>5. ASSUME /\ pc # "round" /\ pc' # "round"
             /\ pc' \notin {"options", "round"} => args = <<>>
             /\ UNCHANGED <<args, asked, memorySize>>
      PROVE  SizeInv'
  <2>1. OptionsTaken' = taken /\ \A i : Option(i)' = Option(i)
    BY <1>5 DEF OptionsTaken, Option
  <2>2. Rounded'
    BY <1>5, <2>1 DEF Rounded, SizeInv
  <2>. QED
    BY <1>5, <2>1, <2>2 DEF SizeInv
<1>6. CASE EndOfOptions
  BY <1>5, <1>6 DEF EndOfOptions, fixedVars, sizeVars
<1>7. CASE Terminated \/ UNCHANGED vars
  <2>1. /\ UNCHANGED <<pc, args, asked, memorySize, requested>>
    BY <1>7 DEF Terminated, vars, fixedVars, sizeVars
  <2>2. OptionsTaken' = taken /\ \A i : Option(i)' = Option(i)
    BY <2>1 DEF OptionsTaken, Option
  <2>3. Rounded' <=> Rounded
    BY <2>1, <2>2 DEF Rounded
  <2>. QED
    BY <2>1, <2>2, <2>3 DEF SizeInv
<1>8. CASE /\ ~TakeRequest /\ ~Round /\ ~EndOfOptions
           /\ Main \/ Rewrite
  <2>1. /\ pc \notin {"options", "round"} /\ pc' \notin {"options", "round"}
        /\ UNCHANGED <<args, asked, memorySize>>
    BY <1>8 DEF Main, Rewrite, StatFails, BinaryStat, StatLine, StatEnd, BadLine, BeginPage,
       GrowPage, MapPage, MapSection, OpenFails, NothingToLoad, LoadLine, LoadEnd, LoadCell,
       BinaryEnd, ReadFails, ReadLine, AfterStat, fixedVars, sizeVars
  <2>2. args = <<>>
    BY <2>1 DEF SizeInv
  <2>. QED
    BY <1>5, <2>1, <2>2
<1>. QED
  BY <1>3, <1>4, <1>6, <1>7, <1>8 DEF Next, Main
-----------------------------------------------------------------------------
(* The page.                                                                 *)

LEMMA BlankIsPage ==
    ASSUME NEW size \in Nat
    PROVE  Blank(size) \in Page(size)
<1>1. 0 \in Word
  <2>1. Modulus \in Nat \ {0}
    BY BitsAssumption, PowerOfTwoDef
  <2>. QED
    BY <2>1 DEF Word
<1>. QED
  BY <1>1 DEF Blank, Page

LEMMA WrittenIsPage ==
    ASSUME NEW size \in Nat \ {0}, NEW p \in Page(size), NEW addr \in Nat, NEW v \in Word
    PROVE  WriteWord(p, size, addr, v) \in Page(size)
  BY WritesLandInside DEF WriteWord, Page

LEMMA PageInit == Init => PageInv
  BY DEF Init, PageInv

LEMMA PageStep == TypeInv /\ SizeInv /\ PageInv /\ [Next]_vars => PageInv'
<1>. SUFFICES ASSUME TypeInv, SizeInv, PageInv, [Next]_vars PROVE PageInv'
  OBVIOUS
<1>1. /\ AddrSpan \in Nat /\ memorySize \in Nat /\ pageSize \in Nat /\ length \in Nat
      /\ pageSize \in 0 .. AddrSpan - 1 /\ pos \in Nat /\ maxAddr \in Nat
      /\ MaxSize \in Nat /\ tool \in {"bsim", "bdump"}
  BY LoadingAssumption DEF TypeInv
<1>2. CASE TakeRequest \/ Round \/ EndOfOptions
  <2>1. /\ pc \in {"options", "round"} /\ pc' \in {"options", "round", "stat"}
        /\ page' = page
    BY <1>2 DEF TakeRequest, Round, EndOfOptions
  <2>. QED
    BY <2>1 DEF PageInv
<1>3. CASE BinaryStat \/ StatEnd
  <2>1. /\ pc = "stat" /\ page' = page /\ tool' = tool
        /\ pc' = IF tool = "bsim" THEN "size" ELSE "map"
    BY <1>3 DEF BinaryStat, StatEnd, AfterStat, fixedVars
  <2>. QED
    BY <1>1, <2>1 DEF PageInv
<1>4. CASE StatLine
  BY <1>4 DEF StatLine, PageInv, Grown, ReadLine
<1>5. CASE BeginPage
  <2>1. /\ pc = "size" /\ pc' = "grow" /\ pageSize' = memorySize /\ memorySize' = memorySize
        /\ page' = page /\ tool' = tool
    BY <1>5 DEF BeginPage, fixedVars
  <2>2. MemoryChecks(memorySize)
    BY <2>1 DEF SizeInv, Rounded
  <2>. QED
    BY <1>1, <2>1, <2>2 DEF PageInv, Grown
<1>6. CASE GrowPage
  <2>1. /\ pc = "grow" /\ pc' = "grow" /\ pageSize < length
        /\ pageSize' = Doubled(pageSize)
        /\ UNCHANGED <<tool, memorySize, length, page>>
    BY <1>6 DEF GrowPage, fixedVars
  <2>2. tool = "bsim" /\ page = <<>> /\ (Grown \/ (pageSize = 0 /\ length > 0))
    BY <2>1 DEF PageInv
  <2>3. Grown' \/ (pageSize' = 0 /\ length' > 0)
    <3>1. CASE ~Grown
      BY <1>1, <2>1, <2>2, <3>1, LoadingAssumption DEF Doubled
    <3>2. CASE Grown
      <4>1. MemoryChecks(pageSize) /\ memorySize <= pageSize
        BY <3>2 DEF Grown
      <4>2. CASE pageSize' = 0
        BY <1>1, <2>1, <4>2
      <4>3. CASE pageSize' = 2 * pageSize /\ MemoryChecks(pageSize')
        <5>1. memorySize <= pageSize' /\ pageSize' < 2 * length
          BY <1>1, <2>1, <4>1, <4>3
        <5>. QED
          BY <2>1, <4>3, <5>1 DEF Grown
      <4>. QED
        BY <1>1, <2>1, <4>1, <4>2, <4>3, DoublingWorks
    <3>. QED
      BY <3>1, <3>2
  <2>. QED
    BY <2>1, <2>2, <2>3 DEF PageInv
<1>7. CASE MapPage
  <2>1. /\ pc = "grow" /\ pageSize >= length
        /\ IF pageSize > MaxSize
             THEN pc' = "failed" /\ page' = page
             ELSE /\ pc' = IF MemoryChecks(pageSize) THEN "load" ELSE "aborted"
                  /\ page' = Blank(pageSize)
        /\ UNCHANGED <<tool, memorySize, pageSize, length>>
    BY <1>7 DEF MapPage, fixedVars, sizeVars
  <2>2. tool = "bsim" /\ page = <<>> /\ Grown
    BY <1>1, <2>1 DEF PageInv
  <2>3. Grown' /\ MemoryChecks(pageSize)
    BY <2>1, <2>2 DEF Grown
  <2>4. CASE pageSize > MaxSize
    BY <2>1, <2>2, <2>4 DEF PageInv
  <2>5. CASE ~(pageSize > MaxSize)
    <3>1. pc' = "load" /\ page' \in Page(pageSize') /\ length' <= pageSize'
          /\ pageSize' <= MaxSize
      BY <1>1, <2>1, <2>3, <2>5, BlankIsPage
    <3>. QED
      BY <2>1, <2>2, <2>3, <3>1 DEF PageInv
  <2>. QED
    BY <2>4, <2>5
<1>8. CASE MapSection
  <2>1. /\ pc = "map" /\ pc' = "load" /\ pageSize' = length /\ length' = length
        /\ page' = Blank(length) /\ tool' = tool
    BY <1>8 DEF MapSection, fixedVars
  <2>2. tool = "bdump" /\ page' \in Page(pageSize')
    BY <1>1, <2>1, BlankIsPage DEF PageInv
  <2>. QED
    BY <2>1, <2>2 DEF PageInv
<1>9. ASSUME /\ page' = page \/ (pc = "load" /\ pc' = "load" /\ page' \in Page(pageSize))
             /\ UNCHANGED <<tool, memorySize, pageSize, length>>
             /\ \/ pc' = pc
                \/ pc = "stat" /\ pc' = "failed"
                \/ pc = "load" /\ pc' \in {"ready", "failed"}
      PROVE  PageInv'
  <2>1. Grown' <=> Grown
    BY <1>9 DEF Grown
  <2>. QED
    BY <1>9, <2>1 DEF PageInv
<1>10. CASE LoadCell
  <2>1. /\ pc = "load" /\ pc' = "load" /\ pos < length /\ format = "binary"
        /\ file # NoFile /\ pos < Len(file)
        /\ page' = WriteWord(page, pageSize, pos, Line.word)
        /\ UNCHANGED <<tool, memorySize, pageSize, length>>
    BY <1>10 DEF LoadCell, fixedVars, sizeVars
  <2>2. Line.word \in Word
    BY <2>1, LineAt
  <2>3. page \in Page(pageSize) /\ pageSize \in Nat \ {0}
    BY <1>1, <2>1 DEF PageInv
  <2>. QED
    BY <1>1, <1>9, <2>1, <2>2, <2>3, WrittenIsPage
<1>11. CASE LoadLine
  <2>1. /\ pc = "load" /\ pc' = "load" /\ length # 0 /\ format # "binary"
        /\ file # NoFile /\ pos < Len(file)
        /\ page' = IF Accepted
                     THEN WriteWord(page, pageSize, maxAddr, WordOf(Line.bits, Ssem(format)))
                     ELSE page
        /\ UNCHANGED <<tool, memorySize, pageSize, length>>
    BY <1>11 DEF LoadLine, ReadLine, fixedVars, sizeVars
  <2>2. Accepted => WordOf(Line.bits, Ssem(format)) \in Word
    <3>1. Ssem(format) \in BOOLEAN
      BY DEF Ssem
    <3>2. Accepted => Line.bits \in [1 .. WordBits -> {0, 1}]
      BY <2>1, LineAt DEF Accepted
    <3>. QED
      BY <3>1, <3>2, WordOfIsWord
  <2>3. page \in Page(pageSize) /\ pageSize \in Nat \ {0}
    BY <1>1, <2>1 DEF PageInv
  <2>4. page' \in Page(pageSize)
    BY <1>1, <2>1, <2>2, <2>3, WrittenIsPage
  <2>. QED
    BY <1>9, <2>1, <2>4
<1>12. CASE \/ StatFails \/ BadLine \/ OpenFails \/ NothingToLoad \/ LoadEnd \/ BinaryEnd
            \/ ReadFails \/ Rewrite \/ Terminated \/ UNCHANGED vars
  <2>1. /\ page' = page
        /\ UNCHANGED <<tool, memorySize, pageSize, length>>
    BY <1>12 DEF StatFails, BadLine, OpenFails, NothingToLoad, LoadEnd, BinaryEnd, ReadFails,
       Rewrite, Terminated, vars, fixedVars, sizeVars
  <2>2. \/ pc' = pc
        \/ pc = "stat" /\ pc' = "failed"
        \/ pc = "load" /\ pc' \in {"ready", "failed"}
    BY <1>12 DEF StatFails, BadLine, OpenFails, NothingToLoad, LoadEnd, BinaryEnd, ReadFails,
       Rewrite, Terminated, vars
  <2>. QED
    BY <1>9, <2>1, <2>2
<1>. QED
  BY <1>2, <1>3, <1>4, <1>5, <1>6, <1>7, <1>8, <1>10, <1>11, <1>12 DEF Next, Main

(* The three together.                                                       *)
SafeInv == TypeInv /\ SizeInv /\ PageInv

LEMMA Safe == Spec => []SafeInv
<1>1. Init => SafeInv
  BY TypeInit, SizeInit, PageInit DEF SafeInv
<1>2. SafeInv /\ [Next]_vars => SafeInv'
  BY TypeStep, SizeStep, PageStep DEF SafeInv
<1>. QED
  BY <1>1, <1>2, PTL DEF Spec

(* The theorem of types: the page, once there is one, has the size recorded  *)
(* for it and holds words, whatever the file holds and whenever it changes   *)
(* (bsim.c, bdump.c and loader.c from the options to the loaded page).       *)
THEOREM LoadingTypes == Spec => []TypeOK
<1>1. SafeInv => TypeOK
  <2>. SUFFICES ASSUME SafeInv PROVE TypeOK
    OBVIOUS
  <2>1. page = <<>> \/ page \in Page(pageSize)
    BY DEF SafeInv, TypeInv, PageInv
  <2>2. maxAddr \in Nat /\ length \in Nat
    BY LoadingAssumption DEF SafeInv, TypeInv
  <2>. QED
    BY <2>1, <2>2 DEF SafeInv, TypeInv, TypeOK
<1>. QED
  BY <1>1, Safe, PTL

(* The theorem of the page's size: whatever the -m options and the file      *)
(* demand, the page bsim maps is the least power of two that meets it, and   *)
(* an addr_t that overflows on the way never lets it through (bsim.c         *)
(* 219-223 and 256-265).                                                     *)
THEOREM PageIsLeast == Spec => []LeastPage
<1>1. SafeInv => LeastPage
  <2>. SUFFICES ASSUME SafeInv, tool = "bsim", pc \in {"load", "ready"}
       PROVE  /\ OddPart[pageSize] = 1
              /\ \A d \in Demands : d <= pageSize
              /\ pageSize <= MaxSize
              /\ pageSize = DefaultSize \/ \E d \in Demands : pageSize < 2 * d
    BY DEF LeastPage
  <2>1. /\ AddrSpan \in Nat \ {0} /\ memorySize \in Nat /\ pageSize \in Nat
        /\ DefaultSize \in Nat /\ Len(asked) \in Nat /\ DOMAIN asked = 1 .. Len(asked)
        /\ \A i \in 1 .. Len(asked) : asked[i] \in Nat
    BY LoadingAssumption, LenProperties, ElementOfSeq DEF SafeInv, TypeInv
  <2>2. Grown /\ length <= pageSize /\ pageSize <= MaxSize
    BY DEF SafeInv, PageInv
  <2>3. args = <<>> /\ OptionsTaken = Len(asked) /\ Rounded /\ pc # "round"
    <3>1. args = <<>> /\ Len(args) = 0 /\ Rounded /\ pc # "round"
      BY DEF SafeInv, SizeInv
    <3>. QED
      BY <2>1, <3>1 DEF OptionsTaken
  <2>4. /\ DefaultSize <= memorySize
        /\ \A i \in DOMAIN asked : Option(i) <= memorySize /\ Option(i) \in Demands
                                   /\ Option(i) \in Nat
        /\ \/ memorySize = DefaultSize
           \/ \E i \in DOMAIN asked : memorySize < 2 * Option(i)
    <3>1. ASSUME NEW i \in DOMAIN asked
          PROVE  Option(i) <= memorySize /\ Option(i) \in Demands /\ Option(i) \in Nat
      <4>1. i \in 1 .. Len(asked) /\ asked[i] \in Nat
        BY <2>1
      <4>2. Option(i) <= memorySize
        BY <2>3, <4>1 DEF Rounded
      <4>3. Option(i) \in Nat
        BY <2>1, <4>1 DEF Option
      <4>. QED
        BY <4>2, <4>3 DEF Demands, Option
    <3>2. /\ DefaultSize <= memorySize
          /\ \/ memorySize = DefaultSize
             \/ \E i \in 1 .. Len(asked) : memorySize < 2 * Option(i)
      BY <2>3 DEF Rounded
    <3>. QED
      BY <2>1, <3>1, <3>2
  <2>5. memorySize <= pageSize /\ (pageSize = memorySize \/ pageSize < 2 * length)
        /\ OddPart[pageSize] = 1
    BY <2>2 DEF Grown, MemoryChecks
  <2>6. ASSUME NEW d \in Demands PROVE d <= pageSize
    <3>1. CASE d \in {DefaultSize, length}
      BY <2>1, <2>2, <2>4, <2>5, <3>1
    <3>2. CASE \E i \in DOMAIN asked : d = Option(i)
      BY <2>1, <2>4, <2>5, <3>2
    <3>. QED
      BY <3>1, <3>2 DEF Demands, Option
  <2>7. pageSize = DefaultSize \/ \E d \in Demands : pageSize < 2 * d
    <3>1. length \in Demands
      BY DEF Demands
    <3>. QED
      BY <2>4, <2>5, <3>1
  <2>. QED
    BY <2>2, <2>5, <2>6, <2>7
<1>. QED
  BY <1>1, Safe, PTL

(* The theorem of confinement: where the second pass writes there is a cell, *)
(* even when the file has grown since the first (loader.c 96-107 and         *)
(* 172-184, memory.h write_word()).                                          *)
THEOREM WritesConfined == Spec => []Confined
<1>1. SafeInv => Confined
  <2>. SUFFICES ASSUME SafeInv, pc = "load", pageSize > 0
       PROVE  WriteIndex(pageSize, IF format = "binary" THEN pos ELSE maxAddr) \in DOMAIN page
    BY DEF Confined
  <2>1. pageSize \in Nat \ {0} /\ pos \in Nat /\ maxAddr \in Nat
    BY LoadingAssumption DEF SafeInv, TypeInv
  <2>2. DOMAIN page = 0 .. pageSize - 1
    BY DEF SafeInv, PageInv, Page
  <2>. QED
    BY <2>1, <2>2, WritesLandInside
<1>. QED
  BY <1>1, Safe, PTL
-----------------------------------------------------------------------------
(* The verdict.                                                              *)

LEMMA StatementsCounted ==
    ASSUME TypeInv, file # NoFile
    PROVE  /\ DOMAIN file = 1 .. Len(file) /\ Len(file) \in Nat
           /\ IsFiniteSet(Statements) /\ StatementsBefore(1) = {}
           /\ StatementsBefore(Len(file) + 1) = Statements
           /\ \A i \in 1 .. Len(file) :
                  Cardinality(StatementsBefore(i + 1)) =
                      Cardinality(StatementsBefore(i)) + (IF i \in Statements THEN 1 ELSE 0)
<1>1. DOMAIN file = 1 .. Len(file) /\ Len(file) \in Nat
  BY LenProperties DEF TypeInv, FileOK
<1>2. Statements \subseteq 1 .. Len(file)
  BY <1>1 DEF Statements
<1>3. IsFiniteSet(Statements)
  <2>1. IsFiniteSet(1 .. Len(file))
    BY <1>1, FS_Interval
  <2>. QED
    BY <1>2, <2>1, FS_Subset
<1>4. StatementsBefore(1) = {} /\ StatementsBefore(Len(file) + 1) = Statements
  <2>1. \A j \in 1 .. Len(file) : ~(j < 1) /\ j < Len(file) + 1
    BY <1>1
  <2>2. \A j \in Statements : ~(j < 1) /\ j < Len(file) + 1
    BY <1>2, <2>1
  <2>. QED
    BY <2>2 DEF StatementsBefore
<1>5. ASSUME NEW i \in 1 .. Len(file)
      PROVE  Cardinality(StatementsBefore(i + 1)) =
                 Cardinality(StatementsBefore(i)) + (IF i \in Statements THEN 1 ELSE 0)
  <2>1. IsFiniteSet(StatementsBefore(i)) /\ i \notin StatementsBefore(i)
    <3>1. StatementsBefore(i) \subseteq Statements /\ i \notin StatementsBefore(i)
      BY <1>1 DEF StatementsBefore
    <3>. QED
      BY <1>3, <3>1, FS_Subset
  <2>2. Cardinality(StatementsBefore(i)) \in Nat
    BY <2>1, FS_CardinalityType
  <2>3. \A j \in 1 .. Len(file) : j < i + 1 <=> (j < i \/ j = i)
    BY <1>1
  <2>4. CASE i \in Statements
    <3>1. StatementsBefore(i + 1) = StatementsBefore(i) \cup {i}
      BY <1>2, <2>3, <2>4 DEF StatementsBefore
    <3>. QED
      BY <2>1, <2>4, <3>1, FS_AddElement
  <2>5. CASE i \notin Statements
    <3>1. StatementsBefore(i + 1) = StatementsBefore(i)
      BY <1>2, <2>3, <2>5 DEF StatementsBefore
    <3>. QED
      BY <2>2, <2>5, <3>1
  <2>. QED
    BY <2>4, <2>5
<1>. QED
  BY <1>1, <1>3, <1>4, <1>5

LEMMA FileStays ==
    ASSUME UNCHANGED <<file, format>>
    PROVE  /\ Statements' = Statements
           /\ \A i : StatementsBefore(i)' = StatementsBefore(i)
           /\ \A k : GoodUpTo(k)' <=> GoodUpTo(k)
           /\ UNCHANGED <<tool, asked, length>> => (Loadable' <=> Loadable)
<1>1. Statements' = Statements
  BY DEF Statements
<1>2. \A i : StatementsBefore(i)' = StatementsBefore(i)
  BY <1>1 DEF StatementsBefore
<1>3. \A k : GoodUpTo(k)' <=> GoodUpTo(k)
  BY <1>1, <1>2 DEF GoodUpTo
<1>4. UNCHANGED <<tool, asked, length>> => (Loadable' <=> Loadable)
  BY <1>1 DEF Loadable, WellFormed, Demands
<1>. QED
  BY <1>1, <1>2, <1>3, <1>4

(* A line that is taken is a good one.                                       *)
LEMMA PassGoesOn ==
    ASSUME TypeInv, PassInv, UNCHANGED <<file, format>>,
           ReadLine("stat") \/ ReadLine("load")
    PROVE  PassInv'
<1>1. /\ format # "binary" /\ file # NoFile /\ pos < Len(file)
      /\ Accepted \/ Skipped
      /\ maxAddr' = IF Accepted THEN maxAddr + 1 ELSE maxAddr
      /\ pos' = pos + 1
  BY DEF ReadLine
<1>. DEFINE i == pos + 1
<1>2. /\ i \in 1 .. Len(file) /\ i \in DOMAIN file /\ pos \in Nat /\ maxAddr \in Nat
      /\ i + 1 = pos' + 1 /\ i = pos'
  BY <1>1, LineAt DEF TypeInv
<1>3. i \in Statements <=> IsStatement(Line, format)
  BY <1>2 DEF Statements, Line
<1>4. Accepted <=> i \in Statements
  BY <1>1, <1>3 DEF Accepted, Skipped
<1>5. maxAddr = Cardinality(StatementsBefore(i)) /\ GoodUpTo(pos)
  BY DEF PassInv
<1>6. maxAddr' = Cardinality(StatementsBefore(i + 1))
  BY <1>1, <1>2, <1>4, <1>5, StatementsCounted
<1>7. GoodUpTo(i)
  <2>1. i \in Statements \/ IsIgnored(file[i])
    BY <1>1, <1>4 DEF Skipped, Line
  <2>2. Addressed(format) /\ i \in Statements =>
            file[i].addr = Cardinality(StatementsBefore(i))
    BY <1>4, <1>5 DEF Accepted, Sequential, AddressOf, Line
  <2>3. \A j \in 1 .. i : j \in 1 .. pos \/ j = i
    BY <1>2
  <2>. QED
    BY <1>5, <2>1, <2>2, <2>3 DEF GoodUpTo
<1>. HIDE DEF i
<1>8. GoodUpTo(pos') /\ maxAddr' = Cardinality(StatementsBefore(pos' + 1))
  BY <1>2, <1>6, <1>7
<1>. QED
  BY <1>8, FileStays DEF PassInv

(* One that is refused makes the file one to refuse.                         *)
LEMMA BadLineIsBad ==
    ASSUME TypeInv, PassInv, BadLine
    PROVE  ~WellFormed
<1>1. /\ format # "binary" /\ file # NoFile /\ pos < Len(file)
      /\ ~Accepted /\ ~Skipped
  BY DEF BadLine
<1>. DEFINE i == pos + 1
<1>2. i \in DOMAIN file /\ (i \in Statements <=> IsStatement(Line, format))
  BY <1>1, LineAt DEF Statements, Line
<1>3. maxAddr = Cardinality({j \in Statements : j < i})
  BY DEF PassInv, StatementsBefore
<1>4. CASE IsStatement(Line, format)
  <2>1. Addressed(format) /\ file[i].addr # maxAddr
    BY <1>1, <1>4 DEF Accepted, Sequential, AddressOf, Line
  <2>. QED
    BY <1>1, <1>2, <1>3, <1>4, <2>1 DEF WellFormed
<1>5. CASE ~IsStatement(Line, format)
  <2>1. ~IsIgnored(file[i])
    BY <1>1, <1>5 DEF Skipped, Line
  <2>. QED
    BY <1>1, <1>2, <1>5, <2>1 DEF WellFormed
<1>. QED
  BY <1>4, <1>5
LEMMA VerdictInit == Init => VerdictInv
  BY DEF Init, VerdictInv

LEMMA VerdictStep ==
    ASSUME SafeInv, SafeInv', VerdictInv, [Next]_vars PROVE VerdictInv'
<1>. SUFFICES ASSUME ~rewritten' PROVE VerdictInv'
  BY DEF VerdictInv
<1>. USE DEF SafeInv
<1>1. ~rewritten /\ UNCHANGED <<file, format, tool, asked>>
  <2>1. ~Rewrite
    BY DEF Rewrite
  <2>2. rewritten' = rewritten /\ UNCHANGED <<file, format, tool, asked>>
    BY <2>1 DEF Next, Main, TakeRequest, Round, EndOfOptions, StatFails, BinaryStat, StatLine,
       StatEnd, BadLine, BeginPage, GrowPage, MapPage, MapSection, OpenFails, NothingToLoad,
       LoadLine, LoadEnd, LoadCell, BinaryEnd, ReadFails, Terminated, vars, fixedVars, faultVars
  <2>. QED
    BY <2>2
<1>2. /\ \A k : GoodUpTo(k)' <=> GoodUpTo(k)
      /\ \A i : StatementsBefore(i)' = StatementsBefore(i)
      /\ Statements' = Statements /\ (length' = length => (Loadable' <=> Loadable))
  BY <1>1, FileStays
<1>3. UNCHANGED <<pos, maxAddr>> => (PassInv' <=> PassInv)
  BY <1>2 DEF PassInv
<1>4. file # NoFile /\ pos' = 0 => PassInv'
  <2>. SUFFICES ASSUME file # NoFile, pos' = 0 PROVE PassInv'
    OBVIOUS
  <2>1. maxAddr' = 0
    BY DEF TypeInv
  <2>2. Cardinality(StatementsBefore(1)) = 0
    BY StatementsCounted, FS_EmptySet
  <2>3. pos' + 1 = 1 /\ Cardinality(StatementsBefore(pos + 1))' = 0
    BY <1>2, <2>2 DEF StatementsBefore
  <2>4. GoodUpTo(pos)'
    BY DEF GoodUpTo
  <2>. QED
    BY <2>1, <2>3, <2>4 DEF PassInv
<1>5. /\ broken => pc \in {"ready", "failed"}
      /\ pc \in {"size", "grow", "map", "load", "ready"} =>
             /\ file # NoFile
             /\ format # "binary" =>
                    GoodUpTo(Len(file)) /\ length = Cardinality(Statements)
      /\ pc \in {"stat", "load"} /\ format # "binary" /\ file # NoFile => PassInv
  BY <1>1 DEF VerdictInv
<1>6. CASE TakeRequest \/ Round \/ EndOfOptions
  <2>1. /\ pc \in {"options", "round"} /\ pc' \in {"options", "round", "stat"}
        /\ UNCHANGED <<pos, broken>> /\ pos = 0
    BY <1>6 DEF TakeRequest, Round, EndOfOptions, faultVars, TypeInv
  <2>. QED
    BY <1>1, <1>4, <1>5, <2>1 DEF VerdictInv
<1>7. CASE StatFails
  <2>1. file = NoFile /\ pc = "stat" /\ pc' = "failed" /\ length' = length /\ broken' = broken
    BY <1>7 DEF StatFails, faultVars
  <2>2. ~Loadable'
    BY <1>2, <2>1 DEF Loadable
  <2>. QED
    BY <1>1, <1>5, <2>1, <2>2 DEF VerdictInv
<1>8. CASE BinaryStat
  <2>1. file # NoFile /\ format = "binary" /\ pc = "stat" /\ pc' \in {"size", "map"}
        /\ broken' = broken
    BY <1>8 DEF BinaryStat, AfterStat, faultVars
  <2>. QED
    BY <1>1, <1>5, <2>1 DEF VerdictInv
<1>9. CASE StatLine \/ LoadLine
  <2>1. /\ pc \in {"stat", "load"} /\ pc' = pc /\ UNCHANGED <<length, broken>>
        /\ ReadLine("stat") \/ ReadLine("load")
        /\ format # "binary" /\ file # NoFile
    BY <1>9 DEF StatLine, LoadLine, ReadLine, faultVars
  <2>2. PassInv'
    BY <1>1, <1>5, <2>1, PassGoesOn
  <2>. QED
    BY <1>1, <1>2, <1>5, <2>1, <2>2 DEF VerdictInv
<1>10. CASE StatEnd
  <2>1. /\ pc = "stat" /\ format # "binary" /\ file # NoFile /\ pos = Len(file)
        /\ length' = maxAddr /\ pc' \in {"size", "map"} /\ broken' = broken
    BY <1>10 DEF StatEnd, AfterStat, faultVars
  <2>2. GoodUpTo(Len(file)) /\ maxAddr = Cardinality(StatementsBefore(Len(file) + 1))
    BY <1>5, <2>1 DEF PassInv
  <2>3. maxAddr = Cardinality(Statements)
    BY <2>1, <2>2, StatementsCounted
  <2>. QED
    BY <1>1, <1>2, <1>5, <2>1, <2>2, <2>3 DEF VerdictInv
<1>11. CASE BadLine
  <2>1. /\ pc \in {"stat", "load"} /\ pc' = "failed" /\ UNCHANGED <<length, broken>>
        /\ format # "binary" /\ file # NoFile
    BY <1>11 DEF BadLine, faultVars
  <2>2. ~Loadable'
    BY <1>2, <1>5, <1>11, <2>1, BadLineIsBad DEF Loadable
  <2>. QED
    BY <1>1, <2>1, <2>2 DEF VerdictInv
<1>12. CASE BeginPage \/ GrowPage \/ MapSection
  <2>1. /\ pc \in {"size", "grow", "map"} /\ pc' \in {"grow", "load"}
        /\ UNCHANGED <<length, pos, broken>> /\ pos = 0
    BY <1>12 DEF BeginPage, GrowPage, MapSection, faultVars, TypeInv
  <2>. QED
    BY <1>1, <1>2, <1>4, <1>5, <2>1 DEF VerdictInv
<1>13. CASE MapPage
  <2>1. /\ pc = "grow" /\ UNCHANGED <<length, pos, broken>> /\ pos = 0
        /\ pageSize >= length
        /\ IF pageSize > MaxSize THEN pc' = "failed" ELSE pc' \in {"load", "aborted"}
    BY <1>13 DEF MapPage, faultVars, TypeInv
  <2>2. CASE pc' = "load"
    BY <1>1, <1>2, <1>4, <1>5, <2>1, <2>2 DEF VerdictInv
  <2>3. CASE pageSize > MaxSize
    <3>1. \E d \in Demands : d > MaxSize
      <4>1. /\ tool = "bsim" /\ Grown /\ Rounded
            /\ args = <<>> /\ Len(args) = 0 /\ OptionsTaken = Len(asked)
            /\ DOMAIN asked = 1 .. Len(asked) /\ \A i \in DOMAIN asked : asked[i] \in Nat
        <5>1. tool = "bsim" /\ (Grown \/ (pageSize = 0 /\ length > 0)) /\ args = <<>> /\ Rounded
          BY <2>1 DEF PageInv, SizeInv
        <5>2. pageSize \in Nat /\ length \in Nat
          BY LoadingAssumption DEF TypeInv
        <5>3. /\ DOMAIN asked = 1 .. Len(asked) /\ \A i \in DOMAIN asked : asked[i] \in Nat
              /\ Len(asked) \in Nat
          BY LenProperties, ElementOfSeq DEF TypeInv
        <5>4. Len(args) = 0
          BY <5>1
        <5>5. OptionsTaken = Len(asked)
          BY <5>3, <5>4 DEF OptionsTaken
        <5>. QED
          BY <2>1, <5>1, <5>2, <5>3, <5>4, <5>5
      <4>2. /\ MaxSize \in Nat /\ pageSize \in Nat /\ length \in Nat /\ DefaultSize <= MaxSize
            /\ DefaultSize \in Nat /\ AddrSpan \in Nat \ {0} /\ MemoryChecks(MaxSize)
        BY LoadingAssumption DEF TypeInv
      <4>3. 2 * MaxSize <= pageSize
        BY <2>3, <4>1, <4>2, PowersSpaced DEF Grown
      <4>4. \/ pageSize = DefaultSize \/ pageSize < 2 * length
            \/ \E i \in 1 .. Len(asked) : pageSize < 2 * Option(i)
        BY <4>1 DEF Grown, Rounded
      <4>5. CASE pageSize < 2 * length
        <5>1. length \in Demands
          BY DEF Demands
        <5>. QED
          BY <4>2, <4>3, <4>5, <5>1
      <4>6. CASE \E i \in 1 .. Len(asked) : pageSize < 2 * Option(i)
        <5>1. PICK i \in DOMAIN asked : pageSize < 2 * Option(i)
          BY <4>1, <4>6
        <5>2. Option(i) \in Demands /\ Option(i) \in Nat
          BY <4>1, <4>2 DEF Demands, Option
        <5>. QED
          BY <4>2, <4>3, <5>1, <5>2
      <4>. QED
        BY <2>3, <4>2, <4>4, <4>5, <4>6
    <3>2. tool = "bsim" /\ Demands \subseteq Nat /\ MaxSize \in Nat
      <4>1. /\ DefaultSize \in Nat /\ length \in Nat /\ MaxSize \in Nat
            /\ AddrSpan \in Nat \ {0} /\ tool = "bsim"
        BY <2>1, LoadingAssumption DEF TypeInv, PageInv
      <4>2. \A i \in DOMAIN asked : asked[i] \in Nat
        BY LenProperties, ElementOfSeq DEF TypeInv
      <4>. QED
        BY <4>1, <4>2 DEF Demands
    <3>3. ~Loadable
      <4>1. ~(\A d \in Demands : d <= MaxSize)
        BY <3>1, <3>2
      <4>. QED
        BY <3>2, <4>1 DEF Loadable
    <3>4. pc' = "failed" /\ ~Loadable'
      BY <1>2, <2>1, <2>3, <3>3
    <3>. QED
      BY <1>1, <2>1, <3>4 DEF VerdictInv
  <2>4. pc' # "aborted"
    BY DEF PageInv
  <2>. QED
    BY <2>1, <2>2, <2>3, <2>4
<1>14. CASE OpenFails
  <2>1. file = NoFile /\ pc = "load"
    BY <1>14 DEF OpenFails
  <2>. QED
    BY <1>5, <2>1
<1>15. CASE NothingToLoad
  <2>1. /\ pc = "load" /\ format # "binary" /\ length = 0 /\ pc' = "failed"
        /\ UNCHANGED <<length, broken>>
    BY <1>15 DEF NothingToLoad, faultVars
  <2>2. Statements = {}
    BY <1>5, <2>1, StatementsCounted, FS_EmptySet
  <2>3. ~Loadable'
    BY <1>2, <2>1, <2>2 DEF Loadable, WellFormed
  <2>. QED
    BY <1>1, <2>1, <2>3 DEF VerdictInv
<1>16. CASE LoadEnd
  <2>1. /\ pc = "load" /\ format # "binary" /\ length # 0 /\ pc' = "ready"
        /\ UNCHANGED <<length, broken>>
    BY <1>16 DEF LoadEnd, faultVars
  <2>. QED
    BY <1>1, <1>2, <1>5, <2>1 DEF VerdictInv
<1>17. CASE LoadCell \/ BinaryEnd
  <2>1. /\ pc = "load" /\ format = "binary" /\ pc' \in {"load", "ready"}
        /\ UNCHANGED <<length, broken>>
    BY <1>17 DEF LoadCell, BinaryEnd, faultVars
  <2>. QED
    BY <1>1, <1>5, <2>1 DEF VerdictInv
<1>18. CASE ReadFails
  <2>1. /\ pc \in {"stat", "load"} /\ pc' = IF format = "binary" THEN "ready" ELSE "failed"
        /\ format = "binary" => pc = "load"
        /\ broken' /\ length' = length
    BY <1>18 DEF ReadFails
  <2>2. format # "binary" => Unread'
    BY <1>1, <2>1 DEF Unread
  <2>. QED
    BY <1>1, <1>5, <2>1, <2>2 DEF VerdictInv
<1>19. CASE Terminated \/ UNCHANGED vars
  <2>1. UNCHANGED <<pc, length, pos, maxAddr, broken>>
    BY <1>19 DEF Terminated, vars, faultVars
  <2>2. (Loadable' <=> Loadable) /\ (Unread' <=> Unread)
    BY <1>1, <1>2, <2>1 DEF Unread
  <2>. QED
    BY <1>1, <1>2, <1>3, <2>1, <2>2 DEF VerdictInv
<1>20. ~Rewrite
  BY DEF Rewrite
<1>. QED
  BY <1>6, <1>7, <1>8, <1>9, <1>10, <1>11, <1>12, <1>13, <1>14, <1>15, <1>16, <1>17, <1>18,
     <1>19, <1>20 DEF Next, Main

(* The theorem of the verdict: for every file, format and command line, a    *)
(* tool comes to have the image exactly when the file is well-formed and     *)
(* fits.  The two passes agree as long as nobody writes the file between     *)
(* them, and the assertions of memory_checks() never fire (loader.c 68-216,  *)
(* bsim.c 252-279).                                                          *)
THEOREM VerdictIsRight == Spec => []VerdictRight
<1>1. Init => VerdictInv
  BY VerdictInit
<1>2. SafeInv /\ SafeInv' /\ VerdictInv /\ [Next]_vars => VerdictInv'
  BY VerdictStep
<1>3. SafeInv /\ LeastPage /\ VerdictInv => VerdictRight
  <2>. SUFFICES ASSUME SafeInv, LeastPage, VerdictInv, Stopped, ~rewritten
       PROVE  pc = (IF Loadable /\ ~Unread THEN "ready" ELSE "failed")
    BY DEF VerdictRight
  <2>1. pc \in {"ready", "failed"}
    BY DEF Stopped, SafeInv, PageInv
  <2>2. CASE pc = "failed"
    BY <2>2 DEF VerdictInv
  <2>3. CASE pc = "ready"
    <3>1. /\ file # NoFile
          /\ format # "binary" =>
                 /\ GoodUpTo(Len(file)) /\ length = Cardinality(Statements)
                 /\ length # 0 /\ ~broken
      BY <2>3 DEF VerdictInv
    <3>2. DOMAIN file = 1 .. Len(file)
      BY <3>1, StatementsCounted DEF SafeInv
    <3>3. format # "binary" => Statements # {}
      BY <3>1, FS_EmptySet
    <3>4. WellFormed
      <4>1. Statements \subseteq DOMAIN file
        BY DEF Statements
      <4>2. ASSUME format # "binary", NEW i \in DOMAIN file
            PROVE  /\ i \in Statements \/ IsIgnored(file[i])
                   /\ Addressed(format) /\ i \in Statements =>
                          file[i].addr = Cardinality({j \in Statements : j < i})
        BY <3>1, <3>2, <4>2 DEF GoodUpTo, StatementsBefore
      <4>. QED
        BY <3>3, <4>1, <4>2 DEF WellFormed
    <3>5. ASSUME tool = "bsim", NEW d \in Demands PROVE d <= MaxSize
      <4>1. d <= pageSize /\ pageSize <= MaxSize
        BY <2>3, <3>5 DEF LeastPage
      <4>2. d \in Nat /\ pageSize \in Nat /\ MaxSize \in Nat
        <5>1. /\ DefaultSize \in Nat /\ length \in Nat /\ MaxSize \in Nat
              /\ AddrSpan \in Nat \ {0} /\ pageSize \in Nat
          BY LoadingAssumption DEF SafeInv, TypeInv
        <5>2. \A i \in DOMAIN asked : asked[i] \in Nat
          BY LenProperties, ElementOfSeq DEF SafeInv, TypeInv
        <5>. QED
          BY <3>5, <5>1, <5>2 DEF Demands
      <4>. QED
        BY <4>1, <4>2
    <3>. QED
      BY <2>3, <3>1, <3>4, <3>5 DEF Loadable, Unread
  <2>. QED
    BY <2>1, <2>2, <2>3
<1>. QED
  BY <1>1, <1>2, <1>3, Safe, PageIsLeast, PTL DEF Spec
-----------------------------------------------------------------------------
(* There and back.                                                           *)

LEMMA TripInit == Init => TripInv
<1>. SUFFICES ASSUME Init, origin # ByHand PROVE TripInv
  BY DEF TripInv
<1>1. origin \in ByBas /\ file = Seen(Written(origin.words, origin.format))
  BY DEF Init
<1>2. pc = "options"
  BY DEF Init
<1>. QED
  BY <1>1, <1>2 DEF TripInv

(* A section's file, in the format it is read in.                            *)
LEMMA TripFile ==
    ASSUME TypeInv, origin \in ByBas, SameFormat,
           file = Seen(Written(origin.words, origin.format))
    PROVE  /\ file # NoFile /\ Len(file) = Len(origin.words) /\ Len(file) \in Nat
           /\ pos < Len(file) =>
                  /\ pos \in Nat /\ pos + 1 \in 1 .. Len(file)
                  /\ origin.words[pos + 1] \in Word
                  /\ format = "binary" => Line.word = origin.words[pos + 1]
                  /\ format # "binary" =>
                         /\ ~Skipped
                         /\ WordOf(Line.bits, Ssem(format)) = origin.words[pos + 1]
<1>. DEFINE words == origin.words
<1>1. /\ words \in Sections /\ format \in WriterFormats /\ origin.format = format
      /\ format \in ReaderFormats /\ file = Written(words, format)
  <2>1. /\ words \in Sections /\ format \in WriterFormats /\ origin.format = format
        /\ format \in ReaderFormats
    BY DEF ByBas, SameFormat, TypeInv, WriterFormats
  <2>. QED
    BY <2>1, SeenWritten
<1>2. /\ words \in Seq(Word) /\ Len(words) \in Nat /\ file \in Seq(Item)
      /\ Len(file) = Len(words)
      /\ format = "binary" => \A i \in 1 .. Len(words) : file[i].word = words[i]
      /\ format # "binary" => \A i \in 1 .. Len(words) :
             /\ file[i].kind = IF Addressed(format) THEN "addressed" ELSE "bits"
             /\ file[i].bits = BitsOf(words[i], Ssem(format))
  BY <1>1, WrittenLines DEF ReaderFormats
<1>3. file # NoFile
  BY <1>2, SomeFile
<1>4. ASSUME pos < Len(file)
      PROVE  /\ pos \in Nat /\ pos + 1 \in 1 .. Len(words) /\ words[pos + 1] \in Word
  <2>1. pos \in Nat /\ pos + 1 \in 1 .. Len(words)
    BY <1>2, <1>4 DEF TypeInv
  <2>. QED
    BY <1>2, <2>1, ElementOfSeq
<1>5. ASSUME pos < Len(file), format # "binary"
      PROVE  ~Skipped /\ WordOf(Line.bits, Ssem(format)) = words[pos + 1]
  <2>1. Line.bits = BitsOf(words[pos + 1], Ssem(format)) /\ IsStatement(Line, format)
    BY <1>2, <1>4, <1>5 DEF Line, IsStatement
  <2>2. Ssem(format) \in BOOLEAN
    BY DEF Ssem
  <2>. QED
    BY <1>4, <1>5, <2>1, <2>2, BitsRoundTrip DEF Skipped
<1>. QED
  BY <1>2, <1>3, <1>4, <1>5 DEF Line

(* One cell more.                                                            *)
LEMMA CellLoaded ==
    ASSUME SafeInv, LoadedSoFar, pc = "load", tool = "bsim", pos < length,
           NEW w, w = origin.words[pos + 1],
           page' = WriteWord(page, pageSize, pos, w), pos' = pos + 1,
           UNCHANGED <<pageSize, origin>>
    PROVE  LoadedSoFar'
<1>1. /\ pageSize \in Nat /\ pos \in Nat /\ length \in Nat /\ MemoryChecks(pageSize)
      /\ page \in Page(pageSize) /\ length <= pageSize
  BY LoadingAssumption DEF SafeInv, TypeInv, PageInv, Grown
<1>2. pos \in 0 .. pageSize - 1
  BY <1>1
<1>3. page' = [page EXCEPT ![pos] = w]
  BY <1>1, <1>2, DirectIndex DEF WriteWord
<1>4. ASSUME NEW i \in 0 .. pageSize - 1
      PROVE  page'[i] = IF i < pos' THEN origin.words[i + 1] ELSE 0
  <2>1. page'[i] = IF i = pos THEN w ELSE page[i]
    BY <1>1, <1>3 DEF Page
  <2>2. i < pos' <=> (i < pos \/ i = pos)
    BY <1>1
  <2>3. ~(pos < pos)
    BY <1>1
  <2>. QED
    BY <2>1, <2>2, <2>3 DEF LoadedSoFar
<1>. QED
  BY <1>4 DEF LoadedSoFar

LEMMA TripStep ==
    ASSUME SafeInv, SafeInv', TripInv, [Next]_vars PROVE TripInv'
<1>. SUFFICES ASSUME ~rewritten', origin # ByHand PROVE TripInv'
  <2>1. origin' = origin
    BY DEF Next, Main, Rewrite, TakeRequest, Round, EndOfOptions, StatFails, BinaryStat,
       StatLine, StatEnd, BadLine, BeginPage, GrowPage, MapPage, MapSection, OpenFails,
       NothingToLoad, LoadLine, LoadEnd, LoadCell, BinaryEnd, ReadFails, Terminated, vars,
       fixedVars
  <2>. QED
    BY <2>1 DEF TripInv
<1>. USE DEF SafeInv
<1>1. ~rewritten /\ UNCHANGED <<file, format, tool, origin>>
  <2>1. ~Rewrite
    BY DEF Rewrite
  <2>2. rewritten' = rewritten /\ UNCHANGED <<file, format, tool, origin>>
    BY <2>1 DEF Next, Main, TakeRequest, Round, EndOfOptions, StatFails, BinaryStat, StatLine,
       StatEnd, BadLine, BeginPage, GrowPage, MapPage, MapSection, OpenFails, NothingToLoad,
       LoadLine, LoadEnd, LoadCell, BinaryEnd, ReadFails, Terminated, vars, fixedVars, faultVars
  <2>. QED
    BY <2>2
<1>2. origin \in ByBas /\ file = Seen(Written(origin.words, origin.format))
  BY <1>1 DEF TripInv
<1>. SUFFICES ASSUME SameFormat PROVE TripInv'
  <2>1. origin' \in ByBas /\ file' = Seen(Written(origin.words, origin.format))'
    BY <1>1, <1>2 DEF Seen
  <2>. QED
    BY <1>1, <2>1 DEF TripInv, SameFormat
<1>3. /\ pc \in {"size", "grow", "map", "load", "ready"} => length = Len(origin.words)
      /\ format # "binary" /\ pc \in {"stat", "load"} => maxAddr = pos
      /\ pc \in {"load", "ready"} => pos <= length /\ (tool = "bsim" => LoadedSoFar)
      /\ pc = "ready" => broken \/ pos = length
  BY <1>1 DEF TripInv
<1>4. /\ file # NoFile /\ Len(file) = Len(origin.words) /\ Len(file) \in Nat
      /\ pos < Len(file) =>
             /\ pos \in Nat /\ pos + 1 \in 1 .. Len(file)
             /\ format = "binary" => Line.word = origin.words[pos + 1]
             /\ format # "binary" =>
                    /\ ~Skipped
                    /\ WordOf(Line.bits, Ssem(format)) = origin.words[pos + 1]
  BY <1>2, TripFile
<1>5. SUFFICES /\ pc' \in {"size", "grow", "map", "load", "ready"} =>
                      length' = Len(origin.words)
               /\ format # "binary" /\ pc' \in {"stat", "load"} => maxAddr' = pos'
               /\ pc' \in {"load", "ready"} =>
                      pos' <= length' /\ (tool = "bsim" => LoadedSoFar')
               /\ pc' = "ready" => broken' \/ pos' = length'
  <2>1. origin' \in ByBas /\ file' = Seen(Written(origin.words, origin.format))'
    BY <1>1, <1>2 DEF Seen
  <2>. QED
    BY <1>1, <2>1 DEF TripInv
<1>6. pos \in Nat /\ length \in Nat /\ maxAddr \in 0 .. pos
  BY LoadingAssumption DEF TypeInv
<1>7. CASE TakeRequest \/ Round \/ EndOfOptions
  <2>1. /\ pc \in {"options", "round"} /\ pc' \in {"options", "round", "stat"}
        /\ UNCHANGED <<pos, maxAddr>> /\ pos = 0
    BY <1>7 DEF TakeRequest, Round, EndOfOptions, TypeInv
  <2>. QED
    BY <1>6, <2>1
<1>8. CASE StatFails \/ BadLine \/ OpenFails \/ NothingToLoad
  <2>1. pc' = "failed"
    BY <1>8 DEF StatFails, BadLine, OpenFails, NothingToLoad
  <2>. QED
    BY <2>1
<1>9. CASE BinaryStat
  <2>1. format = "binary" /\ length' = Len(file) /\ pc' \in {"size", "map"}
    BY <1>9 DEF BinaryStat, AfterStat
  <2>. QED
    BY <1>4, <2>1
<1>10. CASE StatLine \/ LoadLine
  <2>1. /\ pc' = pc /\ pc \in {"stat", "load"} /\ format # "binary" /\ pos < Len(file)
        /\ Accepted \/ Skipped
        /\ maxAddr' = IF Accepted THEN maxAddr + 1 ELSE maxAddr
        /\ pos' = pos + 1 /\ UNCHANGED <<length, pageSize>>
        /\ pc = "load" => page' = IF Accepted
              THEN WriteWord(page, pageSize, maxAddr, WordOf(Line.bits, Ssem(format)))
              ELSE page
    BY <1>10 DEF StatLine, LoadLine, ReadLine, sizeVars
  <2>2. Accepted /\ maxAddr = pos
    BY <1>3, <1>4, <2>1
  <2>3. pc = "load" => pos < length /\ pos' <= length'
    BY <1>3, <1>4, <1>6, <2>1
  <2>4. pc = "load" /\ tool = "bsim" => LoadedSoFar'
    BY <1>1, <1>3, <1>4, <2>1, <2>2, <2>3, CellLoaded
  <2>. QED
    BY <1>3, <2>1, <2>2, <2>3, <2>4
<1>11. CASE StatEnd
  <2>1. /\ pc = "stat" /\ format # "binary" /\ pos = Len(file) /\ length' = maxAddr
        /\ pc' \in {"size", "map"}
    BY <1>11 DEF StatEnd, AfterStat
  <2>. QED
    BY <1>3, <1>4, <2>1
<1>12. CASE BeginPage \/ GrowPage
  <2>1. pc \in {"size", "grow"} /\ pc' = "grow" /\ length' = length
    BY <1>12 DEF BeginPage, GrowPage
  <2>. QED
    BY <1>3, <2>1
<1>13. CASE MapPage \/ MapSection
  <2>1. /\ pc \in {"grow", "map"} /\ pos = 0 /\ UNCHANGED <<pos, maxAddr, length>>
        /\ \/ pc' = "load" /\ page' = Blank(pageSize')
           \/ pc' \in {"failed", "aborted"}
    BY <1>13 DEF MapPage, MapSection, TypeInv, sizeVars
  <2>2. CASE pc' = "load" /\ page' = Blank(pageSize')
    <3>1. LoadedSoFar'
      <4>1. \A i \in 0 .. pageSize' - 1 : page'[i] = 0 /\ ~(i < 0)
        BY <2>2 DEF Blank
      <4>. QED
        BY <2>1, <4>1 DEF LoadedSoFar
    <3>. QED
      BY <1>3, <1>6, <2>1, <2>2, <3>1
  <2>. QED
    BY <2>1, <2>2
<1>14. CASE LoadCell
  <2>1. /\ pc = "load" /\ pc' = "load" /\ format = "binary" /\ pos < length
        /\ pos < Len(file) /\ page' = WriteWord(page, pageSize, pos, Line.word)
        /\ pos' = pos + 1 /\ UNCHANGED <<length, pageSize>>
    BY <1>14 DEF LoadCell, sizeVars
  <2>2. tool = "bsim" => LoadedSoFar'
    BY <1>1, <1>3, <1>4, <2>1, CellLoaded
  <2>. QED
    BY <1>3, <1>6, <2>1, <2>2
<1>15. CASE \/ LoadEnd \/ BinaryEnd \/ ReadFails
  <2>1. /\ UNCHANGED <<page, pageSize, pos, length>>
        /\ pc' \in {"ready", "failed"}
        /\ pc' = "ready" => pc = "load" /\ (broken' \/ pos >= Len(file) \/ pos = length)
    BY <1>4, <1>15 DEF LoadEnd, BinaryEnd, ReadFails, sizeVars
  <2>2. LoadedSoFar => LoadedSoFar'
    BY <1>1, <2>1 DEF LoadedSoFar
  <2>3. pc' = "ready" => broken' \/ pos = length
    BY <1>3, <1>4, <1>6, <2>1
  <2>. QED
    BY <1>3, <2>1, <2>2, <2>3
<1>16. CASE Terminated \/ UNCHANGED vars
  <2>1. UNCHANGED <<pc, page, pageSize, pos, maxAddr, length, broken>>
    BY <1>16 DEF Terminated, vars, sizeVars, faultVars
  <2>2. LoadedSoFar => LoadedSoFar'
    BY <1>1, <2>1 DEF LoadedSoFar
  <2>. QED
    BY <1>3, <2>1, <2>2
<1>17. ~Rewrite
  BY DEF Rewrite
<1>. QED
  BY <1>7, <1>8, <1>9, <1>10, <1>11, <1>12, <1>13, <1>14, <1>15, <1>16, <1>17 DEF Next, Main
(* The theorem of the round trip: for every section, in each of the four     *)
(* formats and in every width, the page bsim loads holds the section's words *)
(* and zero behind them; a read error leaves a beginning of it (writer.c     *)
(* 48-88 against loader.c 85-192).                                           *)
THEOREM RoundTrips == Spec => []RoundTrip
<1>1. Init => TripInv
  BY TripInit
<1>2. SafeInv /\ SafeInv' /\ TripInv /\ [Next]_vars => TripInv'
  BY TripStep
<1>3. SafeInv /\ TripInv => RoundTrip
  <2>. SUFFICES ASSUME SafeInv, TripInv, tool = "bsim", pc = "ready", ~rewritten, SameFormat
       PROVE  /\ length = Len(origin.words)
              /\ \E n \in 0 .. length :
                    /\ broken \/ n = length
                    /\ Cells(pageSize) = [i \in 0 .. pageSize - 1 |->
                          IF i < n THEN origin.words[i + 1] ELSE 0]
    BY DEF RoundTrip
  <2>1. /\ length = Len(origin.words) /\ pos <= length /\ LoadedSoFar
        /\ broken \/ pos = length
    BY DEF TripInv, SameFormat
  <2>2. pos \in 0 .. length /\ pageSize \in Nat /\ MemoryChecks(pageSize)
    BY <2>1, LoadingAssumption DEF SafeInv, TypeInv, PageInv, Grown
  <2>3. ASSUME NEW i \in 0 .. pageSize - 1
        PROVE  ReadWord(page, pageSize, i) = IF i < pos THEN origin.words[i + 1] ELSE 0
    BY <2>1, <2>2, DirectIndex DEF ReadWord, LoadedSoFar
  <2>4. Cells(pageSize) = [i \in 0 .. pageSize - 1 |->
                              IF i < pos THEN origin.words[i + 1] ELSE 0]
    BY <2>3 DEF Cells
  <2>. QED
    BY <2>1, <2>2, <2>4
<1>. QED
  BY <1>1, <1>2, <1>3, Safe, PTL DEF Spec

(* The theorem of the formats: a text file that a writer wrote is taken for  *)
(* another format of text only where the two plain bit formats look alike    *)
(* (the expressions of loader.c 36-42 against writer.c 30-88).               *)
THEOREM FormatsAreTold == Spec => []FormatsTold
<1>1. Init => TripInv
  BY TripInit
<1>2. SafeInv /\ SafeInv' /\ TripInv /\ [Next]_vars => TripInv'
  BY TripStep
<1>3. SafeInv /\ VerdictRight /\ TripInv => FormatsTold
  <2>. SUFFICES ASSUME SafeInv, VerdictRight, TripInv,
                       pc = "ready", ~rewritten, origin # ByHand, origin.words # <<>>,
                       "binary" \notin {origin.format, format}
       PROVE  SameFormat \/ {origin.format, format} = {"bits", "bits.ssem"}
    BY DEF FormatsTold
  <2>. DEFINE from == origin.format
  <2>1. /\ origin \in ByBas /\ file = Written(origin.words, from)
        /\ origin.words \in Sections /\ from \in {"logisim", "bits", "bits.ssem", "bits.snp"}
    <3>1. /\ origin \in ByBas /\ file = Seen(Written(origin.words, from))
          /\ origin.words \in Sections /\ from \in WriterFormats
      BY DEF TripInv, ByBas
    <3>. QED
      BY <3>1, SeenWritten DEF WriterFormats, ReaderFormats
  <2>2. WellFormed /\ format \in ReaderFormats
    BY DEF VerdictRight, Stopped, Loadable, SafeInv, TypeInv
  <2>3. 1 \in 1 .. Len(origin.words) /\ 1 \in DOMAIN file
    <3>1. /\ origin.words \in Seq(Word) /\ Len(origin.words) \in Nat
          /\ DOMAIN file = 1 .. Len(file)
          /\ Len(file) = Len(origin.words) \/ Len(file) = Len(origin.words) + 1
      BY <2>1, WrittenLines DEF WriterFormats, ReaderFormats
    <3>2. Len(origin.words) # 0
      BY <3>1, EmptySeq
    <3>3. \A n \in Nat : n # 0 => 1 \in 1 .. n /\ 1 \in 1 .. n + 1
      OBVIOUS
    <3>4. 1 \in 1 .. Len(origin.words) /\ 1 \in 1 .. Len(origin.words) + 1
      BY <3>1, <3>2, <3>3
    <3>. QED
      BY <3>1, <3>4
  <2>4. file[1].kind = CASE from = "logisim" -> "hex"
                         [] from = "bits.snp" -> "addressed"
                         [] OTHER -> "bits"
    <3>1. from \in WriterFormats
      BY <2>1 DEF WriterFormats, ReaderFormats
    <3>2. CASE from = "logisim"
      <4>1. DOMAIN file = 1 .. Len(file)
        BY <2>1, <3>1, WrittenLines
      <4>. QED
        BY <2>1, <2>3, <3>1, <3>2, <4>1, WrittenLines
    <3>3. CASE from \in {"bits", "bits.ssem", "bits.snp"}
      BY <2>1, <2>3, <3>1, <3>3, WrittenLines DEF Addressed
    <3>. QED
      BY <2>1, <3>2, <3>3
  <2>5. IsStatement(file[1], format) \/ IsIgnored(file[1])
    BY <2>2, <2>3 DEF WellFormed, Statements
  <2>6. file[1].kind = IF Addressed(format) THEN "addressed" ELSE "bits"
    BY <2>1, <2>4, <2>5 DEF IsStatement, IsIgnored
  <2>7. Addressed(format) <=> from = "bits.snp"
    BY <2>1, <2>4, <2>6
  <2>8. from \in {"bits", "bits.ssem", "bits.snp"}
    BY <2>1, <2>4, <2>6
  <2>. QED
    BY <2>2, <2>7, <2>8 DEF SameFormat, ReaderFormats, Addressed
<1>. QED
  BY <1>1, <1>2, <1>3, Safe, VerdictIsRight, PTL DEF Spec
=============================================================================
