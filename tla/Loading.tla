------------------------------ MODULE Loading ------------------------------
(* How a tool comes to have an object file in memory: bsim.c from its -m     *)
(* options to the loop that is Simulator.tla, and the same stretch of        *)
(* bdump.c, with the loaders of libbaby/loader.c line by line.  Every loader *)
(* goes over the file twice, once to size it and once to load it; between    *)
(* the two the file may be written anew or removed, and any read may fail.   *)
(* bsim rounds the page up to a power of two, bdump takes the length of the  *)
(* file.                                                                     *)
EXTENDS Store, ObjectFile

CONSTANTS
    DefaultSize,    \* DEFAULT_MEMORY_SIZE  (32)
    MaxSize,        \* the largest page bsim accepts  (0x2000)
    AddrSpan,       \* values of an addr_t  (2^32)
    Requests,       \* sequences of -m arguments, as strtoul() returns them
    Sections,       \* the words of sections that bas may have written
    OtherFiles,     \* files of other origin
    AsWords(_),     \* the words fread() makes of the characters of a file
    AsLines(_),     \* the lines getline() makes of the words of one
    Tools           \* {"bsim", "bdump"} or one of them

Files == OtherFiles \cup {Written(s, f) : s \in Sections, f \in WriterFormats}

ASSUME LoadingAssumption ==
    /\ DefaultSize \in Nat \ {0} /\ MemoryChecks(DefaultSize)
    /\ MaxSize \in Nat /\ MemoryChecks(MaxSize)
    /\ AddrSpan \in Nat /\ MemoryChecks(AddrSpan)
    /\ DefaultSize <= MaxSize /\ MaxSize < AddrSpan
    /\ Requests \subseteq Seq(Nat)
    /\ Sections \subseteq Seq(Word) /\ OtherFiles \subseteq Seq(Item)
    /\ \A words \in Sections : Len(words) + 1 < AddrSpan
    /\ \A f \in OtherFiles : Len(f) < AddrSpan
    /\ \A f \in Files :
          /\ AsWords(f) \in Seq(Word) /\ Len(AsWords(f)) < AddrSpan
          /\ AsLines(f) \in Seq(TextItem) /\ Len(AsLines(f)) < AddrSpan
    /\ Tools \subseteq {"bsim", "bdump"}

NoFile == <<[kind |-> "missing"]>>

VARIABLES
    pc,             \* where main is
    tool, format,   \* the program, and its -I option
    file,           \* what is at exe.path, as the loader takes it in
    args,           \* the -m options still to be parsed
    requested,      \* requested_memory
    memorySize,     \* memory_size
    pageSize,       \* page0.size, mapped_section.size
    length,         \* segment.length
    page,           \* the allocated data
    pos,            \* lines or cells taken in this pass over the file
    maxAddr         \* max_addr of bits_read

(* Auxiliary variables.                                                      *)
VARIABLES
    origin,         \* the section and format the file was written from
    asked,          \* all the -m options of the command line
    rewritten,      \* the file changed between the two passes
    broken          \* a read has failed

sizeVars == <<args, requested, memorySize, pageSize>>
faultVars == <<rewritten, broken>>
fixedVars == <<tool, format, origin, asked>>
vars == <<pc, fixedVars, file, sizeVars, length, page, pos, maxAddr, faultVars>>

ByBas == {[words |-> s, format |-> f] : s \in Sections, f \in WriterFormats}
ByHand == [words |-> <<>>, format |-> "none"]

(* No loader asks what a file was written as.  The binary one makes words of *)
(* whatever characters there are, the others lines of whatever bytes.        *)
Seen(f) ==
    CASE f = NoFile -> f
      [] f # NoFile /\ format = "binary" ->
            IF \A i \in DOMAIN f : f[i].kind = "cell" THEN f ELSE BinaryFile(AsWords(f))
      [] f # NoFile /\ format # "binary" ->
            IF \A i \in DOMAIN f : f[i].kind # "cell" THEN f ELSE AsLines(f)

Init ==
    /\ tool \in Tools
    /\ format \in ReaderFormats
    /\ \/ /\ origin \in ByBas
          /\ file = Seen(Written(origin.words, origin.format))
       \/ /\ origin = ByHand
          /\ \E f \in OtherFiles \cup {NoFile} : file = Seen(f)
    /\ asked \in Requests /\ (tool = "bdump" => asked = <<>>)
    /\ pc = "options" /\ args = asked
    /\ requested = 0 /\ memorySize = DefaultSize
    /\ pageSize = 0 /\ length = 0 /\ page = <<>>
    /\ pos = 0 /\ maxAddr = 0
    /\ rewritten = FALSE /\ broken = FALSE

-----------------------------------------------------------------------------
(* case 'm': the rounding loop, one action per turn.                         *)

Doubled(n) == (2 * n) % AddrSpan

TakeRequest ==
    /\ pc = "options" /\ args # <<>>
    /\ requested' = Head(args) % AddrSpan
    /\ args' = Tail(args)
    /\ pc' = "round"
    /\ UNCHANGED <<fixedVars, file, memorySize, pageSize, length, page, pos,
                   maxAddr, faultVars>>

(* Mutant: one doubling too many when the size is met exactly.               *)
RoundTwice ==
    /\ pc = "round"
    /\ IF memorySize <= requested
         THEN memorySize' = Doubled(memorySize) /\ pc' = pc
         ELSE memorySize' = memorySize /\ pc' = "options"
    /\ UNCHANGED <<fixedVars, file, args, requested, pageSize, length, page,
                   pos, maxAddr, faultVars>>

Round ==
    /\ pc = "round"
    /\ IF memorySize < requested
         THEN memorySize' = Doubled(memorySize) /\ pc' = pc
         ELSE memorySize' = memorySize /\ pc' = "options"
    /\ UNCHANGED <<fixedVars, file, args, requested, pageSize, length, page,
                   pos, maxAddr, faultVars>>

EndOfOptions ==
    /\ pc = "options" /\ args = <<>>
    /\ pc' = "stat"
    /\ UNCHANGED <<fixedVars, file, sizeVars, length, page, pos, maxAddr, faultVars>>

-----------------------------------------------------------------------------
(* The first pass.                                                           *)

AfterStat == IF tool = "bsim" THEN "size" ELSE "map"

StatFails ==
    /\ pc = "stat" /\ file = NoFile
    /\ pc' = "failed"
    /\ UNCHANGED <<fixedVars, file, sizeVars, length, page, pos, maxAddr, faultVars>>

BinaryStat ==
    /\ pc = "stat" /\ format = "binary" /\ file # NoFile
    /\ length' = Len(file)
    /\ pc' = AfterStat
    /\ UNCHANGED <<fixedVars, file, sizeVars, page, pos, maxAddr, faultVars>>

(* One turn of bits_read(), in either pass.  The line is a statement at the  *)
(* next address, or may be ignored, or is a format error.                    *)
Line == file[pos + 1]
Accepted == IsStatement(Line, format) /\ Sequential(Line, format, maxAddr)
Skipped == ~IsStatement(Line, format) /\ IsIgnored(Line)

ReadLine(pass) ==
    /\ pc = pass /\ format # "binary" /\ file # NoFile /\ pos < Len(file)
    /\ Accepted \/ Skipped
    /\ maxAddr' = IF Accepted THEN maxAddr + 1 ELSE maxAddr
    /\ pos' = pos + 1

BadLine ==
    /\ pc = "stat" \/ (pc = "load" /\ length # 0)
    /\ format # "binary" /\ file # NoFile /\ pos < Len(file)
    /\ ~Accepted /\ ~Skipped
    /\ pc' = "failed"
    /\ UNCHANGED <<fixedVars, file, sizeVars, length, page, pos, maxAddr, faultVars>>

StatLine ==
    /\ ReadLine("stat")
    /\ UNCHANGED <<pc, fixedVars, file, sizeVars, length, page, faultVars>>

StatEnd ==
    /\ pc = "stat" /\ format # "binary" /\ file # NoFile /\ pos = Len(file)
    /\ length' = maxAddr
    /\ maxAddr' = 0 /\ pos' = 0
    /\ pc' = AfterStat
    /\ UNCHANGED <<fixedVars, file, sizeVars, page, faultVars>>

-----------------------------------------------------------------------------
(* Sizing the page.                                                          *)

(* Mutant: the loop starts from an unset size.                               *)
BeginPageFromZero ==
    /\ pc = "size"
    /\ pageSize' = 0
    /\ pc' = "grow"
    /\ UNCHANGED <<fixedVars, file, args, requested, memorySize, length, page,
                   pos, maxAddr, faultVars>>

BeginPage ==
    /\ pc = "size"
    /\ pageSize' = memorySize
    /\ pc' = "grow"
    /\ UNCHANGED <<fixedVars, file, args, requested, memorySize, length, page,
                   pos, maxAddr, faultVars>>

GrowPage ==
    /\ pc = "grow" /\ pageSize < length
    /\ pageSize' = Doubled(pageSize)
    /\ UNCHANGED <<pc, fixedVars, file, args, requested, memorySize, length,
                   page, pos, maxAddr, faultVars>>

(* Mutant: one cell too many.                                                *)
BlankAndOne(size) == [i \in 0 .. size |-> 0]

Blank(size) == [i \in 0 .. size - 1 |-> 0]

(* The size check, calloc() and memory_checks(), which aborts.               *)
MapPage ==
    /\ pc = "grow" /\ pageSize >= length
    /\ IF pageSize > MaxSize
         THEN pc' = "failed" /\ page' = page
         ELSE /\ pc' = IF MemoryChecks(pageSize) THEN "load" ELSE "aborted"
              /\ page' = Blank(pageSize)
    /\ UNCHANGED <<fixedVars, file, sizeVars, length, pos, maxAddr, faultVars>>

(* bdump takes the length as it is and calls no memory_checks().             *)
MapSection ==
    /\ pc = "map"
    /\ pageSize' = length
    /\ page' = Blank(length)
    /\ pc' = "load"
    /\ UNCHANGED <<fixedVars, file, args, requested, memorySize, length, pos,
                   maxAddr, faultVars>>

-----------------------------------------------------------------------------
(* The second pass.                                                          *)

(* Somebody assembles again, before the second pass has begun, or removes    *)
(* the file, which the loaders of bits then have open already.               *)
Rewrite ==
    /\ pc \in {"size", "map", "grow"} /\ ~rewritten
    /\ \/ \E f \in OtherFiles : file' = Seen(f)
       \/ format = "binary" /\ file' = NoFile
    /\ rewritten' = TRUE
    /\ UNCHANGED <<pc, fixedVars, sizeVars, length, page, pos, maxAddr, broken>>

OpenFails ==
    /\ pc = "load" /\ format = "binary" /\ file = NoFile
    /\ pc' = "failed"
    /\ UNCHANGED <<fixedVars, file, sizeVars, length, page, pos, maxAddr, faultVars>>

(* A read error.  For bits_read() it is an error; binary_load() leaves its   *)
(* loop, forgets the error and returns success.                              *)
ReadFails ==
    /\ file # NoFile
    /\ \/ pc = "stat" /\ format # "binary"
       \/ pc = "load" /\ format # "binary" /\ length # 0
       \/ pc = "load" /\ format = "binary" /\ pos < length
    /\ pc' = IF format = "binary" THEN "ready" ELSE "failed"
    /\ broken' = TRUE
    /\ UNCHANGED <<fixedVars, file, sizeVars, length, page, pos, maxAddr, rewritten>>

(* "must stat object file before loading"                                    *)
NothingToLoad ==
    /\ pc = "load" /\ format # "binary" /\ length = 0
    /\ pc' = "failed"
    /\ UNCHANGED <<fixedVars, file, sizeVars, length, page, pos, maxAddr, faultVars>>

LoadLine ==
    /\ length # 0
    /\ ReadLine("load")
    /\ page' = IF Accepted
                 THEN WriteWord(page, pageSize, maxAddr,
                                WordOf(Line.bits, Ssem(format)))
                 ELSE page
    /\ UNCHANGED <<pc, fixedVars, file, sizeVars, length, faultVars>>

LoadEnd ==
    /\ pc = "load" /\ format # "binary" /\ length # 0 /\ pos = Len(file)
    /\ pc' = "ready"
    /\ UNCHANGED <<fixedVars, file, sizeVars, length, page, pos, maxAddr, faultVars>>

LoadCell ==
    /\ pc = "load" /\ format = "binary" /\ file # NoFile
    /\ pos < length /\ pos < Len(file)
    /\ page' = WriteWord(page, pageSize, pos, Line.word)
    /\ pos' = pos + 1
    /\ UNCHANGED <<pc, fixedVars, file, sizeVars, length, maxAddr, faultVars>>

(* A short read ends the loop like the last word does.                       *)
BinaryEnd ==
    /\ pc = "load" /\ format = "binary" /\ file # NoFile
    /\ pos = length \/ pos >= Len(file)
    /\ pc' = "ready"
    /\ UNCHANGED <<fixedVars, file, sizeVars, length, page, pos, maxAddr, faultVars>>

Terminated == pc \in {"ready", "failed", "aborted"} /\ UNCHANGED vars

Main ==
    \/ TakeRequest \/ Round \/ EndOfOptions
    \/ StatFails \/ BinaryStat \/ StatLine \/ StatEnd \/ BadLine
    \/ BeginPage \/ GrowPage \/ MapPage \/ MapSection
    \/ OpenFails \/ NothingToLoad \/ LoadLine \/ LoadEnd
    \/ LoadCell \/ BinaryEnd \/ ReadFails

Next == Main \/ Rewrite \/ Terminated

(* Only main itself is owed a turn.                                          *)
Spec == Init /\ [][Next]_vars /\ WF_vars(Main)

-----------------------------------------------------------------------------
(* Properties.                                                               *)

Stopped == pc \in {"ready", "failed", "aborted"}

(* The type invariant; the page, once there is one, has the size recorded    *)
(* for it and holds words.                                                   *)
TypeOK ==
    /\ pc \in {"options", "round", "stat", "size", "grow", "map", "load",
               "ready", "failed", "aborted"}
    /\ tool \in Tools /\ format \in ReaderFormats
    /\ requested \in 0 .. AddrSpan - 1
    /\ memorySize \in 0 .. AddrSpan - 1
    /\ pageSize \in 0 .. AddrSpan - 1
    /\ length \in Nat /\ pos \in Nat /\ maxAddr \in Nat
    /\ page = <<>> \/ page \in Page(pageSize)
    /\ rewritten \in BOOLEAN /\ broken \in BOOLEAN

(* What the store must hold: the default, each -m option as far as an addr_t *)
(* holds it, the image.                                                      *)
Demands == {DefaultSize, length} \cup {asked[i] % AddrSpan : i \in DOMAIN asked}

(* "Round up to power of two, default being the minimum": the page bsim maps *)
(* satisfies every demand, is a power of two as memory_checks() asserts, is  *)
(* within the limit, and is no larger than the largest demand calls for.     *)
LeastPage ==
    tool = "bsim" /\ pc \in {"load", "ready"} =>
        /\ OddPart[pageSize] = 1
        /\ \A d \in Demands : d <= pageSize
        /\ pageSize <= MaxSize
        /\ pageSize = DefaultSize \/ \E d \in Demands : pageSize < 2 * d

(* A file a format's loader should take: every line a statement or ignored,  *)
(* the statements numbered from zero, and at least one of them.              *)
Statements == {i \in DOMAIN file : IsStatement(file[i], format)}

WellFormed ==
    format # "binary" =>
        /\ Statements # {}
        /\ \A i \in DOMAIN file \ Statements : IsIgnored(file[i])
        /\ Addressed(format) => \A i \in Statements :
               file[i].addr = Cardinality({j \in Statements : j < i})

Loadable ==
    /\ file # NoFile
    /\ WellFormed
    /\ tool = "bsim" => \A d \in Demands : d <= MaxSize

(* A tool ends up with an image exactly when the file is loadable and fits:  *)
(* the two passes agree about the file, no bad line slips through, no good   *)
(* file is refused, and the assertions of memory_checks() never fire.  A     *)
(* read error is a reason to refuse, except in the binary format.            *)
Unread == broken /\ format # "binary"

VerdictRight ==
    Stopped /\ ~rewritten =>
        pc = (IF Loadable /\ ~Unread THEN "ready" ELSE "failed")

(* What bas writes in a format, bsim loads in that format: cell by cell the  *)
(* section, and zero in the cells beyond it.  What a read error leaves is    *)
(* the beginning of the section, and zero in the cells after that.           *)
Cells(n) == [i \in 0 .. n - 1 |-> ReadWord(page, pageSize, i)]

SameFormat == origin # ByHand /\ origin.format = format

RoundTrip ==
    tool = "bsim" /\ pc = "ready" /\ ~rewritten /\ SameFormat =>
        /\ length = Len(origin.words)
        /\ \E n \in 0 .. length :
              /\ broken \/ n = length
              /\ Cells(pageSize) = [i \in 0 .. pageSize - 1 |->
                    IF i < n THEN origin.words[i + 1] ELSE 0]

(* A text file written in one format is not taken for another by the loaders *)
(* of text, save that the two plain bit formats look alike, and that all     *)
(* empty files do.  The binary loader has no say in this: it takes any file  *)
(* there is (VerdictRight), and its words may be anything to the others.     *)
FormatsTold ==
    /\ pc = "ready" /\ ~rewritten
    /\ origin # ByHand /\ origin.words # <<>>
    /\ "binary" \notin {origin.format, format}
    => SameFormat \/ {origin.format, format} = {"bits", "bits.ssem"}

(* The second pass believes the first about the size of the page, not about  *)
(* the file: when the file has grown in between, the words that no longer    *)
(* fit alias cells of the page and never land outside it.                    *)
Confined ==
    pc = "load" /\ pageSize > 0 /\ pos < Len(file) =>
        WriteIndex(pageSize, IF format = "binary" THEN pos ELSE maxAddr)
            \in DOMAIN page

(* "Round up to power of two": the loop comes to its end if there is a power *)
(* of two to be had in the width of memory_size.  For a request above half   *)
(* of all addresses there is none, memory_size overflows to zero, and bsim   *)
(* never gets past its options.  The loop that grows the page does the same  *)
(* for a file with more words than half of all addresses, before bsim has    *)
(* compared the size with its limit.  Otherwise a tool gets past loading.    *)
Coverable == \A i \in DOMAIN asked : 2 * (asked[i] % AddrSpan) <= AddrSpan

TooLong == pc = "grow" /\ 2 * length > AddrSpan

LoadingEnds ==
    /\ Coverable => <>(Stopped \/ TooLong)
    /\ ~Coverable => []~Stopped
    /\ [](TooLong => []~Stopped)
=============================================================================
