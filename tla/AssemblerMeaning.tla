-------------------------- MODULE AssemblerMeaning --------------------------
(* What the assembler is to produce: what the source means, as SourceMeaning *)
(* says it.                                                                  *)
EXTENDS Assembler, SourceMeaning

(* What bas accepts it assembles as the source means: every instruction in   *)
(* its cell with its operand resolved where it stands, every other cell      *)
(* zero, and no cell more.  What it refuses is erroneous or overlapping.     *)
Items == Expansion(FlattenSeq(program))
SectionImage == [a \in 0 .. section.length - 1 |-> section.data[a].value]

MeaningKept ==
    /\ pc = "done" /\ ~Overlapping(Items) =>
           ~Erroneous(Items) /\ SectionImage = Image(Items)
    /\ pc = "failed" => Erroneous(Items) \/ Overlapping(Items)

(* butils.h: after an error that has been reported "an exception path should *)
(* be followed" to the exit.  bas does not report that a cell is taken and   *)
(* then write an object file that lacks the word.                            *)
ErrorsFail == pc = "done" => ~complained
=============================================================================
