---------------------------- MODULE MCAssembler ----------------------------
(* Sources for the assembler and its listing: every list of up to four       *)
(* statements from a small language, one on each line; every list of up to   *)
(* three from a smaller one at all distances from each other; and a few that *)
(* use macros.  Words have six bits, the index of lines has two entries.     *)
EXTENDS AssemblerMeaning, Listing, Symbols

(* A statement and how many lines it begins below the one before it.         *)
Nowhere == [line |-> 0, col |-> 0]
Below(gap, s) == [s EXCEPT !.pos = [line |-> gap, col |-> 0]]
NextLine == [line |-> 1, col |-> 0]

Label(name) == [t |-> "label", name |-> name, pos |-> NextLine, next |-> Nowhere]
Org(n) == [t |-> "org", n |-> n, pos |-> NextLine, next |-> Nowhere]
Ins(m, args) ==
    [t |-> "instr", id |-> 0, m |-> m, args |-> args, pos |-> NextLine, next |-> Nowhere]
Macro(name, formals, body) ==
    [t |-> "macro", name |-> name, formals |-> formals, body |-> body,
     pos |-> NextLine, next |-> Nowhere]

(* The lines a statement takes beyond its first: a macro has those of its    *)
(* body and one for ENDM.                                                    *)
RECURSIVE Extent(_)
Extent(list) ==
    FoldLeft(LAMBDA sum, s : sum + s.pos.line
                             + (IF s.t = "macro" THEN 1 + Extent(s.body) ELSE 0),
             0, list)

(* Statements on one line are in columns; the end of a line is in the last.  *)
StartOf(list, i, line) ==
    [line |-> line + Extent(SubSeq(list, 1, i - 1)) + list[i].pos.line,
     col |-> Cardinality({j \in 1 .. i : Extent(SubSeq(list, j + 1, i)) = 0
                                         /\ list[i].t # "macro"})]

(* Every statement with its place and that of what follows it, and every    *)
(* instruction with an identity.                                             *)
RECURSIVE LaidOut(_, _, _, _)
LaidOut(list, base, line, end) ==
    [i \in DOMAIN list |->
        LET start == StartOf(list, i, line)
            last == line + Extent(SubSeq(list, 1, i))
            next == IF i < Len(list) THEN StartOf(list, i + 1, line)
                    ELSE IF end = "ENDM" THEN [line |-> last + 1, col |-> 1]
                    ELSE [line |-> last, col |-> 9]
            s == [list[i] EXCEPT !.pos = start, !.next = next]
        IN  CASE s.t = "instr" -> [s EXCEPT !.id = base + i]
              [] s.t = "macro" -> [s EXCEPT !.body =
                                      LaidOut(@, base + 10 * i, start.line, "ENDM")]
              [] OTHER -> s]

Small == {
    Label("a"), Label("b"), Org(0), Org(3),
    Ins("NUM", <<Plus(Sym("a"), Minus(Num(2), Sym("b")))>>),
    Ins("EJA", <<Sym("a")>>),
    Ins("JMP", <<Minus(Sym("$"), Num(1))>>),
    Ins("LDN", <<Sym("b")>>),
    Ins("STP", <<>>)
  }

EndsInInstr(list) == Last(list).t = "instr"

ShortSources == {s \in SeqOf(Small, 4) \ {<<>>} : EndsInInstr(s)}

(* Operands that are none: too many, or of an unknown mnemonic.              *)
FaultySources == {
    << Ins("NUM", <<Num(1), Num(2)>>) >>,
    << Ins("STP", <<>>), Ins("BAD", <<Num(1)>>) >>,
    << Macro("load", <<"x">>, << Ins("LDN", <<Sym("x")>>) >>), Ins("load", <<>>) >>
  }

(* A macro with a label of its own, one that passes its argument on, and one *)
(* whose body uses only what is outside; each applied once.                  *)
Loop == Macro("loop", <<"x", "y">>,
    << Label("again"), Ins("SUB", <<Plus(Sym("x"), Num(1))>>),
       Ins("SKN", <<>>), Ins("EJA", <<Sym("again")>>), Ins("NUM", <<Sym("y")>>) >>)
Through == Macro("through", <<"z">>, << Ins("loop", <<Sym("b"), Sym("z")>>) >>)
Negate == Macro("negate", <<>>,
    << Ins("STO", <<Sym("tmp")>>), Ins("LDN", <<Sym("tmp")>>) >>)

MacroSources == {
    << Loop, Label("a"), Ins("loop", <<Sym("b"), Sym("a")>>),
       Label("b"), Ins("STP", <<>>) >>,
    << Loop, Through, Org(2), Ins("through", <<Minus(Sym("b"), Num(1))>>),
       Label("b"), Ins("NUM", <<Sym("b")>>) >>,
    << Negate, Ins("negate", <<>>), Label("again"), Ins("negate", <<>>),
       Label("tmp"), Ins("JMP", <<Sym("again")>>) >>,
    << Loop, Negate, Org(5), Ins("loop", <<Num(7), Sym("tmp")>>),
       Ins("negate", <<>>), Label("tmp"), Ins("NUM", <<Num(0)>>) >>
  }

(* A macro that is applied before it is defined, and one that is defined     *)
(* twice: each time it is applied as it was defined before.                  *)
Once == Macro("it", <<>>, << Ins("STP", <<>>) >>)
Again == Macro("it", <<>>, << Ins("SKN", <<>>) >>)
OrderedSources == {
    << Ins("it", <<>>), Once >>,
    << Once, Ins("it", <<>>), Again, Label("a"), Ins("it", <<>>), Ins("JMP", <<Sym("a")>>) >>
  }

(* A macro applied in its own body, one that two others come down to, and    *)
(* one that is defined in the body of another.                               *)
DeepSources == {
    << Macro("ever", <<>>, << Ins("STP", <<>>), Ins("ever", <<>>) >>),
       Ins("ever", <<>>) >>,
    << Macro("one", <<>>, << Ins("STP", <<>>) >>),
       Macro("two", <<>>, << Ins("one", <<>>) >>),
       Macro("three", <<>>, << Ins("two", <<>>), Label("b") >>),
       Label("a"), Ins("three", <<>>), Ins("JMP", <<Sym("a")>>) >>,
    << Macro("outer", <<>>,
             << Macro("inner", <<>>, << Ins("STP", <<>>) >>), Ins("inner", <<>>) >>),
       Ins("outer", <<>>) >>
  }

(* Words up to the last addresses, where the capacity of the array would     *)
(* overflow; one after the other, or after words at the first addresses.     *)
Stops(n) == [i \in 1 .. n |-> Ins("STP", <<>>)]
HighSources ==
    {Stops(below) \o <<Org(n)>> \o Stops(above) :
        below \in {0, 1, 3}, n \in 59 .. 63, above \in 1 .. 3}

(* Sources for the listing.                                                  *)
Kinds == {Label("a"), Org(1), Ins("NUM", <<Num(1)>>), Ins("JMP", <<Sym("a")>>)}
Gaps == {0, 1, 2, 3, 5}

SpacedSources ==
    {list \in SeqOf({Below(gap, s) : gap \in Gaps, s \in Kinds}, 3) \ {<<>>} :
        /\ Last(list).t = "instr"
        /\ \A i \in 2 .. Len(list) : list[i - 1].t = "instr" => list[i].pos.line > 0}

(* Four statements, the last noted from one to three lines below the second  *)
(* and the third; and a macro that is long, between statements that are not. *)
SpacedMore ==
    { << Below(0, Ins("STP", <<>>)), Below(f, s), Below(g, Ins("STP", <<>>)),
         Below(h, Ins("STP", <<>>)), Below(1, Ins("STP", <<>>)) >> :
        f \in {1, 2}, s \in {Label("a"), Ins("STP", <<>>)}, g, h \in {1, 2, 3} }

Long == Macro("long", <<>>, [i \in 1 .. 4 |-> Ins("STP", <<>>)])
SpacedLong ==
    { << Below(0, Ins("STP", <<>>)), Long, Ins("STP", <<>>), Ins("STP", <<>>) >>,
      << Below(0, Ins("STP", <<>>)), Long, Ins("STP", <<>>), Ins("long", <<>>) >>,
      << Below(0, Long), Ins("STP", <<>>), Ins("STP", <<>>) >> }

Pair == Macro("pair", <<"x">>,
    << Below(1, Ins("LDN", <<Sym("x")>>)), Below(2, Ins("STP", <<>>)) >>)
Use(gap) == Below(gap, Ins("pair", <<Num(5)>>))

SpacedMacros ==
    { << Below(g, Pair), Below(1, Label("a")), Use(h), Below(1, Ins("NUM", <<Num(1)>>)) >> :
        g, h \in {0, 1, 2} }
      \cup { << Below(g, Ins("NUM", <<Num(1)>>)), Below(1, Pair), Use(1), Use(h) >> :
        g, h \in {1, 2} }
      \cup { << Below(0, Ins("STP", <<>>)), Below(1, Pair), Below(g, Ins("STP", <<>>)),
               Below(h, Ins("NUM", <<Num(1)>>)), Use(1) >> : g, h \in {1, 2} }

Source(list) == <<LaidOut(list, 0, 1, "EOF")>>

MCPrograms ==
    {Source(list) : list \in ShortSources \cup FaultySources \cup MacroSources
                         \cup OrderedSources \cup DeepSources \cup HighSources
                         \cup SpacedSources \cup SpacedMacros \cup SpacedMore \cup SpacedLong}

(* One macro, applied to two cells.                                          *)
MCTwice == {Source(
    << Macro("load", <<"x">>, << Ins("LDN", <<Sym("x")>>) >>),
       Ins("load", <<Sym("a")>>), Ins("load", <<Sym("b")>>),
       Label("a"), Ins("NUM", <<Num(1)>>), Label("b"), Ins("NUM", <<Num(2)>>) >>)}
=============================================================================
