------------------------------ MODULE Listing ------------------------------
(* bas -a: how the place of each statement gets from the parser through the  *)
(* records to the listing, which shows beside every word the number of a     *)
(* source line and text that it reads again from the source.                 *)
(*                                                                           *)
(* For programs of one source file.  Each step of parse_stmts() is one of    *)
(* Assembler's together with what it does to the places.                     *)
EXTENDS Assembler, LineIndex

(* Here every statement also has, as fields, the place of its first token    *)
(* (pos) and of the token that follows it (next).  A place is a record       *)
(* [line, col]; it stands for the offset in the file as well.                *)

ASSUME PlacesAssumption ==
    \A p \in Programs :
        /\ Len(p) = 1
        /\ \A s \in StatementsOf(p[1]) : s.next.line \in Nat \ {0}

(* Statements follow one another down the source, the token after each being *)
(* the first of the next, and each instruction is a node of its own.         *)
ASSUME OrderAssumption ==
    \A p \in Programs :
        LET list == p[1]
        IN  /\ \A k \in DOMAIN list : list[k].pos.line \in Nat
            /\ \A k \in DOMAIN list : k > 1 =>
                   /\ list[k - 1].next = list[k].pos
                   /\ list[k - 1].pos.line <= list[k].pos.line
            /\ \A j, k \in DOMAIN list :
                   list[j].t = "instr" /\ list[k].t = "instr" /\ list[j].id = list[k].id
                       => j = k

VARIABLES
    seekable,       \* the source is not standard input
    index,          \* its index of lines
    lines,          \* the line of the pending record, by frame
    places,         \* the line of each record
    overrun,        \* an entry beyond the index was written
    listing         \* what has been printed, a line for each word

placeVars == <<index, lines, places, overrun>>
listVars == <<seekable, placeVars, listing>>
allVars == <<vars, listVars>>

ListingInit ==
    /\ Init
    /\ seekable \in BOOLEAN
    /\ index = EmptyIndex
    /\ lines = <<0>>
    /\ places = <<>>
    /\ overrun = FALSE
    /\ listing = <<>>

(* The place the parser saves with a statement: that of the last token it    *)
(* has read, and it has to read one past the statement to know its end.      *)
Place(s) == s.next

(* The line of "a", which the first statement of a list sets up anew.        *)
Line == IF Top.i = 1 THEN Place(Stmt).line ELSE Last(lines)

(* The head of the loop of parse_stmts().                                    *)
NoteLine ==
    index' = IF seekable THEN Noted(index, Line, Place(Stmt)) ELSE index

(* Mutant: the line stays with "a" when a record is pushed.                  *)
PushLineOnly ==
    LET pushed == Len(records') > Len(records)
        own == [lines EXCEPT ![Len(lines)] = Line]
    IN  /\ places' = IF pushed THEN Append(places, Line) ELSE places
        /\ lines' = IF Len(frames') > Len(frames) THEN Append(own, 0) ELSE own

(* A record is pushed with the line of "a", which is then that of the        *)
(* statement at hand; a frame for the body of a macro begins with any.       *)
PushLine ==
    LET pushed == Len(records') > Len(records)
        own == [lines EXCEPT ![Len(lines)] =
                   IF pushed THEN Place(Stmt).line ELSE Line]
    IN  /\ places' = IF pushed THEN Append(places, Line) ELSE places
        /\ lines' = IF Len(frames') > Len(frames) THEN Append(own, 0) ELSE own

Listed(Parse) ==
    /\ Parse
    /\ ~overrun /\ (seekable => InBounds(index, Line))
    /\ NoteLine
    /\ PushLine
    /\ UNCHANGED <<seekable, overrun, listing>>

(* Parsing with the index too small for the line; what follows is undefined. *)
Overrun ==
    /\ pc = "parse" /\ Top.i <= Len(Top.list)
    /\ ~overrun /\ seekable /\ ~InBounds(index, Line)
    /\ overrun' = TRUE
    /\ UNCHANGED <<vars, seekable, index, lines, places, listing>>

(* The end of a list goes back to the "a" of the list around it.             *)
ListEnds ==
    /\ EndOfList
    /\ lines' = Front(lines)
    /\ UNCHANGED <<seekable, index, places, overrun, listing>>

Quietly(Step) == Step /\ UNCHANGED listVars

(* One line of the listing: for a word that was assembled from a record, the *)
(* line of that record and the text from where seek_to_line() goes.          *)
Entry(a) ==
    LET debug == section.data[a].debug
        line == IF debug = NoDebug THEN 0 ELSE places[debug]
    IN  [line |-> line,
         text |-> IF seekable THEN Sought(index, line) ELSE NoEntry]

ListWord ==
    /\ pc = "done" /\ Len(listing) < section.length
    /\ listing' = Append(listing, Entry(Len(listing)))
    /\ UNCHANGED <<vars, seekable, placeVars>>

Finished ==
    /\ \/ overrun
       \/ pc \in {"failed", "crashed"}
       \/ pc = "done" /\ Len(listing) = section.length
    /\ UNCHANGED allVars

ListingNext ==
    \/ Listed(ParseLabel) \/ Listed(ParseOrg) \/ Listed(DefineMacro)
    \/ Listed(ApplyMacro) \/ Listed(ParseInstr) \/ Listed(ParseUnknown)
    \/ Overrun \/ ListEnds
    \/ Quietly(PassOne) \/ Quietly(PassOneEnds)
    \/ Quietly(Locating) \/ Quietly(Assemble)
    \/ Quietly(AssembleFails) \/ Quietly(AssembleEnds)
    \/ ListWord \/ Finished

(* bas is one sequential program: it goes on as long as it can.              *)
ListingSpec == ListingInit /\ [][ListingNext]_allVars /\ WF_allVars(ListingNext)

-----------------------------------------------------------------------------
(* Properties.                                                               *)

Statements == StatementsOf(Head(program))
Plain == \A s \in Statements : s.t # "macro"

(* A statement is noted at most IndexSize lines below either of the two that *)
(* come before it; the first two, IndexSize lines below the beginning.       *)
Spaced ==
    LET list == Head(program)
        line(k) == IF k < 1 THEN 0 ELSE Place(list[k]).line
    IN  \A k \in DOMAIN list : \A j \in {k - 1, k - 2} :
            line(k) <= line(j) + IndexSize

(* The index is written out of bounds only for a line that is more than      *)
(* IndexSize below all it was made ready for.  The line that is noted lags   *)
(* behind the statements, and macros keep it back as long as they are        *)
(* applied in a row; in a source without macros it lags by two statements at *)
(* most, so that such a source is safe if none is far below the two before.  *)
IndexHolds ==
    /\ overrun => Line > index.lines + IndexSize
    /\ Plain /\ Spaced => ~overrun

(* The lines of a record of a source without macros: from the location that  *)
(* comes before its instruction, if one does, to the instruction.            *)
Span(record) ==
    LET list == Head(program)
        k == CHOOSE k \in DOMAIN list : list[k].t = "instr" /\ list[k].id = record.id
        located == k > 1 /\ list[k - 1].t \in {"label", "org"}
    IN  list[IF located THEN k - 1 ELSE k].pos.line .. list[k].pos.line

(* The line noted for the k-th statement of such a source: where the         *)
(* statement before, as it was saved, left off, and this one begins; but     *)
(* where the location before it begins, if that comes after an instruction;  *)
(* and where the first statement left off, for the first two.                *)
NotedLine(k) ==
    LET list == Head(program)
        located == k > 2 /\ list[k - 1].t # "instr" /\ list[k - 2].t = "instr"
    IN  Place(list[IF k <= 2 THEN 1 ELSE IF located THEN k - 2 ELSE k - 1]).line

LastNoted(k) ==
    \A j \in DOMAIN Head(program) : j > k => NotedLine(j) # NotedLine(k)

(* In such a source the record of an instruction has the line noted for it,  *)
(* which for all but the first is a line from its location to itself.  A     *)
(* word is listed with the line of its record, and if the source can be      *)
(* sought, the text begins with the token that follows the last statement    *)
(* noted for that line, however the index has grown: what is to the left of  *)
(* it on the line, the word's own statement as a rule, is not shown.  In a   *)
(* source with macros, of a text is said only that it is found, and begins   *)
(* with the token after some statement.                                      *)
LinesRight ==
    /\ Plain => \A i \in DOMAIN records : \A k \in DOMAIN Head(program) :
           /\ records[i].id # 0
           /\ Head(program)[k].t = "instr" /\ Head(program)[k].id = records[i].id
           => /\ places[i] = NotedLine(k)
              /\ i > 1 => places[i] \in Span(records[i])
    /\ \A a \in DOMAIN listing : section.data[a - 1].debug # NoDebug =>
           /\ listing[a].line = places[section.data[a - 1].debug]
           /\ seekable => \E s \in Statements : listing[a].text = Place(s)
           /\ Plain /\ seekable => \E k \in DOMAIN Head(program) :
                  /\ NotedLine(k) = listing[a].line /\ LastNoted(k)
                  /\ listing[a].text = Place(Head(program)[k])

(* Every source is done with: parse_stmts(), which enters itself, and both   *)
(* passes, in which records push the cursor about and eval_expr() goes from  *)
(* scope to scope, come to an end, if only by a refusal or a crash; and what *)
(* is assembled is listed to the last word.                                  *)
BasEnds ==
    <>(\/ overrun \/ pc \in {"failed", "crashed"}
       \/ pc = "done" /\ Len(listing) = section.length)
=============================================================================
