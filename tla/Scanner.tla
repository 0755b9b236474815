------------------------------ MODULE Scanner ------------------------------
(* asm-lex.l: how the scanner keeps the place in the source while it reads   *)
(* one token after the other.  Newlines may be anywhere in a token: at its   *)
(* end, several of them, or in the middle with a continuation.  A comment is *)
(* two tokens, its mark and the rest of the line, and the rest may be empty. *)
EXTENDS Integers, SequencesExt

CONSTANTS
    Texts,          \* source texts, sequences of characters
    Newline,
    CommentMarks    \* the tokens that begin a comment

ASSUME TextsAssumption == \A t \in Texts : t \in Seq(Range(t))

VARIABLES
    source,         \* the whole text
    read,           \* how many characters have been scanned
    state,          \* the start condition of the scanner
    yytext,         \* the last token
    loc,            \* yylloc
    emptied         \* auxiliary: the token before the last was empty

scannerVars == <<source, read, state, yytext, loc, emptied>>

Pos(line, col, offset) == [line |-> line, col |-> col, offset |-> offset]

(* The initial action of the parser.                                         *)
ScannerInit ==
    /\ source \in Texts
    /\ read = 0
    /\ state = "INITIAL"
    /\ yytext = <<>>
    /\ emptied = FALSE
    /\ loc = [start |-> Pos(1, 1, 0), end |-> Pos(1, 0, -1),
              last_char_was_newline |-> FALSE]

(* The first character of a token follows the last of the one before.        *)
Follows(pos, after_newline) ==
    IF after_newline THEN Pos(pos.line + 1, 1, pos.offset + 1)
                     ELSE Pos(pos.line, pos.col + 1, pos.offset + 1)

(* One round of the loop, for the character c; last, if it is the last one.  *)
Past(pos, c, last) ==
    IF last THEN [pos EXCEPT !.offset = @ + 1]
    ELSE IF c = Newline THEN Pos(pos.line + 1, 1, pos.offset + 1)
    ELSE Pos(pos.line, pos.col + 1, pos.offset + 1)

(* The places of a token that begins at first; it may have no characters.    *)
ScannedFrom(first, token) ==
    LET Walk[i \in 0 .. Len(token)] ==
            IF i = 0 THEN first ELSE Past(Walk[i - 1], token[i], i = Len(token))
        end == Walk[Len(token)]
    IN  [start |-> first, end |-> [end EXCEPT !.offset = @ - 1],
         last_char_was_newline |-> token # <<>> /\ Last(token) = Newline]

(* Mutant: what the token before ended in is forgotten.                      *)
UpdatedForgetful(token) == ScannedFrom(Follows(loc.end, FALSE), token)

(* update_loc().                                                             *)
Updated(token) == ScannedFrom(Follows(loc.end, loc.last_char_was_newline), token)

(* YY_USER_ACTION, for the token up to the n-th character.                   *)
Matched(n) ==
    /\ yytext' = SubSeq(source, read + 1, n)
    /\ loc' = Updated(yytext')
    /\ read' = n
    /\ emptied' = (read > 0 /\ yytext = <<>>)
    /\ UNCHANGED source

(* The rules outside of comments: any piece of the text may be a token.      *)
Token ==
    /\ state = "INITIAL"
    /\ \E n \in read + 1 .. Len(source) : Matched(n)
    /\ state' = IF yytext' \in CommentMarks THEN "comment" ELSE "INITIAL"

(* The rule of a comment: the rest of the line, up to its newline, and empty *)
(* if the newline is next.                                                   *)
Comment ==
    /\ state = "comment"
    /\ \E n \in read .. Len(source) - 1 :
          /\ source[n + 1] = Newline
          /\ \A i \in read + 1 .. n : source[i] # Newline
          /\ Matched(n)
    /\ state' = "INITIAL"

(* No newline ends the last line: the rule does not match and the scanner's  *)
(* default one takes a character.                                            *)
DefaultRule ==
    /\ state = "comment" /\ read < Len(source)
    /\ \A i \in read + 1 .. Len(source) : source[i] # Newline
    /\ Matched(read + 1)
    /\ UNCHANGED state

EndOfFile == read = Len(source) /\ UNCHANGED scannerVars

ScannerNext == Token \/ Comment \/ DefaultRule \/ EndOfFile

ScannerSpec == ScannerInit /\ [][ScannerNext]_scannerVars

-----------------------------------------------------------------------------
(* Properties.                                                               *)

(* Where a character of a text is: so many newlines and characters before    *)
(* it, so far from the last of these.                                        *)
PlaceOf(s, i) ==
    LET newlines == {j \in 1 .. i - 1 : s[j] = Newline}
    IN  Pos(1 + Cardinality(newlines), i - Max({0} \cup newlines), i - 1)

(* update_loc() counts a column for a token without characters; the column   *)
(* is too high by it until a newline begins a new count.                     *)
Beside(pos, counted) == IF counted THEN [pos EXCEPT !.col = @ + 1] ELSE pos

(* The places the parser's messages and the index of the listing rely on:    *)
(* however the text is cut into tokens and wherever newlines are in them, a  *)
(* token lies from its first character to its last, with one exception.  A   *)
(* mark of a comment directly before a newline (test/macro.asm:3,            *)
(* test/subroutines.asm:3) leaves an empty comment, and the column of that   *)
(* newline, and of nothing after it, is one too high.  Lines and offsets are *)
(* always right.                                                             *)
PlacesRight ==
    LET first == PlaceOf(source, read - Len(yytext) + 1)
    IN  read > 0 =>
            /\ loc.start = Beside(first, emptied)
            /\ loc.end = IF yytext = <<>> THEN [first EXCEPT !.offset = @ - 1]
                         ELSE Beside(PlaceOf(source, read), emptied /\ Len(yytext) = 1)
            /\ emptied => yytext # <<>> /\ yytext[1] = Newline
=============================================================================
