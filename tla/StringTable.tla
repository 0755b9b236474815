---------------------------- MODULE StringTable ----------------------------
(* libbaby/strtab.c: strings laid end to end in a buffer that grows, each    *)
(* known by the place where it starts, and a hash table that is to find the  *)
(* index of a string that is already there.                                  *)
(*                                                                           *)
(* The hash table does not own its keys.  Each entry keeps the pointer that  *)
(* strtab_put() was given, and a lookup compares with what that pointer      *)
(* points to by then.  For the names of arch.c and bdump.c that is a string  *)
(* constant; for the scanner it is its input buffer, which goes on to hold   *)
(* other text.                                                               *)
EXTENDS Integers, Sequences

CONSTANTS
    Strings,        \* the strings put into the table
    Length,         \* strlen(), a function of them
    Places,         \* the places in memory the callers point to
    Scanned,        \* those whose text changes, in the scanner's buffer
    InitialSize,    \* STRTAB_INITIAL_SIZE   (1024)
    MinTableSize    \* STRTAB_MIN_HTAB_SIZE  (200)

ASSUME StringTableAssumption ==
    /\ Length \in [Strings -> Nat]
    /\ Scanned \subseteq Places
    /\ InitialSize \in Nat \ {0}
    /\ MinTableSize \in Nat \ {0}
    /\ InitialSize \div 8 <= MinTableSize

VARIABLES
    text,           \* what each place of the callers holds
    buf,            \* the strings in the buffer, by where they start
    sz,             \* the size of the buffer
    ptr,            \* where the next string goes
    htab,           \* the entries of the hash table, in the order they came
    htab_size,      \* how many it has room for
    status          \* "running", or "aborted" by an assertion

(* Auxiliary variables.                                                      *)
VARIABLES
    answers,        \* the answers of strtab_put()
    stale           \* strings with a key behind which the text has changed

vars == <<text, buf, sz, ptr, htab, htab_size, status, answers, stale>>

(* strtab_create().  hcreate_r() rounds its argument up to a prime, which is *)
(* left out.                                                                 *)
Init ==
    /\ text \in [Places -> Strings]
    /\ buf = [i \in {} |-> ""]
    /\ sz = InitialSize
    /\ ptr = 0
    /\ htab = <<>>
    /\ htab_size = MinTableSize
    /\ status = "running"
    /\ answers = {} /\ stale = {}

(* hsearch_r() compares the hash it took when the entry was made - of the    *)
(* string there was then - and the text behind the key as it is now.  Hashes *)
(* of different strings are taken to differ.                                 *)
(* Mutant: the hashes are not compared.                                      *)
MatchesText(entry, s) == text[entry.key] = s

Matches(entry, s) == entry.hashed = s /\ text[entry.key] = s

Finds(s) == {k \in DOMAIN htab : Matches(htab[k], s)}

(* Mutant: the length of the string is not looked at.                        *)
GrownFourfold(len) == IF len >= sz - ptr THEN 4 * sz ELSE sz

(* The size of the buffer when a string of that length is added.             *)
Grown(len) ==
    IF len < sz - ptr THEN sz
    ELSE IF 4 * sz - sz <= len THEN sz + len + 1
    ELSE 4 * sz

(* The size rebuild_htab() wants.                                            *)
n_entries == 0          \* never assigned after calloc()
Larger(m, n) == IF m < n THEN n ELSE m
Wanted(size, had_enomem) ==
    LET least == Larger(Larger(htab_size, size \div 8),
                        Larger(2 * n_entries, MinTableSize))
    IN  IF least = htab_size /\ had_enomem THEN 2 * least ELSE least

Full == Len(htab) = htab_size

(* strtab_put(): a string that is found, in any of the entries that match.   *)
PutFound(p) ==
    /\ status = "running"
    /\ \E k \in Finds(text[p]) :
           answers' = answers \cup {<<text[p], htab[k].data>>}
    /\ UNCHANGED <<text, buf, sz, ptr, htab, htab_size, status, stale>>

(* A string that is not: it is copied to the end of the buffer.              *)
Stored(s) ==
    /\ status = "running"
    /\ Finds(s) = {}
    /\ sz' = Grown(Length[s])
    /\ buf' = [i \in DOMAIN buf \cup {ptr} |-> IF i = ptr THEN s ELSE buf[i]]
    /\ ptr' = ptr + Length[s] + 1
    /\ UNCHANGED <<text, htab_size, stale>>

(* Mutant: the new string is not entered in the hash table.                  *)
PutNewUnentered(p) ==
    /\ Stored(text[p])
    /\ Wanted(sz', Full) = htab_size
    /\ answers' = answers \cup {<<text[p], ptr>>}
    /\ UNCHANGED <<htab, status>>

PutNew(p) ==
    /\ Stored(text[p])
    /\ Wanted(sz', Full) = htab_size
    /\ htab' = Append(htab, [key |-> p, hashed |-> text[p], data |-> ptr])
    /\ answers' = answers \cup {<<text[p], ptr>>}
    /\ UNCHANGED status

(* A table that has become too small is made anew from the buffer.  It then  *)
(* holds every string of the buffer and n_entries is expected to say as      *)
(* many; what such a table would do is never seen.                           *)
PutRebuilds(p) ==
    /\ Stored(text[p])
    /\ Wanted(sz', Full) # htab_size
    /\ n_entries # Len(htab) + 1
    /\ status' = "aborted"
    /\ UNCHANGED <<htab, answers>>

(* The scanner goes on.                                                      *)
Scan(p) ==
    /\ status = "running"
    /\ \E s \in Strings : text' = [text EXCEPT ![p] = s]
    /\ stale' = stale \cup {htab[k].hashed :
                    k \in {k \in DOMAIN htab : text'[htab[k].key] # htab[k].hashed}}
    /\ UNCHANGED <<buf, sz, ptr, htab, htab_size, status, answers>>

Terminated == status = "aborted" /\ UNCHANGED vars

Next ==
    \/ \E p \in Places : PutFound(p) \/ PutNew(p) \/ PutRebuilds(p)
    \/ \E p \in Scanned : Scan(p)
    \/ Terminated

Spec == Init /\ [][Next]_vars

-----------------------------------------------------------------------------
(* Properties.                                                               *)

(* The type invariant: the strings lie one after the other in the buffer,    *)
(* inside its size, and every entry leads to the string it was hashed from.  *)
TypeOK ==
    /\ text \in [Places -> Strings]
    /\ DOMAIN buf \subseteq Nat
    /\ \A i \in DOMAIN buf : buf[i] \in Strings
    /\ sz \in Nat /\ ptr \in Nat /\ ptr <= sz
    /\ htab \in Seq([key : Places, hashed : Strings, data : Nat])
    /\ htab_size \in Nat
    /\ status \in {"running", "aborted"}
    /\ \A i \in DOMAIN buf : i + Length[buf[i]] < ptr
    /\ \A i, j \in DOMAIN buf : i < j => i + Length[buf[i]] < j
    /\ \A k \in DOMAIN htab :
           htab[k].data \in DOMAIN buf /\ buf[htab[k].data] = htab[k].hashed

(* An index that strtab_put() has given out reads, for good, as the string   *)
(* it was given for, whatever the places behind the keys of the hash table   *)
(* have come to hold, and however often the buffer grew.                     *)
AnswersRight ==
    \A a \in answers : a[2] \in DOMAIN buf /\ buf[a[2]] = a[1]

(* The comment of strtab_put(): "Return index of string if already stored".  *)
(* A string has one index, as long as no caller has changed the text behind  *)
(* its key: always for the names of mnemonics, whose text is constant, and   *)
(* for a name of the source until the scanner goes on.                       *)
OneIndex ==
    \A a, b \in answers : a[1] = b[1] /\ a[1] \notin stale => a[2] = b[2]
=============================================================================
