------------------------------- MODULE Store -------------------------------
(* libbaby/memory.h: one physical page of words that every virtual address   *)
(* aliases.  read_word() folds an address onto the page with a remainder,    *)
(* write_word() folds it with a mask; they agree exactly when the page has   *)
(* a power of two of words, which memory_checks() asserts - where somebody   *)
(* calls it.                                                                 *)
EXTENDS Words

(* The bitwise AND of two naturals, as a function of the one that yields a   *)
(* function of the other.                                                    *)
BitAnd[a \in Nat] ==
    [b \in Nat |->
        IF a = 0 THEN 0 ELSE 2 * BitAnd[a \div 2][b \div 2] + (a % 2) * (b % 2)]

(* Where a page of size words is read and where it is written.               *)
ReadIndex(size, addr) == addr % size
(* Mutant: addresses are not folded.                                         *)
WriteIndexUnfolded(size, addr) == addr

WriteIndex(size, addr) == BitAnd[addr][size - 1]

Page(size) == [0 .. size - 1 -> Word]

ReadWord(page, size, addr) == page[ReadIndex(size, addr)]
WriteWord(page, size, addr, value) ==
    [page EXCEPT ![WriteIndex(size, addr)] = value]

(* The power-of-two assertion of memory_checks(): halve while even, and end  *)
(* at one.                                                                   *)
OddPart[n \in Nat \ {0}] == IF n % 2 = 0 THEN OddPart[n \div 2] ELSE n

MemoryChecks(size) == size # 0 /\ OddPart[size] = 1
=============================================================================
