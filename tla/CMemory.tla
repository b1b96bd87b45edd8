------------------------------ MODULE CMemory ------------------------------
(***************************************************************************)
(* The C memory that package C_String reads: a block is a function from    *)
(* the offsets 0 .. n - 1 to characters, and a terminated string is the    *)
(* part of a block before its first nul.                                   *)
(***************************************************************************)
EXTENDS Integers, Sequences

CONSTANTS Chars,  \* the characters other than nul
          Nul     \* Interfaces.C.nul

ASSUME NulAssumption == Nul \notin Chars

Cells == Chars \union {Nul}

\* The blocks of n cells; a 0-cell block is an Ada array with a null range.
BlocksOf(n) == [0 .. n - 1 -> Cells]

\* The number of cells of a block.
IsExtent(b, n) == n \in Nat /\ DOMAIN b = 0 .. n - 1

Terminated(b) == \E k \in DOMAIN b : b[k] = Nul

\* k is the offset of the first nul: what Length promises to find.
IsFirstNul(b, k) ==
  /\ k \in DOMAIN b /\ b[k] = Nul
  /\ \A j \in 0 .. k - 1 : b[j] # Nul

FirstNul(b) == CHOOSE k \in DOMAIN b : IsFirstNul(b, k)

\* The first n cells of a block as an Ada string, indexed from 1.
Prefix(b, n) == [j \in 1 .. n |-> b[j - 1]]

\* C.To_C with its default Append_Nul => True: a new block, nul appended.
ToC(s) == [k \in 0 .. Len(s) |-> IF k = Len(s) THEN Nul ELSE s[k + 1]]
============================================================================
