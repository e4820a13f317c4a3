--------------------------- MODULE MCTransaction ---------------------------
(* Small instances of Transaction: three cells, the first two in one       *)
(* session, the third in another.                                           *)
EXTENDS Transaction, TLC

CONSTANTS c1, c2, c3, s1, s2

MCSessionOf == [c \in Cells |-> IF c = c3 THEN s2 ELSE s1]

MCOneEach == [c \in Cells |-> 1]

MCTwoAndOne == [c \in Cells |-> IF c = c1 THEN 2 ELSE 1]

(* No action or property of Transaction reads the replies. *)
NoReplies == <<files, journal, poisoned, lease, pc, rec, settled, undo, cancelled,
               faults, crashes, externals, base, mutated, leaked>>

DataSymmetry == Permutations(Contents) \cup Permutations(Paths)

(* Sound when all cells are in one session and have the same bound. *)
CellSymmetry == DataSymmetry \cup Permutations(Cells)
=============================================================================
