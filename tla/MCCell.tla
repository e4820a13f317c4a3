------------------------------- MODULE MCCell -------------------------------
(* Small instances of Cell: c1 and c2 in one session, c3 in another.        *)
EXTENDS Cell, TLC

CONSTANTS c1, c2, c3, s1, s2

MCSessionOf == [c \in Cells |-> IF c = c3 THEN s2 ELSE s1]

MCOneEach == [c \in Cells |-> 1]

MCOneAndNone == [c \in Cells |-> IF c = c1 THEN 1 ELSE 0]

(* A reply is read only in these phases, after the call has returned.       *)
LiveReplies ==
    [c \in Cells |-> IF phase[c] \in {"recovering", "applying", "settling"} /\ Returned(c)
                     THEN reply[c] ELSE "none"]

NoStaleReplies ==
    <<files, journal, poisoned, lease, pc, rec, settled, undo, LiveReplies, cancelled,
      budgets, history, hostVars>>

(* For properties of phases, outcomes, events, roots and journals: what a   *)
(* cell that ended still holds, and the variables no action reads, do not   *)
(* tell states apart.                                                       *)
Alive == {c \in Cells : phase[c] \notin {"done", "crashed"}}

OfAlive(f) == [c \in Alive |-> f[c]]

AliveState ==
    <<files, journal, lease, pc, rec, settled, undo, LiveReplies, cancelled \cap Alive,
      budgets, phase, root, OfAlive(seen), OfAlive(want), OfAlive(failure), events,
      outcome, advanced>>

CellSymmetry == Permutations(Cells)
=============================================================================
