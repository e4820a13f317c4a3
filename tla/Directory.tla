------------------------------ MODULE Directory ------------------------------
(* A directory whose files are only ever replaced whole: a temporary file is   *)
(* written and synced, renamed over its destination, and the directory synced  *)
(* (durable_replace of zero-store).  A rename is visible at once.  It survives *)
(* a power failure once the directory is synced; before that, a journaling     *)
(* file system (the durable profiles name ext4, xfs, apfs and ntfs) keeps some *)
(* prefix of the renames.  A directory is the sequence of the states its files *)
(* went through since the last sync.                                           *)
EXTENDS Naturals, Sequences

CONSTANT Absent   \* the content of a file that does not exist

Empty(names) == <<[f \in names |-> Absent]>>

Durable(dir) == dir[1]

Seen(dir) == dir[Len(dir)]

Replaced(s, f, v) == [s EXCEPT ![f] = v]

Renamed(dir, f, v) == Append(dir, Replaced(Seen(dir), f, v))

Synced(dir) == <<Seen(dir)>>

\* What may be found after the power fails: the files any prefix leaves.
Images(dir) == {dir[n] : n \in 1..Len(dir)}
=============================================================================
