---------------------------- MODULE IntegrityGate ----------------------------
(***************************************************************************)
(* FSZero's durable-store integrity gate.  Every open takes the SQLite     *)
(* write lock, trusts an attestation of the current mutation epoch or runs *)
(* integrity_check, repairs structural findings with VACUUM outside the    *)
(* lock, snapshots what it refuses, and in create mode moves a destructive *)
(* store to quarantine and mints a fresh one.  A store file is a number;   *)
(* engines keep the file they opened even after it was moved away.         *)
(***************************************************************************)
EXTENDS Integers, FiniteSets, Sequences

CONSTANTS Openers, MaxFiles, MaxRows, MaxDamage,
          MaxSnapshots  \* MAX_SNAPSHOT_DESTINATIONS

VARIABLES files,       \* file -> [health, rows, lossy]: lossy once a repair dropped a row
          live,        \* the file at db_path, 0 when there is none
          quarantined, \* file -> what it was when it was moved away
          epoch,       \* the mutation-epoch sidecar
          attested,    \* epochs an attestation on disk vouches for (at most one)
          siblings,    \* forensic and salvage copies, oldest first
          gate,        \* opener -> where its open is
          damage

gateVars == <<files, live, quarantined, epoch, attested, siblings, gate, damage>>

Away == [step |-> "away", file |-> 0, count |-> 0]

At(p, step) == gate[p].step = step

To(p, step) == [gate EXCEPT ![p].step = step]

\* BEGIN IMMEDIATE on a file: held from the check to its verdict.
Unlocked(f) == \A p \in Openers : gate[p].file = f => gate[p].step \notin {"check", "recheck"}

GateInit ==
  /\ files = [f \in {1} |-> [health |-> "ok", rows |-> 1, lossy |-> FALSE]]
  /\ live = 1 /\ quarantined = << >>
  /\ epoch = 0 /\ attested = {} /\ siblings = << >>
  /\ gate = [p \in Openers |-> Away]
  /\ damage = 0

-----------------------------------------------------------------------------
\* make_room_for_snapshot_pair, then the pair; a state already captured is
\* recognised by its sizes and not copied again.
Captured(f) == \E i \in DOMAIN siblings : siblings[i] = <<f, files[f].rows>>

SnapshotPair(f) ==
  LET n == Len(siblings)
      room == IF n + 2 =< MaxSnapshots \/ n =< 1 THEN siblings
              ELSE SubSeq(siblings, n - (IF MaxSnapshots >= 3 THEN MaxSnapshots - 2 ELSE 1) + 1, n)
      copy == <<f, files[f].rows>>
  IN IF Captured(f) \/ Len(room) + 2 > MaxSnapshots THEN siblings ELSE room \o <<copy, copy>>

EnterGate(p) ==
  /\ At(p, "away")
  /\ live # 0
  /\ Unlocked(live)
  /\ gate' = [gate EXCEPT ![p] = [step |-> "check", file |-> live, count |-> 0]]
  /\ UNCHANGED <<files, live, quarantined, epoch, attested, siblings, damage>>

\* The attestation, or integrity_check.
GateWhileLocked(p) ==
  LET f == gate[p].file IN
  /\ At(p, "check")
  /\ CASE epoch \in attested -> /\ gate' = To(p, "open")
                                /\ UNCHANGED <<attested, siblings>>
       [] epoch \notin attested /\ files[f].health = "ok" ->
            /\ gate' = To(p, "open")
            /\ attested' = {epoch}
            /\ UNCHANGED siblings
       [] epoch \notin attested /\ files[f].health = "leaky" ->
            /\ gate' = [gate EXCEPT ![p].step = "vacuum", ![p].count = files[f].rows]
            /\ UNCHANGED <<attested, siblings>>
       [] OTHER -> /\ gate' = To(p, "destructive")
                   /\ siblings' = SnapshotPair(f)
                   /\ UNCHANGED attested
  /\ UNCHANGED <<files, live, quarantined, epoch, damage>>

\* COMMIT; VACUUM; REINDEX; BEGIN IMMEDIATE: other engines may write between
\* the first and the last of them.  The repair may fail to clear the report,
\* and a mis-ordered table may lose a row.
Vacuum(p) ==
  LET f == gate[p].file IN
  /\ At(p, "vacuum")
  /\ Unlocked(f)
  /\ \E health \in {"ok", "leaky"}, lost \in {n \in {0, 1} : n =< files[f].rows} :
       files' = [files EXCEPT ![f] = [health |-> health, rows |-> @.rows - lost,
                                      lossy |-> @.lossy \/ lost = 1]]
  /\ gate' = To(p, "vacuumed")
  /\ UNCHANGED <<live, quarantined, epoch, attested, siblings, damage>>

\* Another opener's gate outlasts the busy timeout during the repair.
RepairFails(p) ==
  /\ gate[p].step \in {"vacuum", "vacuumed"}
  /\ ~Unlocked(gate[p].file)
  /\ gate' = To(p, "destructive")
  /\ siblings' = SnapshotPair(gate[p].file)
  /\ UNCHANGED <<files, live, quarantined, epoch, attested, damage>>

Reacquire(p) ==
  /\ At(p, "vacuumed")
  /\ Unlocked(gate[p].file)
  /\ gate' = To(p, "recheck")
  /\ UNCHANGED <<files, live, quarantined, epoch, attested, siblings, damage>>

Recheck(p) ==
  LET f == gate[p].file IN
  /\ At(p, "recheck")
  /\ CASE files[f].health # "ok" -> /\ gate' = [gate EXCEPT ![p] = Away]
                                    /\ siblings' = SnapshotPair(f)
                                    /\ UNCHANGED attested
       [] files[f].health = "ok" /\ files[f].rows < gate[p].count ->
            /\ gate' = To(p, "destructive")
            /\ siblings' = SnapshotPair(f)
            /\ UNCHANGED attested
       [] OTHER -> /\ gate' = To(p, "open")
                   /\ attested' = {epoch}
                   /\ UNCHANGED siblings
  /\ UNCHANGED <<files, live, quarantined, epoch, damage>>

\* reset_live_store_after_destructive: whatever file is at db_path now goes.
ResetLiveStore(p) ==
  /\ At(p, "destructive")
  /\ IF live = 0 THEN UNCHANGED <<quarantined, siblings>>
     ELSE /\ quarantined' = [f \in DOMAIN quarantined \cup {live} |->
                               IF f = live THEN files[live] ELSE quarantined[f]]
          /\ siblings' = SnapshotPair(live)
  /\ live' = 0 /\ epoch' = 0 /\ attested' = {}
  /\ gate' = To(p, "create")
  /\ UNCHANGED <<files, damage>>

CreateOrOpen(p) ==
  /\ At(p, "create") \/ (At(p, "away") /\ live = 0)
  /\ IF live # 0 THEN UNCHANGED <<files, live>>
     ELSE /\ Cardinality(DOMAIN files) < MaxFiles
          /\ live' = Cardinality(DOMAIN files) + 1
          /\ files' = [f \in DOMAIN files \cup {live'} |->
                         IF f = live' THEN [health |-> "ok", rows |-> 0, lossy |-> FALSE]
                         ELSE files[f]]
  /\ gate' = [gate EXCEPT ![p] = [step |-> "open", file |-> live', count |-> 0]]
  /\ UNCHANGED <<quarantined, epoch, attested, siblings, damage>>

-----------------------------------------------------------------------------
\* The opened store: a committed mutation, then the bump of the epoch.

CommitRow(p) ==
  LET f == gate[p].file IN
  /\ At(p, "open")
  /\ Unlocked(f)
  /\ \/ files[f].rows < MaxRows /\ files' = [files EXCEPT ![f].rows = @ + 1]
     \/ files[f].rows > 0 /\ files' = [files EXCEPT ![f].rows = @ - 1]
  /\ gate' = To(p, "bump")
  /\ UNCHANGED <<live, quarantined, epoch, attested, siblings, damage>>

NoteDurableMutation(p) ==
  /\ At(p, "bump")
  /\ epoch' = epoch + 1
  /\ epoch' =< MaxRows
  /\ gate' = To(p, "open")
  /\ UNCHANGED <<files, live, quarantined, attested, siblings, damage>>

OpenerLeaves(p) ==
  /\ ~At(p, "away")
  /\ gate' = [gate EXCEPT ![p] = Away]
  /\ UNCHANGED <<files, live, quarantined, epoch, attested, siblings, damage>>

Damage ==
  /\ damage < MaxDamage
  /\ damage' = damage + 1
  /\ live # 0
  /\ \E health \in {"leaky", "broken"} : files' = [files EXCEPT ![live].health = health]
  /\ UNCHANGED <<live, quarantined, epoch, attested, siblings, gate>>

GateNext ==
  \/ \E p \in Openers :
       \/ EnterGate(p) \/ GateWhileLocked(p) \/ Vacuum(p) \/ RepairFails(p) \/ Reacquire(p) \/ Recheck(p)
       \/ ResetLiveStore(p) \/ CreateOrOpen(p)
       \/ CommitRow(p) \/ NoteDurableMutation(p) \/ OpenerLeaves(p)
  \/ Damage

GateSpec == GateInit /\ [][GateNext]_gateVars

-----------------------------------------------------------------------------
\* reset_live_store_after_destructive: "Quarantine the live store after a
\* destructive integrity finding": no healthy store, one that passes the check
\* and whose rows no repair dropped, is moved away.
OnlyDamagedStoresAreReset ==
  \A f \in DOMAIN quarantined : quarantined[f].health # "ok" \/ quarantined[f].lossy

=============================================================================
