----------------------------- MODULE SessionWal -----------------------------
(***************************************************************************)
(* The session log of zero-store (session_wal.rs): a snapshot file and,     *)
(* beside it, an active segment and at most MaxSealed sealed ones, number 1 *)
(* the youngest.  Record n is the n-th change of the session's state; every *)
(* record fills one frame of the same size and a segment holds SegmentLimit *)
(* of them.  A rename, a removal and a frame are one step each, and the     *)
(* process may be killed between any two: a frame cut short is Torn.        *)
(*                                                                          *)
(* The caller owns the merge.  It is modelled by the contract it has to     *)
(* keep: it loads the snapshot and the replay at start, publishes a         *)
(* snapshot of what it knows when append asks for a compaction, and         *)
(* publishes before it appends when the replay was cut short.               *)
(***************************************************************************)
EXTENDS Naturals, Sequences, FiniteSetsExt, Functions

CONSTANTS SegmentLimit, MaxSealed, MaxReplay, MaxRecords, MaxWalKills

ASSUME WalConfig ==
    /\ {SegmentLimit, MaxSealed} \subseteq Nat \ {0}
    /\ {MaxReplay, MaxRecords} \subseteq Nat
    /\ MaxReplay >= (MaxSealed + 1) * SegmentLimit

VARIABLES snap,     \* the records the snapshot file holds the effect of
          active,   \* the active segment, Torn frames included
          sealed,   \* generation -> sealed segment
          mem,      \* the records the running caller knows; {} when it is down
          wcall,    \* the call in progress
          wacked,   \* history: records whose append returned Appended
          wkills

walVars == <<snap, active, sealed, mem, wcall, wacked, wkills>>

Torn == 0

Running == [op |-> "running"]

Down == [op |-> "down"]

\* The segments as they are replayed, oldest to youngest, the active one last.
Segment(i) ==
    IF i > MaxSealed THEN active
    ELSE IF MaxSealed + 1 - i \in DOMAIN sealed THEN sealed[MaxSealed + 1 - i] ELSE << >>

\* The places of the frames of the first k segments, and what is at one.
Places(k) == UNION {{i} \X DOMAIN Segment(i) : i \in 1..k}

FrameAt(p) == Segment(p[1])[p[2]]

Earlier(p, q) == p[1] < q[1] \/ (p[1] = q[1] /\ p[2] < q[2])

\* decode_frames stops at the first frame that is cut short.
Decoded(places) == {p \in places : \A q \in places : FrameAt(q) = Torn => Earlier(p, q)}

\* replay: the segments up to the first one larger than what is left of
\* max_replay_bytes, and of them the frames before the first torn one.
Replay ==
    LET read == Max({k \in 0..MaxSealed + 1 : Cardinality(Places(k)) <= MaxReplay})
    IN  [places    |-> Decoded(Places(read)),
         truncated |-> Decoded(Places(read)) # Places(read) \/ read <= MaxSealed]

\* The records a caller that starts now would know.
Recovered == snap \cup {FrameAt(p) : p \in Replay.places}

\* A restart: the caller loads the snapshot and replays.  After a truncated
\* replay it must publish before it appends.
Load ==
    /\ wcall = Down
    /\ mem' = Recovered
    /\ wcall' = [op |-> IF Replay.truncated THEN "republish" ELSE "running"]
    /\ UNCHANGED <<snap, active, sealed, wacked, wkills>>

NextRecord == Cardinality(mem) + 1

\* append up to its first write: a full active segment is rotated, unless the
\* oldest generation exists, when the caller is told to compact.
AppendRecord ==
    /\ wcall = Running /\ NextRecord <= MaxRecords
    /\ wcall' =
         IF active = << >> \/ Len(active) + 1 <= SegmentLimit
         THEN [op |-> "write", record |-> NextRecord]
         ELSE IF MaxSealed \in DOMAIN sealed
         THEN [op |-> "republish"]
         ELSE [op |-> "rotate", gen |-> MaxSealed - 1, record |-> NextRecord]
    /\ UNCHANGED <<snap, active, sealed, mem, wacked, wkills>>

\* A segment becomes sealed generation g.
Sealed(g, segment) ==
    [h \in DOMAIN sealed \cup {g} |-> IF h = g THEN segment ELSE sealed[h]]

\* A plausible slip of rotate_segments: the youngest generation first.
RotateYoungestFirst ==
    /\ wcall.op = "rotate"
    /\ sealed' = Sealed(1, active)
    /\ active' = << >>
    /\ wcall' = [op |-> "write", record |-> wcall.record]
    /\ UNCHANGED <<snap, mem, wacked, wkills>>

\* One rename of rotate_segments: the sealed generations from the oldest down,
\* the active segment last.
RotateSegments ==
    /\ wcall.op = "rotate"
    /\ IF wcall.gen = 0
       THEN /\ sealed' = Sealed(1, active)
            /\ active' = << >>
            /\ wcall' = [op |-> "write", record |-> wcall.record]
       ELSE /\ sealed' = IF wcall.gen \in DOMAIN sealed
                         THEN Restrict(Sealed(wcall.gen + 1, sealed[wcall.gen]),
                                       (DOMAIN sealed \cup {wcall.gen + 1}) \ {wcall.gen})
                         ELSE sealed
            /\ wcall' = [wcall EXCEPT !.gen = @ - 1]
            /\ UNCHANGED active
    /\ UNCHANGED <<snap, mem, wacked, wkills>>

\* write_frame: the whole frame, and append returns Appended.
WriteFrame ==
    /\ wcall.op = "write"
    /\ active' = Append(active, wcall.record)
    /\ mem' = mem \cup {wcall.record}
    /\ wacked' = wacked \cup {wcall.record}
    /\ wcall' = Running
    /\ UNCHANGED <<snap, sealed, wkills>>

\* publish_snapshot, first half: the snapshot is replaced atomically.  The
\* caller may publish whenever it runs; compaction and a truncated replay
\* leave it no other call.
PublishSnapshot ==
    /\ wcall.op \in {"running", "republish"} /\ snap # mem
    /\ snap' = mem
    /\ wcall' = [op |-> "clear", gen |-> 0]
    /\ UNCHANGED <<active, sealed, mem, wacked, wkills>>

\* A republication of the very same snapshot still clears the segments.
RepublishSame ==
    /\ wcall.op = "republish" /\ snap = mem
    /\ wcall' = [op |-> "clear", gen |-> 0]
    /\ UNCHANGED <<snap, active, sealed, mem, wacked, wkills>>

\* publish_snapshot, second half: clear_wal removes the active segment and
\* then the sealed ones, youngest first.
ClearWal ==
    /\ wcall.op = "clear"
    /\ IF wcall.gen = 0
       THEN active' = << >> /\ UNCHANGED sealed
       ELSE sealed' = Restrict(sealed, DOMAIN sealed \ {wcall.gen}) /\ UNCHANGED active
    /\ wcall' = IF wcall.gen = MaxSealed THEN Running ELSE [wcall EXCEPT !.gen = @ + 1]
    /\ UNCHANGED <<snap, mem, wacked, wkills>>

\* The process is killed; a frame that was being written is missing, cut short
\* or complete, and not acknowledged.
WalKill ==
    /\ wcall # Down /\ wkills < MaxWalKills
    /\ \/ UNCHANGED active
       \/ wcall.op = "write" /\ \E frame \in {Torn, wcall.record} : active' = Append(active, frame)
    /\ wcall' = Down /\ mem' = {} /\ wkills' = wkills + 1
    /\ UNCHANGED <<snap, sealed, wacked>>

WalInit ==
    /\ snap = {} /\ active = << >> /\ sealed = << >> /\ mem = {}
    /\ wcall = Running /\ wacked = {} /\ wkills = 0

WalNext ==
    \/ Load \/ AppendRecord \/ RotateSegments \/ WriteFrame
    \/ PublishSnapshot \/ RepublishSame \/ ClearWal \/ WalKill

WalSpec == WalInit /\ [][WalNext]_walVars

-----------------------------------------------------------------------------
\* No acknowledged record is ever out of reach of a restart: rotation,
\* compaction, a kill between any two of their renames and removals, and a
\* torn frame all leave it in the snapshot or before the first torn frame of
\* the segments.
AckedRecordsSurvive == wacked \subseteq Recovered

\* "Atomically publish snapshot bytes and delete WAL segments"
\* (session_wal.rs, publish_snapshot): a reader that applies the replayed
\* records over the snapshot ends at the newest state, never at an older one.
ReplayEndsAtNewest ==
    LET replayed == Replay.places
    IN  wcall = Down =>
          \A p \in replayed : (\A q \in replayed : ~ Earlier(p, q)) =>
              \A r \in snap : r <= FrameAt(p)
=============================================================================
