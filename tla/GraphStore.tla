----------------------------- MODULE GraphStore -----------------------------
(***************************************************************************)
(* GraphZero's store: the delta log (delta_log.rs), the snapshot manifest   *)
(* (manifest.rs), indexing and cleanup (indexer.rs), compaction             *)
(* (compaction.rs), edge publication (publish.rs) and branch pointers       *)
(* (git.rs).  Writers hold the advisory    *)
(* lock of lock.rs for the whole of an operation and may be killed at every *)
(* step, which frees the lock and leaves the files as they are.             *)
(*                                                                          *)
(* A snapshot holds facts: versions of the work tree and published edges.   *)
(* A log segment holds the one entry its call appended (a publication is at *)
(* most 4 MiB and a segment 64 MB, so a call never rolls twice) and the     *)
(* checksum of the segment before it; the entry stands for its checksum.    *)
(***************************************************************************)
EXTENDS Integers, FiniteSets, FiniteSetsExt, TLC

CONSTANTS Writers, Edges, MaxTree, MaxSnapshots, MaxSegments, MaxGraphKills

ASSUME GraphAssumption == "none" \notin Edges /\ "nobody" \notin Writers

VARIABLES manifest,    \* the published snapshot entries
          shards,      \* snapshot id -> the facts in its files
          segments,    \* segment id -> its contents
          branches,    \* head commit -> snapshot id
          cited,       \* snapshots that query evidence names
          tree, head,  \* the work tree's version and the checked-out commit
          signature,   \* the saved index content signature
          glock, gwork, gkills,
          pending      \* history: segments committed since the last publication

graphVars == <<manifest, shards, segments, branches, cited, tree, head, signature,
               glock, gwork, gkills, pending>>
storeFiles == <<manifest, shards, segments, branches, signature>>

Nobody == "nobody"
With(f, k, v) == [x \in DOMAIN f \cup {k} |-> IF x = k THEN v ELSE f[x]]
Unwritten == [edge |-> "none", prev |-> "none"]
SnapshotEntry(id, folded) == [snapshot_id |-> id, segment_ids |-> folded]

Latest == CHOOSE s \in manifest : \A t \in manifest : t.snapshot_id <= s.snapshot_id
Folded == IF manifest = {} THEN {} ELSE Latest.segment_ids
NextSnapshot == IF manifest = {} THEN 1 ELSE Latest.snapshot_id + 1

\* read_segment_chain: empty files are skipped, and every other segment names the
\* checksum of the one before it; the first is not compared with anything.
Written == {i \in DOMAIN segments : segments[i] # Unwritten}
Before(i) == {j \in Written : j < i}
SegmentsChain == \A i \in Written : Before(i) # {} => segments[i].prev = segments[Max(Before(i))].edge
LastCrc == IF Written = {} THEN "none" ELSE segments[Max(Written)].edge

\* The edges that merge_wal_into_pending and read_pending_segments replay; entries
\* of other kinds, reservations among them, are passed over.
Unfolded == DOMAIN segments \ Folded
Replayed == {segments[i].edge : i \in Unfolded \cap Written} \cap Edges

\* Either trigger: more segments than MAX_SEGMENTS, or pending blobs above three
\* tenths of the base's.
ShouldCompact ==
    LET base == IF manifest = {} THEN 0 ELSE Cardinality(shards[Latest.snapshot_id]) IN
    /\ Unfolded # {}
    /\ \/ Cardinality(Unfolded) > MaxSegments
       \/ IF base = 0 THEN Replayed # {} ELSE 10 * Cardinality(Replayed) > 3 * base

\* prune_manifest_to_retained_snapshots: the two newest and the branch pins.
Pins == {branches[b] : b \in DOMAIN branches}
Newest(m) == {s \in m : Cardinality({t \in m : t.snapshot_id > s.snapshot_id}) < 2}
Pruned(m) == Newest(m) \cup {s \in m : s.snapshot_id \in Pins}

Work(kind, facts, folded) ==
    [kind |-> kind, at |-> "write", id |-> NextSnapshot, facts |-> facts, folded |-> folded]
WriterIdle(w) == gwork[w].at = "idle"
At(w, step) == gwork[w].at = step /\ glock = w
Resting == [at |-> "idle"]
Step(w, step) == gwork' = [gwork EXCEPT ![w].at = step]
Finish(w) == gwork' = [gwork EXCEPT ![w] = Resting] /\ glock' = Nobody

-----------------------------------------------------------------------------
\* publish_batch and append_entries: under the lock the log is opened, which
\* verifies its chain, and a new segment file is created.
NextSegmentId == IF DOMAIN segments = {} THEN 0 ELSE Max(DOMAIN segments) + 1

OpenSegment(w, e) ==
    /\ WriterIdle(w) /\ glock = Nobody /\ SegmentsChain
    /\ \A i \in Written : segments[i].edge # e
    /\ e \notin UNION {shards[i] : i \in DOMAIN shards}
    /\ glock' = w
    /\ gwork' = [gwork EXCEPT ![w] = [at |-> "commit", edge |-> e, id |-> NextSegmentId]]
    /\ segments' = With(segments, NextSegmentId, Unwritten)
    /\ UNCHANGED <<manifest, shards, branches, cited, tree, head, signature, gkills, pending>>

\* A plausible slip: the new segment does not name its predecessor.
CommitUnchained(w) ==
    /\ At(w, "commit")
    /\ segments' = [segments EXCEPT ![gwork[w].id] = [edge |-> gwork[w].edge, prev |-> "none"]]
    /\ pending' = pending \cup {gwork[w].edge}
    /\ Finish(w)
    /\ UNCHANGED <<manifest, shards, branches, cited, tree, head, signature, gkills>>

\* DeltaLog::commit seals the segment by an atomic replacement, and the caller is
\* told that its edges are accepted.
CommitSegment(w) ==
    /\ At(w, "commit")
    /\ segments' = [segments EXCEPT ![gwork[w].id] = [edge |-> gwork[w].edge, prev |-> LastCrc]]
    /\ pending' = pending \cup {gwork[w].edge}
    /\ Finish(w)
    /\ UNCHANGED <<manifest, shards, branches, cited, tree, head, signature, gkills>>

\* compact, and compact_on_open_if_needed whose probe ran without the lock: what
\* was seen is computed again under the lock.
ProbeCompaction(w) ==
    /\ WriterIdle(w) /\ SegmentsChain /\ ShouldCompact
    /\ gwork' = [gwork EXCEPT ![w] = [at |-> "probed"]]
    /\ UNCHANGED <<storeFiles, cited, tree, head, glock, gkills, pending>>

Compact(w) ==
    /\ gwork[w].at = "probed" /\ glock = Nobody
    /\ IF SegmentsChain /\ ShouldCompact /\ NextSnapshot <= MaxSnapshots
       THEN /\ glock' = w
            /\ LET base == IF manifest = {} THEN {} ELSE shards[Latest.snapshot_id] IN
               gwork' = [gwork EXCEPT ![w] =
                   Work("compact", base \cup Replayed, Folded \cup Unfolded)]
       ELSE gwork' = [gwork EXCEPT ![w] = Resting] /\ UNCHANGED glock
    /\ UNCHANGED <<storeFiles, cited, tree, head, gkills, pending>>

\* index_repo and index_changed_paths: the tree is collected under the lock; an
\* unchanged signature publishes nothing.  The log's segments count as folded.
Index(w) ==
    /\ WriterIdle(w) /\ glock = Nobody /\ NextSnapshot <= MaxSnapshots
    /\ ~ (signature = tree /\ manifest # {})
    /\ glock' = w
    /\ gwork' = [gwork EXCEPT ![w] = Work("index", {tree}, DOMAIN segments)]
    /\ UNCHANGED <<storeFiles, cited, tree, head, gkills, pending>>

-----------------------------------------------------------------------------
\* write_snapshot: shard, global and path files, all before the manifest.
WriteSnapshot(w) ==
    /\ At(w, "write")
    /\ shards' = With(shards, gwork[w].id, gwork[w].facts)
    /\ Step(w, "publish")
    /\ UNCHANGED <<manifest, segments, branches, signature, cited, tree, head, glock, gkills, pending>>

\* Manifest::atomic_publish.
PublishManifest(w) ==
    LET all == manifest \cup {SnapshotEntry(gwork[w].id, gwork[w].folded)} IN
    /\ At(w, "publish")
    /\ manifest' = Pruned(all)
    /\ pending' = {}
    /\ Step(w, IF gwork[w].kind = "index" THEN "branch" ELSE "sweep")
    /\ UNCHANGED <<shards, segments, branches, signature, cited, tree, head, glock, gkills>>

\* record_head_snapshot, then the content signature.
RecordHead(w) ==
    /\ At(w, "branch")
    /\ branches' = With(branches, head, gwork[w].id)
    /\ Step(w, "sign")
    /\ UNCHANGED <<manifest, shards, segments, signature, cited, tree, head, glock, gkills, pending>>

SaveSignature(w) ==
    /\ At(w, "sign")
    /\ signature' = Max(gwork[w].facts)
    /\ Step(w, "sweep")
    /\ UNCHANGED <<manifest, shards, segments, branches, cited, tree, head, glock, gkills, pending>>

\* cleanup: snapshots nobody names go one by one, then the folded segments in
\* ascending order; malformed query evidence skips the whole sweep.
Kept == Pins \cup cited \cup {s.snapshot_id : s \in manifest}

SweepSnapshot(w) ==
    /\ At(w, "sweep")
    /\ DOMAIN shards \ Kept # {}
    /\ LET i == Min(DOMAIN shards \ Kept) IN
          shards' = [j \in DOMAIN shards \ {i} |-> shards[j]]
    /\ UNCHANGED <<manifest, segments, branches, signature, cited, tree, head, glock, gwork,
                   gkills, pending>>

SweepSegment(w) ==
    LET left == gwork[w].folded \cap DOMAIN segments IN
    /\ At(w, "sweep") /\ DOMAIN shards \subseteq Kept /\ left # {}
    /\ segments' = [i \in DOMAIN segments \ {Min(left)} |-> segments[i]]
    /\ UNCHANGED <<manifest, shards, branches, signature, cited, tree, head, glock, gwork,
                   gkills, pending>>

Swept(w) ==
    /\ At(w, "sweep")
    /\ DOMAIN shards \subseteq Kept /\ gwork[w].folded \cap DOMAIN segments = {}
    /\ Finish(w)
    /\ UNCHANGED <<storeFiles, cited, tree, head, gkills, pending>>

SweepSkipped(w) ==
    /\ At(w, "sweep")
    /\ Finish(w)
    /\ UNCHANGED <<storeFiles, cited, tree, head, gkills, pending>>

-----------------------------------------------------------------------------
WriterKilled(w) ==
    /\ ~ WriterIdle(w) /\ gkills < MaxGraphKills
    /\ gkills' = gkills + 1
    /\ gwork' = [gwork EXCEPT ![w] = Resting]
    /\ glock' = IF glock = w THEN Nobody ELSE glock
    /\ UNCHANGED <<storeFiles, cited, tree, head, pending>>

\* The developer edits the tree and may commit it.
EditTree ==
    /\ tree < MaxTree
    /\ tree' = tree + 1
    /\ head' \in {head, tree + 1}
    /\ UNCHANGED <<storeFiles, cited, glock, gwork, gkills, pending>>

\* A query over the newest snapshot leaves evidence that cites it.
Query ==
    /\ manifest # {} /\ cited = {}
    /\ cited' = {Latest.snapshot_id}
    /\ UNCHANGED <<storeFiles, tree, head, glock, gwork, gkills, pending>>

GraphInit ==
    /\ manifest = {} /\ shards = [i \in {} |-> {}] /\ segments = [i \in {} |-> Unwritten]
    /\ branches = [b \in {} |-> 0] /\ cited = {} /\ tree = 1 /\ head = 1 /\ signature = 0
    /\ glock = Nobody /\ gwork = [w \in Writers |-> Resting] /\ gkills = 0 /\ pending = {}

GraphNext ==
    \/ EditTree \/ Query
    \/ \E w \in Writers :
          \/ \E e \in Edges : OpenSegment(w, e)
          \/ CommitSegment(w) \/ ProbeCompaction(w) \/ Compact(w) \/ Index(w)
          \/ WriteSnapshot(w) \/ PublishManifest(w) \/ RecordHead(w) \/ SaveSignature(w)
          \/ SweepSnapshot(w) \/ SweepSegment(w) \/ Swept(w) \/ SweepSkipped(w)
          \/ WriterKilled(w)

GraphSpec == GraphInit /\ [][GraphNext]_graphVars

-----------------------------------------------------------------------------
\* "Stop-before-delete: only runs after the manifest is durably published"
\* (indexer.rs:5394): whatever writer was killed where, the snapshot an open
\* reads, and every snapshot a branch pointer names, has its files, and the log
\* can still be replayed.
StoreOpens ==
    /\ \A s \in manifest : s.snapshot_id \in DOMAIN shards
    /\ Pins \subseteq DOMAIN shards
    /\ SegmentsChain

\* "Wal segments stay "unfolded" until compaction; Snapshot::open merges them as
\* pending" (publish.rs:467): an accepted edge that no snapshot was published
\* after is replayed by every open.
AcceptedEdgesArePending == pending \subseteq Replayed
=============================================================================
