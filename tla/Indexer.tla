------------------------------ MODULE Indexer ------------------------------
(***************************************************************************)
(* How GraphZero turns a worktree into its published graph: the full        *)
(* collection, the incremental one over the records sidecar, the delta over *)
(* the data a watching daemon holds, the temporal history, and the          *)
(* fingerprint and signature that let an index call return without work.    *)
(*                                                                         *)
(* A path is a number, ordered as the walk orders names.  A content is what *)
(* the parser sees of it: Source[c] has the names it defines, the calls it  *)
(* makes, its imports, its published items, the files it includes, whether  *)
(* it sets or reads a variable and, for a manifest, the manifests it        *)
(* depends on (deps) and has as workspace members.  A file is a content     *)
(* with the time of its write.  Blob storage and the layout of shards are in GraphStore and      *)
(* BlobStore; the git history layer is off, as it is by default.            *)
(***************************************************************************)
EXTENDS Integers, Sequences, FiniteSets, FiniteSetsExt, SequencesExt

CONSTANTS
    Trees,              \* worktrees to start from: functions from paths to contents
    Versions,           \* Versions[p]: the contents an edit may give to path p
    Source,             \* Source[c]: what the parser sees
    Manifests,          \* paths named Cargo.toml
    SourcesOf,          \* SourcesOf[m]: the paths below the src of manifest m
    BeadIssues,         \* the path .beads/issues.jsonl
    HistoryLines,       \* GRAPH_HISTORY_LOG_MAX_GENERATIONS
    CompactAfter,       \* RECORDS_TIP_COMPACT_AFTER_DELTAS
    RewriteThreshold,   \* RECORDS_TIP_REWRITE_PATH_THRESHOLD
    MaxEdits, MaxCalls, MaxIndexFaults

VARIABLES
    worktree,       \* the worktree: [path -> [content, stamp]]
    tip,        \* records_latest_tip.json: {} or one sidecar
    log,        \* records_latest.jsonl: its rows
    historyTip, \* graph_history_tip.json: {} or one checkpoint
    historyLog, \* graph_history.jsonl: its rows
    historyMax, \* graph_history_log_max
    latest,     \* the manifest's newest snapshot: {} or one [id, data]
    contentSig,  \* index_content_sig.txt: {} or one signature
    fingerprint,\* worktree_fingerprint.json: {} or one function
    held,       \* HELD_INDEX_DATA of the daemon
    op,         \* the call that holds the writer lock, or <<>>
    clock,      \* now_nanos
    budget,     \* edits, calls, and kills or edits under a call, so far
    answer,     \* what the last call returned, until the next edit
    past,       \* the sidecar and the graphs last appended
    slips       \* the windows below that this behaviour went through

indexVars == <<worktree, tip, log, historyTip, historyLog, historyMax, latest, contentSig,
               fingerprint, held, op, clock, budget, answer, past, slips>>

Present == DOMAIN worktree

ContentsOf(files) == {files[p].content : p \in DOMAIN files}

(* ------------------------------- extraction ------------------------------ *)

\* A node of the graph: a name, a file, a manifest or the surface of its crate.
\* An edge is its kind, its two nodes and the blob it was read from; a
\* definition is a loop.
Name(n) == <<"name", n>>

File(p) == <<"file", p>>

Manifest(m) == <<"manifest", m>>

Surface(m) == <<"surface", m>>

Def(node, c) == <<"def", node, node, c>>

\* The call edges of a content: calls of names that some file defines, the
\* definition itself left out.
extract_edges(c, known) == {<<"calls", Name(e[1]), Name(e[2]), c>> : e \in {x \in Source[c].calls :
                                x[2] \in known /\ x[1] # x[2]}}

tier_a_edges(c) == {<<"imports", <<"blob", c>>, Name(n), c>> : n \in Source[c].imports}

KnownNames(contents) == UNION {Source[c].defs : c \in contents}

DefNodes(contents) == UNION {{Def(Name(n), c) : n \in Source[c].defs} : c \in contents}

(* ----------------------------- derived layers ---------------------------- *)

\* Each layer reads the files again and keeps those whose blob is indexed.
Indexed(files, at) == {p \in files \cap Present : worktree[p].content \in DOMAIN at}

append_cargo_manifest_edges(files, at) ==
    UNION {UNION {{<<"imports", Manifest(m), node, worktree[m].content>> :
                      node \in {File(d)} \cup {Surface(x) : x \in {d} \cap Present}}
                  : d \in Source[worktree[m].content].deps}
           : m \in Indexed(files, at) \cap Manifests}

api_crates(files) == files \cap Present \cap Manifests

ItemsOf(m, p) == {<<"refs", Surface(m), Name(i), worktree[p].content>> : i \in Source[worktree[p].content].items}

append_rust_api_surface_edges(files, at) ==
    {Def(Surface(m), worktree[m].content) : m \in api_crates(files)}
    \cup UNION {UNION {ItemsOf(m, p) : p \in Indexed(files, at) \cap SourcesOf[m]}
                : m \in api_crates(files)}

append_bead_issue_edges(at) ==
    IF BeadIssues \in Present /\ worktree[BeadIssues].content \in DOMAIN at
    THEN {Def(<<"bead">>, worktree[BeadIssues].content)} ELSE {}

package_sources(files, m) == files \cap Present \cap SourcesOf[m]

\* A manifest builds its sources and its indexed workspace members.
build_edges(files, at) ==
    UNION {{<<"build", Manifest(m), node, worktree[m].content>> :
               node \in {File(p) : p \in package_sources(files, m)}
                       \cup {Manifest(d) : d \in Source[worktree[m].content].members \cap Range(at)}}
           : m \in Indexed(files, at) \cap Manifests}

scanned(files, at) == (Indexed(files, at) \cap Range(at)) \ Manifests

schema_edges(files, at) ==
    UNION {{<<"schema", File(p), File(q), worktree[p].content>> :
               q \in Source[worktree[p].content].includes \cap Range(at)}
           : p \in scanned(files, at)}

\* A source that sets a variable may touch the siblings that read one (build.rs,
\* which may touch them all, is left out).
effect_edges(files, at) ==
    UNION {LET sources == package_sources(files, m) \cap scanned(files, at)
           IN  {<<"effect", File(x[1]), File(x[2]), worktree[x[1]].content>> :
                   x \in {y \in sources \X sources : /\ y[1] # y[2]
                                                   /\ Source[worktree[y[1]].content].sets
                                                   /\ Source[worktree[y[2]].content].reads}}
           : m \in Indexed(files, at) \cap Manifests}

append_declared_dependency_edges(files, at) ==
    build_edges(files, at) \cup schema_edges(files, at) \cup effect_edges(files, at)

append_all_derived_layers(files, at) ==
    [cargo |-> append_cargo_manifest_edges(files, at),
     rust_api |-> append_rust_api_surface_edges(files, at),
     bead |-> append_bead_issue_edges(at),
     declared |-> append_declared_dependency_edges(files, at)]

\* Only the edges of the changed files and of dropped blobs are replaced.
patch_rust_api_layer(files, at, changed, dropped, prior) ==
    {e \in prior : e[1] = "def" \/ e[4] \notin dropped}
    \cup UNION {UNION {ItemsOf(m, p) : p \in changed \cap Indexed(files, at) \cap SourcesOf[m]}
                : m \in api_crates(files)}

(* ---------------------------- records sidecar ---------------------------- *)

NoRecords == [gen |-> 0, known |-> {}, files |-> <<>>]

apply_records_log_entry(side, row) ==
    [gen |-> row.gen, known |-> row.known,
     files |-> [p \in (DOMAIN side.files \ row.tombstones) \cup DOMAIN row.files |->
                   IF p \in DOMAIN row.files THEN row.files[p] ELSE side.files[p]]]

\* Rows at or below the generation of the tip are in it already.
RowsAfter(side) == SelectSeq(log, LAMBDA row : row.gen > side.gen)

FoldedRecords(side) == FoldLeft(apply_records_log_entry, side, RowsAfter(side))

load_records_sidecar ==
    IF tip # {} THEN {FoldedRecords(side) : side \in tip}
    ELSE IF log # <<>> THEN {FoldedRecords(NoRecords)} ELSE {}

\* Loading compacts a tip that many rows have outgrown, and writes a missing one.
TipAfterLoad ==
    IF \/ tip = {}
       \/ \E side \in tip : Len(RowsAfter(side)) >= CompactAfter
    THEN load_records_sidecar ELSE tip

\* What a log row carries: the files whose stamp or hash changed, whatever
\* their scan, and the paths that are gone.
ChangedRecords(prior, files) ==
    {p \in DOMAIN files : ~ (/\ p \in DOMAIN prior.files
                             /\ prior.files[p].stamp = files[p].stamp
                             /\ prior.files[p].content = files[p].content)}

\* The row forgets the files that are gone.
RowWithoutTombstones(prior, known, files) ==
    [gen |-> clock + 1, known |-> known, tombstones |-> {},
     files |-> [p \in ChangedRecords(prior, files) |-> files[p]]]

RecordsRow(prior, known, files) ==
    [gen |-> clock + 1, known |-> known,
     files |-> [p \in ChangedRecords(prior, files) |-> files[p]],
     tombstones |-> DOMAIN prior.files \ DOMAIN files]

StaleScans(side) ==
    {p \in DOMAIN side.files :
        side.files[p].scan # extract_edges(side.files[p].content, side.known)}

(* ------------------------------ index data ------------------------------- *)

\* at[c]: the path of blob c.  order: blob_order.  base: the edges of the
\* files, in front of the derived layers.
PathOrder(at) == SetToSortSeq(DOMAIN at, LAMBDA c, d : at[c] < at[d])

AllEdges(data) == data.base \cup data.layers.cargo \cup data.layers.rust_api
                  \cup data.layers.bead \cup data.layers.declared

SameGraph(d, e) == d.at = e.at /\ d.base = e.base /\ d.layers = e.layers

\* blob_order, the paths, and the sorted definitions and edges.
index_content_signature(data) == <<data.order, data.at, AllEdges(data)>>

Twins(files) == \E p, q \in DOMAIN files : p # q /\ files[p].content = files[q].content

\* The graph of the worktree collected into an empty store.
FreshGraph ==
    LET contents == ContentsOf(worktree)
        at == [c \in contents |-> Max({p \in Present : worktree[p].content = c})]
    IN  [at |-> at, order |-> PathOrder(at),
         base |-> UNION {tier_a_edges(c) \cup extract_edges(c, KnownNames(contents)) : c \in contents},
         layers |-> append_all_derived_layers(Present, at)]

(* -------------------------------- collect -------------------------------- *)

\* A record is reused for a file of the same time, size and bytes.
Reused(prior) == {p \in Present \cap DOMAIN prior.files :
                    /\ prior.files[p].stamp = worktree[p].stamp
                    /\ prior.files[p].content = worktree[p].content}

PathsOf(c, among) == {p \in among : worktree[p].content = c}

\* Blobs come in the order of their first insertion, reused files before the
\* extracted ones, and keep the path of the last.
CollectedAt(reused) ==
    [c \in ContentsOf(worktree) |->
        Max(IF PathsOf(c, Present \ reused) # {} THEN PathsOf(c, Present \ reused)
            ELSE PathsOf(c, reused))]

CollectedOrder(reused) ==
    LET rank(c) == IF PathsOf(c, reused) # {} THEN Min(PathsOf(c, reused))
                   ELSE Max(Present) + Min(PathsOf(c, Present \ reused))
    IN  SetToSortSeq(ContentsOf(worktree), LAMBDA c, d : rank(c) < rank(d))

\* Scans depend on the names of the whole repository: a reused file keeps its
\* scan only if that set is the one the sidecar was written for.
CollectedScan(prior, reused, c) ==
    LET known == KnownNames(ContentsOf(worktree))
    IN  IF PathsOf(c, Present \ reused) = {} /\ known = prior.known
        THEN prior.files[Max(PathsOf(c, reused))].scan
        ELSE extract_edges(c, known)

CollectAll(prior) ==
    LET reused == Reused(prior)
        at == CollectedAt(reused)
        scan == [c \in DOMAIN at |-> CollectedScan(prior, reused, c)]
    IN  [data |-> [at |-> at, order |-> CollectedOrder(reused),
                   base |-> UNION {tier_a_edges(c) \cup scan[c] : c \in DOMAIN at},
                   layers |-> append_all_derived_layers(Present, at)],
         known |-> KnownNames(DOMAIN at),
         files |-> [p \in Range(at) |-> [content |-> worktree[p].content, stamp |-> worktree[p].stamp,
                                         scan |-> scan[worktree[p].content]]]]

(* ------------------------- collect_changed_paths ------------------------- *)

\* The records with the changed paths parsed again, or dropped if they are gone.
PatchedRecords(prior, changed) ==
    LET contents == {prior.files[p].content : p \in DOMAIN prior.files \ changed}
                    \cup {worktree[p].content : p \in changed \cap Present}
    IN  [p \in (DOMAIN prior.files \ changed) \cup (changed \cap Present) |->
            IF p \in changed
            THEN [content |-> worktree[p].content, stamp |-> worktree[p].stamp,
                  scan |-> extract_edges(worktree[p].content, KnownNames(contents))]
            ELSE prior.files[p]]

\* With a new set of names every scan is made again from the worktree, whose
\* files must still be the recorded ones.
ScansReadable(files) == \A p \in DOMAIN files : p \in Present /\ worktree[p].content = files[p].content

Materialized(files, known, fresh) ==
    LET contents == ContentsOf(files)
        at == [c \in contents |-> Max({p \in DOMAIN files : files[p].content = c})]
        scan(p) == IF fresh THEN extract_edges(files[p].content, known) ELSE files[p].scan
        first(c) == Min({p \in DOMAIN files : files[p].content = c})
    IN  [at |-> at, order |-> SetToSortSeq(contents, LAMBDA c, d : first(c) < first(d)),
         base |-> UNION {tier_a_edges(files[p].content) \cup scan(p) : p \in DOMAIN files},
         layers |-> append_all_derived_layers(DOMAIN files \cup ({BeadIssues} \cap Present), at)]

\* The daemon's data with the blobs of the changed paths replaced.
try_delta_materialize(files, changed, data) ==
    LET dropped == {c \in DOMAIN data.at : data.at[c] \in changed}
        added == DOMAIN files \cap changed
        at == [c \in (DOMAIN data.at \ dropped) \cup {files[p].content : p \in added} |->
                  IF \E p \in added : files[p].content = c
                  THEN CHOOSE p \in added : files[p].content = c ELSE data.at[c]]
        listed == DOMAIN files \cup ({BeadIssues} \cap Present)
        cargo == changed \cap Manifests # {}
        api == \E m \in Manifests : changed \cap SourcesOf[m] # {}
        beads == BeadIssues \in changed
    IN  [at |-> at, order |-> PathOrder(at),
         base |-> {e \in data.base : e[4] \notin dropped}
                  \cup UNION {tier_a_edges(files[p].content) \cup files[p].scan : p \in added},
         layers |->
            [cargo |-> IF cargo THEN append_cargo_manifest_edges(listed, at) ELSE data.layers.cargo,
             rust_api |-> IF cargo THEN append_rust_api_surface_edges(listed, at)
                          ELSE IF api THEN patch_rust_api_layer(listed, at, changed, dropped,
                                                                data.layers.rust_api)
                          ELSE data.layers.rust_api,
             bead |-> IF beads THEN append_bead_issue_edges(at) ELSE data.layers.bead,
             declared |-> IF changed \ {BeadIssues} # {}
                          THEN append_declared_dependency_edges(listed, at)
                          ELSE data.layers.declared]]

\* The data a call took from the daemon's slot: it fits the snapshot and the
\* generation of the records.
take_held_index_data(side) ==
    {h \in held : /\ \E s \in latest : s.id = h.id
                  /\ h.gen = side.gen}

\* The outcome of an incremental collection, or nothing if a file changed
\* under it.
CollectChanged(prior, changed, taken) ==
    LET files == PatchedRecords(prior, changed)
        known == KnownNames(ContentsOf(files))
        same == known = prior.known
        delta == {h \in taken : same /\ h.known = known /\ ~ Twins(files)}
    IN  IF delta # {}
        THEN {[data |-> try_delta_materialize(files, changed, h.data), known |-> known,
               files |-> files] : h \in delta}
        ELSE IF same \/ ScansReadable(files)
        THEN {[data |-> Materialized(files, known, ~ same), known |-> known, files |-> files]}
        ELSE {}

(* --------------------------- temporal history ---------------------------- *)

GraphKeys(data) == DefNodes(DOMAIN data.at) \cup AllEdges(data)

NoHistory == [gen |-> 0, state |-> {}]

ApplyHistory(state, row) ==
    [gen |-> row.gen, state |-> (state.state \ row.vanished) \cup row.appeared]

\* Seeded by the checkpoint if it is old enough, then the rows after it.
graph_state_at_generation(g) ==
    LET seeds == {t \in historyTip : t.gen <= g}
        seed == IF seeds = {} THEN NoHistory ELSE CHOOSE t \in seeds : TRUE
        rows == SelectSeq(historyLog, LAMBDA row : row.gen <= g /\ row.gen > seed.gen)
    IN  IF seeds = {} /\ rows = <<>> THEN {} ELSE {FoldLeft(ApplyHistory, seed, rows)}

max_graph_history_log_generation ==
    Max({historyMax} \cup {historyLog[i].gen : i \in {Len(historyLog)} \ {0}})

TipLags == historyTip = {} \/ \E t \in historyTip : t.gen < max_graph_history_log_generation

\* The checkpoint, unless the log is ahead of it.
latest_graph_history_entry ==
    IF TipLags THEN graph_state_at_generation(clock) ELSE historyTip

PriorState == IF latest_graph_history_entry = {} THEN {}
              ELSE (CHOOSE t \in latest_graph_history_entry : TRUE).state

HistoryRow(state) == [gen |-> clock + 1, appeared |-> state \ PriorState,
                      vanished |-> PriorState \ state]

prune_graph_history_log ==
    IF Len(historyLog) <= HistoryLines THEN historyLog
    ELSE SubSeq(historyLog, Len(historyLog) - HistoryLines + 1, Len(historyLog))

\* The rows that say a key appeared or vanished, oldest first.
structural_timeline(key) ==
    FoldLeft(LAMBDA events, row :
                 events \o (IF key \in row.appeared THEN <<TRUE>> ELSE <<>>)
                        \o (IF key \in row.vanished THEN <<FALSE>> ELSE <<>>),
             <<>>, historyLog)

\* Names reached backwards from the seeds in at most the given steps.
Sources(state, nodes) == {e[2] : e \in {x \in state : x[1] # "def" /\ x[3] \in nodes}}

blast_radius_in_state(state, seeds, depth) ==
    LET hop[k \in 0 .. depth] ==
            IF k = 0 THEN [frontier |-> seeds, impacted |-> {}]
            ELSE LET new == Sources(state, hop[k - 1].frontier) \ (seeds \cup hop[k - 1].impacted)
                 IN  [frontier |-> new, impacted |-> hop[k - 1].impacted \cup new]
    IN  hop[depth].impacted

(* --------------------------------- calls --------------------------------- *)

Working(at) == op # <<>> /\ op.at = at

To(at) == op' = [op EXCEPT !.at = at]

Loaded == IF load_records_sidecar = {} THEN NoRecords
           ELSE CHOOSE side \in load_records_sidecar : TRUE

collect_worktree_fingerprints == worktree

ChangedPaths(scan) ==
    LET prior == IF fingerprint = {} THEN <<>> ELSE CHOOSE f \in fingerprint : TRUE
    IN  {p \in DOMAIN scan : p \notin DOMAIN prior \/ prior[p] # scan[p]}
        \cup (DOMAIN prior \ DOMAIN scan)

\* The stored fingerprint is the scanned one and a signature was saved.
try_fast_warm_index(scan) == latest # {} /\ contentSig # {} /\ fingerprint = {scan}

IncrementalLimit(scan) == Max({Cardinality(DOMAIN scan) \div 10, 1})

ReturnIndex ==
    /\ op' = <<>>
    /\ answer' = IF op.edited THEN {}
                 ELSE {[kind |-> op.kind, changed |-> op.changed, at |-> s.data.at,
                        exact |-> SameGraph(s.data, FreshGraph)] : s \in latest'}

\* index_repo, or repair_repo for one that must not trust what is stored.
IndexRepo(who, force) ==
    LET scan == collect_worktree_fingerprints
        changed == ChangedPaths(scan)
        begun == [kind |-> IF force THEN "repair" ELSE "index", who |-> who, scan |-> {scan},
                  changed |-> changed, edited |-> FALSE, taken |-> {}, result |-> {},
                  at |-> IF /\ ~ force
                            /\ latest # {} /\ load_records_sidecar # {}
                            /\ changed # {} /\ Cardinality(changed) <= IncrementalLimit(scan)
                         THEN "changed" ELSE "all"]
    IN  /\ op = <<>> /\ budget.calls < MaxCalls
        /\ budget' = [budget EXCEPT !.calls = @ + 1]
        /\ held' = IF who = "daemon" THEN {} ELSE held
        /\ IF ~ force /\ try_fast_warm_index(scan)
           THEN /\ answer' = {[kind |-> "index", changed |-> {}, at |-> s.data.at,
                               exact |-> SameGraph(s.data, FreshGraph)] : s \in latest}
                /\ UNCHANGED op
           ELSE op' = begun /\ answer' = {}
        /\ slips' = IF begun.at = "changed" /\ fingerprint = {} THEN slips \cup {"unscanned"} ELSE slips
        /\ UNCHANGED <<worktree, tip, log, historyTip, historyLog, historyMax, latest, contentSig,
                       fingerprint, clock, past>>

\* index_changed_paths: the daemon's watcher names the paths.
Watch(changed) ==
    /\ op = <<>> /\ budget.calls < MaxCalls
    /\ budget' = [budget EXCEPT !.calls = @ + 1]
    /\ op' = [kind |-> "watch", who |-> "daemon", scan |-> {}, changed |-> changed, edited |-> FALSE,
              taken |-> take_held_index_data(Loaded), result |-> {},
              at |-> IF load_records_sidecar = {} THEN "all" ELSE "changed"]
    /\ held' = IF latest # {} /\ load_records_sidecar # {} THEN {} ELSE held
    /\ answer' = {}
    /\ UNCHANGED <<worktree, tip, log, historyTip, historyLog, historyMax, latest, contentSig,
                   fingerprint, clock, past, slips>>

\* The index budget runs out before anything is written.
check_index_budget ==
    /\ op # <<>> /\ op.at \in {"all", "changed"} /\ op.kind # "watch"
    /\ op' = <<>>
    /\ UNCHANGED <<worktree, tip, log, historyTip, historyLog, historyMax, latest, contentSig,
                   fingerprint, held, clock, budget, answer, past, slips>>

Collect ==
    /\ Working("all")
    /\ op' = [op EXCEPT !.at = "history", !.result = {CollectAll(Loaded)}]
    /\ tip' = TipAfterLoad
    /\ slips' = slips \cup (IF Twins(worktree) THEN {"twin"} ELSE {})
                      \cup (IF StaleScans(Loaded) # {} THEN {"scan"} ELSE {})
    /\ UNCHANGED <<worktree, log, historyTip, historyLog, historyMax, latest, contentSig,
                   fingerprint, held, clock, budget, answer, past>>

\* A file that changed under the call makes an index collect everything and a
\* watch fail.
CollectIncrementally ==
    LET outcome == CollectChanged(Loaded, op.changed, op.taken)
    IN  /\ Working("changed")
        /\ op' = IF outcome # {} THEN [op EXCEPT !.at = "records", !.result = outcome]
                 ELSE IF op.kind = "watch" THEN <<>>
                 ELSE [op EXCEPT !.at = "all"]
        /\ tip' = TipAfterLoad
        /\ slips' = slips \cup (IF StaleScans(Loaded) # {} THEN {"scan"} ELSE {})
                          \cup (IF \E r \in outcome : Twins(r.files) THEN {"twin"} ELSE {})
        /\ UNCHANGED <<worktree, log, historyTip, historyLog, historyMax, latest, contentSig,
                       fingerprint, held, clock, budget, answer, past>>

Result == CHOOSE r \in op.result : TRUE

\* A reader that finds the checkpoint behind the log rebuilds it.
RepairHistoryTip ==
    /\ Working("history") /\ TipLags /\ latest_graph_history_entry # {}
    /\ historyTip' = latest_graph_history_entry
    /\ historyMax' = (CHOOSE t \in latest_graph_history_entry : TRUE).gen
    /\ UNCHANGED <<worktree, tip, log, historyLog, latest, contentSig, fingerprint, held, op, clock,
                   budget, answer, past, slips>>

append_temporal_graph_history ==
    LET state == GraphKeys(Result.data)
        row == HistoryRow(state)
    IN  /\ Working("history")
        /\ TipLags => latest_graph_history_entry = {}
        /\ IF state = PriorState /\ historyTip # {}
           THEN To("records") /\ UNCHANGED <<historyLog, clock, past>>
           ELSE /\ historyLog' = Append(historyLog, row)
                /\ clock' = clock + 1
                /\ past' = [past EXCEPT !.graphs = Append(@, [gen |-> row.gen, state |-> state])]
                /\ To("historyMax")
        /\ UNCHANGED <<worktree, tip, log, historyTip, historyMax, latest, contentSig, fingerprint,
                       held, budget, answer, slips>>

write_graph_history_log_max ==
    /\ Working("historyMax")
    /\ historyMax' = clock
    /\ To("historyTip")
    /\ UNCHANGED <<worktree, tip, log, historyTip, historyLog, latest, contentSig, fingerprint, held,
                   clock, budget, answer, past, slips>>

write_graph_history_tip ==
    /\ Working("historyTip")
    /\ historyTip' = {[gen |-> clock, state |-> GraphKeys(Result.data)]}
    /\ historyLog' = prune_graph_history_log
    /\ To("records")
    /\ UNCHANGED <<worktree, tip, log, historyMax, latest, contentSig, fingerprint, held, clock,
                   budget, answer, past, slips>>

\* The same graph as the last published one: nothing to publish.
Unchanged ==
    /\ op.kind # "repair" /\ latest # {}
    /\ contentSig = {index_content_signature(Result.data)}

AfterRecords == IF Unchanged THEN "refresh" ELSE "publish"

append_records_sidecar_log ==
    LET prior == Loaded
        row == RecordsRow(prior, Result.known, Result.files)
        delta == Cardinality(DOMAIN row.files) + Cardinality(row.tombstones)
    IN  /\ Working("records")
        /\ IF delta = 0 /\ load_records_sidecar # {} /\ prior.known = Result.known
           THEN To(AfterRecords) /\ UNCHANGED <<log, clock, past>>
           ELSE /\ log' = Append(log, row)
                /\ clock' = clock + 1
                /\ past' = [past EXCEPT !.records = {[known |-> Result.known,
                       files |-> [p \in DOMAIN Result.files |->
                          [content |-> Result.files[p].content, stamp |-> Result.files[p].stamp]]]}]
                /\ To(IF load_records_sidecar = {} \/ delta >= RewriteThreshold
                      THEN "recordsTip" ELSE AfterRecords)
        /\ UNCHANGED <<worktree, tip, historyTip, historyLog, historyMax, latest, contentSig,
                       fingerprint, held, budget, answer, slips>>

write_records_sidecar_tip ==
    /\ Working("recordsTip")
    /\ tip' = load_records_sidecar
    /\ To(AfterRecords)
    /\ UNCHANGED <<worktree, log, historyTip, historyLog, historyMax, latest, contentSig, fingerprint,
                   held, clock, budget, answer, past, slips>>

NextSnapshotId == 1 + Max({0} \cup {s.id : s \in latest})

PublishIndex ==
    /\ Working("publish")
    /\ latest' = {[id |-> NextSnapshotId, data |-> Result.data]}
    /\ To("signature")
    /\ UNCHANGED <<worktree, tip, log, historyTip, historyLog, historyMax, contentSig, fingerprint,
                   held, clock, budget, answer, past, slips>>

save_index_content_signature ==
    /\ Working("signature")
    /\ contentSig' = {index_content_signature(Result.data)}
    /\ To("refresh")
    /\ UNCHANGED <<worktree, tip, log, historyTip, historyLog, historyMax, latest, fingerprint, held,
                   clock, budget, answer, past, slips>>

\* An index saves what it scanned; a watch reads the changed files once more.
Refreshed ==
    IF op.kind # "watch" THEN op.scan
    ELSE {[p \in (DOMAIN f \ op.changed) \cup (op.changed \cap Present \cap DOMAIN Loaded.files) |->
              IF p \in op.changed THEN worktree[p] ELSE f[p]] : f \in fingerprint}

commit_held_index_data ==
    IF op.kind = "watch" /\ op.result # {} /\ load_records_sidecar # {}
    THEN {[id |-> s.id, gen |-> Loaded.gen, known |-> Result.known, data |-> Result.data] : s \in latest}
    ELSE held

\* The saved fingerprint describes files that were edited around the collection.
RefreshedTooLate ==
    op.edited /\ \E f \in Refreshed :
        \E p \in IF op.kind = "watch" THEN op.changed ELSE DOMAIN f \cup DOMAIN Result.files :
            {f[q].content : q \in {p} \cap DOMAIN f}
                # {Result.files[q].content : q \in {p} \cap DOMAIN Result.files}

EndIndex ==
    /\ Working("refresh")
    /\ fingerprint' = Refreshed
    /\ held' = commit_held_index_data
    /\ slips' = IF RefreshedTooLate THEN slips \cup {"refresh"} ELSE slips
    /\ UNCHANGED latest
    /\ ReturnIndex
    /\ UNCHANGED <<worktree, tip, log, historyTip, historyLog, historyMax, contentSig, clock, budget, past>>

(* ------------------------------ environment ------------------------------ *)

\* Between its collection and its end a call does not read the worktree: an
\* edit there is the same edit just before the end, or after it for an index.
Edit(p, c) ==
    /\ budget.edits < MaxEdits
    /\ op # <<>> => /\ op.at \in {"all", "changed"} \/ (op.at = "refresh" /\ op.kind = "watch")
                    /\ budget.faults < MaxIndexFaults
    /\ c # {} \/ p \in Present
    /\ worktree' = IF c = {} THEN [q \in Present \ {p} |-> worktree[q]]
               ELSE [q \in Present \cup {p} |->
                        IF q = p THEN [content |-> CHOOSE x \in c : TRUE, stamp |-> budget.edits + 1]
                        ELSE worktree[q]]
    /\ budget' = [budget EXCEPT !.edits = @ + 1, !.faults = IF op = <<>> THEN @ ELSE @ + 1]
    /\ op' = IF op = <<>> THEN op ELSE [op EXCEPT !.edited = TRUE]
    /\ answer' = {}
    /\ UNCHANGED <<tip, log, historyTip, historyLog, historyMax, latest, contentSig, fingerprint,
                   held, clock, past, slips>>

\* The process dies between two file operations, or in the middle of one of
\* the two plain writes.
KillIndexer ==
    /\ op # <<>> /\ budget.faults < MaxIndexFaults
    /\ budget' = [budget EXCEPT !.faults = @ + 1]
    /\ slips' = IF op.at \in {"recordsTip", "publish", "signature", "refresh"}
                THEN slips \cup {"behind"} ELSE slips
    /\ \/ UNCHANGED <<contentSig, fingerprint>>
       \/ op.at = "signature" /\ contentSig' = {<<>>} /\ UNCHANGED fingerprint
       \/ op.at = "refresh" /\ fingerprint' = {} /\ UNCHANGED contentSig
    /\ op' = <<>>
    /\ held' = IF op.who = "daemon" THEN {} ELSE held
    /\ UNCHANGED <<worktree, tip, log, historyTip, historyLog, historyMax, latest, clock, answer, past>>

EmptyStore ==
    /\ tip = {} /\ log = <<>>
    /\ historyTip = {} /\ historyLog = <<>> /\ historyMax = 0
    /\ latest = {} /\ contentSig = {} /\ fingerprint = {}
    /\ clock = 0 /\ past = [records |-> {}, graphs |-> <<>>]

\* What one undisturbed call leaves in an empty store.
IndexedStore ==
    LET all == CollectAll(NoRecords)
        keys == GraphKeys(all.data)
        side == [gen |-> 2, known |-> all.known, files |-> all.files]
    IN  /\ tip = {side}
        /\ log = <<[gen |-> 2, known |-> all.known, files |-> all.files, tombstones |-> {}]>>
        /\ historyTip = {[gen |-> 1, state |-> keys]} /\ historyMax = 1
        /\ historyLog = <<[gen |-> 1, appeared |-> keys, vanished |-> {}]>>
        /\ latest = {[id |-> 1, data |-> all.data]}
        /\ contentSig = {index_content_signature(all.data)}
        /\ fingerprint = {worktree} /\ clock = 2
        /\ past = [records |-> {[known |-> all.known, files |-> worktree]},
                   graphs |-> <<[gen |-> 1, state |-> keys]>>]

IndexInit ==
    /\ worktree \in {[p \in DOMAIN t |-> [content |-> t[p], stamp |-> 0]] : t \in Trees}
    /\ EmptyStore \/ IndexedStore
    /\ held = {} /\ op = <<>> /\ answer = {} /\ slips = {}
    /\ budget = [edits |-> 0, calls |-> 0, faults |-> 0]

IndexNext ==
    \/ \E who \in {"daemon", "other"} : IndexRepo(who, FALSE)
    \/ IndexRepo("other", TRUE)
    \/ \E p \in DOMAIN Versions : Watch({p})
    \/ check_index_budget
    \/ Collect \/ CollectIncrementally
    \/ RepairHistoryTip \/ append_temporal_graph_history
    \/ write_graph_history_log_max \/ write_graph_history_tip
    \/ append_records_sidecar_log \/ write_records_sidecar_tip
    \/ PublishIndex \/ save_index_content_signature \/ EndIndex
    \/ \E p \in DOMAIN Versions : \E c \in {{}} \cup {{x} : x \in Versions[p]} : Edit(p, c)
    \/ KillIndexer

(* ------------------------------- properties ------------------------------ *)

\* A call that ended without an error and without an edit under it left the
\* graph of the worktree published: whether it was warm, incremental, a delta
\* or a full collection.  The windows recorded in slips are left out.
CurrentAnswers ==
    \A a \in answer :
        slips = {} =>
            /\ a.kind \in {"index", "repair"} => a.exact
            /\ a.kind = "watch" => \A p \in a.changed :
                  {c \in DOMAIN a.at : a.at[c] = p} = {worktree[q].content : q \in {p} \cap Present}

\* Whatever died where, the records are those last appended.
RecordsSurvive ==
    \A r \in past.records :
        /\ Loaded.known = r.known
        /\ [p \in DOMAIN Loaded.files |-> [content |-> Loaded.files[p].content,
                                            stamp |-> Loaded.files[p].stamp]] = r.files

\* The history tells the graph of every generation that is still in the log
\* from the beginning, and the newest one always.
HistoryIsTold ==
    \A i \in 1 .. Len(past.graphs) :
        (i = Len(past.graphs) \/ Len(historyLog) = Len(past.graphs)) =>
            graph_state_at_generation(past.graphs[i].gen) = {past.graphs[i]}

\* A key appears and vanishes by turns, and the last turn is what the newest
\* graph has, although a call may die between the row and the checkpoint.
TimelineIsTold ==
    past.graphs # <<>> =>
        \A key \in UNION {past.graphs[i].state : i \in 1 .. Len(past.graphs)} :
            LET events == structural_timeline(key)
            IN  /\ \A i \in 1 .. Len(events) - 1 : events[i] # events[i + 1]
                /\ events # <<>> => (Last(events) <=> key \in Last(past.graphs).state)

\* Names with a chain of at most depth calls or imports to a seed.
Reaching(state, seeds, depth) ==
    LET within[k \in 0 .. depth] == IF k = 0 THEN seeds ELSE within[k - 1] \cup Sources(state, within[k - 1])
    IN  within[depth] \ seeds

BlastIsReach ==
    \A s \in latest : \A n \in KnownNames(DOMAIN s.data.at) : \A depth \in 0 .. 3 :
        blast_radius_in_state(AllEdges(s.data), {Name(n)}, depth)
            = Reaching(AllEdges(s.data), {Name(n)}, depth)

IndexIsHonest == CurrentAnswers /\ RecordsSurvive /\ HistoryIsTold /\ TimelineIsTold /\ BlastIsReach
=============================================================================
