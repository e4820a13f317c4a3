------------------------------ MODULE PackStore ------------------------------
(***************************************************************************)
(* FSZero's recovery store: payload rows in SQLite, large payloads in an   *)
(* append-only pack file beside it.  A row holds its bytes inline or a     *)
(* locator into the pack of the active generation; compaction copies the   *)
(* live payloads to the next generation and relocates their rows in one    *)
(* transaction.  Several processes share the files, each with the          *)
(* generation it opened.  A payload is one pack entry, so that a locator   *)
(* is an index.  Content keys are their own value; names may be rewritten. *)
(***************************************************************************)
EXTENDS Integers, Sequences, FiniteSets, Functions

CONSTANTS PackOpeners,       \* processes that open the store
          Contents,      \* payload values, and the keys z://blob/<hash> of them
          Names,         \* caller-chosen keys (mem://..., read/..., view/...)
          Damaged,       \* what a torn append leaves in the pack
          Closed,        \* the handle of a process that has not opened the store
          MaxGeneration, \* bound on compactions
          MaxPack,       \* bound on the entries of one pack
          MaxFailures    \* bound on failed appends and power losses

ASSUME PackAssumption == MaxGeneration \in Nat /\ Closed \notin PackOpeners

VARIABLES rows,      \* committed payload rows: key -> row
          meta,      \* meta.pack_gen, the active generation
          packs,     \* generation -> entries, kept for open handles when unlinked
          synced,    \* generation -> entries known to be on the platter
          linked,    \* generations whose file is still in the directory
          handle,    \* process -> generation of its open pack
          txn,       \* the SQLite write transaction
          intended,  \* key -> the value its last committed put carried
          failures

packVars == <<rows, meta, packs, synced, linked, handle, txn, intended, failures>>

Keys == Contents \cup Names

NoTxn == [who |-> Closed]

Inline(v) == [at |-> 0, bytes |-> v]

Locator(n) == [at |-> n, bytes |-> Damaged]

Buffers ==
  UNION {[K -> Contents] : K \in {K \in SUBSET Keys : IsFiniteSet(K) /\ Cardinality(K) \in 1..2}}

Busy == txn.who # Closed

Holds(p, step) == txn.who = p /\ txn.step = step

Only(f, S) == [k \in DOMAIN f \cap S |-> f[k]]

Overlay(f, g) == [k \in DOMAIN f \cup DOMAIN g |-> IF k \in DOMAIN f THEN f[k] ELSE g[k]]

PackInit ==
  /\ rows = << >>
  /\ meta = 0
  /\ packs = [g \in 0..MaxGeneration |-> << >>]
  /\ synced = [g \in 0..MaxGeneration |-> 0]
  /\ linked = {0}
  /\ handle = [p \in PackOpeners |-> Closed]
  /\ txn = NoTxn
  /\ intended = << >>
  /\ failures = 0

-----------------------------------------------------------------------------
\* Opening

\* Locators past the end of the pack are dropped; nothing else is.
Repaired(length) == {k \in DOMAIN rows : rows[k].at =< length}

OpenDurableStore(p) ==
  /\ handle[p] = Closed
  /\ handle' = [handle EXCEPT ![p] = meta]
  /\ rows' = IF Busy THEN rows ELSE Only(rows, Repaired(Len(packs[meta])))
  /\ UNCHANGED <<meta, packs, synced, linked, txn, intended, failures>>

-----------------------------------------------------------------------------
\* Writing: one payload at once, or a batch flushed at its end

BeginPut(p, pending) ==
  /\ handle[p] # Closed
  /\ ~Busy
  /\ \A k \in DOMAIN pending \cap Contents : pending[k] = k
  /\ txn' = [who |-> p, step |-> "encode", pending |-> pending,
             encoded |-> << >>, dirty |-> FALSE]
  /\ UNCHANGED <<rows, meta, packs, synced, linked, handle, intended, failures>>

\* Under the transaction the handle is rebound to the active generation; a
\* failed append may leave a torn entry, and the row then carries its bytes.
AppendActivePack(p, k) ==
  /\ Holds(p, "encode")
  /\ k \in DOMAIN txn.pending \ DOMAIN txn.encoded
  /\ Len(packs[meta]) < MaxPack
  /\ handle' = [handle EXCEPT ![p] = meta]
  /\ \E tail \in {<<txn.pending[k]>>, <<Damaged>>, << >>} :
       LET row == IF tail = <<txn.pending[k]>>
                  THEN Locator(Len(packs[meta]) + 1)
                  ELSE Inline(txn.pending[k])
       IN /\ failures' = IF row.at = 0 THEN failures + 1 ELSE failures
          /\ failures' =< MaxFailures
          /\ packs' = [packs EXCEPT ![meta] = @ \o tail]
          /\ txn' = [txn EXCEPT !.encoded = Overlay([x \in {k} |-> row], @),
                                !.dirty = @ \/ row.at # 0]
  /\ UNCHANGED <<rows, meta, synced, linked, intended>>

CommitUnsynced(p) ==
  /\ Holds(p, "encode")
  /\ DOMAIN txn.encoded = DOMAIN txn.pending
  /\ rows' = Overlay(txn.encoded, rows)
  /\ intended' = Overlay(txn.pending, intended)
  /\ txn' = NoTxn
  /\ UNCHANGED <<meta, packs, synced, linked, handle, failures>>

SyncPack(p) ==
  /\ Holds(p, "encode")
  /\ DOMAIN txn.encoded = DOMAIN txn.pending
  /\ synced' = IF txn.dirty THEN [synced EXCEPT ![handle[p]] = Len(packs[handle[p]])]
                            ELSE synced
  /\ txn' = [txn EXCEPT !.step = "insert"]
  /\ UNCHANGED <<rows, meta, packs, linked, handle, intended, failures>>

CommitPut(p) ==
  /\ Holds(p, "insert")
  /\ rows' = Overlay(txn.encoded, rows)
  /\ intended' = Overlay(txn.pending, intended)
  /\ txn' = NoTxn
  /\ UNCHANGED <<meta, packs, synced, linked, handle, failures>>

DeleteKey(p, k) ==
  /\ handle[p] # Closed
  /\ ~Busy
  /\ k \in DOMAIN rows
  /\ rows' = Only(rows, DOMAIN rows \ {k})
  /\ intended' = Only(intended, DOMAIN rows \ {k})
  /\ UNCHANGED <<meta, packs, synced, linked, handle, txn, failures>>

-----------------------------------------------------------------------------
\* Compaction

Packed == {k \in DOMAIN rows : rows[k].at # 0}

\* The keys whose extent the old pack still holds, in the order they are copied.
LivePayloads ==
  LET live == {k \in Packed : rows[k].at =< Len(packs[meta])}
  IN  CHOOSE order \in Injection(1..Cardinality(live), live) : TRUE

Moved(k) == Locator(CHOOSE i \in DOMAIN LivePayloads : LivePayloads[i] = k)

StagePackRotation(p) ==
  /\ handle[p] # Closed
  /\ ~Busy
  /\ meta < MaxGeneration
  /\ handle' = [handle EXCEPT ![p] = meta]
  /\ packs' = [packs EXCEPT ![meta + 1] =
                 [i \in DOMAIN LivePayloads |-> packs[meta][rows[LivePayloads[i]].at]]]
  /\ synced' = [synced EXCEPT ![meta + 1] = Len(LivePayloads)]
  /\ linked' = linked \cup {meta + 1}
  /\ txn' = [who |-> p, step |-> "rotate"]
  /\ UNCHANGED <<rows, meta, intended, failures>>

CommitPackRotation(p) ==
  /\ Holds(p, "rotate")
  /\ rows' = [k \in (DOMAIN rows \ Packed) \cup Range(LivePayloads) |->
                IF k \in Packed THEN Moved(k) ELSE rows[k]]
  /\ meta' = meta + 1
  /\ txn' = NoTxn
  /\ handle' = [handle EXCEPT ![p] = meta + 1]
  /\ linked' = linked \ {meta}
  /\ UNCHANGED <<packs, synced, intended, failures>>

-----------------------------------------------------------------------------
\* Errors and crashes

RollbackTxn(p) ==
  /\ txn.who = p
  /\ txn' = NoTxn
  /\ UNCHANGED <<rows, meta, packs, synced, linked, handle, intended, failures>>

EngineKilled(p) ==
  /\ handle[p] # Closed
  /\ handle' = [handle EXCEPT ![p] = Closed]
  /\ txn' = IF txn.who = p THEN NoTxn ELSE txn
  /\ UNCHANGED <<rows, meta, packs, synced, linked, intended, failures>>

PackPowerLoss ==
  /\ failures < MaxFailures
  /\ failures' = failures + 1
  /\ \E n \in synced[meta]..Len(packs[meta]) :
       packs' = [packs EXCEPT ![meta] = SubSeq(@, 1, n)]
  /\ handle' = [p \in PackOpeners |-> Closed]
  /\ txn' = NoTxn
  /\ UNCHANGED <<rows, meta, synced, linked, intended>>

PackNext ==
  \/ \E p \in PackOpeners :
       \/ OpenDurableStore(p)
       \/ \E pending \in Buffers : BeginPut(p, pending)
       \/ \E k \in Keys : AppendActivePack(p, k) \/ DeleteKey(p, k)
       \/ SyncPack(p) \/ CommitPut(p)
       \/ StagePackRotation(p) \/ CommitPackRotation(p)
       \/ RollbackTxn(p) \/ EngineKilled(p)
  \/ PackPowerLoss

PackSpec == PackInit /\ [][PackNext]_packVars

-----------------------------------------------------------------------------
\* Reading

\* A content key is served only when its bytes hash to it.
VerifiedBlob(p, k, v) == k \in Contents => v = k

\* The bytes get_payload returns through the handle of p: the set is empty on
\* a miss, which the outer tiers may still answer.
GetPayload(p, k) ==
  LET row == rows[k]
      pack == packs[handle[p]]
      read == IF row.at = 0 THEN {row.bytes}
              ELSE IF row.at =< Len(pack) THEN {pack[row.at]} ELSE {}
  IN {v \in read : VerifiedBlob(p, k, v)}

\* The bytes of every committed row are in the active generation, durably: a
\* locator is committed only after the pack was synced, an interrupted
\* compaction leaves the old generation in force, and open repair drops no row
\* whose put was acknowledged.  And whatever generation a process still has
\* open, a content key yields its own bytes or a miss (verified_blob).
CommittedPayloadsSurvive ==
  /\ meta \in linked
  /\ DOMAIN rows = DOMAIN intended
  /\ \A k \in DOMAIN rows :
       IF rows[k].at = 0
       THEN rows[k].bytes = intended[k]
       ELSE rows[k].at =< synced[meta] /\ packs[meta][rows[k].at] = intended[k]
  /\ \A p \in PackOpeners, k \in Contents \cap DOMAIN rows :
       handle[p] # Closed => GetPayload(p, k) \subseteq {k}

\* note_integrity: "a damaged record is reported and skipped, never served or
\* silently absorbed", also for the keys that carry no hash.
NamedReadsAreExact ==
  \A p \in PackOpeners, k \in Names \cap DOMAIN rows :
    handle[p] # Closed => GetPayload(p, k) \subseteq {intended[k]}
=============================================================================
