-------------------------- MODULE EffectTransaction --------------------------
(***************************************************************************)
(* The effect transaction of zero-gate (transaction.rs): a candidate's     *)
(* resources are declared beforehand and closed, one journal transaction   *)
(* moves the project root from the baseline to the candidate, and its      *)
(* receipt says which of the two the root is.                              *)
(*                                                                         *)
(* The journal is the one of zero-store (module DurableJournal checks its  *)
(* writes one by one); here each of its calls is one step, and a commit    *)
(* may die after the root was published and before the journal says so.    *)
(***************************************************************************)
EXTENDS Integers, FiniteSets

CONSTANTS
    ClosureRequests,    \* the preregistered requests
    ClosureManifests,   \* the manifests offered for them
    Acceptances,        \* zero-cert acceptances: [action, state, verifier]
    Roots,              \* project roots
    ResultsOf,          \* action |-> the roots its candidate may have
    FirstRoot,          \* the root a project starts with
    MaxTransactions     \* bound on the transactions begun

VARIABLES
    root,               \* the root record: [root, by]
    journals,           \* transaction binding |-> [state, outcome]
    handles,            \* the live, linear transaction handles
    txReceipts          \* the transaction receipts handed out

fxVars == <<root, journals, handles, txReceipts>>

ProjectResources ==
    {"ProjectFilesystem", "GraphIndex", "Toolchain", "RuntimeManifest",
     "CapabilitySurface"}

IsExternal(requirement) == requirement.kind \notin ProjectResources

Writes(requirement) == requirement.access \in {"Write", "ReadWrite"}

Restoration(isolation) ==
    CASE isolation \in {"ImmutableSnapshot", "Buffered", "DelayedUntilCommit"} -> "NotNeeded"
      [] isolation = "RecordedReplay" -> "RecordedReplay"
      [] isolation = "Journaled"      -> "JournalRollback"
      [] isolation = "Transactional"  -> "TransactionRollback"
      [] isolation = "Unsupported"    -> "Unsupported"

ClosedResource(entry) ==
    /\ entry.isolation # "Unsupported"
    /\ entry.restoration = Restoration(entry.isolation)
    /\ IF Writes(entry.requirement)
       THEN entry.isolation \notin {"ImmutableSnapshot", "RecordedReplay"}
       ELSE entry.isolation # "DelayedUntilCommit"

(* Resources are keyed by kind and scope, and listed once. *)
ResourceKey(requirement) == <<requirement.kind, requirement.scope>>

ValidInventory(requirements) ==
    /\ requirements # {}
    /\ \A a, b \in requirements : ResourceKey(a) = ResourceKey(b) => a = b

CoverageOf(rollback) ==
    CASE rollback \in {"SingleAtomic", "Journaled"} ->
            {"Buffered", "Journaled", "Transactional", "DelayedUntilCommit"}
      [] rollback = "WorkspaceClone"      -> {"Buffered", "DelayedUntilCommit"}
      [] rollback = "ExternalTransaction" ->
            {"Buffered", "Transactional", "DelayedUntilCommit"}
      [] rollback \in {"ReadOnly", "RawFallback"} -> {}

RollbackCoverage(rollback, entries) ==
    LET writes == {e \in entries : Writes(e.requirement)} IN
    /\ rollback # "RawFallback"
    /\ (rollback = "ReadOnly") <=> (writes = {})
    /\ rollback = "SingleAtomic" => Cardinality(writes) = 1
    /\ \A e \in writes : e.isolation \in CoverageOf(rollback)

(* Effects that leave the boundary before the commit: what an abort owes. *)
ExternalDebt(entries) ==
    {e \in entries : /\ IsExternal(e.requirement)
                     /\ Writes(e.requirement)
                     /\ e.isolation \in {"Journaled", "Transactional"}}

ClosedBoundary(request, manifest) ==
    [manifest |-> manifest,
     action |-> request.action, baseline |-> request.baseline,
     inventory |-> {e \in manifest.resources : IsExternal(e.requirement)},
     resources |-> Cardinality(request.resources),
     debt |-> Cardinality(ExternalDebt(manifest.resources))]

ValidateEffectClosure(request, manifest) ==
    /\ ValidInventory(request.resources)
    /\ manifest.request = request
    /\ ValidInventory({e.requirement : e \in manifest.resources})
    /\ {e.requirement : e \in manifest.resources} = request.resources
    /\ Cardinality(manifest.resources) = Cardinality(request.resources)
    /\ \A e \in manifest.resources : ClosedResource(e)
    /\ RollbackCoverage(request.rollback, manifest.resources)

ClosedBoundaries ==
    {ClosedBoundary(m.request, m) :
        m \in {n \in ClosureManifests : /\ n.request \in ClosureRequests
                                        /\ ValidateEffectClosure(n.request, n)}}

(***************************************************************************)
(* The journal binding: its transaction id commits to the closure and to   *)
(* the candidate root, its old root is the closure's baseline.             *)
(***************************************************************************)
EffectJournalBinding(closed, new) == [closed |-> closed, old |-> closed.baseline, new |-> new]

Bindings == UNION {{EffectJournalBinding(c, r) : r \in ResultsOf[c.action]} : c \in ClosedBoundaries}

ValidateJournalBinding(b) == b.old = b.closed.baseline /\ b.old # b.new

ValidateAcceptance(a, closed) == a.action = closed.action /\ a.state = closed.baseline

NoJournal == [state |-> "None", outcome |-> "None"]

JournalOf(b) == IF b \in DOMAIN journals THEN journals[b] ELSE NoJournal

CommittedOutcomes == {"NewRootCommitted", "AlreadyCommitted"}

(* from_recovery: a committed root needs an acceptance; an old root is     *)
(* restored in full only when nothing external is owed.                    *)
TransactionReceipt(b, outcome, acceptance) ==
    LET committed == outcome \in CommittedOutcomes IN
    [disposition |-> IF committed THEN "CandidateCommitted" ELSE "BaselineRootRecovered",
     scope |-> IF committed THEN "NotApplicableCandidateCommit"
               ELSE IF b.closed.debt = 0 THEN "DeclaredEffectClosure"
               ELSE "ProjectJournalRootOnly",
     action |-> b.closed.action,
     acceptance |-> IF committed THEN acceptance ELSE {},
     baseline |-> b.old, candidate |-> b.new,
     inventory |-> b.closed.inventory, resources |-> b.closed.resources,
     debt |-> b.closed.debt, binding |-> b, outcome |-> outcome,
     observed |-> IF committed THEN b.new ELSE b.old]

HandOut(b, outcome, acceptance) ==
    txReceipts' = IF outcome \in CommittedOutcomes /\ acceptance = {}
                  THEN txReceipts
                  ELSE txReceipts \cup {TransactionReceipt(b, outcome, acceptance)}

Record(b, state, outcome) ==
    journals' = [x \in DOMAIN journals \cup {b} |->
                    IF x = b THEN [state |-> state, outcome |-> outcome] ELSE journals[x]]

Published(b) == [root |-> b.new, by |-> {b}]

EffectInit ==
    /\ root = [root |-> FirstRoot, by |-> {}]
    /\ journals = [b \in {} |-> NoJournal]
    /\ handles = {}
    /\ txReceipts = {}

(* begin_effect_transaction: the parent root is compared before anything   *)
(* is recorded; a prepared journal of the same binding is taken up again.  *)
BeginEffectTransaction(b) ==
    /\ ValidateJournalBinding(b)
    /\ b \notin handles
    /\ JournalOf(b).outcome = "None"
    /\ root.root = b.old
    /\ JournalOf(b).state \in {"None", "Prepared"}
    /\ b \in DOMAIN journals \/ Cardinality(DOMAIN journals) < MaxTransactions
    /\ Record(b, "Prepared", "None")
    /\ handles' = handles \cup {b}
    /\ UNCHANGED <<root, txReceipts>>

(* commit: the handle is consumed whatever happens; an acceptance of       *)
(* another action or baseline leaves the journal prepared.                 *)
CommitRefused(b, a) ==
    /\ b \in handles
    /\ ~ValidateAcceptance(a, b.closed)
    /\ handles' = handles \ {b}
    /\ UNCHANGED <<root, journals, txReceipts>>

CommitFinished(b, a) ==
    /\ b \in handles
    /\ ValidateAcceptance(a, b.closed)
    /\ JournalOf(b).outcome # "None"
    /\ handles' = handles \ {b}
    /\ HandOut(b, JournalOf(b).outcome, {a})
    /\ UNCHANGED <<root, journals>>

Commits(b) ==
    /\ JournalOf(b) = [state |-> "Prepared", outcome |-> "None"]
    /\ root.root = b.old \/ root = Published(b)

CommitEffect(b, a) ==
    /\ b \in handles
    /\ ValidateAcceptance(a, b.closed)
    /\ Commits(b)
    /\ root' = Published(b)
    /\ Record(b, "Committed", "NewRootCommitted")
    /\ handles' = handles \ {b}
    /\ HandOut(b, "NewRootCommitted", {a})

(* The process dies after the root record was replaced. *)
CommitDies(b, a) ==
    /\ b \in handles
    /\ ValidateAcceptance(a, b.closed)
    /\ Commits(b)
    /\ root' = Published(b)
    /\ handles' = handles \ {b}
    /\ UNCHANGED <<journals, txReceipts>>

AbortEffect(b) ==
    /\ b \in handles
    /\ JournalOf(b) = [state |-> "Prepared", outcome |-> "None"]
    /\ root.root = b.old
    /\ Record(b, "Aborted", "OldRootAborted")
    /\ handles' = handles \ {b}
    /\ HandOut(b, "OldRootAborted", {})
    /\ UNCHANGED root

AbortFinished(b) ==
    /\ b \in handles
    /\ JournalOf(b).outcome # "None"
    /\ handles' = handles \ {b}
    /\ HandOut(b, JournalOf(b).outcome, {})
    /\ UNCHANGED <<root, journals>>

(* recover_effect_transaction: a persisted recovery receipt is final;      *)
(* otherwise the root decides, and a third root is a disagreement.         *)
RecoveredState(b) ==
    CASE JournalOf(b).outcome # "None" -> JournalOf(b)
      [] JournalOf(b) = NoJournal /\ root.root = b.old ->
            [state |-> "None", outcome |-> "NotStartedOldRoot"]
      [] JournalOf(b) = [state |-> "Prepared", outcome |-> "None"] /\ root.root = b.old ->
            [state |-> "Aborted", outcome |-> "OldRootAborted"]
      [] JournalOf(b) = [state |-> "Prepared", outcome |-> "None"] /\ root = Published(b) ->
            [state |-> "Committed", outcome |-> "NewRootCommitted"]
      [] OTHER -> NoJournal

RecoverEffect(b, acceptance) ==
    LET found == RecoveredState(b) IN
    /\ ValidateJournalBinding(b)
    /\ b \in DOMAIN journals \/ Cardinality(DOMAIN journals) < MaxTransactions
    /\ \A a \in acceptance : ValidateAcceptance(a, b.closed)
    /\ found # NoJournal
    /\ Record(b, found.state, found.outcome)
    /\ HandOut(b, found.outcome, acceptance)
    /\ UNCHANGED <<root, handles>>

EffectNext ==
    \E b \in Bindings :
        \/ BeginEffectTransaction(b)
        \/ AbortEffect(b)
        \/ AbortFinished(b)
        \/ RecoverEffect(b, {})
        \/ \E a \in Acceptances :
              \/ CommitRefused(b, a)
              \/ CommitFinished(b, a)
              \/ CommitEffect(b, a)
              \/ CommitDies(b, a)
              \/ RecoverEffect(b, {a})
=============================================================================
