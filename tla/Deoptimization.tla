--------------------------- MODULE Deoptimization ---------------------------
(***************************************************************************)
(* Deoptimization in zero-gate (deoptimization.rs): a frozen baseline is   *)
(* captured before the candidate runs; when the candidate is given up, its *)
(* transaction must have restored that baseline, the raw baseline is run   *)
(* from there, and only the verified run closes the execution as a         *)
(* fallback.                                                               *)
(*                                                                         *)
(* Every claim is verified against an evidence whose payload is the        *)
(* claim's exact bytes.  The verifiers are outside the crate: the one of a *)
(* baseline run is modelled as honest (VerifiesBaselineRun), nothing is    *)
(* assumed of the one of a restoration.                                    *)
(***************************************************************************)
EXTENDS EffectTransaction, Quality

CONSTANTS
    SafepointClaims,    \* claims offered for capture, valid or not
    BaselineActions,    \* what the raw baseline itself does
    Usages,             \* resource usages a route may report
    Heads,              \* heads of the receipt chain
    MaxPermits          \* bound on the restorations and on the baseline runs

ASSUME UsagesAssumption == Usages \subseteq Nat

VARIABLES
    resumePermits,      \* verified restorations; a permit can be cloned
    baselineReceipts    \* verified raw baseline executions

deoptVars == <<resumePermits, baselineReceipts>>

(***************************************************************************)
(* Capture.  The baseline continues the native reasoning state, or starts  *)
(* clean, as its contract says and its safepoint shows.                    *)
(***************************************************************************)
ValidReasoningEntry(entry, contract, safepoint) ==
    /\ entry.opaque = safepoint.opaque
    /\ \/ /\ entry.kind = "ExactNativeContinuation"
          /\ contract.policy \in {"ExactRequired", "ExactIfAvailable"}
          /\ safepoint.status = "ExactPreserved"
       \/ /\ entry.kind = "CanonicalCleanStart"
          /\ contract.policy = "CleanRestart"
          /\ safepoint.status = "ExactCleanRestart"

ValidReserve(reserve) == reserve.deoptimization > 0 /\ reserve.baseline > 0

ValidSafepoint(c) ==
    /\ ValidReserve(c.reserve)
    /\ c.safepoint.contract = c.contract
    /\ c.safepoint.model = c.contract.model
    /\ c.safepoint.root = c.root
    /\ c.safepoint.head = c.head
    /\ ValidReasoningEntry(c.entry, c.contract, c.safepoint)

Safepoints == {c \in SafepointClaims : ValidSafepoint(c)}

(***************************************************************************)
(* The plan names the candidate's transaction and the kernel execution it  *)
(* gives up.  What it requires depends on its trigger.                     *)
(***************************************************************************)
Triggered(trigger, safepoint) ==
    CASE trigger.kind = "RecoveryUnknown" -> trigger.fallback = safepoint
      [] trigger.kind = "QualityBaselineSelection" ->
            /\ trigger.admission.selection = "FrozenBaseline"
            /\ trigger.admission.raw = safepoint.raw
      [] trigger.kind = "FailClosed" -> TRUE

DeoptimizationPlan(safepoint, receipt, execution) ==
    [safepoint |-> safepoint, action |-> receipt.action, candidate |-> receipt.candidate,
     manifest |-> receipt.binding.closed.manifest,
     binding |-> execution.binding, admission |-> execution]

(* verify_restoration: the transaction restored the whole frozen closure.  *)
RestoresSafepoint(plan, receipt) ==
    /\ receipt.disposition = "BaselineRootRecovered"
    /\ receipt.scope = "DeclaredEffectClosure"
    /\ receipt.debt = 0
    /\ receipt.baseline = plan.safepoint.root
    /\ receipt.observed = plan.safepoint.root
    /\ receipt.inventory = plan.safepoint.inventory
    /\ receipt.action = plan.action
    /\ receipt.candidate = plan.candidate
    /\ receipt.binding.closed.manifest = plan.manifest

VerifyRestoration(plan, receipt, usage, head) ==
    /\ RestoresSafepoint(plan, receipt)
    /\ head # plan.safepoint.head
    /\ usage <= plan.safepoint.reserve.deoptimization
    /\ Cardinality(resumePermits) < MaxPermits
    /\ resumePermits' = resumePermits \cup
          {[plan |-> plan, receipt |-> receipt, usage |-> usage, head |-> head]}
    /\ UNCHANGED baselineReceipts

(***************************************************************************)
(* The permit becomes an invocation of the frozen baseline, whose run is a *)
(* transaction of its own; the receipt chain advances again.               *)
(***************************************************************************)
FrozenBaselineInvocation(permit) ==
    LET s == permit.plan.safepoint IN
    [root |-> s.root, raw |-> s.raw, contract |-> s.contract, entry |-> s.entry,
     limit |-> s.reserve.baseline]

VerifiesBaselineRun(invocation, run) ==
    /\ run \in txReceipts
    /\ run.disposition = "CandidateCommitted"
    /\ run.action \in BaselineActions
    /\ run.baseline = invocation.root

VerifyBaselineExecution(permit, run, usage, head) ==
    /\ permit \in resumePermits
    /\ head # permit.head
    /\ usage <= FrozenBaselineInvocation(permit).limit
    /\ VerifiesBaselineRun(FrozenBaselineInvocation(permit), run)
    /\ Cardinality(baselineReceipts) < MaxPermits
    /\ baselineReceipts' = baselineReceipts \cup
          {[permit |-> permit, run |-> run, usage |-> usage, head |-> head]}
    /\ UNCHANGED resumePermits

DeoptInit == resumePermits = {} /\ baselineReceipts = {}
=============================================================================
