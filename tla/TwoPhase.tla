------------------------------ MODULE TwoPhase ------------------------------
(***************************************************************************)
(* The two-phase kernel of zero-gate (two_phase.rs): a candidate execution *)
(* is admitted by the guards G0 to G7, runs a fixed controller plan into   *)
(* private buffers, is closed by a transaction receipt or by a verified    *)
(* baseline run (G8), and only then becomes a receipt that can be          *)
(* published (G9).  Its evidence comes from the semantic cut               *)
(* (semantic_cut.rs), the quality envelope, the effect transaction and     *)
(* deoptimization; a commit can also be published as durable               *)
(* (durable_publication.rs).                                               *)
(*                                                                         *)
(* Callers hold any receipts they were handed and may offer any of them to *)
(* any execution; the guards must keep the wrong ones out.                 *)
(***************************************************************************)
EXTENDS Deoptimization

CONSTANTS
    ExecutionBindings,  \* execution bindings a request may carry
    PlanLists,          \* controller plans: sequences of instructions
    CutClaims,          \* semantic-cut claims with a verified payload
    SnapCertificates,   \* robust-snap certificates, sets of at most one
    Artifacts,          \* verified artifact sets
    QualityPairs,       \* claims about a candidate and the raw baseline
    ClassRules,         \* class dominance rules
    Memberships,        \* memberships of tasks in classes
    Benchmarks,         \* distributional claims
    FrozenBaseline,     \* the frozen raw baseline reference
    Scale,              \* a distributional claim's parts per unit
    Envelopes,          \* worker envelopes
    EffectClasses,      \* effect classes of the requests
    ApprovalSets,       \* approvals a request carries: grant, preAction
    MaxExecutions       \* bound on the executions prepared

Instructions ==
    {"Dispatch", "DeterministicTransform", "Verify", "StageEffect", "BufferVisible",
     "CloseTransaction"}

ASSUME PlansAssumption == PlanLists \subseteq Seq(Instructions)

VARIABLES
    executions,         \* sequence of executions, in the order prepared
    receipts,           \* final receipts: records naming their execution
    durable             \* commits published as durable, with their evidence

kernelVars == <<executions, receipts, durable>>

gateVars == <<fxVars, deoptVars, kernelVars>>

(***************************************************************************)
(* Semantic cut.                                                           *)
(***************************************************************************)
ExactContinuationEqual(a, b) ==
    \A f \in {"root", "contract", "model", "opaque", "rest"} : a[f] = b[f]

ValidCut(c) ==
    /\ c.authority = "DeterministicOnly"
    /\ c.baseline.status = "ExactPreserved"
    /\ c.compiled.status = "ExactPreserved"
    /\ ExactContinuationEqual(c.baseline, c.compiled)
    /\ Same(c.effects)
    /\ Same(c.attribution)

Cuts == {c \in CutClaims : ValidCut(c)}

(* A candidate is the protocol it runs by, whatever its task and state. *)
ProtocolIdentity(b) == <<b.assembly, b.source, b.image, b.model, b.reasoning>>

(***************************************************************************)
(* Quality admissions: every claim meets every payload, and what is minted *)
(* is admitted against the frozen baseline.                                *)
(***************************************************************************)
Certificates ==
    (UNION ({ExactNeutral(p) : p \in QualityPairs}
            \cup {PointwisePair(p, q) : p, q \in QualityPairs}
            \cup {ScopedClass(r, m, r, m) : r \in ClassRules, m \in Memberships}
            \cup {Distributional(c, d, Scale) : c, d \in Benchmarks}))
    \cup {Unidentified(b.task, b.comparison, ProtocolIdentity(b), FrozenBaseline) :
             b \in ExecutionBindings}

Admissions == UNION {AdmitStrict(c, FrozenBaseline) : c \in Certificates}

(***************************************************************************)
(* The guards, over a prepare request.                                     *)
(***************************************************************************)
(* The image is recomputed from the source root and the three packs.       *)
ImageOf(artifacts) == <<artifacts.source, artifacts.packs>>

G0(r) ==
    /\ r.binding.reasoning.model = r.binding.model
    /\ StrictNoDownshift(r.binding.baselineReasoning, r.binding.reasoning)
    /\ Len(r.artifacts.packs) = 3

G1(r) ==
    /\ r.artifacts.assembly = r.binding.assembly
    /\ r.artifacts.source = r.binding.source
    /\ ImageOf(r.artifacts) = r.binding.image

Position(plan, step) == {i \in DOMAIN plan : plan[i] = step}

G2(r) ==
    LET plan == r.plan
        verify == Position(plan, "Verify")
        visible == Position(plan, "BufferVisible")
        staged == Position(plan, "StageEffect") IN
    /\ Position(plan, "CloseTransaction") = {Len(plan)}
    /\ Cardinality(verify) = 1
    /\ Cardinality(visible) = 1
    /\ Position(plan, "Dispatch") # {}
    /\ \A v \in verify, w \in visible : v < w
    /\ IF r.class = "ReadOnly" THEN staged = {}
       ELSE /\ Cardinality(staged) = 1
            /\ \A v \in verify, s \in staged, w \in visible : v < s /\ s < w
    /\ plan = r.binding.plan

G3(r) ==
    /\ r.cut.input = r.binding.state
    /\ r.cut.plan = r.binding.plan
    /\ r.cut.compiled.model = r.binding.model
    /\ r.cut.compiled.contract = r.binding.reasoning
    /\ r.cut.comparison = r.binding.comparison
    /\ r.cut.scope = r.binding.task
    /\ r.cut.verifier = r.binding.cutVerifier

G4(r) ==
    /\ r.envelope.fuel > 0
    /\ r.envelope.output > 0
    /\ Len(r.plan) <= r.envelope.steps

G5(r) ==
    \A s \in r.snap :
        /\ s.assembly = r.binding.assembly
        /\ s.image = r.binding.image
        /\ s.task = r.binding.task
        /\ s.level = "S0" => r.shield.action = {s.effect}

(* A shield is an acceptance, or a read-only verification of the state.    *)
ReadOnlyShield(state) == [kind |-> "ReadOnly", state |-> state, action |-> {}, acceptance |-> {}]

AcceptedShield(a) ==
    [kind |-> "AcceptedEffect", state |-> a.state, action |-> {a.action}, acceptance |-> {a}]

G6(r) ==
    /\ r.shield.state = r.binding.state
    /\ (r.class = "ReadOnly") <=> (r.shield.kind = "ReadOnly")
    /\ r.class = "ApprovalRequiredMutation" => "grant" \in r.approvals
    /\ r.class = "Irreversible" => "preAction" \in r.approvals

G7(r) ==
    /\ CoherentAdmission(r.quality)
    /\ r.quality.comparison = r.binding.comparison
    /\ r.quality.class # "Distributional" => r.quality.scope = r.binding.task
    /\ r.quality.selection = "Candidate" =>
          r.quality.candidate = ProtocolIdentity(r.binding)

(***************************************************************************)
(* The requests that pass.  A refused request leaves no trace, so only     *)
(* these are drawn from.                                                   *)
(***************************************************************************)
Shields == {ReadOnlyShield(s) : s \in Roots} \cup {AcceptedShield(a) : a \in Acceptances}

OfferedRequests ==
    {[binding |-> b, plan |-> p, class |-> k, artifacts |-> a, envelope |-> v, cut |-> c,
      snap |-> n, shield |-> s, quality |-> q, approvals |-> g] :
        b \in ExecutionBindings, p \in PlanLists, k \in EffectClasses, a \in Artifacts,
        v \in Envelopes, c \in Cuts, n \in SnapCertificates, s \in Shields,
        q \in Admissions, g \in ApprovalSets}

PrepareRequests ==
    {r \in OfferedRequests :
        G0(r) /\ G1(r) /\ G2(r) /\ G3(r) /\ G4(r) /\ G5(r) /\ G6(r) /\ G7(r)}

KernelInit ==
    /\ executions = <<>>
    /\ receipts = {}
    /\ durable = {}

Prepare ==
    /\ Len(executions) < MaxExecutions
    /\ \E r \in PrepareRequests :
          executions' = Append(executions,
             [request |-> r, phase |-> "Permitted", next |-> 1, fuel |-> 0,
              verified |-> FALSE, staged |-> {}, closure |-> {}, failed |-> FALSE])
    /\ UNCHANGED <<receipts, durable>>

Becomes(e, new) ==
    /\ executions' = [executions EXCEPT ![e] = new]
    /\ UNCHANGED <<receipts, durable>>

(* The permit is consumed; one that is past its deadline starts nothing.   *)
(* Nothing else reads the wall clock.                                      *)
Start(e, expired) ==
    /\ executions[e].phase = "Permitted"
    /\ Becomes(e, [executions[e] EXCEPT !.phase = IF expired THEN "Lost" ELSE "Running"])

Expects(x, step) ==
    /\ x.phase = "Running"
    /\ x.next \in DOMAIN x.request.plan
    /\ x.request.plan[x.next] = step

(* A usage over the envelope is refused and the execution stays where it   *)
(* is; Usages holds what the peer may report.                              *)
Dispatch(e, fuel) ==
    LET x == executions[e] IN
    /\ Expects(x, "Dispatch")
    /\ x.fuel + fuel <= x.request.envelope.fuel
    /\ Becomes(e, [x EXCEPT !.fuel = x.fuel + fuel, !.next = x.next + 1])

DeterministicTransform(e) ==
    /\ Expects(executions[e], "DeterministicTransform")
    /\ Becomes(e, [executions[e] EXCEPT !.next = @ + 1])

RecordVerification(e) ==
    /\ Expects(executions[e], "Verify")
    /\ Becomes(e, [executions[e] EXCEPT !.next = @ + 1, !.verified = TRUE])

StageEffect(e, acceptance) ==
    LET x == executions[e] IN
    /\ Expects(x, "StageEffect")
    /\ x.request.shield.action = {acceptance.action}
    /\ x.request.shield.acceptance = {acceptance}
    /\ Becomes(e, [x EXCEPT !.next = x.next + 1, !.staged = x.staged \cup {acceptance}])

BufferVisible(e, bytes) ==
    LET x == executions[e] IN
    /\ Expects(x, "BufferVisible")
    /\ bytes <= x.request.envelope.output
    /\ Becomes(e, [x EXCEPT !.next = x.next + 1])

(***************************************************************************)
(* G8.  A closure is made from a committed transaction receipt, or from a  *)
(* verified baseline execution; it can be cloned.                          *)
(***************************************************************************)
CommitClosures ==
    {[kind |-> "Commit", root |-> t.observed, action |-> t.action,
      acceptance |-> t.acceptance, baseline |-> t.baseline, candidate |-> t.candidate,
      debt |-> t.debt, basis |-> t, names |-> {}] :
        t \in {u \in txReceipts : u.disposition = "CandidateCommitted"}}

FallbackClosures ==
    {[kind |-> "Fallback", root |-> b.run.observed, action |-> b.run.action,
      acceptance |-> b.run.acceptance, baseline |-> b.permit.receipt.baseline,
      candidate |-> b.permit.receipt.candidate, debt |-> 0, basis |-> b,
      names |-> {<<b.permit.plan.binding, b.permit.plan.admission>>}] :
        b \in {c \in baselineReceipts : c.permit.receipt.resources # 0}}

ValidateClosureOfAnyExecution(request, c, failed) ==
    /\ c.baseline = request.binding.state
    /\ c.debt = 0
    /\ c.kind = "Commit" =>
          /\ ~failed
          /\ c.acceptance = request.shield.acceptance
          /\ request.quality.selection = "Candidate"
    /\ c.kind = "Fallback" => failed \/ request.quality.selection = "FrozenBaseline"

ValidateClosure(request, c, failed) ==
    /\ c.baseline = request.binding.state
    /\ c.debt = 0
    /\ c.kind = "Commit" =>
          /\ ~failed
          /\ c.root = c.candidate
          /\ c.acceptance = request.shield.acceptance
          /\ request.shield.action = {c.action}
          /\ request.quality.selection = "Candidate"
    /\ c.kind = "Fallback" =>
          /\ c.names = {<<request.binding, request>>}
          /\ failed \/ request.quality.selection = "FrozenBaseline"

(* Both consume the execution: what is refused is lost with its buffers.   *)
CloseTransaction(e, c) ==
    LET x == executions[e] IN
    /\ Expects(x, "CloseTransaction")
    /\ Becomes(e, IF x.next = Len(x.request.plan) /\ x.verified /\ ValidateClosure(x.request, c, FALSE)
                  THEN [x EXCEPT !.phase = "Ready", !.next = x.next + 1, !.closure = {c}]
                  ELSE [x EXCEPT !.phase = "Lost"])

Abort(e, c) ==
    LET x == executions[e] IN
    /\ x.phase = "Running"
    /\ Becomes(e, IF c.kind = "Fallback" /\ ValidateClosure(x.request, c, TRUE)
                  THEN [x EXCEPT !.phase = "Ready", !.closure = {c}, !.failed = TRUE]
                  ELSE [x EXCEPT !.phase = "Lost"])

(* G9: the receipt commits to everything above. *)
Finalize(e) ==
    LET x == executions[e] IN
    /\ x.phase = "Ready"
    /\ executions' = [executions EXCEPT ![e].phase = "Final"]
    /\ receipts' = receipts \cup
          {[execution |-> e, kind |-> c.kind, root |-> c.root, failed |-> x.failed,
            assembly |-> x.request.binding.assembly] : c \in x.closure}
    /\ UNCHANGED durable

(***************************************************************************)
(* Durable publication: the commit's root is the journal's new root, and   *)
(* the journal's recovery receipt and root record say it is committed.     *)
(***************************************************************************)
VerifyDurablePublication(r, b) ==
    /\ r.kind = "Commit" /\ ~r.failed
    /\ b \in DOMAIN journals
    /\ r.root = b.new
    /\ journals[b].outcome \in CommittedOutcomes
    /\ root = Published(b)

PublishDurable(r, b) ==
    /\ r \in receipts
    /\ <<r, b>> \notin durable
    /\ VerifyDurablePublication(r, b)
    /\ durable' = durable \cup {<<r, b>>}
    /\ UNCHANGED <<executions, receipts>>

(***************************************************************************)
(* Composition.                                                            *)
(***************************************************************************)
(* A plan may name any admitted request, this process's or another's. *)
Triggers(r, safepoint) ==
    {[kind |-> "RecoveryUnknown", fallback |-> safepoint],
     [kind |-> "QualityBaselineSelection", admission |-> r.quality],
     [kind |-> "FailClosed"]}

Deoptimize ==
    \E r \in PrepareRequests, s \in Safepoints, t \in txReceipts, u \in Usages, h \in Heads :
        \E trigger \in Triggers(r, s) :
            /\ Triggered(trigger, s)
            /\ VerifyRestoration(DeoptimizationPlan(s, t, r), t, u, h)

RunBaseline ==
    \E p \in resumePermits, t \in txReceipts, u \in Usages, h \in Heads :
        VerifyBaselineExecution(p, t, u, h)

KernelStep(e) ==
    \/ \E expired \in BOOLEAN : Start(e, expired)
    \/ \E u \in Usages : Dispatch(e, u)
    \/ DeterministicTransform(e)
    \/ RecordVerification(e)
    \/ \E a \in Acceptances : StageEffect(e, a)
    \/ \E u \in Usages : BufferVisible(e, u)
    \/ \E c \in CommitClosures \cup FallbackClosures : CloseTransaction(e, c) \/ Abort(e, c)
    \/ Finalize(e)

Kernel ==
    \/ Prepare
    \/ \E e \in DOMAIN executions : KernelStep(e)
    \/ \E r \in receipts, b \in DOMAIN journals : PublishDurable(r, b)

TwoPhaseInit == EffectInit /\ DeoptInit /\ KernelInit

TwoPhaseNext ==
    \/ EffectNext /\ UNCHANGED <<deoptVars, kernelVars>>
    \/ (Deoptimize \/ RunBaseline) /\ UNCHANGED <<fxVars, kernelVars>>
    \/ Kernel /\ UNCHANGED <<fxVars, deoptVars>>

TwoPhaseSpec == TwoPhaseInit /\ [][TwoPhaseNext]_gateVars

(***************************************************************************)
(* Properties.                                                             *)
(***************************************************************************)
(* Someone measured this protocol on this task and found it no worse in    *)
(* every protected metric, found both runs the same, or put the task in a  *)
(* class the protocol dominates.                                           *)
MeasuredNoWorse(b) ==
    \/ \E p \in QualityPairs :
          /\ <<p.task, p.comparison, p.candidate>> = <<b.task, b.comparison, ProtocolIdentity(b)>>
          /\ \/ \A i \in DOMAIN p.dimensions : NoWorse(p.dimensions[i])
             \/ Same(p.continuation) /\ Same(p.input) /\ Same(p.outcome)
    \/ \E r \in ClassRules, m \in Memberships :
          /\ <<r.class, m.task, m.protocol>> = <<m.class, b.task, ProtocolIdentity(b)>>
          /\ r.comparison = b.comparison

(* A final commit receipt (finalize) tells the truth whichever receipts,   *)
(* admissions and acceptances of other executions were offered to it: the  *)
(* journal moved the root from the state the execution was admitted on to  *)
(* the root the receipt names, by the very action that was shielded and    *)
(* staged after verification, owing nothing, and the protocol was measured *)
(* no worse on that very task.                                             *)
CommitIsEarned ==
    \A r \in receipts : r.kind = "Commit" =>
        LET x == executions[r.execution] IN
        /\ x.verified
        /\ \E b \in DOMAIN journals :
              /\ journals[b].outcome \in CommittedOutcomes
              /\ b.old = x.request.binding.state
              /\ b.new = r.root
              /\ b.closed.debt = 0
              /\ x.staged # {}
              /\ \A a \in x.staged : a.action = b.closed.action /\ a.state = b.old
        /\ MeasuredNoWorse(x.request.binding)

(* A final fallback receipt stands for one execution given up for good:    *)
(* the restored transaction it rests on owed nothing and is never          *)
(* committed, before or after; the raw baseline's own transaction moved    *)
(* the root from the execution's state, and no other transaction of the    *)
(* execution's shielded action ever does, unless some transaction leads    *)
(* back to that state.                                                     *)
FallbackIsEarned ==
    \A r \in receipts : r.kind = "Fallback" =>
        LET x == executions[r.execution]
            committed == {b \in DOMAIN journals : journals[b].outcome \in CommittedOutcomes} IN
        \A c \in x.closure :
            LET given == c.basis.permit.receipt.binding IN
            /\ c.basis.permit.plan.binding = x.request.binding
            /\ given.old = x.request.binding.state
            /\ given.closed.debt = 0
            /\ given \notin committed
            /\ c.basis.run.binding \in committed
            /\ c.basis.run.binding.new = r.root
            /\ \A b \in committed \ {c.basis.run.binding} :
                  b.old = x.request.binding.state /\ b.closed.action \in x.request.shield.action =>
                      \E d \in DOMAIN journals : d.new = b.old

(* finalize mints a final receipt only for what happened: a commit or a    *)
(* fallback that was earned, whatever evidence of other executions was     *)
(* offered in its place.                                                   *)
FinalReceiptsAreEarned == CommitIsEarned /\ FallbackIsEarned
=============================================================================
