----------------------------- MODULE Investment -----------------------------
(* What a project invests in beyond one task.                                *)
(*                                                                           *)
(* Capability assets (asset.rs): procedures captured from accepted episodes, *)
(* tried in the shadow of the baseline, promoted, used, and ended by a       *)
(* failure syndrome, a negative lifetime value, a lapse or a revocation.     *)
(* Reinvestment (reinvestment.rs): a portfolio of actions paid from the      *)
(* causal slack of a plan, one branch per action, and the selection of one   *)
(* strictly improved branch or of the baseline.                              *)
(*                                                                           *)
(* "" stands for an empty text, a malformed or an all-zero digest.  A digest *)
(* is the value it commits to.  Amounts are u64 with the bound MaxAmount.    *)
(* Optional results are sets of at most one element.                         *)
EXTENDS Integers, Sequences, FiniteSets, SequencesExt, FiniteSetsExt

CONSTANTS
    Drafts,          \* assets as a caller proposes them
    Tasks,           \* [project, scope]: the tasks an asset is matched with
    Trials,          \* [trial, asset, baseline, shadow, regression, rescue, cost]
    Syndromes,       \* [syndrome, asset, class]
    Benefits,        \* [claimed, baseline, bound]: what an epoch claims
    Dependencies,    \* the lists of <<name, digest>> a tree can have
    MinTrials,       \* the trials a promotion asks for
    RetireAfter,     \* the epochs after which a negative value retires
    MaxEpoch,        \* bound: the last epoch
    MaxNotes,        \* bound: trials, syndromes, ledger entries and gates together
    MaxAmount,       \* the largest amount of a counter
    MaxCoordinates,  \* the coordinates of a resource vector
    MaxActions,      \* the actions of a portfolio
    ActionClaims,    \* claims with the evidence presented for them
    PlanDrafts,      \* plans without their actions
    BranchInputs,    \* [action, transaction, work, quality]
    BranchMaximum,   \* bound: branches completed for one plan
    SelectionClaims(_, _)  \* the claims presented for a plan and its branches

VARIABLES
    assets,          \* the assets by id
    trials,          \* the trials run so far, a list the caller keeps
    syndromes,       \* SyndromeStore
    entries,         \* AssetValueLedger
    epoch,           \* the current epoch
    tree,            \* the current dependency digests
    casGate,         \* the open CasCapabilityGate, if any
    used,            \* the outcome of the last call, if it used an asset or the gate
    chronicle,       \* per asset, the trials it was promoted on and how it ended,
                     \* which the code does not keep
    reinvestment,    \* the admitted plan, if any
    branches,        \* its completed branches
    settlement       \* the selection or the baseline record

assetVars == <<assets, trials, syndromes, entries, epoch, tree, casGate, used, chronicle>>
portfolioVars == <<reinvestment, branches, settlement>>
investmentVars == <<assetVars, portfolioVars>>

Least(a, b) == IF a <= b THEN a ELSE b

-----------------------------------------------------------------------------
(* Capability assets *)

Scope(s) == s.operation # "" /\ s.shape # ""

RootedPrecondition(p) == p.name # "" /\ p.root # ""

DependencyPin(p) == p.name # "" /\ p.digest # ""

FreshnessPolicy(f) == f.valid > 0

DistinctNames(list) == Cardinality({list[i].name : i \in DOMAIN list}) = Len(list)

(* CapabilityAsset::validate; terms are the entries of reads, writes and     *)
(* effects, duties the postcondition, verifier, successor and rollback.      *)
ValidAsset(a) ==
    /\ a.id # "" /\ a.project # ""
    /\ Scope(a.scope)
    /\ \A i \in DOMAIN a.preconditions : RootedPrecondition(a.preconditions[i])
    /\ DistinctNames(a.preconditions)
    /\ "" \notin a.terms
    /\ "" \notin a.duties
    /\ \A i \in DOMAIN a.pins : DependencyPin(a.pins[i])
    /\ DistinctNames(a.pins)
    /\ FreshnessPolicy(a.freshness)

AllowedAssetTransition(from, to) ==
    \/ <<from, to>> \in {<<"Captured", "Shadow">>, <<"Shadow", "Promoted">>, <<"Shadow", "Demoted">>,
                         <<"Promoted", "Demoted">>, <<"Promoted", "Expired">>}
    \/ to = "Revoked"

(* transition: refused when the state machine has no such edge. *)
Transition(i, to) ==
    /\ AllowedAssetTransition(assets[i].state, to)
    /\ assets' = [assets EXCEPT ![i].state = to]

Lapsed(a, now) == Least(a.freshness.captured + a.freshness.valid, MaxAmount) <= now

(* The first entry of the list names the current digest of a dependency. *)
PinHolds(pin, current) ==
    LET named == SelectSeq(current, LAMBDA e : e[1] = pin.name)
    IN named # <<>> /\ named[1][2] = pin.digest

MatchTask(a, task, now, current) ==
    CASE a.project # task.project -> "CrossProject"
      [] a.project = task.project /\ a.scope # task.scope -> "OutOfScope"
      [] a.project = task.project /\ a.scope = task.scope
         /\ \E i \in DOMAIN a.pins : ~PinHolds(a.pins[i], current) -> "StaleDependency"
      [] OTHER -> IF Lapsed(a, now) THEN "ExpiredFreshness" ELSE "Matched"

(* ShadowTrial::validate *)
ShadowTrial(t) == "" \notin {t.trial, t.asset, t.baseline, t.shadow}

Observed(a, list) == SelectSeq(list, LAMBDA t : t.asset = a.id)

CountIn(list, Test(_)) == Len(SelectSeq(list, Test))

EvaluatePromotion(a, list, minimum) ==
    LET seen == Observed(a, list)
        misses == CountIn(seen, LAMBDA t : t.baseline # t.shadow)
        regressions == CountIn(seen, LAMBDA t : t.regression)
        upkeep == Least(a.cost.upkeep * Len(seen), MaxAmount)
        trialCost == FoldSeq(LAMBDA t, sum : t.cost + sum, 0, seen)
    IN [promote |-> seen # <<>> /\ Len(seen) >= minimum /\ regressions = 0 /\ misses = 0,
        misses |-> misses, regressions |-> regressions,
        cost |-> Least(Least(a.cost.capture + upkeep, MaxAmount) + trialCost, MaxAmount)]

(* use_asset: the one place where an asset is admitted to execution. *)
UseAsset(a, match) ==
    IF a.state = "Promoted" /\ match = "Matched"
    THEN [kind |-> "Executable", added |-> 0]
    ELSE [kind |-> "BaselineRequired", added |-> Least(a.cost.capture + a.cost.upkeep, MaxAmount)]

(* Syndrome::validate *)
Syndrome(s) == "" \notin {s.syndrome, s.asset, s.class}

(* SyndromeStore::record: append-only, a repeated id is refused. *)
Recordable(s) == Syndrome(s) /\ \A i \in DOMAIN syndromes : syndromes[i].syndrome # s.syndrome

CertifiedLowerBound(b) == Scope(b.scope) /\ b.certificate # ""

(* record_benefit: the entry is appended with the clamped benefit, also when *)
(* the claim is above the allowance and the call returns an error.           *)
BenefitEntry(a, now, claim) ==
    [asset |-> a.id, epoch |-> now, capture |-> 0, upkeep |-> a.cost.upkeep,
     benefit |-> Least(claim.claimed, IF claim.baseline > claim.bound.minimum
                                      THEN claim.baseline - claim.bound.minimum ELSE 0)]

CaptureEntry(a) ==
    [asset |-> a.id, epoch |-> a.freshness.captured, capture |-> a.cost.capture, upkeep |-> 0, benefit |-> 0]

EntriesOf(i) == SelectSeq(entries, LAMBDA e : e.asset = i)

LifetimeValue(i) == FoldSeq(LAMBDA e, sum : e.benefit - e.upkeep - e.capture + sum, 0, EntriesOf(i))

(* retire_negative *)
RetireNegative(threshold) ==
    {i \in {entries[k].asset : k \in DOMAIN entries} :
        /\ Cardinality({EntriesOf(i)[k].epoch : k \in DOMAIN EntriesOf(i)}) >= threshold
        /\ LifetimeValue(i) < 0}

Live == {i \in DOMAIN assets : assets[i].state \in {"Promoted", "Shadow"}}

(* authorize_read of a gate, which holds a copy of its asset. *)
AuthorizeRead(g, content) ==
    /\ g.caller = g.asset.project
    /\ g.asset.state = "Promoted"
    /\ content = g.asset.scope.shape
    /\ ~Lapsed(g.asset, g.epoch)

Room == Len(trials) + Len(syndromes) + Len(entries) + Cardinality(casGate) < MaxNotes

Ended == {"Demoted", "Revoked", "Expired"}

Told(i, to) == [chronicle EXCEPT ![i].ended = @ \cup ({to} \cap Ended)]

(* CapabilityAsset::captured: an asset is born Captured. *)
Capture(d) ==
    /\ d.id \notin DOMAIN assets /\ ValidAsset(d)
    /\ assets' = assets @@ (d.id :> (d @@ [state |-> "Captured", reason |-> ""]))
    /\ chronicle' = chronicle @@ (d.id :> [evidence |-> <<>>, ended |-> {}])
    /\ UNCHANGED <<trials, syndromes, entries, epoch, tree, casGate>> /\ used' = {}

EnterShadow(i) ==
    /\ Transition(i, "Shadow")
    /\ UNCHANGED <<trials, syndromes, entries, epoch, tree, casGate, chronicle>> /\ used' = {}

RunTrial(t) ==
    /\ ShadowTrial(t) /\ Room
    /\ trials' = Append(trials, t)
    /\ UNCHANGED <<assets, syndromes, entries, epoch, tree, casGate, chronicle>> /\ used' = {}

(* The caller promotes after a passing decision, and demotes a shadow after  *)
(* a protected regression, which the reason of the denial demands.           *)
Promote(i) ==
    /\ EvaluatePromotion(assets[i], trials, MinTrials).promote
    /\ Transition(i, "Promoted")
    /\ chronicle' = [chronicle EXCEPT ![i].evidence = Observed(assets[i], trials)]
    /\ UNCHANGED <<trials, syndromes, entries, epoch, tree, casGate>> /\ used' = {}

Demote(i) ==
    /\ EvaluatePromotion(assets[i], trials, MinTrials).regressions > 0
    /\ Transition(i, "Demoted")
    /\ chronicle' = Told(i, "Demoted")
    /\ UNCHANGED <<trials, syndromes, entries, epoch, tree, casGate>> /\ used' = {}

Expire(i) ==
    /\ Lapsed(assets[i], epoch)
    /\ Transition(i, "Expired")
    /\ chronicle' = Told(i, "Expired")
    /\ UNCHANGED <<trials, syndromes, entries, epoch, tree, casGate>> /\ used' = {}

(* revoke_for: in every state, and again, with the new reason. *)
RevokeFor(i, trigger) ==
    /\ AllowedAssetTransition(assets[i].state, "Revoked")
    /\ assets' = [assets EXCEPT ![i].state = "Revoked", ![i].reason = trigger]
    /\ chronicle' = Told(i, "Revoked")
    /\ UNCHANGED <<trials, syndromes, entries, epoch, tree, casGate>> /\ used' = {}

(* record_for: the syndrome is stored, and a live asset is demoted. *)
RecordFor(s) ==
    /\ Recordable(s) /\ s.asset \in DOMAIN assets /\ Room
    /\ syndromes' = Append(syndromes, s)
    /\ IF s.asset \in Live
       THEN Transition(s.asset, "Demoted") /\ chronicle' = Told(s.asset, "Demoted")
       ELSE UNCHANGED <<assets, chronicle>>
    /\ UNCHANGED <<trials, entries, epoch, tree, casGate>> /\ used' = {}

RecordCapture(i) ==
    /\ Room
    /\ entries' = Append(entries, CaptureEntry(assets[i]))
    /\ UNCHANGED <<assets, trials, syndromes, epoch, tree, casGate, chronicle>> /\ used' = {}

RecordBenefit(i, claim) ==
    /\ Room
    /\ CertifiedLowerBound(claim.bound) /\ claim.bound.scope = assets[i].scope
    /\ entries' = Append(entries, BenefitEntry(assets[i], epoch, claim))
    /\ UNCHANGED <<assets, trials, syndromes, epoch, tree, casGate, chronicle>> /\ used' = {}

ApplyRetirement ==
    LET retired == RetireNegative(RetireAfter) \cap Live IN
    /\ retired # {}
    /\ \A i \in retired : AllowedAssetTransition(assets[i].state, "Demoted")
    /\ assets' = [i \in DOMAIN assets |-> IF i \in retired THEN [assets[i] EXCEPT !.state = "Demoted"] ELSE assets[i]]
    /\ chronicle' = [i \in DOMAIN chronicle |-> IF i \in retired THEN Told(i, "Demoted")[i] ELSE chronicle[i]]
    /\ UNCHANGED <<trials, syndromes, entries, epoch, tree, casGate>> /\ used' = {}

(* CasCapabilityGate::new takes the asset by value. *)
OpenGate(i, caller) ==
    /\ caller # "" /\ casGate = {} /\ Room
    /\ casGate' = {[asset |-> assets[i], caller |-> caller, epoch |-> epoch]}
    /\ UNCHANGED <<assets, trials, syndromes, entries, epoch, tree, chronicle>> /\ used' = {}

ReadThroughGate(content) ==
    /\ \E g \in casGate :
          used' = {[kind |-> IF AuthorizeRead(g, content) THEN "Read" ELSE "PolicyDenied",
                    asset |-> g.asset.id, task |-> [project |-> g.caller, scope |-> content]]}
    /\ UNCHANGED <<assets, trials, syndromes, entries, epoch, tree, casGate, chronicle>>

Use(i, task) ==
    /\ used' = {[kind |-> UseAsset(assets[i], MatchTask(assets[i], task, epoch, tree)).kind, asset |-> i, task |-> task]}
    /\ UNCHANGED <<assets, trials, syndromes, entries, epoch, tree, casGate, chronicle>>

(* The next epoch, perhaps with other dependencies. *)
Tick(current) ==
    /\ epoch < MaxEpoch
    /\ epoch' = epoch + 1 /\ tree' = current /\ used' = {}
    /\ UNCHANGED <<assets, trials, syndromes, entries, casGate, chronicle>>

AssetInit ==
    /\ assets = [i \in {} |-> 0] /\ chronicle = [i \in {} |-> 0]
    /\ trials = <<>> /\ syndromes = <<>> /\ entries = <<>>
    /\ epoch = 0 /\ casGate = {} /\ used = {}
    /\ tree = CHOOSE d \in Dependencies : TRUE

AssetNext ==
    \/ \E d \in Drafts : Capture(d)
    \/ \E t \in Trials : RunTrial(t)
    \/ \E s \in Syndromes : RecordFor(s)
    \/ ApplyRetirement
    \/ \E current \in Dependencies : Tick(current)
    \/ \E d \in Drafts : ReadThroughGate(d.scope.shape)
    \/ \E i \in DOMAIN assets :
          \/ EnterShadow(i) \/ Promote(i) \/ Demote(i) \/ Expire(i)
          \/ RevokeFor(i, "contract_change")
          \/ RecordCapture(i)
          \/ \E claim \in Benefits : RecordBenefit(i, claim)
          \/ \E task \in Tasks : Use(i, task) \/ OpenGate(i, task.project)

-----------------------------------------------------------------------------
(* Reinvestment: native resource vectors, sorted by counter *)

(* validate_counter_identity *)
Coordinate(c) == c.counter # 0 /\ c.boundary # ""

ValidVector(v) ==
    /\ v # <<>> /\ Len(v) <= MaxCoordinates
    /\ \A k \in DOMAIN v : Coordinate(v[k])
    /\ \A k \in 2 .. Len(v) : v[k - 1].counter < v[k].counter

(* NativeResourceVector::new sorts; a repeated counter is refused. *)
NewVector(list) ==
    {v \in {SortSeq(list, LAMBDA a, b : a.counter < b.counter)} : list # <<>> /\ ValidVector(v)}

SameCoordinates(v, w) ==
    /\ ValidVector(v) /\ ValidVector(w) /\ Len(v) = Len(w)
    /\ \A k \in DOMAIN v : v[k].counter = w[k].counter /\ v[k].boundary = w[k].boundary

CheckedAdd(v, w) ==
    IF SameCoordinates(v, w) /\ \A k \in DOMAIN v : v[k].amount + w[k].amount <= MaxAmount
    THEN {[k \in DOMAIN v |-> [v[k] EXCEPT !.amount = @ + w[k].amount]]} ELSE {}

CheckedSub(v, w) ==
    IF SameCoordinates(v, w) /\ \A k \in DOMAIN v : v[k].amount >= w[k].amount
    THEN {[k \in DOMAIN v |-> [v[k] EXCEPT !.amount = @ - w[k].amount]]} ELSE {}

ComponentwiseLe(v, w) == SameCoordinates(v, w) /\ \A k \in DOMAIN v : v[k].amount <= w[k].amount

AnyNonzero(v) == \E k \in DOMAIN v : v[k].amount # 0

(* Evidence over exactly the canonical claim, successful, of the verifier. *)
Proves(evidence, claim, verifier) ==
    evidence.success /\ evidence.payload = claim /\ evidence.verifier = verifier

ActionFields == {"scope", "comparison", "raw", "assembly", "state", "candidate", "transaction",
                 "isolation", "verifier"}

(* ReinvestmentActionClaim::validate *)
ValidActionClaim(c) ==
    /\ c.action # 0 /\ \A f \in ActionFields : c[f] # ""
    /\ c.kind # "HigherReasoningEffort"
    /\ ValidVector(c.reserved) /\ AnyNonzero(c.reserved)

(* verify_reinvestment_action against the admitted reasoning pair. *)
VerifiedAction(c, admission, evidence) ==
    /\ ValidActionClaim(c)
    /\ c.reasoning = admission /\ admission.sameClass
    /\ Proves(evidence, c, c.verifier)

PlanFields == {"scope", "comparison", "raw", "receipt", "assembly", "state"}

(* validate_plan_vectors *)
ValidPlanVectors(p) ==
    /\ \A v \in {p.additional, p.bound, p.reserve} : SameCoordinates(p.budget, v)
    /\ AnyNonzero(p.reserve)

(* validate_action_records *)
ValidActionRecords(p) ==
    /\ p.actions # <<>> /\ Len(p.actions) <= MaxActions
    /\ \A k \in DOMAIN p.actions :
          LET c == p.actions[k] IN
          /\ ValidActionClaim(c)
          /\ k > 1 => p.actions[k - 1].action < c.action
          /\ \A f \in PlanFields \ {"receipt"} : c[f] = p[f]
          /\ c.reasoning.baseline = p.reasoning
          /\ SameCoordinates(p.budget, c.reserved)

Total(vectors, first) ==
    FoldSeq(LAMBDA v, sum : UNION {CheckedAdd(s, v) : s \in sum}, first, vectors)

(* What the actions commit on top of a base, and what the budget leaves. *)
AccountingOver(p, bases) ==
    UNION {LET committed == Total([k \in DOMAIN p.actions |-> p.actions[k].reserved], {base})
               within == {x \in committed : ComponentwiseLe(x, p.budget)}
               beyond == {x \in committed \ within :
                            \E e \in CheckedAdd(p.budget, p.additional) : ComponentwiseLe(x, e)}
           IN {[slack |-> slack,
                position |-> IF within # {} THEN "WithinRawBaseline" ELSE "DeclaredAdditionalBudget"] :
                 slack \in IF within \cup beyond = {} THEN {} ELSE CheckedSub(p.budget, base)} :
           base \in bases}

(* A plausible slip: the fallback reserve is not set aside. *)
AccountingWithoutReserve(p) == AccountingOver(p, {p.bound})

(* compute_plan_accounting *)
PlanAccounting(p) == AccountingOver(p, CheckedAdd(p.bound, p.reserve))

(* admit_reinvestment_plan: the actions are sorted, the accounts computed,   *)
(* and the record validated as a whole.                                      *)
AdmittedPlan(p, claims) ==
    LET plan == p @@ [actions |-> SortSeq(claims, LAMBDA a, b : a.action < b.action)] IN
    IF /\ claims # <<>> /\ Len(claims) <= MaxActions
       /\ \A f \in PlanFields : p[f] # ""
       /\ ValidPlanVectors(plan) /\ ValidActionRecords(plan)
    THEN {plan @@ account : account \in PlanAccounting(plan)} ELSE {}

(* measured_work_vector: one receipt per reserved counter, within it. *)
MeasuredWork(work, assembly, reserved) ==
    IF Len(work) = Len(reserved) /\ \A k \in DOMAIN work : work[k].assembly = assembly
    THEN {v \in NewVector([k \in DOMAIN work |-> work[k].measured]) : ComponentwiseLe(v, reserved)}
    ELSE {}

ActionOf(p, a) == {p.actions[k] : k \in {n \in DOMAIN p.actions : p.actions[n].action = a}}

(* The transaction is the one of the action, on the plan's baseline, with    *)
(* nothing owed outside, and a recovered baseline is recovered in full.      *)
TransactionBinds(p, c, txn) ==
    /\ txn.action = c.transaction /\ txn.baseline = p.state /\ txn.debt = 0
    /\ txn.disposition = "BaselineRootRecovered" => txn.restoration = "DeclaredEffectClosure"

QualityBinds(p, c, q) ==
    /\ q.scope = p.scope /\ q.comparison = p.comparison /\ q.raw = p.raw /\ q.receipt = p.receipt
    /\ q.candidate = c.candidate

(* complete_reinvestment_branch *)
CompletedBranch(p, in) ==
    UNION {{[plan |-> p, action |-> in.action, transaction |-> in.transaction, measured |-> v, quality |-> in.quality] :
              v \in IF /\ TransactionBinds(p, c, in.transaction) /\ QualityBinds(p, c, in.quality)
                       /\ in.quality.selection = "Candidate" => in.transaction.disposition = "CandidateCommitted"
                    THEN MeasuredWork(in.work, p.assembly, c.reserved) ELSE {}} :
           c \in ActionOf(p, in.action)}

(* is_strictly_improved_candidate *)
StrictlyImproved(b) ==
    b.quality.selection = "Candidate" /\ b.quality.strict /\ b.transaction.disposition = "CandidateCommitted"

(* complete_branch_set: exactly one branch of this plan for every action. *)
CompleteBranchSet(p, set) ==
    /\ Cardinality(set) = Len(p.actions)
    /\ \A b \in set : b.plan = p
    /\ {b.action : b \in set} = {p.actions[k].action : k \in DOMAIN p.actions}

(* reinvestment_selection_claim *)
SelectionClaim(p, set, action, basis, relation, verifier) ==
    IF CompleteBranchSet(p, set)
    THEN {[plan |-> p, action |-> action, branch |-> b, branches |-> set, basis |-> basis,
           relation |-> relation, verifier |-> verifier] :
            b \in {x \in set : x.action = action /\ StrictlyImproved(x) /\ "" \notin {relation, verifier}}}
    ELSE {}

(* verify_reinvestment_action for each action, then admit_reinvestment_plan. *)
AdmitPlan(p, presented) ==
    /\ reinvestment = {}
    /\ \A k \in DOMAIN presented : VerifiedAction(presented[k].claim, presented[k].admission, presented[k].evidence)
    /\ reinvestment' = AdmittedPlan(p, [k \in DOMAIN presented |-> presented[k].claim])
    /\ reinvestment' # {}
    /\ UNCHANGED <<branches, settlement>>

(* An action may be run again: its branches differ in what was measured. *)
CompleteBranch(in) ==
    /\ Cardinality(branches) < BranchMaximum /\ settlement = {}
    /\ \E p \in reinvestment : \E b \in CompletedBranch(p, in) : branches' = branches \cup {b}
    /\ branches' # branches
    /\ UNCHANGED <<reinvestment, settlement>>

(* select_reinvestment_winner *)
SelectWinner(set) ==
    /\ settlement = {}
    /\ \E p \in reinvestment : \E presented \in SelectionClaims(p, set) :
          LET c == presented.claim IN
          /\ c \in SelectionClaim(p, set, c.action, c.basis, c.relation, c.verifier)
          /\ Proves(presented.evidence, c, c.verifier)
          /\ settlement' = {[kind |-> "Selected", branches |-> set, branch |-> {c.branch}]}
    /\ UNCHANGED <<reinvestment, branches>>

(* fall_back_reinvestment_portfolio *)
FallBack(set) ==
    /\ settlement = {}
    /\ \E p \in reinvestment : CompleteBranchSet(p, set)
    /\ settlement' = {[kind |-> "Baseline", branches |-> set, branch |-> {}]}
    /\ UNCHANGED <<reinvestment, branches>>

PortfolioInit == reinvestment = {} /\ branches = {} /\ settlement = {}

PortfolioNext ==
    \/ \E p \in PlanDrafts, presented \in SeqOf(ActionClaims, MaxActions) : AdmitPlan(p, presented)
    \/ \E in \in BranchInputs : CompleteBranch(in)
    \/ \E set \in SUBSET branches : SelectWinner(set) \/ FallBack(set)

-----------------------------------------------------------------------------
(* What must hold *)

(* An asset runs, in asset.rs use_asset, only for a task of its own project  *)
(* and scope, while its pins and its freshness hold, after at least MinTrials*)
(* shadow trials of it that all matched the baseline without a regression,   *)
(* and never after a syndrome, a retirement, a lapse or a revocation ended it*)
ExecutionIsEarned ==
    \A u \in used : u.kind = "Executable" =>
        LET a == assets[u.asset]
            seen == chronicle[u.asset].evidence
        IN /\ a.project = u.task.project /\ a.scope = u.task.scope
           /\ \A i \in DOMAIN a.pins : PinHolds(a.pins[i], tree)
           /\ epoch < a.freshness.captured + a.freshness.valid
           /\ Len(seen) >= MinTrials
           /\ \A k \in DOMAIN seen : seen[k].asset = a.id /\ seen[k].baseline = seen[k].shadow /\ ~seen[k].regression
           /\ chronicle[u.asset].ended = {}

(* A read through a capability gate is of the content the asset names, by    *)
(* its project, and the asset had been promoted on its trials.  (It may have *)
(* been demoted since: the gate holds a copy of it.)                         *)
ReadsAreEarned ==
    \A u \in used : u.kind = "Read" =>
        /\ u.task = [project |-> assets[u.asset].project, scope |-> assets[u.asset].scope.shape]
        /\ chronicle[u.asset].evidence # <<>>

(* A settled portfolio kept its budget: what its branches measured, with the *)
(* guarded bound of the candidate and the fallback reserve, stays within the *)
(* baseline, or within baseline and additional budget where the plan says so,*)
(* in every native coordinate; and a selected branch strictly improved.      *)
BudgetIsKept ==
    \A p \in reinvestment, s \in settlement :
        /\ \A k \in DOMAIN p.budget :
              p.bound[k].amount + p.reserve[k].amount + MapThenSumSet(LAMBDA b : b.measured[k].amount, s.branches)
                 <= p.budget[k].amount + (IF p.position = "WithinRawBaseline" THEN 0 ELSE p.additional[k].amount)
        /\ \A b \in s.branch : b.quality.strict /\ b.transaction.disposition = "CandidateCommitted"
                               /\ b.quality.raw = p.raw /\ b.transaction.baseline = p.state
        /\ \A k \in DOMAIN p.actions : \E b \in s.branches : b.action = p.actions[k].action

(* What is run, read or selected has been earned.                            *)
InvestmentsAreEarned == ExecutionIsEarned /\ ReadsAreEarned /\ BudgetIsKept

=============================================================================
