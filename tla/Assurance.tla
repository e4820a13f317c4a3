------------------------------- MODULE Assurance -------------------------------
(***************************************************************************)
(* How the gate turns evidence into authority.                             *)
(*                                                                         *)
(*  program   program.rs, evidence.rs and aggregate.rs: five reports per   *)
(*            engine are read, one file at a time while their producers    *)
(*            may replace them, assembled into a Program proof per engine  *)
(*            and sealed into one aggregate receipt;                       *)
(*  registry  verifier_registry.rs: verifiers registered for a domain and  *)
(*            a protected dimension, trusted versions that move on, and    *)
(*            the two entry points that grant authority;                   *)
(*  budget    lib.rs: sandboxed attempts, their acceptance, and the gate   *)
(*            that doubles its budget until a proof or the raw fallback    *)
(*            ends it;                                                     *)
(*  review    release.rs and verdict.rs: public claims against the         *)
(*            supersession table, and verdicts of several verifiers.       *)
(*                                                                         *)
(* A digest is the tuple of the fields it commits to, <<>> the zero        *)
(* digest.                                                                 *)
(***************************************************************************)
EXTENDS Naturals, Sequences, FiniteSets, FiniteSetsExt, SequencesExt

CONSTANTS
    Version,        \* the current version of every contract
    ValidHeads,     \* heads of 40 to 64 lowercase hexadecimal digits
    MaxSteps,       \* MAX_PROGRAM_STEPS
    MaxObjects,     \* MAX_GC_OBJECTS
    MaxTools,       \* MAX_MCP_TOOLS
    MaxCalls,       \* MAX_MCP_CALLS
    Manifests,      \* evidence manifests an assembly is asked for
    FirstFiles,     \* the evidence files at first: path -> artifact
    Rewrites(_),    \* what a producer may put at a path
    MaxRewrites,    \* how often producers replace a file
    VerifierIds, VerifierVersions,
    Registrations,  \* registered offered to the registry
    Checklists, Deltas,
    Transitions, Successors, FutureActions,
    MaxTrustChanges,
    MaxRefs,        \* input roots, receipts, evidence of a dimension: 4096
    MaxEntries,     \* grades and checklist entries: 64
    BudgetBits,     \* the width of a budget, 128 in the code
    FirstBudgets, Required, Overheads,
    Runs,           \* evidence of verifier runs
    MaxAttempts,    \* attempts begun
    MaxArtifacts,   \* MAX_TASK_ARTIFACTS
    Tables, Claims, \* supersession tables and public claims
    Opinions,       \* verdicts of one verifier
    MaxOpinions,
    Subjective      \* lists of subjective dimensions

VARIABLES
    files, rewrites, assembly, aggregates,
    trusted, registered, changes, granted,
    gate, attempts, decisions, needed,
    opinions, ruling, approval

programVars == <<files, rewrites, assembly, aggregates>>
registryVars == <<trusted, registered, changes, granted>>
budgetVars == <<gate, attempts, decisions, needed>>
reviewVars == <<opinions, ruling, approval>>

NoDigest == <<>>
Engines == <<"fz", "gz", "tz">>
Classes == <<"planner", "worker", "mcp", "lifecycle", "gc">>

----------------------------------------------------------------------------
(* The five reports and what each commits to. *)

PlannerDigest(r) == <<"planner", r.schema, r.program, r.plan, r.steps>>

WorkerDigest(r) ==
    <<"worker", r.schema, r.program, r.worker, r.steps, r.closure, r.mcp, r.effects, r.output>>

McpDigest(r) == <<"mcp", r.schema, r.program, r.tools, r.calls, r.toolsDigest>>

LifecycleDigest(r) == <<"lifecycle", r.schema, r.program, r.transitions, r.steps, r.final>>

McpEvidence(r) == <<"mcpEvidence", r.tools, r.calls, r.toolsDigest>>

RunReceiptDigest(run) == <<"run", run.apply, run.state, run.deleted>>

\* The report of a collection without a binding commits to the base alone.
GcDigest(r) ==
    <<"gc", r.schema, r.program, r.collected, r.freed, r.afterClose,
      {<<a.runDigest, a.epochs, a.freed>> : a \in r.applied}>>

ReportDigest(class, r) ==
    CASE class = "planner" -> PlannerDigest(r)
      [] class = "worker" -> WorkerDigest(r)
      [] class = "mcp" -> McpDigest(r)
      [] class = "lifecycle" -> LifecycleDigest(r)
      [] class = "gc" -> GcDigest(r)

ProgramDigest(reports) == <<"program">> \o [i \in 1..Len(Classes) |-> reports[Classes[i]].digest]

\* The producers of a complete, applied run are the three engines, in order.
ValidAppliedGc(a) ==
    /\ a.run.apply
    /\ a.run.state = "Complete"
    /\ a.runDigest = RunReceiptDigest(a.run)
    /\ [i \in DOMAIN a.epochs |-> a.epochs[i][1]] = Engines
    /\ \A i \in DOMAIN a.epochs : a.epochs[i][2] > 0
    /\ IsInjective(a.run.deleted)

OneProgram(reports) == \A c \in DOMAIN reports : reports[c].program = reports["planner"].program

Synthetic(reports) ==
    \/ NoDigest \in {reports["planner"].program, reports["planner"].plan, reports["worker"].worker, reports["worker"].mcp,
                 reports["worker"].effects, reports["worker"].output, reports["mcp"].toolsDigest}
    \/ 0 \in {reports["planner"].steps, reports["worker"].steps, reports["lifecycle"].steps}

WithinBounds(reports) ==
    /\ reports["planner"].steps <= MaxSteps
    /\ reports["worker"].steps <= MaxSteps
    /\ reports["mcp"].tools <= MaxTools
    /\ reports["mcp"].calls <= MaxCalls
    /\ reports["gc"].collected <= MaxObjects

\* assemble: the conditions under which five reports prove a program. Its
\* reports are all present: the caller has attached one of each class.
Assembles(reports) ==
    LET worker == reports["worker"] lifecycle == reports["lifecycle"] gc == reports["gc"] IN
    /\ \A c \in DOMAIN reports : reports[c].schema = Version
    /\ OneProgram(reports)
    /\ ~Synthetic(reports)
    /\ \A c \in DOMAIN reports : reports[c].digest = ReportDigest(c, reports[c])
    /\ worker.closure = "Commit"
    /\ reports["planner"].steps = worker.steps
    /\ reports["planner"].steps = lifecycle.steps
    /\ lifecycle.transitions = lifecycle.steps + 2
    /\ lifecycle.final = "Closed"
    /\ worker.mcp = McpEvidence(reports["mcp"])
    /\ gc.afterClose
    /\ WithinBounds(reports)
    /\ gc.applied # {}
    /\ \A a \in gc.applied : /\ ValidAppliedGc(a)
                             /\ Len(a.run.deleted) = gc.collected
                             /\ a.freed = gc.freed

ProgramProof(reports) ==
    [id |-> reports["planner"].program, digest |-> ProgramDigest(reports),
     sources |-> [c \in DOMAIN reports |-> reports[c].digest]]

----------------------------------------------------------------------------
(* Evidence files, and the aggregate receipt made of three proofs. *)

ArtifactDigest(f) == <<"artifact", f.contract, f.schema, f.source, f.hub, f.report>>

\* exact: the bytes have the declared length and are the canonical encoding.
ValidArtifact(class, f, m) ==
    /\ f.schema = Version
    /\ f.contract = class
    /\ f.source = m.source
    /\ f.hub = m.hub
    /\ f.sha = ArtifactDigest(f)
    /\ f.exact

\* parse_report: a report has the fields of its class and no others.
Shaped(class, f) == f.report.class = class

ValidEvidenceManifest(m) ==
    /\ m.version = Version
    /\ {m.source, m.hub} \subseteq ValidHeads
    /\ m.assembly # NoDigest
    /\ DOMAIN m.engines = ToSet(Engines)

\* What holds before the files of the next engine are read.
EngineAdmitted(m, e) ==
    /\ m.engines[e].head \in ValidHeads
    /\ DOMAIN m.engines[e].files \subseteq ToSet(Classes)

SourceHeads(m) ==
    <<<<"ZeroStack", m.hub>>>> \o [i \in 1..Len(Engines) |-> <<Engines[i], m.engines[Engines[i]].head>>]

AggregateProgramDigest(proofs) == <<"aggregate">> \o [i \in DOMAIN proofs |-> proofs[i].digest]

ReceiptHead(r) == <<"head", r.version, r.program, r.assembly, r.heads, r.engines>>

ValidSourceHeads(heads) ==
    /\ heads # <<>>
    /\ \A i \in DOMAIN heads : heads[i][2] \in ValidHeads
    /\ IsInjective(heads)

\* Exactly the required engines and classes, each once and in order.
ValidAggregate(r) ==
    /\ r.version = Version
    /\ r.program # NoDigest
    /\ r.assembly # NoDigest
    /\ ValidSourceHeads(r.heads)
    /\ [i \in DOMAIN r.engines |-> r.engines[i].engine] = Engines
    /\ \A i \in DOMAIN r.engines :
          LET slots == r.engines[i].slots IN
          /\ [j \in DOMAIN slots |-> slots[j].class] = Classes
          /\ \A j \in DOMAIN slots : slots[j].evidence # NoDigest
    /\ r.head = ReceiptHead(r)

NewAggregate(m, evidence, proofs) ==
    LET body == [version |-> Version, program |-> AggregateProgramDigest(proofs), assembly |-> m.assembly,
                 heads |-> SourceHeads(m), engines |-> evidence, head |-> NoDigest]
    IN [body EXCEPT !.head = ReceiptHead(body)]

\* The slots are taken from the digests the reports carry, before assemble
\* recomputes them.
EngineEvidence(e, reports) ==
    [engine |-> e,
     slots |-> [i \in 1..Len(Classes) |-> [class |-> Classes[i], evidence |-> reports[Classes[i]].digest]]]

Idle == [phase |-> "idle"]

AtEngine(m, i, evidence, proofs) ==
    [phase |-> "loading", manifest |-> m, engine |-> i, class |-> 1, reports |-> [c \in {} |-> 0],
     evidence |-> evidence, proofs |-> proofs]

\* A producer replaces an evidence file, whoever may be reading.
Rewrite(path) ==
    /\ rewrites < MaxRewrites
    /\ \E f \in Rewrites(path) : f # files[path] /\ files' = [files EXCEPT ![path] = f]
    /\ rewrites' = rewrites + 1
    /\ UNCHANGED <<assembly, aggregates>>

\* assemble_program_evidence, up to its first read.
BeginAssembly(m) ==
    /\ assembly = Idle
    /\ aggregates' = {}
    /\ assembly' = IF ValidEvidenceManifest(m) /\ EngineAdmitted(m, Engines[1]) THEN AtEngine(m, 1, <<>>, <<>>) ELSE Idle
    /\ UNCHANGED <<files, rewrites>>

\* All five reports of an engine are attached: its slots and its proof, and
\* after the last engine the receipt.
CloseEngine(reports) ==
    LET m == assembly.manifest
        e == Engines[assembly.engine]
        evidence == Append(assembly.evidence, EngineEvidence(e, reports))
        proofs == Append(assembly.proofs, ProgramProof(reports))
        sealed == NewAggregate(m, evidence, proofs)
    IN CASE ~Assembles(reports) -> assembly' = Idle /\ UNCHANGED aggregates
         [] assembly.engine < Len(Engines) ->
              /\ assembly' = IF EngineAdmitted(m, Engines[assembly.engine + 1])
                             THEN AtEngine(m, assembly.engine + 1, evidence, proofs) ELSE Idle
              /\ UNCHANGED aggregates
         [] OTHER -> assembly' = Idle /\ aggregates' = {r \in {sealed} : ValidAggregate(r)}

\* One class: the manifest names its file, the file is read and checked, and
\* its report attached.
LoadReport ==
    /\ assembly.phase = "loading"
    /\ LET m == assembly.manifest
           class == Classes[assembly.class]
           sources == m.engines[Engines[assembly.engine]].files
       IN IF /\ class \in DOMAIN sources
             /\ sources[class] \in DOMAIN files
             /\ ValidArtifact(class, files[sources[class]], m)
             /\ Shaped(class, files[sources[class]])
          THEN LET reports == [c \in DOMAIN assembly.reports \cup {class} |->
                                 IF c = class THEN files[sources[class]].report ELSE assembly.reports[c]]
               IN IF assembly.class < Len(Classes)
                  THEN assembly' = [assembly EXCEPT !.class = @ + 1, !.reports = reports] /\ UNCHANGED aggregates
                  ELSE CloseEngine(reports)
          ELSE assembly' = Idle /\ UNCHANGED aggregates
    /\ UNCHANGED <<files, rewrites>>

ProgramInit ==
    /\ files = FirstFiles
    /\ rewrites = 0
    /\ assembly = Idle
    /\ aggregates = {}

\* No evidence is assembled in a behaviour of another machine.
ProgramAtRest ==
    /\ files = <<>>
    /\ rewrites = 0
    /\ assembly = Idle
    /\ aggregates = {}

ProgramNext ==
    \/ \E path \in DOMAIN files : Rewrite(path)
    \/ \E m \in Manifests : BeginAssembly(m)
    \/ LoadReport

----------------------------------------------------------------------------
(* The verifier registry. *)

ValidRecord(r) ==
    /\ r.version = Version
    /\ r.verifier # "" /\ r.build # ""
    /\ Cardinality(r.inputs) \in 1..MaxRefs /\ NoDigest \notin r.inputs
    /\ r.evidence # NoDigest
    /\ r.runtime > 0
    /\ Cardinality(DOMAIN r.grades) \in 1..MaxEntries
    /\ r.result = "Pass" => r.kind \in DOMAIN r.grades /\ r.grades[r.kind] # "Unknown"

SetTrustedVersion(v, build) ==
    /\ changes < MaxTrustChanges
    /\ trusted' = [i \in DOMAIN trusted \cup {v} |-> IF i = v THEN build ELSE trusted[i]]
    /\ changes' = changes + 1
    /\ granted' = {}
    /\ UNCHANGED registered

\* A key is registered once; nothing removes or replaces its record.
RegisterVerifier(r) ==
    /\ ValidRecord(r)
    /\ r.verifier \in DOMAIN trusted
    /\ <<r.domain, r.kind>> \notin DOMAIN registered
    /\ registered' = [k \in DOMAIN registered \cup {<<r.domain, r.kind>>} |->
                      IF k = <<r.domain, r.kind>> THEN r ELSE registered[k]]
    /\ granted' = {}
    /\ UNCHANGED <<trusted, changes>>

\* A record of a verifier that was trusted once in some version.
FreshInSomeVersion(r) == r.verifier \in DOMAIN trusted

Fresh(r) == r.verifier \in DOMAIN trusted /\ trusted[r.verifier] = r.build

\* lookup, freshness and the result of the run.
Authorises(domain, kind) ==
    /\ <<domain, kind>> \in DOMAIN registered
    /\ Fresh(registered[<<domain, kind>>])
    /\ registered[<<domain, kind>>].result = "Pass"

\* entries: a sequence of a dimension, whether it is required and the
\* evidence it refers to.
ValidChecklist(c) ==
    /\ c.version = Version
    /\ c.subject # NoDigest
    /\ Len(c.entries) \in 1..MaxEntries
    /\ \A i, j \in DOMAIN c.entries : c.entries[i].dimension = c.entries[j].dimension => i = j
    /\ \A e \in ToSet(c.entries) : /\ e.required => e.refs # {}
                                   /\ Cardinality(e.refs) <= MaxRefs
                                   /\ NoDigest \notin e.refs

EvidenceFor(c, dimension) == UNION {e.refs : e \in {x \in ToSet(c.entries) : x.dimension = dimension}}

AssertCurrentEffectAuthority(kind, delta, c) ==
    /\ Authorises("CurrentEffect", kind)
    /\ ValidChecklist(c)
    /\ delta = c.subject
    /\ delta \in registered[<<"CurrentEffect", kind>>].inputs
    /\ granted' = {[of |-> "effect", record |-> registered[<<"CurrentEffect", kind>>], delta |-> delta, checklist |-> c]}
    /\ UNCHANGED <<trusted, registered, changes>>

ValidFutureAction(a) ==
    /\ a.id # ""
    /\ a.contract # NoDigest
    /\ a.dimensions # <<>>
    /\ IsInjective(a.dimensions)

ValidTransition(t) ==
    /\ t.version = Version
    /\ NoDigest \notin {t.predecessor, t.claimed} \cup ToSet(t.receipts)
    /\ t.predecessor # t.claimed
    /\ Len(t.receipts) \in 1..MaxRefs

\* ProtectedScopeObligations: no dimension twice.
ValidObligations(list) == \A i, j \in DOMAIN list : list[i].dimension = list[j].dimension => i = j

ValidSuccessor(s) ==
    /\ s.root # NoDigest
    /\ ValidObligations(s.obligations)
    /\ ValidChecklist(s.checklist)
    /\ s.checklist.subject = s.root

\* A dimension without an obligation has grade Unknown.
Covered(s, dimension) ==
    /\ \E o \in ToSet(s.obligations) : o.dimension = dimension /\ o.grade # "Unknown"
    /\ EvidenceFor(s.checklist, dimension) # {}

RecomputeSuccessorRoot(predecessor, list) == <<"root", predecessor, list>>

\* The root of the successor is checked against its checklist only, not
\* against the recomputed one.
VerifySuccessorState(t, s, a) ==
    /\ Authorises("SuccessorState", "SuccessorState")
    /\ ValidTransition(t)
    /\ ValidSuccessor(s)
    /\ ValidFutureAction(a)
    /\ RecomputeSuccessorRoot(t.predecessor, t.receipts) = t.claimed
    /\ \A d \in ToSet(a.dimensions) : Covered(s, d)
    /\ granted' = {[of |-> "successor", record |-> registered[<<"SuccessorState", "SuccessorState">>],
                    predecessor |-> t.predecessor, successor |-> t.claimed, action |-> a, state |-> s,
                    evidence |-> t.receipts]}
    /\ UNCHANGED <<trusted, registered, changes>>

RegistryInit ==
    /\ trusted = [v \in {} |-> ""]
    /\ registered = [k \in {} |-> 0]
    /\ changes = 0
    /\ granted = {}

RegistryNext ==
    \/ \E v \in VerifierIds, b \in VerifierVersions : SetTrustedVersion(v, b)
    \/ \E r \in Registrations : RegisterVerifier(r)
    \/ \E k \in {r.kind : r \in Registrations}, d \in Deltas, c \in Checklists : AssertCurrentEffectAuthority(k, d, c)
    \/ \E t \in Transitions, s \in Successors, a \in FutureActions : VerifySuccessorState(t, s, a)

----------------------------------------------------------------------------
(* Sandboxed attempts and the doubling gate. *)

\* begin_task_attempt. An attempt, its receipt and its rollback are values
\* that are moved, so each has one owner.
BeginTaskAttempt(class, run) ==
    /\ attempts.begun < MaxAttempts
    /\ class # "Irreversible"
    /\ run.cost > 0
    /\ Max({Len(run.expected), Len(run.observed)}) <= MaxArtifacts
    /\ attempts' = [attempts EXCEPT !.begun = @ + 1, !.active = @ \cup {[id |-> attempts.begun, run |-> run]}]
    /\ UNCHANGED <<gate, decisions, needed>>

\* trusted: what the injected verifier says of the run.
Accepted(run) ==
    /\ run.exit = 0
    /\ run.expected = run.observed
    /\ run.trusted

VerifyTaskAcceptance(a) ==
    /\ attempts' = IF Accepted(a.run)
                   THEN [attempts EXCEPT !.active = @ \ {a}, !.receipts = @ \cup {a}]
                   ELSE [attempts EXCEPT !.active = @ \ {a}, !.rollbacks = @ \cup {a}]
    /\ UNCHANGED <<gate, decisions, needed>>

RollbackMissingReceipt(a) ==
    /\ attempts' = [attempts EXCEPT !.active = @ \ {a}, !.rollbacks = @ \cup {a}]
    /\ UNCHANGED <<gate, decisions, needed>>

NewGate(budget) ==
    /\ gate = {}
    /\ budget > 0
    /\ gate' = {[initial |-> budget, current |-> budget, cost |-> budget, rounds |-> 1, phase |-> "Active"]}
    /\ UNCHANGED <<attempts, decisions, needed>>

Terminate(g, decision) ==
    /\ gate' = {[g EXCEPT !.phase = "Terminal"]}
    /\ decisions' = Append(decisions, decision)

BudgetLimit == 2^BudgetBits - 1

\* A round is a doubling of at least one, so the budget overflows before the
\* count of rounds does.
Expand(g) ==
    LET budget == 2 * g.current IN
    IF budget > BudgetLimit \/ g.cost + budget > BudgetLimit
    THEN UNCHANGED <<gate, decisions>>
    ELSE /\ gate' = {[g EXCEPT !.current = budget, !.cost = @ + budget, !.rounds = @ + 1]}
         /\ decisions' = Append(decisions, [of |-> "Expand", receipt |-> {}])

\* Two proofs at once, or the receipt of an attempt for an irreversible effect.
Conflict(class, certified, receipt) == receipt # {} /\ (certified \/ class = "Irreversible")

\* decide: proofs first, then the budget. The receipt is moved into the call,
\* whatever comes of it. certified: verified evidence is given.
DecideGate(class, required, certified, receipt) ==
    \E g \in gate :
        /\ attempts' = [attempts EXCEPT !.receipts = @ \ receipt]
        /\ CASE g.phase = "Terminal" \/ Conflict(class, certified, receipt) -> UNCHANGED <<gate, decisions, needed>>
             [] OTHER ->
                  IF class = "Irreversible" \/ certified \/ receipt # {}
                  THEN /\ Terminate(g, [of |-> IF receipt # {} THEN "TaskVerified"
                                              ELSE IF certified THEN "Certified" ELSE "RawFallback",
                                        receipt |-> receipt])
                       /\ UNCHANGED needed
                  ELSE /\ needed' = Max({needed, required})
                       /\ IF required <= g.current
                          THEN Terminate(g, [of |-> "RawFallback", receipt |-> {}])
                          ELSE Expand(g)

\* The bits of a number, as counted from its leading zeros.
BitLength(n) == Min({e \in 0..BudgetBits : n < 2^e})

CeilLog2Ratio(n, d) == IF n <= d THEN 0 ELSE BitLength(n \div d + (IF n % d = 0 THEN 0 ELSE 1) - 1)

\* check_doubling_cost_bound, with the overhead of a round.
DoublingCostBound(g, hindsight, overhead) ==
    g.cost + overhead * g.rounds < 4 * hindsight + overhead * (CeilLog2Ratio(hindsight, g.initial) + 1)

BudgetInit ==
    /\ gate = {}
    /\ attempts = [begun |-> 0, active |-> {}, receipts |-> {}, rollbacks |-> {}]
    /\ decisions = <<>>
    /\ needed = 0

\* The gate tells irreversible effects from the others and no more.
TaskClasses == {"ReversibleMutation", "Irreversible"}

BudgetNext ==
    \/ \E class \in TaskClasses, run \in Runs : BeginTaskAttempt(class, run)
    \/ \E a \in attempts.active : VerifyTaskAcceptance(a) \/ RollbackMissingReceipt(a)
    \/ \E b \in FirstBudgets : NewGate(b)
    \/ \E class \in TaskClasses, n \in Required, c \in BOOLEAN, r \in {{}} \cup {{a} : a \in attempts.receipts} :
          DecideGate(class, n, c, r)

----------------------------------------------------------------------------
(* Verdicts of several verifiers, and the release of public claims. *)

\* reject and unknown: reasons are a set, none blank, at least one.
ValidOpinion(v) == v.of \in {"Reject", "Unknown"} => v.reasons # {} /\ "" \notin v.reasons

Grants(v) == v.of \in {"Equivalent", "Dominates"}

\* from_verifier_disagreement
Merge(a, b) ==
    CASE a.of = b.of -> [of |-> a.of, reasons |-> a.reasons \cup b.reasons]
      [] OTHER -> [of |-> "Unknown", reasons |-> {"verifier_disagreement", "left_kind=" \o a.of, "right_kind=" \o b.of}]

Consult(v) ==
    /\ Len(opinions) < MaxOpinions
    /\ ValidOpinion(v)
    /\ opinions' = Append(opinions, v)
    /\ ruling' = IF ruling = {} THEN {v} ELSE {Merge(r, v) : r \in ruling}
    /\ approval' = {}

\* The first dimension named twice, else the first that lacks a valid name
\* or a valid declared evaluator, calls for a decision.
NamedTwice(list) == {i \in DOMAIN list : \E j \in 1..(i - 1) : list[j].name = list[i].name}

Undeclared(list) == {i \in DOMAIN list : list[i].name = "" \/ list[i].evaluator \notin {{"valid"}}}

DecisionRequired(list) ==
    LET open == IF NamedTwice(list) # {} THEN NamedTwice(list) ELSE Undeclared(list)
    IN {list[i].name : i \in {Min(open) : x \in open}}

AdmitWithSubjectiveGate(list) ==
    /\ ruling # {}
    /\ approval' = {[of |-> "admission", dimensions |-> list, decision |-> DecisionRequired(list),
                     grants |-> DecisionRequired(list) = {} /\ \A v \in ruling : Grants(v)]}
    /\ UNCHANGED <<opinions, ruling>>

ClaimGates ==
    {"theorem_status_current", "provider_fact_date_current", "citation_resolved", "no_unsupported_q99_substitution",
     "benchmark_evidence_present", "checksums_present", "negative_results_recorded", "claim_scope_declared",
     "artifact_manifest_complete"}

\* table: a sequence of a formulation, what superseded it, and the reason.
ValidTable(table) ==
    /\ \A i \in DOMAIN table : table[i].id # "" /\ table[i].reason # ""
    /\ \A i, j \in DOMAIN table : table[i].id = table[j].id => i = j

Superseded(table, id) == \E i \in DOMAIN table : table[i].id = id /\ table[i].by # {}

ValidPublicClaim(c) ==
    /\ c.version = Version
    /\ "" \notin {c.id, c.formulation, c.scope}

ReleaseReasons(c, table) ==
    {g \in ClaimGates : ~c.gates[g]}
    \cup {x \in {"required_artifacts_missing"} : c.artifacts = {}}
    \cup {x \in {"provider_fact_date_missing"} : c.date = {}}
    \cup {x \in {"superseded_formulation"} : Superseded(table, c.formulation)}

\* ReleaseChecker::check; gate_names asks for exactly the nine gates.
CheckRelease(c, table) ==
    /\ ValidPublicClaim(c)
    /\ DOMAIN c.gates = ClaimGates
    /\ ValidTable(table)
    /\ approval' = {[of |-> "release", claim |-> c, table |-> table, approved |-> ReleaseReasons(c, table) = {}]}
    /\ UNCHANGED <<opinions, ruling>>

ReviewInit ==
    /\ opinions = <<>>
    /\ ruling = {}
    /\ approval = {}

ReviewNext ==
    \/ \E v \in Opinions : Consult(v)
    \/ \E list \in Subjective : AdmitWithSubjectiveGate(list)
    \/ \E c \in Claims, table \in Tables : CheckRelease(c, table)

----------------------------------------------------------------------------
(* Properties *)

\* An aggregate receipt is made of evidence that belongs together, however
\* producers replaced files while the fifteen were being read: per engine the
\* slots name reports of one program, as many steps planned as executed and
\* closed, a committed worker whose MCP evidence is the report in the next
\* slot, and a collection applied after the close over all three engines.
ReceiptsAreEarned ==
    \A r \in aggregates : \A i \in 1..Len(Engines) :
        LET d == [j \in 1..Len(Classes) |-> r.engines[i].slots[j].evidence] IN
        /\ \A j \in 2..Len(Classes) : d[j][3] = d[1][3]
        /\ d[1][5] = d[2][5] /\ d[1][5] = d[4][5]
        /\ d[2][6] = "Commit"
        /\ d[2][7] = <<"mcpEvidence", d[3][4], d[3][5], d[3][6]>>
        /\ d[4][6] = "Closed"
        /\ d[5][6] = TRUE
        /\ \E a \in d[5][7] : [k \in DOMAIN a[2] |-> a[2][k][1]] = Engines
        /\ r.program[i + 1] = <<"program">> \o d

\* Authority is granted on a verifier that is trusted at its version now, on
\* a run that passed and, for an effect, on exactly the delta it verified and
\* the checklist binds; a successor's receipt names the root its receipts
\* lead to, and every dimension its action needs has a grade and evidence.
AuthorityIsCurrent ==
    \A g \in granted :
        /\ g.record \in {registered[k] : k \in DOMAIN registered}
        /\ g.record.verifier \in DOMAIN trusted /\ trusted[g.record.verifier] = g.record.build
        /\ g.record.result = "Pass"
        /\ g.of = "effect" => g.delta \in g.record.inputs /\ g.checklist.subject = g.delta
        /\ g.of = "successor" =>
              /\ g.successor = RecomputeSuccessorRoot(g.predecessor, g.evidence)
              /\ \A d \in ToSet(g.action.dimensions) :
                    /\ \E e \in ToSet(g.state.checklist.entries) : e.dimension = d /\ e.refs # {}
                    /\ \E o \in ToSet(g.state.obligations) : o.dimension = d /\ o.grade # "Unknown"

\* The gate pays less than four times the largest budget it was asked for,
\* plus the overhead of the rounds that budget needs, as long as it did not
\* start at four times that budget or more.
DoublingIsBounded ==
    \A g \in gate : 4 * needed > g.initial => \A q \in Overheads : DoublingCostBound(g, needed, q)

\* An attempt has one end: a receipt, a rollback or the one decision that
\* used its receipt; a gate that has decided decides nothing more; and a
\* receipt stands for a clean run with the artifacts that were expected.
AttemptsEndOnce ==
    LET used == UNION {decisions[i].receipt : i \in DOMAIN decisions} IN
    /\ \A a, b \in attempts.active \cup attempts.receipts \cup attempts.rollbacks \cup used : a.id = b.id => a = b
    /\ attempts.active \cap attempts.receipts = {} /\ attempts.active \cap attempts.rollbacks = {}
    /\ used \cap (attempts.active \cup attempts.receipts \cup attempts.rollbacks) = {}
    /\ attempts.receipts \cap attempts.rollbacks = {}
    /\ \A a \in attempts.receipts \cup used : a.run.exit = 0 /\ a.run.observed = a.run.expected
    /\ \A i \in DOMAIN decisions : i < Len(decisions) => decisions[i].of = "Expand"
    /\ \A i, j \in DOMAIN decisions : decisions[i].receipt \cap decisions[j].receipt # {} => i = j

\* A ruling grants authority exactly when every verifier gave one and the
\* same granting verdict, in whatever order they were merged; an admission
\* needs every subjective dimension declared, once; and an approved claim has
\* all gates and rests on a formulation nothing has superseded.
ReviewsAreUnanimous ==
    /\ \A v \in ruling : Grants(v) <=> \A i \in DOMAIN opinions : Grants(opinions[i]) /\ opinions[i].of = opinions[1].of
    /\ \A a \in approval :
          /\ a.of = "admission" /\ a.grants =>
                /\ \A i, j \in DOMAIN a.dimensions : a.dimensions[i].name = a.dimensions[j].name => i = j
                /\ \A i \in DOMAIN a.dimensions : a.dimensions[i].evaluator = {"valid"}
                /\ \A i \in DOMAIN opinions : Grants(opinions[i])
          /\ a.of = "release" /\ a.approved =>
                /\ \A g \in ClaimGates : a.claim.gates[g]
                /\ \A i \in DOMAIN a.table : a.table[i].id = a.claim.formulation => a.table[i].by = {}

\* Reports become receipts, verifiers authority, attempts decisions and
\* claims releases only as earned.
AssuranceIsEarned ==
    ReceiptsAreEarned /\ AuthorityIsCurrent /\ DoublingIsBounded /\ AttemptsEndOnce /\ ReviewsAreUnanimous

=============================================================================
