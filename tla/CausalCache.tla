----------------------------- MODULE CausalCache -----------------------------
(* Strict reuse of a cached artifact.  An influence closure certifies what   *)
(* an artifact depends on (zero-abi freshness.rs); an intake verifies the    *)
(* artifact's claim against its closure and its evidence and becomes an      *)
(* invalidation authority (invalidation.rs); the authority is bound to one   *)
(* cache line; and nine owners' components of that line decide whether the   *)
(* cached bytes may be reused (q99.rs).  A robust snap certificate enters    *)
(* through an intake of the same shape (robust_snap.rs).                     *)
(*                                                                           *)
(* A digest is the value it is computed from.  Evidence is what zero-cert    *)
(* has verified: a payload, the identity of the verifier and whether the     *)
(* build or test it reports succeeded.  Orders that only make an encoding    *)
(* canonical are sets.                                                       *)
EXTENDS Integers, Sequences, FiniteSets, SequencesExt

CONSTANTS
    Closures,       \* influence closures an engine may present
    ArtifactClaims, \* artifact claims; support is the digest of a closure
    Variations(_),  \* bindings that agree, or nearly, with an intake record
    Components(_),  \* the lists of components presented for a binding
    Evidences(_),   \* the evidence presented for a payload
    SnapIntakes,    \* pairs of a robust snap intake claim and a certificate
    IndexStates,    \* [generation, closure] an index may certify
    MinGeneration,  \* the generation a consumer insists on
    MaxHeld         \* bound: records, and bound authorities, a caller holds

VARIABLES
    records,        \* the intake records made so far
    bounds,         \* the authorities bound to a cache line
    decided         \* the last decision returned: its kind and its record

cacheVars == <<records, bounds, decided>>

-----------------------------------------------------------------------------
(* Influence closures *)

Ends(path) == <<path[1], path[Len(path)]>>

ValidWitness(certificate) ==
    /\ Len(certificate.path) >= 2
    /\ Ends(certificate.path) = <<certificate.edge.producer, certificate.edge.consumer>>

(* The heads are a function from repositories, so no repository has two.     *)
ValidClosure(c) ==
    /\ DOMAIN c.heads # {} /\ c.domains # {} /\ c.scope # {}
    /\ \A e \in c.edges : e.producer # e.consumer /\ {e.producer, e.consumer} \subseteq c.scope
    /\ \A d \in c.essential :
          /\ ValidWitness(d)
          /\ d.edge \in c.edges
          /\ \A i \in 1 .. Len(d.path) - 1 :
                \E e \in c.edges : <<e.producer, e.consumer>> = <<d.path[i], d.path[i + 1]>>
    /\ \A d, f \in c.essential : d.edge = f.edge => d = f

CompareHeads(required, actual) ==
    IF required = actual THEN "Exact"
    ELSE IF DOMAIN required \ DOMAIN actual # {} THEN "Missing"
    ELSE IF \E r \in DOMAIN required : actual[r] # required[r] THEN "Changed"
    ELSE "Extra"

CompareSets(required, actual) ==
    IF required \subseteq actual THEN "Unknown"
    ELSE IF actual \subseteq required THEN "IndexBehind" ELSE "Unknown"

DecideFreshness(required, indexed, generation) ==
    LET actual == indexed.closure
        heads == CompareHeads(required.heads, actual.heads)
    IN  CASE ~ValidClosure(required) \/ ~ValidClosure(actual) -> "Unknown"
          [] required.assembly # actual.assembly -> "Unknown"
          [] heads \in {"Missing", "Changed"} -> "IndexBehind"
          [] heads = "Extra" -> "Unknown"
          [] indexed.generation < generation -> "IndexBehind"
          [] actual.domains # required.domains -> CompareSets(required.domains, actual.domains)
          [] actual.scope # required.scope -> CompareSets(required.scope, actual.scope)
          [] actual.edges # required.edges -> CompareSets(required.edges, actual.edges)
          [] actual.essential # required.essential ->
                CompareSets(required.essential, actual.essential)
          [] OTHER -> "Fresh"

-----------------------------------------------------------------------------
(* Evidence and the intake of an artifact *)

(* verify_exact_successful_payload, and the verifier the claim names.        *)
Attests(evidence, payload, verifier) ==
    evidence.success /\ evidence.payload = payload /\ evidence.verifier = verifier

ValidArtifactClaim(c) ==
    /\ c.roots # {}
    /\ c.class = "Exact" => c.derivation # "OpaqueWholeUnit"

DispositionForSupport(class) ==
    CASE class \in {"Exact", "SoundOverapproximation"} -> "ProtectedSupport"
      [] class = "Heuristic" -> "RetrievalOnly"
      [] class = "Unknown" -> "Rejected"

AuthorityDigest(r) == <<r.claim, r.disposition, r.evidence, r.closure>>

ValidIntakeRecord(r) ==
    /\ ValidArtifactClaim(r.claim) /\ ValidClosure(r.closure)
    /\ r.claim.support = r.closure
    /\ r.disposition = DispositionForSupport(r.claim.class)

VerifyCausalArtifactIntake(claim, closure, evidence) ==
    LET r == [claim |-> claim, closure |-> closure, evidence |-> evidence,
              disposition |-> DispositionForSupport(claim.class)]
    IN  /\ ValidIntakeRecord(r)
        /\ Attests(evidence, <<claim, closure>>, claim.verifier)
        /\ Cardinality(records \cup {r}) <= MaxHeld
        /\ records' = records \cup {r}
        /\ UNCHANGED <<bounds, decided>>

-----------------------------------------------------------------------------
(* Binding an authority to a cache line *)

(* The binding that agrees with an authority in every field it shares.       *)
AgreedBinding(r, source, reasoning) ==
    [artifact |-> r.claim.artifact, owner |-> r.claim.owner, source |-> source,
     dependency |-> r.claim.support, producer |-> r.claim.producer, use |-> r.claim.use,
     reasoning |-> reasoning, scope |-> r.claim.scope, invalidation |-> AuthorityDigest(r),
     recovery |-> r.claim.recovery]

(* Only a protected support is an authority. *)
IsAuthority(r) == r.disposition = "ProtectedSupport"

Binds(r, b) ==
    /\ b = AgreedBinding(r, b.source, b.reasoning)
    /\ b.source \in r.claim.roots

BindCache(r, b) ==
    /\ IsAuthority(r)
    /\ Binds(r, b)
    /\ Cardinality(bounds) < MaxHeld
    /\ bounds' = bounds \cup {[binding |-> b, authority |-> AuthorityDigest(r),
                               class |-> r.claim.class]}
    /\ UNCHANGED <<records, decided>>

(* A plausible slip: the line is recognised by its certificate alone. *)
AuthorizesCertificate(bound, b) ==
    /\ DispositionForSupport(bound.class) = "ProtectedSupport"
    /\ b.invalidation = bound.authority

Authorizes(bound, b) ==
    /\ DispositionForSupport(bound.class) = "ProtectedSupport"
    /\ b.invalidation = bound.authority
    /\ b = bound.binding

-----------------------------------------------------------------------------
(* The nine coordinates of a cache line *)

Coordinates ==
    <<"Source", "Producer", "Graph", "Tokenization", "Rendering", "ProviderCache",
      "ReasoningContinuation", "Verifier", "Quality">>

ExpectedOwner(coordinate, owner) ==
    CASE coordinate = "Source" -> "FsZero"
      [] coordinate = "Producer" -> owner
      [] coordinate = "Graph" -> "GraphZero"
      [] coordinate \in {"Verifier", "Quality"} -> "ZeroStack"
      [] OTHER -> "TokenZero"

ValidFor(validity, coordinate) ==
    CASE validity = "Exact" -> coordinate \notin {"ProviderCache", "ReasoningContinuation"}
      [] validity = "SoundOverapproximation" -> coordinate = "Graph"
      [] validity = "ByteIdenticalPrefix" -> coordinate = "Rendering"
      [] validity \in {"ProviderEligible", "ProviderReportedHit"} -> coordinate = "ProviderCache"
      [] validity = "ExactReasoningContinuation" -> coordinate = "ReasoningContinuation"
      [] validity \in {"Approximate", "Unknown", "Invalid"} -> TRUE

ValidComponent(c) ==
    /\ c.owner = ExpectedOwner(c.coordinate, c.binding.owner)
    /\ ValidFor(c.validity, c.coordinate)

VerifiedComponent(c, evidence) == ValidComponent(c) /\ Attests(evidence, c, c.verifier)

Classify(components) ==
    LET Of(statuses) == {i \in DOMAIN components : components[i].validity \in statuses}
    IN  IF Of({"Invalid", "Unknown"}) # {} THEN "ReuseProhibited"
        ELSE IF Of({"Approximate", "ByteIdenticalPrefix"}) # {} THEN "TelemetryOnly"
        ELSE "StrictExactReuse"

Telemetry(components) ==
    LET Says(coordinate, statuses) ==
            \E i \in DOMAIN components :
                components[i].coordinate = coordinate /\ components[i].validity \in statuses
    IN  [eligible |-> Says("ProviderCache", {"ProviderEligible", "ProviderReportedHit"}),
         hit |-> Says("ProviderCache", {"ProviderReportedHit"}),
         continuation |-> Says("ReasoningContinuation", {"ExactReasoningContinuation"})]

ValidAssessment(a) ==
    /\ Len(a.components) = Len(Coordinates)
    /\ \A i \in DOMAIN a.components :
          ValidComponent(a.components[i]) /\ a.components[i].binding = a.binding
    /\ {a.components[i].coordinate : i \in DOMAIN a.components} = ToSet(Coordinates)
    /\ a.class = Classify(a.components)
    /\ a.telemetry = Telemetry(a.components)

(* The authority is asked about the binding of the first component; that the *)
(* others share it is checked with the finished assessment.                  *)
ValidateCausalCache(presented, bound) ==
    LET components == [i \in DOMAIN presented |-> presented[i].claim]
        a == [binding |-> components[1].binding, components |-> components,
              class |-> Classify(components), telemetry |-> Telemetry(components)]
    IN  /\ Len(presented) = Len(Coordinates)
        /\ \A i \in DOMAIN presented : VerifiedComponent(presented[i].claim, presented[i].evidence)
        /\ Authorizes(bound, a.binding)
        /\ ValidAssessment(a)
        /\ decided' = <<"reuse", a>>
        /\ UNCHANGED <<records, bounds>>

-----------------------------------------------------------------------------
(* Robust snaps: one effect for every world that is still possible (S0), or  *)
(* one per leaf of a tree of observations (S1).                              *)

CommonForWorlds(s, worlds) == {e \in UNION {s.protected[w] : w \in worlds} :
                                  \A w \in worlds : e \in s.protected[w]}

ValidS0(s) ==
    /\ s.tree = {}
    /\ Cardinality(s.selected) = 1
    /\ s.selected \subseteq CommonForWorlds(s, s.worlds) \cap s.selectable \cap s.expressible

ValidS1(s) ==
    /\ s.selected = {}
    /\ s.tree # {}
    /\ \A leaf \in s.tree :
          /\ leaf.path # <<>> /\ leaf.worlds # {} /\ leaf.worlds \subseteq s.worlds
          /\ leaf.effect \in CommonForWorlds(s, leaf.worlds) \cap s.expressible
    /\ \A k, l \in s.tree : k # l => k.worlds \cap l.worlds = {}
    /\ UNION {leaf.worlds : leaf \in s.tree} = s.worlds

ValidSnapCertificate(s) ==
    /\ s.worlds # {} /\ s.assumptions # {}
    /\ DOMAIN s.protected = s.worlds
    /\ CASE s.level = "S0" -> ValidS0(s)
         [] s.level = "S1" -> ValidS1(s)
         [] OTHER -> FALSE

VerifyRobustSnapIntake(claim, certificate, evidence) ==
    /\ ValidSnapCertificate(certificate)
    /\ claim.certificate = certificate
    /\ Attests(evidence, <<claim, certificate>>, claim.verifier)
    /\ decided' =
          <<"snap", [certificate |-> certificate,
                     complete |-> claim.fiber \in {"FiniteExact", "ConservativeSuperset"}]>>
    /\ UNCHANGED <<records, bounds>>

-----------------------------------------------------------------------------
(* What a consumer asks of the index, at any time. *)
AskFreshness(required, indexed) ==
    /\ decided' = <<"freshness", [required |-> required, indexed |-> indexed,
                      status |-> DecideFreshness(required, indexed, MinGeneration)]>>
    /\ UNCHANGED <<records, bounds>>

CacheInit == records = {} /\ bounds = {} /\ decided = <<>>

Decided(kind) == IF decided # <<>> /\ decided[1] = kind THEN {decided[2]} ELSE {}

(* A decision changes nothing that is held: a behaviour ends with its first.  *)
CacheNext ==
    /\ decided = <<>>
    /\ \/ \E claim \in ArtifactClaims, closure \in Closures :
             \E e \in Evidences(<<claim, closure>>) : VerifyCausalArtifactIntake(claim, closure, e)
       \/ \E r \in records : \E b \in Variations(r) : BindCache(r, b)
       \/ \E r \in records, bound \in bounds : \E b \in Variations(r) :
             \E presented \in Components(b) : ValidateCausalCache(presented, bound)
       \/ \E snap \in SnapIntakes : \E e \in Evidences(snap) :
             VerifyRobustSnapIntake(snap[1], snap[2], e)
       \/ \E required \in Closures, indexed \in IndexStates : AskFreshness(required, indexed)

CacheSpec == CacheInit /\ [][CacheNext]_cacheVars

-----------------------------------------------------------------------------
(* The effect a snap certificate selects once the world's observations are   *)
(* in.                                                                       *)
EffectIn(s, w) ==
    IF s.level = "S0" THEN s.selected
    ELSE {leaf.effect : leaf \in {l \in s.tree : w \in l.worlds}}

Reaches(edges, from, to) ==
    LET Succ(S) == S \cup {e.consumer : e \in {x \in edges : x.producer \in S}}
        R[n \in 0 .. Cardinality(edges)] == IF n = 0 THEN {from} ELSE Succ(R[n - 1])
    IN  to \in R[Cardinality(edges)]

(* Strict reuse is earned (q99.rs, invalidation.rs).  Whatever claims,       *)
(* closures, bindings, components and evidence are mixed, an artifact is     *)
(* reused strictly only for a line whose artifact, producer, use, closure    *)
(* and recovery route one verified intake with exact or overapproximated     *)
(* support names, whose source root is among the roots that intake declared, *)
(* and all nine of whose coordinates their owners attested for this line as  *)
(* exact in their own sense; provider telemetry alone never makes a line     *)
(* exact.  A complete robust snap selects in every world of its fiber        *)
(* exactly one effect, protected in that world and expressible.  An index is *)
(* fresh only when every essential dependency asked for really is a chain of *)
(* edges the index certifies for the heads asked for.                        *)
StrictReuseIsEarned ==
    /\ \A a \in Decided("reuse") : a.class = "StrictExactReuse" =>
          /\ \E r \in records :
                /\ a.binding.invalidation = AuthorityDigest(r)
                /\ r.claim.class \in {"Exact", "SoundOverapproximation"}
                /\ a.binding.source \in r.claim.roots
                /\ a.binding.dependency = r.closure
                /\ Attests(r.evidence, <<r.claim, r.closure>>, r.claim.verifier)
                /\ <<a.binding.artifact, a.binding.producer, a.binding.use, a.binding.recovery>>
                     = <<r.claim.artifact, r.claim.producer, r.claim.use, r.claim.recovery>>
          /\ \A k \in ToSet(Coordinates) : \E c \in ToSet(a.components) :
                /\ c.coordinate = k /\ c.binding = a.binding
                /\ c.owner = ExpectedOwner(k, a.binding.owner)
                /\ CASE k = "ReasoningContinuation" -> c.validity = "ExactReasoningContinuation"
                     [] k = "ProviderCache" -> a.telemetry.eligible
                     [] k = "Graph" -> c.validity \in {"Exact", "SoundOverapproximation"}
                     [] OTHER -> c.validity = "Exact"
    /\ \A s \in Decided("snap") : s.complete =>
          \A w \in s.certificate.worlds :
             /\ Cardinality(EffectIn(s.certificate, w)) = 1
             /\ EffectIn(s.certificate, w)
                  \subseteq s.certificate.protected[w] \cap s.certificate.expressible
    /\ \A f \in Decided("freshness") : f.status = "Fresh" =>
          /\ f.indexed.generation >= MinGeneration
          /\ f.indexed.closure.heads = f.required.heads
          /\ \A d \in f.required.essential :
                Reaches(f.indexed.closure.edges, d.edge.producer, d.edge.consumer)
=============================================================================
