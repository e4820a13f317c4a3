------------------------------- MODULE Quality -------------------------------
(***************************************************************************)
(* The quality envelope of zero-gate (quality.rs): which evidence about a  *)
(* candidate protocol, compared with the frozen raw baseline, lets the     *)
(* strict path select the candidate, and which only selects the baseline.  *)
(*                                                                         *)
(* An optional digest is a set of at most one value.  A digest is the      *)
(* record it commits to, so two digests are equal exactly when everything  *)
(* they commit to is; a zero digest is outside every type.                 *)
(***************************************************************************)
EXTENDS Integers, Sequences

(***************************************************************************)
(* The strict comparison of two reasoning contracts: everything that       *)
(* identifies the model's invocation is equal, no reserve shrinks.         *)
(***************************************************************************)
ExactFields == {"model", "mode", "policy", "invocation"}

Reserves == {"output", "thinking", "visible", "recovery"}

ValidContract(c) == c.output > 0 /\ c.visible <= c.output

StrictNoDownshift(baseline, candidate) ==
    /\ ValidContract(baseline) /\ ValidContract(candidate)
    /\ ~baseline.downshift /\ ~candidate.downshift
    /\ \A f \in ExactFields : baseline[f] = candidate[f]
    /\ \A f \in Reserves : candidate[f] >= baseline[f]

(***************************************************************************)
(* A protected metric compares one number of the baseline with the same    *)
(* number of the candidate.                                                *)
(***************************************************************************)
NoWorse(m) ==
    CASE m.order = "AtLeast" -> m.candidate >= m.baseline
      [] m.order = "AtMost"  -> m.candidate <= m.baseline
      [] m.order = "Exact"   -> m.candidate = m.baseline

StrictlyBetter(m) ==
    CASE m.order = "AtLeast" -> m.candidate > m.baseline
      [] m.order = "AtMost"  -> m.candidate < m.baseline
      [] m.order = "Exact"   -> FALSE

(* Metric identifiers are numbers in their byte order. *)
DeclaredParetoVector(dimensions) ==
    /\ dimensions # <<>>
    /\ \A i \in DOMAIN dimensions : NoWorse(dimensions[i])
    /\ \A i \in 1 .. Len(dimensions) - 1 : dimensions[i].id < dimensions[i + 1].id

ValidPair(p) ==
    /\ p.raw # p.candidate
    /\ DeclaredParetoVector(p.dimensions)

(***************************************************************************)
(* The four certificates.  Each is refused, the empty set, or minted from  *)
(* a claim whose exact bytes a verified evidence carries (payload).        *)
(***************************************************************************)
Minted(valid, certificate) == IF valid THEN {certificate} ELSE {}

(* A field that both sides state: <<baseline, candidate>>. *)
Same(sides) == sides[1] = sides[2]

ExactNeutral(p) ==
    Minted(p.raw # p.candidate /\ Same(p.continuation) /\ Same(p.input) /\ Same(p.outcome),
           [class |-> "ExactNeutral", scope |-> p.task, comparison |-> p.comparison,
            raw |-> p.raw, candidate |-> p.candidate, outcome |-> {p.outcome[1]},
            better |-> FALSE])

PointwisePair(p, payload) ==
    Minted(ValidPair(p) /\ payload = p,
           [class |-> "PointwiseDominance", scope |-> p.task, comparison |-> p.comparison,
            raw |-> p.raw, candidate |-> p.candidate, outcome |-> {p.outcome[1]},
            better |-> \E i \in DOMAIN p.dimensions : StrictlyBetter(p.dimensions[i])])

ScopedClass(rule, membership, rulePayload, membershipPayload) ==
    Minted(/\ rule.class = membership.class
           /\ rule.protocol = membership.protocol
           /\ rulePayload = rule
           /\ membershipPayload = membership,
           [class |-> "ScopedClassDominance", scope |-> membership.task,
            comparison |-> rule.comparison, raw |-> rule.raw,
            candidate |-> rule.protocol, outcome |-> {}, better |-> rule.better])

(* The mean is truncated toward zero; scale stands for a million parts. *)
Toward0(n, d) == IF n >= 0 THEN n \div d ELSE -((-n) \div d)

ValidDistributional(claim, scale) ==
    /\ claim.tasks # 0
    /\ claim.wins + claim.losses + claim.ties = claim.tasks
    /\ claim.confidence \in 1 .. scale - 1
    /\ claim.lower \in 1 .. claim.mean
    /\ claim.mean = Toward0((claim.wins - claim.losses) * scale, claim.tasks)

Distributional(claim, payload, scale) ==
    Minted(ValidDistributional(claim, scale) /\ payload = claim,
           [class |-> "Distributional", scope |-> claim.benchmark,
            comparison |-> claim.comparison, raw |-> claim.raw,
            candidate |-> claim.protocol, outcome |-> {claim.outcome}, better |-> FALSE])

Unidentified(scope, comparison, candidate, baseline) ==
    [class |-> "Unidentified", scope |-> scope, comparison |-> comparison,
     raw |-> baseline.identity, candidate |-> candidate,
     outcome |-> {baseline.outcome}, better |-> FALSE]

(***************************************************************************)
(* The strict admission: population evidence and missing evidence select   *)
(* the frozen baseline; the three others the candidate.                    *)
(***************************************************************************)
Selection(class) ==
    IF class \in {"ExactNeutral", "PointwiseDominance", "ScopedClassDominance"}
    THEN "Candidate" ELSE "FrozenBaseline"

Guarantee(class) ==
    CASE class = "ExactNeutral"         -> "ExactSubstitution"
      [] class = "PointwiseDominance"   -> "PointwiseNoWorse"
      [] class = "ScopedClassDominance" -> "ScopedClassNoWorse"
      [] class = "Distributional"       -> "DistributionalOnly"
      [] class = "Unidentified"         -> "Unidentified"

AdmitStrict(c, baseline) ==
    Minted(c.raw = baseline.identity /\ c.outcome \subseteq {baseline.outcome},
           [class |-> c.class, scope |-> c.scope, comparison |-> c.comparison,
            raw |-> c.raw, candidate |-> c.candidate,
            selection |-> Selection(c.class), guarantee |-> Guarantee(c.class),
            better |-> c.better, receipt |-> baseline.receipt])

CoherentAdmission(a) ==
    /\ a.selection = Selection(a.class)
    /\ a.guarantee = Guarantee(a.class)
    /\ a.better => a.class \in {"PointwiseDominance", "ScopedClassDominance"}
=============================================================================
