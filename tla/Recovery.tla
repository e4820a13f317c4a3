------------------------------ MODULE Recovery ------------------------------
(***************************************************************************)
(* Dominance-complete recovery (zero-gate/src/recovery.rs): while several   *)
(* worlds are possible, the controller either certifies effects that are    *)
(* safe in all of them, or selects the next query, or falls back to the raw *)
(* baseline.  An observation conditions the problem, which has to be proved *)
(* again before the next decision.                                          *)
(*                                                                          *)
(* Sets stand for the strictly ordered vectors and the bit masks over them; *)
(* queries keep their order, which breaks ties.  Digests that are copied    *)
(* but never compared are left out.                                         *)
(***************************************************************************)
EXTENDS Integers, Sequences, FiniteSets, FiniteSetsExt, SequencesExt, Functions

CONSTANTS Problems,          \* the problems a caller starts with
          Surfaces,          \* the effect surfaces a model may have
          Routes,            \* verifier identities
          MaxQueryTrace,     \* DCR_MAX_QUERY_TRACE
          MaxHypergraph,     \* DCR_MAX_HYPERGRAPH_STATES
          MaxInteger         \* the largest u128

VARIABLES dcr,       \* the current problem
          world,     \* the world that is the case, which nobody knows
          verdict    \* the controller's last decision on dcr

dcrVars == <<dcr, world, verdict>>

-----------------------------------------------------------------------------
\* Checked arithmetic: a set of at most one value, empty after an overflow.
Checked(n) == IF n <= MaxInteger THEN {n} ELSE {}

gcd[a \in Nat, b \in Nat] == IF b = 0 THEN (IF a = 0 THEN 1 ELSE a) ELSE gcd[b, a % b]

Rational(n, d) ==
    {[numerator |-> x \div gcd[x, y], denominator |-> y \div gcd[x, y]] :
        x \in Checked(n), y \in Checked(d)}
Zero == [numerator |-> 0, denominator |-> 1]

RationalAdd(x, y) ==
    LET common == gcd[x.denominator, y.denominator]
        left   == y.denominator \div common
        right  == x.denominator \div common
    IN  IF Checked(x.numerator * left) = {} \/ Checked(y.numerator * right) = {}
        THEN {}
        ELSE Rational(x.numerator * left + y.numerator * right, x.denominator * left)

MulFraction(x, n, d) ==
    LET left  == gcd[x.numerator, d]
        right == gcd[n, x.denominator]
    IN  Rational((x.numerator \div left) * (n \div right), (x.denominator \div right) * (d \div left))

\* A plausible slip: a query that costs as much as the baseline replaces it.
IsNotMore(x, y) ==
    LET common == gcd[x.denominator, y.denominator]
    IN  {l <= r : l \in Checked(x.numerator * (y.denominator \div common)),
                  r \in Checked(y.numerator * (x.denominator \div common))}

\* compare: empty when a cross product overflows.
IsLess(x, y) ==
    LET common == gcd[x.denominator, y.denominator]
    IN  {l < r : l \in Checked(x.numerator * (y.denominator \div common)),
                 r \in Checked(y.numerator * (x.denominator \div common))}

-----------------------------------------------------------------------------
\* DominanceRecoveryProblem::validate_query and validate.
ValidQuery(p, q) ==
    /\ q.cost > 0 /\ Cardinality(q.cells) >= 2 /\ {} \notin q.cells
    /\ UNION q.cells = p.worlds
    /\ \A c, d \in q.cells : c # d => c \cap d = {}

ValidProblem(p) ==
    /\ p.worlds # {}
    /\ DOMAIN p.protected = p.worlds /\ DOMAIN p.weight = p.worlds /\ DOMAIN p.raw = p.worlds
    /\ \A w \in p.worlds : p.protected[w] # {} /\ p.weight[w] > 0 /\ p.raw[w] > 0
    /\ \A i, j \in DOMAIN p.queries : i # j => p.queries[i].id # p.queries[j].id
    /\ \A i \in DOMAIN p.queries : ValidQuery(p, p.queries[i])
    /\ Len(p.trace) <= MaxQueryTrace /\ IsInjective(p.trace)

\* condition_on: the worlds of the observed cell, the queries that still tell two
\* of them apart, and the caller's new surface and route.
Narrowed(q, keep) == [q EXCEPT !.cells = {c \cap keep : c \in q.cells} \ {{}}]

Conditioned(p, q, cell, surface, route) ==
    [p EXCEPT !.worlds = cell,
              !.protected = Restrict(@, cell), !.weight = Restrict(@, cell), !.raw = Restrict(@, cell),
              !.queries = SelectSeq([i \in DOMAIN @ |-> Narrowed(@[i], cell)],
                                    LAMBDA n : Cardinality(n.cells) >= 2),
              !.surface = surface, !.route = route,
              !.trace = Append(@, <<q.id, cell>>)]

-----------------------------------------------------------------------------
\* common_effects, and the weights and costs of a set of worlds.
CommonEffects(p, S) == {e \in p.surface : \A w \in S : e \in p.protected[w]}

MaskWeight(p, S) == FoldFunctionOnSet(+, 0, p.weight, S)

BaselineCost(p, S) ==
    LET charge == [w \in p.worlds |-> p.weight[w] * p.raw[w]]
    IN  Rational(FoldFunctionOnSet(+, 0, charge, S), MaskWeight(p, S))

\* conflict_hyperedges: the minimal sets of worlds without a common effect, one
\* world dropped at a time.
Hyperedges(p) ==
    {S \in (SUBSET p.worlds) \ {{}} :
        /\ CommonEffects(p, S) = {}
        /\ \A w \in S : CommonEffects(p, S \ {w}) # {}}

QueryChildren(S, q) == {c \cap S : c \in q.cells} \ {{}, S}

\* solve: the cheapest plan of every set of worlds, with the query it starts with
\* (0 for the raw baseline); the first of equal queries stays, and one overflow
\* leaves no plan at all.  Overflow apart, the order of the cells is immaterial.
Solve(p) ==
    LET node[S \in SUBSET p.worlds] ==
            LET children(i) == QueryChildren(S, p.queries[i])
                charge(c, sums) ==
                    UNION {UNION {RationalAdd(s, x) :
                                     x \in MulFraction(n.cost, MaskWeight(p, c), MaskWeight(p, S))} :
                              s \in sums, n \in node[c]}
                expected(i) ==
                    FoldSet(charge, {[numerator |-> p.queries[i].cost, denominator |-> 1]}, children(i))
                better(best, i) ==
                    IF Cardinality(children(i)) < 2 THEN best
                    ELSE UNION {{IF less THEN [cost |-> x, choice |-> i] ELSE b :
                                    less \in IsLess(x, b.cost)} : x \in expected(i), b \in best}
            IN  IF CommonEffects(p, S) # {} THEN {[cost |-> Zero, choice |-> 0]}
                ELSE FoldLeft(better, {[cost |-> c, choice |-> 0] : c \in BaselineCost(p, S)},
                              [i \in DOMAIN p.queries |-> i])
    IN  node

-----------------------------------------------------------------------------
\* DominanceCompleteRecoveryCertificate: what mint binds and validate replays.
Mint(p, effects, route) == [problem |-> p, effects |-> effects, verifier |-> route]

ValidCertificate(c) ==
    /\ ValidProblem(c.problem) /\ c.problem.status # "Unknown"
    /\ c.effects # {} /\ c.effects = CommonEffects(c.problem, c.problem.worlds)
    /\ c.problem.route = c.verifier

Undecided == [kind |-> "none"]
Unknown(reason) == [kind |-> "Unknown", reason |-> reason]

\* dominance_complete_recover, in the order of its early returns.  The bound on
\* the plans (DCR_MAX_DP_STATES) equals the one on the hypergraph, which counts as
\* many sets, and is never met after it.
Decide(p) ==
    LET all        == p.worlds
        common     == CommonEffects(p, all)
        admissible == {i \in DOMAIN p.queries : Cardinality(QueryChildren(all, p.queries[i])) >= 2}
        plan       == Solve(p)[all]
    IN  CASE p.status = "Unknown" -> Unknown("FiberUnknown")
          [] OTHER ->
             IF common # {} THEN [kind |-> "Complete", certificate |-> Mint(p, common, p.route)]
             ELSE IF BaselineCost(p, all) = {} THEN Unknown("CostArithmeticOverflow")
             ELSE IF 2 ^ Cardinality(all) - 1 > MaxHypergraph THEN Unknown("AnalysisBoundExceeded")
             ELSE IF admissible = {} THEN Unknown("NoSoundQuery")
             ELSE IF plan = {} THEN Unknown("CostArithmeticOverflow")
             ELSE LET best == CHOOSE n \in plan : TRUE IN
                  IF best.choice = 0 THEN Unknown("RawBaselineCheaperOrEqual")
                  ELSE [kind |-> "Conflict", query |-> p.queries[best.choice], cost |-> best.cost,
                        conflicts |-> Hyperedges(p)]

\* verify_problem_evidence and the verifier route.
Evidence == [query : {"BuildReceipt", "TestTrace", "Other"}, exit_code : 0..1, route : Routes,
             exact : BOOLEAN]
VerifyEvidence(p, e) ==
    /\ e.query \in {"BuildReceipt", "TestTrace"} /\ e.exit_code = 0
    /\ e.exact          \* its payload is the problem as it is now
    /\ e.route = p.route

Recover ==
    /\ verdict = Undecided /\ ValidProblem(dcr)
    /\ \E e \in Evidence : VerifyEvidence(dcr, e)
    /\ verdict' = Decide(dcr)
    /\ UNCHANGED <<dcr, world>>

\* The selected query is asked of the world and its answer applied.
Observe(surface, route) ==
    /\ verdict.kind = "Conflict"
    /\ LET cell == CHOOSE c \in verdict.query.cells : world \in c
           next == Conditioned(dcr, verdict.query, cell, surface, route)
       IN  ValidProblem(next) /\ dcr' = next
    /\ verdict' = Undecided /\ UNCHANGED world

RecoveryInit ==
    /\ dcr \in Problems /\ ValidProblem(dcr) /\ world \in dcr.worlds
    /\ verdict = Undecided

RecoveryNext == Recover \/ \E s \in Surfaces, r \in Routes : Observe(s, r)

RecoverySpec == RecoveryInit /\ [][RecoveryNext]_dcrVars

-----------------------------------------------------------------------------
\* The reference: the least weighted cost of any plan, in integers.
RawTotal(p, S) == FoldFunctionOnSet(+, 0, [w \in p.worlds |-> p.weight[w] * p.raw[w]], S)

Optimum(p) ==
    LET opt[S \in SUBSET p.worlds] ==
            LET asked == {q \in Range(p.queries) : Cardinality(QueryChildren(S, q)) >= 2}
                total(q) == q.cost * MaskWeight(p, S)
                            + FoldSet(LAMBDA c, sum : sum + opt[c], 0, QueryChildren(S, q))
            IN  IF CommonEffects(p, S) # {} THEN 0
                ELSE Min({RawTotal(p, S)} \cup {total(q) : q \in asked})
    IN  opt[p.worlds]

\* What acting on a decision costs, weighted.
Price(p, d) ==
    CASE d.kind = "Complete" -> 0
      [] d.kind = "Unknown"  -> RawTotal(p, p.worlds)
      [] d.kind = "Conflict" -> (d.cost.numerator * MaskWeight(p, p.worlds)) \div d.cost.denominator

\* The controller keeps its word in every world.  A certificate replays, and its
\* effects are protected in the world that is the case.  A selected query is the
\* start of a plan of least expected cost, strictly below the raw baseline's
\* (solve); every answer to it can be applied (condition_on), and the decisions
\* that follow the answers cost together exactly what was promised.  The conflicts
\* it reports meet every set of worlds without a common effect.
RecoveryKeepsItsWord ==
    LET p == dcr IN
    /\ world \in p.worlds
    /\ verdict.kind = "Complete" =>
          ValidCertificate(verdict.certificate) /\ verdict.certificate.effects \subseteq p.protected[world]
    /\ verdict.kind = "Conflict" =>
          LET q == verdict.query
              after(c) == Conditioned(p, q, c, p.surface, p.route)
          IN  /\ Price(p, verdict) = Optimum(p) /\ Optimum(p) < RawTotal(p, p.worlds)
              /\ \A c \in q.cells : ValidProblem(after(c))
              /\ Optimum(p) = q.cost * MaskWeight(p, p.worlds)
                    + FoldSet(LAMBDA c, sum : sum + Price(after(c), Decide(after(c))), 0, q.cells)
              /\ p.surface # {} =>
                    \A S \in (SUBSET p.worlds) \ {{}} :
                       CommonEffects(p, S) = {} => \E h \in verdict.conflicts : h \subseteq S
=============================================================================
