------------------------------- MODULE MCGate -------------------------------
(***************************************************************************)
(* Small instances of the gate modules.  They share no state: a behaviour  *)
(* exercises one of them, named by machine, and leaves the others at rest. *)
(***************************************************************************)
EXTENDS TwoPhase, Recovery, Expansion, CausalCache, CausalWork, Ledger, Investment, Assurance

VARIABLE machine

assuranceVars == <<programVars, registryVars, budgetVars, reviewVars>>

allVars ==
    <<machine, gateVars, dcrVars, expansionVars, cacheVars, workVars, ledgerVars, investmentVars, assuranceVars>>

mcContract ==
    [model |-> "m", mode |-> "deep", policy |-> "ExactRequired", invocation |-> "i",
     downshift |-> FALSE, output |-> 2, thinking |-> 1, visible |-> 1, recovery |-> 1]

mcPacks == <<"fs", "graph", "token">>

mcPlan == <<"Dispatch", "Verify", "StageEffect", "BufferVisible", "CloseTransaction">>

mcReading == <<"Dispatch", "DeterministicTransform", "Verify", "BufferVisible", "CloseTransaction">>

mcBinding ==
    [assembly |-> "A", source |-> "src", image |-> <<"src", mcPacks>>, state |-> "s0",
     task |-> "t1", plan |-> mcPlan, model |-> "m",
     baselineReasoning |-> [mcContract EXCEPT !.thinking = 0],
     reasoning |-> mcContract, comparison |-> "cmp", cutVerifier |-> "v"]

mcSecondBinding == [mcBinding EXCEPT !.task = "t2", !.plan = mcReading]

mcExecutionBindings == {mcBinding, mcSecondBinding}

mcPlanLists == {mcPlan, mcReading, <<"Verify", "Dispatch", "BufferVisible">>}

mcSide(b) ==
    [status |-> "ExactPreserved", root |-> b.state, contract |-> b.reasoning,
     model |-> b.model, opaque |-> "o", rest |-> "r"]

mcCut(b) ==
    [authority |-> "DeterministicOnly", baseline |-> mcSide(b), compiled |-> mcSide(b),
     effects |-> <<"e", "e">>, attribution |-> <<"at", "at">>, input |-> b.state,
     plan |-> b.plan, comparison |-> b.comparison, scope |-> b.task, verifier |-> b.cutVerifier]

mcCutClaims ==
    {mcCut(b) : b \in mcExecutionBindings} \cup {[mcCut(mcBinding) EXCEPT !.effects[2] = "f"]}

mcSnapCertificates ==
    {{}, {[assembly |-> "A", image |-> mcBinding.image, task |-> "t2", level |-> "S0", effect |-> "b"]}}

mcArtifacts == {[assembly |-> "A", source |-> "src", packs |-> mcPacks],
                [assembly |-> "A", source |-> "old", packs |-> mcPacks]}

mcEnvelopes == {[fuel |-> 1, output |-> 1, steps |-> 5]}

mcAcceptances == {[action |-> "a", state |-> "s0", verifier |-> "v"],
                  [action |-> "b", state |-> "s0", verifier |-> "v"]}

mcFile == [kind |-> "ProjectFilesystem", scope |-> "p", access |-> "ReadWrite"]
mcMail == [kind |-> "Network", scope |-> "p", access |-> "Write"]

mcClosureRequests ==
    {[action |-> "a", baseline |-> "s0", rollback |-> "Journaled", resources |-> {mcFile}],
     [action |-> "a", baseline |-> "s0", rollback |-> "Journaled", resources |-> {mcFile, mcMail}],
     [action |-> "b", baseline |-> "s0", rollback |-> "SingleAtomic", resources |-> {mcFile}]}

mcClosureManifests ==
    {[request |-> r,
      resources |-> {[requirement |-> q, isolation |-> "Journaled",
                      restoration |-> "JournalRollback"] : q \in r.resources}] :
        r \in mcClosureRequests}

mcResultsOf == [a |-> {"s0", "s1"}, b |-> {"s2"}]

mcSafepointClaims ==
    {[root |-> "s0", inventory |-> {}, raw |-> <<"raw">>, contract |-> mcContract,
      safepoint |-> [contract |-> mcContract, model |-> "m", root |-> "s0", head |-> 0,
                     opaque |-> "o", status |-> "ExactPreserved"],
      entry |-> [kind |-> k, opaque |-> "o"], head |-> 0,
      reserve |-> [deoptimization |-> 1, baseline |-> 1]] :
        k \in {"ExactNativeContinuation", "CanonicalCleanStart"}}

mcPair(b, second) ==
    [task |-> b.task, comparison |-> "cmp", raw |-> <<"raw">>, candidate |-> ProtocolIdentity(b),
     continuation |-> <<"c", "d">>, input |-> <<"i", "i">>, outcome |-> <<"o", "o2">>,
     dimensions |-> <<[id |-> 1, order |-> "AtLeast", baseline |-> 1, candidate |-> 2],
                      [id |-> 2, order |-> "AtMost", baseline |-> 1, candidate |-> second]>>]

mcQualityPairs == {mcPair(mcBinding, 1), mcPair(mcSecondBinding, 2)}

mcBenchmarks ==
    {[benchmark |-> "bench", comparison |-> "other", raw |-> <<"raw">>, protocol |-> ProtocolIdentity(mcBinding),
      outcome |-> "o", tasks |-> 3, wins |-> 2, losses |-> 1, ties |-> 0, confidence |-> 5,
      lower |-> 2, mean |-> 3]}

mcFrozenBaseline == [identity |-> <<"raw">>, outcome |-> "o", receipt |-> "r0"]

-----------------------------------------------------------------------------
(* Recovery *)

mcQuery(i, cost, cells) == [id |-> i, cost |-> cost, cells |-> cells]

mcQueries ==
    {<<>>,
     <<mcQuery(1, 1, {{1}, {2, 3}}), mcQuery(2, 1, {{1, 2}, {3}})>>,
     <<mcQuery(1, 2, {{1}, {2}, {3}}), mcQuery(2, 1, {{1, 2}, {3}})>>}

mcProblems ==
    {[worlds |-> 1..3, protected |-> p, surface |-> s, weight |-> w, raw |-> r,
      queries |-> q, trace |-> <<>>, route |-> "v", status |-> st] :
        p \in [1..3 -> (SUBSET {"a", "b"}) \ {{}}], s \in {{"a"}, {"a", "b"}},
        w \in {<<1, 1, 1>>, <<1, 2, 3>>}, r \in {<<2, 2, 2>>, <<1, 3, 5>>, <<2, 6, 1>>},
        q \in mcQueries, st \in {"Exact", "Unknown"}}

-----------------------------------------------------------------------------
(* Images and expansion *)

mcScenario(roots, weight) == [roots |-> roots, weight |-> weight, unknown |-> FALSE]

mcDemandEnvelopes ==
    {("s" :> mcScenario({"a"}, 99) @@ "t" :> mcScenario({"b"}, 1)),
     ("s" :> mcScenario({"a", "b"}, 2) @@ "t" :> mcScenario({"c"}, 1)),
     [s \in {"s"} |-> mcScenario({"b"}, 0)]}

mcAdd(w, v) == [o \in {"d"} |-> [weight |-> w, l2 |-> v]]

mcActions ==
    {[invalidate |-> i, add |-> add, replenish |-> r] :
        i \in SUBSET {"a", "b"}, r \in BOOLEAN,
        add \in {mcAdd(99, {TRUE}), mcAdd(3, {}), [o \in {} |-> 0]}}

mcLayers(l3, refetch) == [l1 |-> FALSE, l2 |-> TRUE, l3 |-> l3, refetch |-> refetch]

mcLedgers ==
    {[o \in {"a", "b", "c"} |-> mcLayers(FALSE, TRUE)],
     ("a" :> mcLayers(TRUE, FALSE) @@ "b" :> NewEntry @@ "c" :> mcLayers(TRUE, FALSE)),
     [o \in {"a", "b"} |-> mcLayers(TRUE, FALSE)]}

mcLens == ("a" :> 1 @@ "b" :> 2 @@ "c" :> 4)

mcRequests ==
    {[scenario |-> "s", projection |-> p] : p \in {{"a"}, {"a", "b"}, {"c"}}}
    \cup {[scenario |-> "t", projection |-> {"c"}]}

mcInput(universe) == [index |-> TRUE, version |-> TRUE, universe |-> universe, attempts |-> 1]

mcAll(S) == [o \in S |-> {TRUE}]

mcInputs ==
    {mcInput(mcAll(S)) : S \in {{}, {"c"}, {"a", "b"}, {"a", "b", "c"}}}
    \cup {mcInput([mcAll({"a", "b"}) EXCEPT !["a"] = {}]),
          mcInput([mcAll({"a", "b"}) EXCEPT !["b"] = {FALSE}]),
          [mcInput(mcAll({"a", "b"})) EXCEPT !.attempts = 2],
          [mcInput(mcAll({"a", "b"})) EXCEPT !.index = FALSE],
          [mcInput(mcAll({"a", "b"})) EXCEPT !.version = FALSE]}

-----------------------------------------------------------------------------
(* Cache lines *)

mcEdge(p, c) == [producer |-> p, consumer |-> c]
mcChain == <<mcEdge("x", "y"), mcEdge("y", "z"), mcEdge("x", "z")>>
mcClosure(head, edges, essential) ==
    [assembly |-> "A", heads |-> [r \in {"repo"} |-> head], domains |-> {"Source"}, scope |-> {"x", "y", "z"},
     edges |-> edges, essential |-> essential]
mcWhole == mcClosure("h1", ToSet(mcChain), {[edge |-> mcEdge("x", "z"), path |-> <<"x", "y", "z">>]})
mcClosures ==
    {mcWhole, [mcWhole EXCEPT !.heads = ("repo" :> "h2")],
     [mcWhole EXCEPT !.heads = ("repo" :> "h1" @@ "lib" :> "h1")],
     [mcWhole EXCEPT !.edges = @ \ {mcEdge("y", "z")}],
     [mcWhole EXCEPT !.edges = {mcEdge("x", "z")}, !.essential = {}],
     [mcWhole EXCEPT !.scope = @ \cup {"w"}], [mcWhole EXCEPT !.domains = {"Source", "Graph"}],
     [mcWhole EXCEPT !.assembly = "B"], [mcWhole EXCEPT !.essential = {}]}
mcIndexStates == {[generation |-> g, closure |-> c] : g \in 0 .. 1, c \in mcClosures}
mcClaim(class, roots) ==
    [artifact |-> "a", owner |-> "GraphZero", producer |-> "p", roots |-> roots, support |-> mcWhole,
     class |-> class, derivation |-> "Witness", use |-> "u", scope |-> "vs", recovery |-> "rr",
     verifier |-> "v"]
mcArtifactClaims ==
    {mcClaim("Exact", {"s1"}), mcClaim("SoundOverapproximation", {"s1", "s2"}), mcClaim("Heuristic", {"s1", "s2"}),
     mcClaim("Unknown", {"s1"}), [mcClaim("Exact", {"s1"}) EXCEPT !.derivation = "OpaqueWholeUnit"],
     mcClaim("Exact", {})}
mcEvidences(payload) ==
    {[success |-> TRUE, payload |-> payload, verifier |-> "v"], [success |-> FALSE, payload |-> payload, verifier |-> "v"],
     [success |-> TRUE, payload |-> payload, verifier |-> "w"], [success |-> TRUE, payload |-> <<>>, verifier |-> "v"]}
mcVariations(r) ==
    LET b == AgreedBinding(r, "s1", "n") IN
    {b, [b EXCEPT !.source = "s2"], [b EXCEPT !.reasoning = "m"], [b EXCEPT !.artifact = "other"]}
mcValidities == <<"Exact", "Exact", "Exact", "Exact", "Exact", "ProviderEligible", "ExactReasoningContinuation", "Exact", "Exact">>
mcAllValidities == {"Exact", "SoundOverapproximation", "ByteIdenticalPrefix", "ProviderEligible",
      "ProviderReportedHit", "ExactReasoningContinuation", "Approximate", "Unknown", "Invalid"}
mcGood(claim) == [claim |-> claim, evidence |-> [success |-> TRUE, payload |-> claim, verifier |-> "v"]]
mcBase(b) == [i \in 1 .. 9 |->
    [coordinate |-> Coordinates[i], owner |-> ExpectedOwner(Coordinates[i], b.owner), binding |-> b,
     validity |-> mcValidities[i], verifier |-> "v"]]
mcComponents(b) ==
    LET base == mcBase(b)
        good == [i \in 1 .. 9 |-> mcGood(base[i])]
    IN {good, SubSeq(good, 1, 8)}
       \cup {[good EXCEPT ![i] = mcGood([base[i] EXCEPT !.validity = v])] : i \in 1 .. 9, v \in mcAllValidities}
       \cup {[good EXCEPT ![i] = mcGood([base[i] EXCEPT !.owner = "FsZero"])] : i \in {1, 3}}
       \cup {[good EXCEPT ![i] = mcGood([base[i] EXCEPT !.binding.source = "s2"])] : i \in {2}}
       \cup {[good EXCEPT ![i] = good[1]] : i \in {3, 6}}
       \cup {[good EXCEPT ![9].evidence.success = FALSE]}
mcLeaf(n, worlds, effect) == [path |-> <<n>>, worlds |-> worlds, effect |-> effect]
mcSnap(level, protected, selected, answers) ==
    [level |-> level, worlds |-> {1, 2}, assumptions |-> {"as"}, protected |-> protected, selectable |-> {"e", "f"},
     expressible |-> {"e", "g"}, selected |-> selected, tree |-> answers]
mcCertificates ==
    {mcSnap("S0", p, s, {}) : p \in [1 .. 2 -> (SUBSET {"e", "f"}) \ {{}}], s \in {{"e"}, {"f"}, {}}}
    \cup {mcSnap("S1", p, {}, t) : p \in [1 .. 2 -> {{"e"}, {"g"}, {"e", "g"}}],
          t \in {{}, {mcLeaf("o", {1}, "e")}, {mcLeaf("o", {1}, "e"), mcLeaf("q", {2}, "g")}, {mcLeaf("o", {1, 2}, "e")},
                 {mcLeaf("o", {1}, "e"), mcLeaf("q", {1, 2}, "e")}}}
    \cup {mcSnap("Unknown", [w \in 1 .. 2 |-> {"e"}], {"e"}, {})}
mcSnapClaim(c, f) == [certificate |-> c, fiber |-> f, verifier |-> "v"]
mcSnapIntakes ==
    {<<mcSnapClaim(c, f), c>> : c \in mcCertificates, f \in {"FiniteExact", "Unknown"}}
    \cup {<<mcSnapClaim(mcSnap("S0", [w \in 1 .. 2 |-> {"e"}], {"e"}, {}), "FiniteExact"), c>> : c \in mcCertificates}

-----------------------------------------------------------------------------
(* Measured work *)

mcIdentity == [counter |-> "tokens", unit |-> "Tokens", adapter |-> "ad"]
mcWindow(from, to) == [measured |-> TRUE, identity |-> mcIdentity, start |-> from, end |-> to]
mcCharge(u, class, n) == [unit |-> u, class |-> class, amount |-> n]
mcReject == [kind |-> "RejectUnclassified", unit |-> "none"]
mcAssign == [kind |-> "AssignToResidue", unit |-> "r"]
mcReport(o, list, policy) == [observation |-> o, charges |-> list, policy |-> policy]
mcSmall == {mcReport(mcWindow(0, 1), <<mcCharge(u, "Candidate", 1)>>, mcReject) : u \in {"c", "d"}}
mcWorkReports ==
    mcSmall
    \cup {mcReport(mcWindow(3, 103), <<mcCharge("b", "Baseline", n)>>, p) : n \in {0, 60, 101}, p \in {mcReject, mcAssign}}
    \cup {mcReport(mcWindow(5, 5), <<>>, mcAssign),
          mcReport(mcWindow(2, 1), <<>>, mcAssign), mcReport(mcWindow(0, 2), <<mcCharge("c", "Candidate", 1), mcCharge("c", "Candidate", 1)>>, mcReject),
          mcReport(mcWindow(0, 1), <<mcCharge("e", "Residue", 1)>>, mcAssign),
          mcReport(mcWindow(0, 1), <<mcCharge("e", "Residue", 1)>>, mcReject),
          mcReport(mcWindow(0, 2), <<mcCharge("r", "Candidate", 1)>>, mcAssign)}
    \cup {[r EXCEPT !.observation.measured = FALSE] : r \in mcSmall}
    \cup {[r EXCEPT !.observation.identity.adapter = "other"] : r \in {x \in mcSmall : x.charges[1].unit = "c"}}
mcWire ==
    LET ch == {mcCharge("c", "Candidate", 1)} IN
    {[window |-> mcWindow(3, 103), policy |-> [kind |-> "RejectUnclassified", unit |-> "none"], charges |-> ch,
      totals |-> ClassTotals(ch), classified |-> 1, observed |-> o] : o \in {1, 100}}
mcWorkEvidences(payload) ==
    {[success |-> s, payload |-> p, verifier |-> v] : s \in BOOLEAN, p \in {payload, <<>>}, v \in {"v", "w"}}
mcPairClaims(b, c) ==
    IF \E x \in b.charges : x.class = "Baseline"
    THEN {[comparison |-> "cmp", workload |-> "wl", task |-> t, baseline |-> b, complete |-> c, verifier |-> "v"] : t \in {1, 2}}
    ELSE {}
mcPreparationClaims(w) ==
    IF w.window.start = 0 THEN {} ELSE
    {[comparison |-> k, workload |-> "wl", receipt |-> w, verifier |-> "v"] : k \in {"cmp", "else"}}
mcMetricClaims ==
    {[label |-> l, tasks |-> 1, numerator |-> n, denominator |-> d, measurement |-> "m", verifier |-> "v"] :
        l \in {"State", "Total"}, n \in {98, 99, 197}, d \in {0, 100, 199}}
mcPhasePolicies ==
    {[k \in WorkClasses |-> IF k = "Candidate" THEN "Decisions" ELSE "Reasoning"], [k \in WorkClasses |-> "Effects"]}

-----------------------------------------------------------------------------
(* The token ledger, bills and campaigns *)

mcCharge2(raw, input, class, n) == [Empty EXCEPT !["raw"] = raw, !["input"] = input, ![class] = n, !["calls"] = 1]
mcLedgerCharges ==
    {<<"tk", c>> : c \in {mcCharge2(5, 1, "Billed", 1), mcCharge2(3, 2, "Retry", 2), mcCharge2(0, 1, "FailedTrial", 1),
        mcCharge2(1, 1, "Billed", 2), mcCharge2(1, 2, "Billed", 1),
        [mcCharge2(4, 2, "Recovery", 1) EXCEPT !["Fallback"] = 1, !["fresh"] = 1, !["overhead"] = 1],
        [mcCharge2(4, 2, "Billed", 2) EXCEPT !["replayed"] = 1],
        Empty}}
    \cup {<<"other", mcCharge2(5, 1, "Billed", 1)>>}
mcAttempts == {<<0, "Passed">>, <<2, "Passed">>, <<1, "RolledBack">>}
mcShown(r, leaves) == {[root |-> r, leaves |-> leaves]}
mcArchiveShown == mcShown(FoldRoot("racc.archive", <<"s">>), <<"s">>)
mcDecision(proven) == [proven |-> proven, digest |-> "d"]
mcPolicyShown == mcShown(<<"racc.policy", <<<<"racc.policy.fallback", <<"d">>>>>>>>, <<mcDecision(FALSE)>>)
mcOutcome(a) == [accepted |-> a, task |-> "t"]
mcTaskShown(a) == mcShown(<<"racc.task", <<<<IF a THEN "racc.task.accepted" ELSE "racc.task.regressed", <<"t">>>>>>>>, <<mcOutcome(a)>>)
mcAllShown == [archive |-> mcArchiveShown, policy |-> mcPolicyShown, task |-> mcTaskShown(TRUE)]
mcPresentations ==
    {mcAllShown, [mcAllShown EXCEPT !.task = mcTaskShown(FALSE)], [mcAllShown EXCEPT !.policy = {}],
     [mcAllShown EXCEPT !.archive = mcShown(FoldRoot("racc.archive", <<"s">>), <<"x">>)]}
mcReceiptRoots ==
    {[archive |-> FoldRoot("racc.archive", <<"s">>), certificate |-> <<"racc.policy", <<<<"racc.policy." \o k, <<"d">>>>>>>>] :
        k \in {"fallback", "proven"}}
mcAccounts ==
    {[rawOverhead |-> o, raccOverhead |-> 1, blocks |-> <<[tokens |-> 2, raw |-> 3, racc |-> d]>>] : o \in {0, 2}, d \in 0 .. 2}
    \cup {[rawOverhead |-> 1, raccOverhead |-> 1, blocks |-> <<>>]}
mcRow(class, n, s) == [class |-> class, amount |-> n, source |-> s]
mcResourceRows == {mcRow("Disk", 1, "Exact"), mcRow("Disk", 2, "Exact"), mcRow("Disk", 0, "Exact"), mcRow("Disk", 2, "Bounded"), mcRow("Cpu", 3, "Estimate")}
mcBill(class, n, tol) == [provider |-> "p", class |-> class, billed |-> n, tolerance |-> tol]
mcBills == {<<mcBill(k, n, tol)>> : k \in {"Disk", "Cpu"}, n \in {0, 2, 3, 5}, tol \in {0, 4, 11}}
           \cup {<<mcBill("Disk", 3, 0), mcBill("Cpu", n, 0)>> : n \in {0, 3}} \cup {<<>>}
mcCampaigns ==
    {[cold |-> c, use |-> w, alternative |-> a, uses |-> n, sample |-> s] :
        c \in {0, 1, 6, 7}, w \in {0, 2}, a \in {2, 3, 5}, n \in {0, 2, 3}, s \in {<<>>, <<0>>, <<3, 1, 2>>}}
mcFrontiers == {[baseline |-> b, optimized |-> 3, terms |-> t] : b \in {0, 4}, t \in [ToSet(FrontierTerms) -> 0 .. 2]}
mcEvent(k, n, o) == [coordinate |-> k, amount |-> n, observation |-> o]
mcAttributions ==
    {[events |-> <<mcEvent("CacheRead", n, o), mcEvent("Reasoning", 2, "Measured")>>, occurrences |-> occ,
      attributions |-> [i \in 1 .. k |-> [occurrence |-> a[i]]]] :
        n \in {0, 1}, o \in {"Measured", "Estimated", "Unmeasured"}, occ \in {<<"a", "b">>, <<"a", "a">>},
        a \in [1 .. 2 -> {"a", "b", "c"}], k \in 1 .. 2}

-----------------------------------------------------------------------------
RecoveryAtRest ==
    /\ dcr = CHOOSE p \in mcProblems : ValidProblem(p)
    /\ world = 1
    /\ verdict = Undecided

RouteAtRest ==
    /\ serial = 0 /\ tokens = {} /\ packet = {}
    /\ sessions = [n \in {} |-> 0] /\ returned = [n \in {} |-> <<>>]

ExpansionAtRest == ImageInit /\ RouteAtRest

mcScope(shape) == [operation |-> "op", shape |-> shape]

mcDraft(i, project) ==
    [id |-> i, project |-> project, scope |-> mcScope("x"), preconditions |-> <<[name |-> "p", root |-> "r"]>>,
     terms |-> {"f"}, duties |-> {"post", "v", "next", "undo"}, pins |-> <<[name |-> "lib", digest |-> "d1"]>>,
     freshness |-> [valid |-> 2, captured |-> 0], cost |-> [capture |-> 2, upkeep |-> 1]]

mcDrafts ==
    {mcDraft("a", "p1"),
     [mcDraft("c", "p1") EXCEPT !.duties = {"post", "v", "next", ""}],
     [mcDraft("c", "p1") EXCEPT !.pins = @ \o <<[name |-> "lib", digest |-> "d2"]>>],
     [mcDraft("c", "p1") EXCEPT !.freshness.valid = 0]}

mcTasks == {[project |-> "p2", scope |-> mcScope("x")], [project |-> "p1", scope |-> mcScope("x")], [project |-> "p1", scope |-> mcScope("y")]}

mcTrial(i, shadow, regression) ==
    [trial |-> "t", asset |-> i, baseline |-> "o", shadow |-> shadow, regression |-> regression, rescue |-> FALSE, cost |-> 1]

mcTrials == {mcTrial("a", "o", FALSE), mcTrial("a", "q", FALSE), mcTrial("a", "o", TRUE), mcTrial("b", "o", FALSE)}

mcSyndromes == {[syndrome |-> "s1", asset |-> "a", class |-> "k"], [syndrome |-> "s1", asset |-> "a", class |-> ""]}

mcBenefits ==
    {[claimed |-> 3, baseline |-> 5, bound |-> [scope |-> mcScope(x), minimum |-> 3, certificate |-> "c"]] : x \in {"x", "y"}}

mcDependencies == {<<<<"lib", "d1">>>>, <<<<"lib", "d2">>, <<"lib", "d1">>>>}

mcVector(x, y) == <<[counter |-> 1, boundary |-> "n", amount |-> x], [counter |-> 2, boundary |-> "n", amount |-> y]>>

mcAdmission == [baseline |-> "rb", candidate |-> "rb", sameClass |-> TRUE]

mcActionClaim(n, x, y) ==
    [scope |-> "t", comparison |-> "cmp", raw |-> "raw", assembly |-> "A", state |-> "s0", action |-> n, kind |-> "AdditionalTests",
     candidate |-> "c", transaction |-> "txn", isolation |-> "iso", reasoning |-> mcAdmission, reserved |-> mcVector(x, y), verifier |-> "v"]

mcPresent(c) == [claim |-> c, admission |-> mcAdmission, evidence |-> [success |-> TRUE, payload |-> c, verifier |-> "v"]]

mcActionClaims ==
    {mcPresent(mcActionClaim(1, 1, 0)), mcPresent(mcActionClaim(1, 2, 1)), mcPresent(mcActionClaim(2, 1, 1)),
     mcPresent([mcActionClaim(2, 1, 1) EXCEPT !.kind = "HigherReasoningEffort"]),
     mcPresent([mcActionClaim(2, 1, 1) EXCEPT !.state = "s1"]),
     mcPresent(mcActionClaim(2, 0, 0)),
     [mcPresent(mcActionClaim(2, 1, 1)) EXCEPT !.evidence.payload = mcActionClaim(2, 0, 1)],
     [mcPresent(mcActionClaim(2, 1, 1)) EXCEPT !.evidence.success = FALSE]}

mcPlanDraft(budget, additional, reserve) ==
    [scope |-> "t", comparison |-> "cmp", raw |-> "raw", receipt |-> "r0", assembly |-> "A", state |-> "s0", reasoning |-> "rb",
     budget |-> budget, additional |-> additional, bound |-> mcVector(1, 1), reserve |-> reserve]

mcPlanDrafts ==
    {mcPlanDraft(b, a, r) : b \in {mcVector(2, 3), mcVector(4, 3), mcVector(5, 5), mcVector(1, 1)}, a \in {mcVector(0, 0), mcVector(1, 0), mcVector(7, 7)},
                            r \in {mcVector(1, 0), mcVector(0, 0), <<mcVector(1, 0)[1]>>}}

mcTxn(d) == [action |-> "txn", baseline |-> "s0", debt |-> 0, disposition |-> d, restoration |-> "DeclaredEffectClosure"]

mcQual(s, strict) ==
    [scope |-> "t", comparison |-> "cmp", raw |-> "raw", receipt |-> "r0", candidate |-> "c", selection |-> s, strict |-> strict]

mcMeasured(x, y) == <<[assembly |-> "A", measured |-> mcVector(x, y)[2]], [assembly |-> "A", measured |-> mcVector(x, y)[1]]>>

mcRun(n, x, y) == [action |-> n, transaction |-> mcTxn("CandidateCommitted"), work |-> mcMeasured(x, y), quality |-> mcQual("Candidate", TRUE)]

mcBranchInputs ==
    {mcRun(n, x, 0) : n \in {1, 2}, x \in {0, 1, 2}}
    \cup {[mcRun(2, 1, 1) EXCEPT !.quality = mcQual("Candidate", FALSE)], [mcRun(2, 1, 1) EXCEPT !.quality.raw = "other"],
          [mcRun(1, 1, 0) EXCEPT !.transaction = mcTxn("BaselineRootRecovered")],
          [mcRun(1, 1, 0) EXCEPT !.transaction = mcTxn("BaselineRootRecovered"), !.quality = mcQual("Baseline", FALSE)],
          [mcRun(1, 1, 0) EXCEPT !.work = <<mcMeasured(1, 0)[1]>>],
          [mcRun(1, 1, 0) EXCEPT !.transaction.debt = 1]}

mcSelections(p, set) ==
    {[claim |-> c, evidence |-> [success |-> TRUE, payload |-> e, verifier |-> "v"]] :
       c \in {[plan |-> p, action |-> b.action, branch |-> b, branches |-> set, basis |-> "CertifiedMaximum", relation |-> "rel", verifier |-> "v"] : b \in set},
       e \in {[plan |-> p, action |-> b.action, branch |-> b, branches |-> set, basis |-> "CertifiedMaximum", relation |-> "rel", verifier |-> "v"] : b \in set}}

mcSigned(r) == r @@ ("digest" :> ReportDigest(r.class, r))

mcApplied == [run |-> [apply |-> TRUE, state |-> "Complete", deleted |-> <<"x">>], epochs |-> [i \in 1 .. 3 |-> <<Engines[i], i>>], freed |-> 3,
              runDigest |-> RunReceiptDigest([apply |-> TRUE, state |-> "Complete", deleted |-> <<"x">>])]

mcReportOf(class, p) ==
    CASE class = "planner" -> [class |-> class, schema |-> 1, program |-> p, plan |-> <<"plan">>, steps |-> 2]
      [] class = "worker" -> [class |-> class, schema |-> 1, program |-> p, worker |-> <<"w">>, steps |-> 2, closure |-> "Commit",
                              mcp |-> <<"mcpEvidence", 1, 1, <<"t">>>>, effects |-> <<"e">>, output |-> <<"o">>]
      [] class = "mcp" -> [class |-> class, schema |-> 1, program |-> p, tools |-> 1, calls |-> 1, toolsDigest |-> <<"t">>]
      [] class = "lifecycle" -> [class |-> class, schema |-> 1, program |-> p, transitions |-> 4, steps |-> 2, final |-> "Closed"]
      [] class = "gc" -> [class |-> class, schema |-> 1, program |-> p, collected |-> 1, freed |-> 3, afterClose |-> TRUE, applied |-> {mcApplied}]

mcFaulty(class) ==
    LET r == mcReportOf(class, <<"p1">>) IN
    CASE class = "planner" -> [r EXCEPT !.steps = 1]
      [] class = "worker" -> [r EXCEPT !.closure = "Fallback"]
      [] class = "mcp" -> [r EXCEPT !.calls = 2]
      [] class = "lifecycle" -> [r EXCEPT !.final = "Executing"]
      [] class = "gc" -> [r EXCEPT !.applied = {[mcApplied EXCEPT !.epochs = SubSeq(@, 1, 2)]}]

mcEvidenceFile(r) ==
    LET f == [contract |-> r.class, schema |-> 1, source |-> "h1", hub |-> "hub", exact |-> TRUE, report |-> r]
    IN f @@ ("sha" :> ArtifactDigest(f))

mcFirstFiles == [path \in ToSet(Engines) \X ToSet(Classes) |-> mcEvidenceFile(mcSigned(mcReportOf(path[2], <<"p1">>)))]

mcRewrites(path) ==
    LET good == mcEvidenceFile(mcSigned(mcReportOf(path[2], <<"p1">>))) IN
    {good, mcEvidenceFile(mcSigned(mcReportOf(path[2], <<"p2">>)))}
    \cup (IF path[1] = "gz" THEN {} ELSE {mcEvidenceFile(mcSigned(mcFaulty(path[2])))})
    \cup (IF path[1] = "fz" THEN {[good EXCEPT !.source = "h0"], [good EXCEPT !.report.program = <<"p2">>],
                                  mcEvidenceFile([good.report EXCEPT !.program = <<"p2">>])} ELSE {})

mcManifest(share) ==
    [version |-> 1, source |-> "h1", hub |-> "hub", assembly |-> <<"A">>,
     engines |-> [e \in ToSet(Engines) |-> [head |-> "h1", files |-> [c \in ToSet(Classes) |-> <<IF e = "tz" /\ share THEN "gz" ELSE e, c>>]]]]

mcManifests == {mcManifest(TRUE), mcManifest(FALSE), [mcManifest(FALSE) EXCEPT !.engines["gz"].head = "short"]}

mcVerifierRecord(domain, kind, result, grade) ==
    [version |-> 1, verifier |-> "v", build |-> "1", domain |-> domain, kind |-> kind, inputs |-> {<<"d1">>, <<"d2">>}, result |-> result,
     evidence |-> <<"e">>, runtime |-> 1, grades |-> (kind :> grade)]

mcRegistrations ==
    {mcVerifierRecord("CurrentEffect", "Tests", r, g) : r \in {"Pass", "Fail"}, g \in {"Proved", "Unknown"}}
    \cup {mcVerifierRecord("SuccessorState", "SuccessorState", "Pass", "Observed"),
          [mcVerifierRecord("CurrentEffect", "Api", "Pass", "Proved") EXCEPT !.build = "2"]}

mcChecklist(subject, refs) == [version |-> 1, subject |-> subject, entries |-> <<[dimension |-> "Tests", required |-> refs # {}, refs |-> refs]>>]

mcDeltas == {<<"d1">>, <<"d3">>}

mcChecklists == {mcChecklist(<<"d1">>, {<<"r">>}), mcChecklist(<<"d3">>, {<<"r">>}), mcChecklist(<<>>, {})}

mcSuccessor(subject, refs, grade) == [root |-> <<"s1">>, obligations |-> <<[dimension |-> "Tests", grade |-> grade]>>, checklist |-> mcChecklist(subject, refs)]

mcSuccessors == {mcSuccessor(s, r, g) : s \in {<<"s1">>, <<"s2">>}, r \in {{}, {<<"r">>}}, g \in {"Observed", "Unknown"}}

mcTransitions ==
    {[version |-> 1, predecessor |-> <<"s0">>, claimed |-> RecomputeSuccessorRoot(<<"s0">>, x), receipts |-> y] :
        x \in {<<<<"r1">>>>, <<>>}, y \in {<<<<"r1">>>>, <<>>, <<<<"r2">>>>}}

mcFutureActions == {[id |-> "a", contract |-> <<"c">>, dimensions |-> d] : d \in {<<"Tests">>, <<"Tests", "Api">>, <<"Tests", "Tests">>, <<>>}}

mcTaskRun(exit, observed, trust) == [exit |-> exit, expected |-> <<"a">>, observed |-> observed, trusted |-> trust, cost |-> 1]

mcRuns == {mcTaskRun(0, <<"a">>, TRUE), mcTaskRun(0, <<"b">>, TRUE), mcTaskRun(1, <<"a">>, TRUE), mcTaskRun(0, <<"a">>, FALSE), mcTaskRun(0, <<>>, TRUE),
           [mcTaskRun(0, <<"a">>, TRUE) EXCEPT !.cost = 0]}

mcOpinion(k, reasons) == [of |-> k, reasons |-> reasons]

mcOpinions == {mcOpinion("Equivalent", {}), mcOpinion("Dominates", {}), mcOpinion("Reject", {"r"}), mcOpinion("Unknown", {"u"}), mcOpinion("Unknown", {})}

mcDimension(n, e) == [name |-> n, evaluator |-> e]

mcSubjective == {<<>>} \cup {<<mcDimension("x", {"valid"}), mcDimension(n, e)>> : n \in {"x", "y", ""}, e \in {{}, {"valid"}, {"invalid"}}}

mcPublicClaim(off, id) ==
    [version |-> 1, id |-> "c", formulation |-> id, scope |-> "s", gates |-> [g \in ClaimGates |-> g \notin off], artifacts |-> {"m"}, date |-> {1}]

mcPublicClaims ==
    {mcPublicClaim(off, id) : off \in {{}, {"checksums_present"}}, id \in {"f1", "f2", "f3"}}
    \cup {[mcPublicClaim({}, "f1") EXCEPT !.artifacts = {}], [mcPublicClaim({}, "f1") EXCEPT !.date = {}]}

mcTables == {<<>>, <<[id |-> "f1", by |-> {}, reason |-> "now"], [id |-> "f2", by |-> {"f1"}, reason |-> "newer"]>>,
             <<[id |-> "f1", by |-> {}, reason |-> "now"], [id |-> "f1", by |-> {"f2"}, reason |-> "twice"]>>}

GateInit ==
    /\ AssetInit /\ PortfolioInit /\ RegistryInit /\ BudgetInit /\ ReviewInit
    /\ CacheInit /\ WorkInit /\ LedgerInit
    /\ \/ machine = "recovery" /\ RecoveryInit /\ ProgramAtRest /\ TwoPhaseInit /\ ExpansionAtRest
       \/ machine = "program" /\ ProgramInit /\ TwoPhaseInit /\ RecoveryAtRest /\ ExpansionAtRest
       \/ machine = "image" /\ ImageInit /\ RouteAtRest /\ ProgramAtRest /\ TwoPhaseInit /\ RecoveryAtRest
       \/ machine = "expansion" /\ ExpansionInit /\ ProgramAtRest /\ TwoPhaseInit /\ RecoveryAtRest
       \/ /\ machine \in {"execution", "cache", "work", "gauge", "bill", "asset", "portfolio",
                        "registry", "budget", "review"}
          /\ TwoPhaseInit /\ RecoveryAtRest /\ ExpansionAtRest /\ ProgramAtRest

Exercised(m) == machine = m /\ UNCHANGED machine

GateNext ==
    \/ Exercised("execution") /\ TwoPhaseNext
       /\ UNCHANGED <<dcrVars, expansionVars, cacheVars, workVars, ledgerVars, investmentVars, assuranceVars>>
    \/ Exercised("recovery") /\ RecoveryNext
       /\ UNCHANGED <<gateVars, expansionVars, cacheVars, workVars, ledgerVars, investmentVars, assuranceVars>>
    \/ Exercised("image") /\ ImageNext
       /\ UNCHANGED <<routeVars, gateVars, dcrVars, cacheVars, workVars, ledgerVars, investmentVars, assuranceVars>>
    \/ Exercised("expansion") /\ ExpansionNext
       /\ UNCHANGED <<gateVars, dcrVars, cacheVars, workVars, ledgerVars, investmentVars, assuranceVars>>
    \/ Exercised("cache") /\ CacheNext
       /\ UNCHANGED <<gateVars, dcrVars, expansionVars, workVars, ledgerVars, investmentVars, assuranceVars>>
    \/ Exercised("work") /\ WorkNext
       /\ UNCHANGED <<gateVars, dcrVars, expansionVars, cacheVars, ledgerVars, investmentVars, assuranceVars>>
    \/ Exercised("gauge") /\ GaugeNext
       /\ UNCHANGED <<gateVars, dcrVars, expansionVars, cacheVars, workVars, investmentVars, assuranceVars>>
    \/ Exercised("bill") /\ (BillNext \/ ReportNext)
       /\ UNCHANGED <<gateVars, dcrVars, expansionVars, cacheVars, workVars, investmentVars, assuranceVars>>
    \/ Exercised("asset") /\ AssetNext
       /\ UNCHANGED <<portfolioVars, gateVars, dcrVars, expansionVars, cacheVars, workVars, ledgerVars, assuranceVars>>
    \/ Exercised("portfolio") /\ PortfolioNext
       /\ UNCHANGED <<assetVars, gateVars, dcrVars, expansionVars, cacheVars, workVars, ledgerVars, assuranceVars>>
    \/ Exercised("program") /\ ProgramNext
       /\ UNCHANGED <<registryVars, budgetVars, reviewVars, gateVars, dcrVars, expansionVars, cacheVars, workVars, ledgerVars, investmentVars>>
    \/ Exercised("registry") /\ RegistryNext
       /\ UNCHANGED <<programVars, budgetVars, reviewVars, gateVars, dcrVars, expansionVars, cacheVars, workVars, ledgerVars, investmentVars>>
    \/ Exercised("budget") /\ BudgetNext
       /\ UNCHANGED <<programVars, registryVars, reviewVars, gateVars, dcrVars, expansionVars, cacheVars, workVars, ledgerVars, investmentVars>>
    \/ Exercised("review") /\ ReviewNext
       /\ UNCHANGED <<programVars, registryVars, budgetVars, gateVars, dcrVars, expansionVars, cacheVars, workVars, ledgerVars, investmentVars>>

GateSpec == GateInit /\ [][GateNext]_allVars
=============================================================================
