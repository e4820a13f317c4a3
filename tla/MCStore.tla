------------------------------- MODULE MCStore -------------------------------
(***************************************************************************)
(* The durable pieces of zero-store, of the kernel's log and of the two     *)
(* engines' stores that share no file: a behaviour exercises one of them,   *)
(* chosen at the start, and the state spaces add up.                        *)
(***************************************************************************)
EXTENDS DurableJournal, AttemptJournal, SessionWal, StoreOpen, EventLog,
        GraphStore, PackStore, Indexer

CONSTANTS e1, e2, o1, o2

VARIABLE machine

\* The third transaction leads back to the first root.
mcBindings == {[id |-> "t1", old |-> "r0", new |-> "r1", leased |-> FALSE],
               [id |-> "t2", old |-> "r0", new |-> "r2", leased |-> TRUE],
               [id |-> "t3", old |-> "r1", new |-> "r0", leased |-> FALSE]}

mcEvidences == {[kind |-> "completion", receipt |-> "x"],
                [kind |-> "completion", receipt |-> "y"],
                [kind |-> "failure", receipt |-> "x"]}

\* Two sessions with an event each; both observations are of one request.
mcSession == (e1 :> 1) @@ (e2 :> 2)

mcRequest == (o1 :> 1) @@ (o2 :> 1)

\* A manifest with an external dependency; file 2 calls what file 3 may define.
NoCode == [defs |-> {}, calls |-> {}, items |-> {}, imports |-> {}, includes |-> {},
           sets |-> FALSE, reads |-> FALSE, deps |-> {}, members |-> {}]

mcSource ==
    ("M1" :> [NoCode EXCEPT !.deps = {9}, !.members = {9}])
    @@ ("A1" :> [NoCode EXCEPT !.defs = {"fa"}, !.calls = {<<"fa", "fb">>, <<"fa", "fa">>},
                               !.items = {"fa"}, !.imports = {"fb"}, !.includes = {3}, !.sets = TRUE])
    @@ ("A2" :> [NoCode EXCEPT !.defs = {"fa"}])
    @@ ("B1" :> [NoCode EXCEPT !.defs = {"fb"}, !.items = {"fb"}, !.reads = TRUE])
    @@ ("I1" :> NoCode)

mcTrees == {(1 :> "M1") @@ (2 :> "A1") @@ (4 :> "I1")}

\* File 3 may become a second copy of file 2.
mcVersions == (2 :> {"A2"}) @@ (3 :> {"A1", "B1"}) @@ (4 :> {})

mcSourcesOf == 1 :> {2, 3}

StoreInit ==
    /\ machine \in {"journal", "attempt", "wal", "root", "format", "log", "expand", "graph", "pack",
                   "index"}
    /\ JournalInit /\ AttemptInit /\ WalInit /\ LogInit /\ OpenInit /\ GraphInit /\ PackInit
    /\ IndexInit
    /\ machine # "index" => latest = {}
    /\ machine # "root" => marker = "none" /\ legacy = {}

Exercised(m) == machine = m /\ UNCHANGED machine

OthersRest(m) ==
    /\ m # "journal" => UNCHANGED journalVars
    /\ m # "attempt" => UNCHANGED attemptVars
    /\ m # "wal" => UNCHANGED walVars
    /\ m \notin {"root", "format"} => UNCHANGED openVars
    /\ m \notin {"log", "expand"} => UNCHANGED logVars
    /\ m # "graph" => UNCHANGED graphVars
    /\ m # "pack" => UNCHANGED packVars
    /\ m # "index" => UNCHANGED indexVars

StoreNext ==
    \/ Exercised("journal") /\ JournalNext /\ OthersRest("journal")
    \/ Exercised("attempt") /\ AttemptNext /\ OthersRest("attempt")
    \/ Exercised("wal") /\ WalNext /\ OthersRest("wal")
    \/ Exercised("root") /\ OpenStore /\ OthersRest("root")
    \/ Exercised("format") /\ MigrateNext /\ OthersRest("format")
    \/ Exercised("log") /\ LogNext /\ OthersRest("log")
    \/ Exercised("expand") /\ Expand /\ OthersRest("expand")
    \/ Exercised("graph") /\ GraphNext /\ OthersRest("graph")
    \/ Exercised("pack") /\ PackNext /\ OthersRest("pack")
    \/ Exercised("index") /\ IndexNext /\ OthersRest("index")

StoreSpec ==
    StoreInit /\ [][StoreNext]_<<machine, journalVars, attemptVars, walVars, openVars, logVars,
                               graphVars, packVars, indexVars>>
=============================================================================
