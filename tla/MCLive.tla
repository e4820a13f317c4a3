------------------------------- MODULE MCLive -------------------------------
(* What must end: the cells of the host, and the guest programs they run.  A  *)
(* behaviour exercises one of the two, chosen at the start; the other rests   *)
(* where nothing has to happen: no cell is loaded, or the program is one that *)
(* waits for the deadline.  The workspace is empty at first, and only the      *)
(* program that uses z.state finds a session state.                           *)
EXTENDS MCCell, Guest

(* The guest programs: each exercises one way promises are combined. *)

Code(name, prefetch, code) == [name |-> name, prefetch |-> prefetch, code |-> code]

mcBodies ==
    [pass    |-> <<<<"return", "undefined">>>>,
     boom    |-> <<<<"throw">>>>,
     useTool |-> <<<<"tool", "z">>, <<"return", "z">>>>,
     settleM |-> <<<<"settle", "m", "ok">>, <<"settle", "m", "throw">>>>,
     awaitM  |-> <<<<"await", "m", "u">>>>,
     again   |-> <<<<"then", "u", "k", "again", "none">>, <<"await", "u", "v">>>>]

mcPrograms ==
    { Code("pair", 2, <<<<"tool", "a">>, <<"tool", "b">>, <<"tool", "c">>, <<"all", "x", <<"a", "b">>>>,
                        <<"await", "x", "y">>, <<"return", "c">>>>),
      Code("race", 0, <<<<"tool", "a">>, <<"then", "t", "a", "pass", "none">>, <<"tool", "b">>,
                        <<"race", "r", <<"t", "b">>>>, <<"tryAwait", "r", "y">>, <<"return", "t">>>>),
      Code("nested", 0, <<<<"made", "k", "throw">>, <<"tool", "a">>, <<"all", "x", <<"k", "a">>>>, <<"new", "m">>,
                          <<"settled", "s", <<"a">>>>, <<"race", "q", <<"s", "m">>>>,
                          <<"race", "r", <<"x", "m">>>>, <<"tryAwait", "r", "y">>, <<"tryAwait", "q", "y">>>>),
      Code("settled", 1, <<<<"tool", "a">>, <<"tool", "b">>, <<"settled", "s", <<"a", "lit", "b">>>>,
                           <<"await", "s", "y">>, <<"return", "y">>>>),
      Code("chain", 0, <<<<"tool", "a">>, <<"then", "t", "a", "useTool", "boom">>, <<"then", "s", "t", "none", "pass">>,
                         <<"await", "s", "y">>>>),
      Code("manual", 0, <<<<"new", "m">>, <<"tool", "a">>, <<"then", "t", "a", "settleM", "settleM">>,
                          <<"await", "m", "y">>>>),
      Code("reenter", 0, <<<<"new", "m">>, <<"made", "k", "ok">>, <<"then", "t", "k", "awaitM", "none">>,
                           <<"tool", "a">>, <<"then", "s", "a", "settleM", "settleM">>, <<"tryAwait", "t", "y">>>>),
      Code("allManual", 0, <<<<"new", "m">>, <<"tool", "a">>, <<"then", "t", "a", "settleM", "settleM">>,
                             <<"all", "x", <<"m">>>>, <<"await", "x", "y">>>>),
      Code("release", 0, <<<<"tool", "a">>, <<"awaitCall", "a", "y">>, <<"tryAwait", "a", "z">>>>),
      Code("releasedAll", 0, <<<<"tool", "a">>, <<"awaitCall", "a", "y">>, <<"all", "x", <<"a">>>>,
                               <<"await", "x", "z">>>>),
      Code("budget", 2, <<<<"tool", "a">>, <<"tool", "b">>, <<"tool", "c">>, <<"tool", "d">>>>),
      Code("state", 0, <<<<"set", "k", 2>>, <<"set", "k", 1>>, <<"set", "j", 2>>, <<"delete", "k">>,
                         <<"set", "j", 4>>, <<"return", "undefined">>>>),
      Code("deep", 0, <<<<"made", "k", "ok">>, <<"then", "t", "k", "again", "none">>, <<"await", "t", "y">>>>),
      Code("emptyRace", 0, <<<<"race", "r", <<>>>>, <<"await", "r", "y">>>>),
      Code("raceChain", 0, <<<<"made", "k", "ok">>, <<"then", "t", "k", "useTool", "none">>, <<"tool", "b">>,
                             <<"race", "r", <<"t", "b">>>>, <<"tryAwait", "r", "y">>>>) }

mcSaved == {<< >>, "k" :> 1, "k" :> 3 @@ "j" :> 2}

mcNeedDeadline == {"allManual", "releasedAll"}

-----------------------------------------------------------------------------

VARIABLE machine

liveVars == <<machine, cellVars, guestVars>>

LiveInit ==
    /\ machine \in {"cell", "guest"}
    /\ CellInit /\ GuestInit
    /\ machine = "cell" => program.name = "allManual"
    /\ program.name # "state" => kept = << >>
    /\ \A p \in Paths : files[p] = Absent

OfCells(A) == machine = "cell" /\ A /\ UNCHANGED <<machine, guestVars>>

OfGuest(A) == machine = "guest" /\ A /\ UNCHANGED <<machine, cellVars>>

LiveNext ==
    \/ OfCells(CellNext)
    \/ OfGuest(GuestNext)

\* The fairness of FairCellSpec and of GuestSpec.
LiveSpec ==
    /\ LiveInit /\ [][LiveNext]_liveVars
    /\ \A c \in Cells : WF_liveVars(OfCells(HostStep(c))) /\ SF_liveVars(OfCells(GuestFails(c)))
    /\ WF_liveVars(OfGuest(Interpret)) /\ WF_liveVars(OfGuest(connector_completes))
=============================================================================
