------------------------------ MODULE Decision ------------------------------
(* What a durable journal promises: one decision, never revised, and callers   *)
(* are told nothing else.                                                      *)
CONSTANTS Decisions, Undecided

VARIABLES decision, told

DecisionInit == decision = Undecided /\ told = {}

Decide ==
    /\ decision = Undecided
    /\ decision' \in Decisions
    /\ UNCHANGED told

Tell ==
    /\ decision # Undecided
    /\ told' = told \cup {decision}
    /\ UNCHANGED decision

DecisionSpec == DecisionInit /\ [][Decide \/ Tell]_<<decision, told>>
=============================================================================
