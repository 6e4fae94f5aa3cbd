---------------------------- MODULE MCGoalGraph ----------------------------
(* Two goals that wait on the same question and share an enabler, and one    *)
(* node of the cron; with a cap of two a closed node is soon evicted.        *)
EXTENDS GoalGraph

MCGoals == {"mine", "sell"}
MCQuestion == [g \in MCGoals |-> "where"]
MCEnabler == [g \in MCGoals |-> "train"]
MCChains == {"chain"}
MCOrder == <<"chain", "mine", "sell", "train", "where">>
=============================================================================
