------------------------------ MODULE MCRoutine -----------------------------
(* One watcher, one deferred call, two selects.  The budget admits a watcher *)
(* body that yields to a nested sweep.                                       *)
EXTENDS Routine, TLC

CONSTANTS w1, d1

MCWatchers == {w1}
MCQual == w1 :> "becomes true"
MCEvents == {"chat"}
MCHandlers == [chat |-> <<"bounded">>]
MCSelects == {<<[k |-> "on", of |-> "chat"], [k |-> "timeout", of |-> ""]>>,
              <<[k |-> "when", of |-> "changes"], [k |-> "on", of |-> "chat"]>>}
MCDefers == {d1}
=============================================================================
