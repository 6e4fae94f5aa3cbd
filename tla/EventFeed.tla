----------------------------- MODULE EventFeed ------------------------------
(***************************************************************************)
(* What a reader of the host's event bus may rely on (event/bus.go and      *)
(* runtime/dsl_events.go): of the items each publisher has published it is  *)
(* given some, never one twice, never one before an older one, and none     *)
(* that was not published.  Items may be skipped: a reader that is slow     *)
(* loses some without notice.  Nothing orders two publishers.               *)
(***************************************************************************)
EXTENDS Naturals

CONSTANTS Readers, Publishers, Fan  \* items one publication may become

VARIABLES
  issued,  \* per publisher, the items published so far
  given    \* per reader and publisher, the newest item given

Init ==
  /\ issued = [p \in Publishers |-> 0]
  /\ given = [r \in Readers |-> [p \in Publishers |-> 0]]

Publish(p) ==
  /\ issued' = [issued EXCEPT ![p] = @ + Fan]
  /\ UNCHANGED given

Give(r, p, n) ==
  /\ given[r][p] < n
  /\ n <= issued[p]
  /\ given' = [given EXCEPT ![r][p] = n]
  /\ UNCHANGED issued

Next ==
  \/ \E p \in Publishers : Publish(p)
  \/ \E r \in Readers, p \in Publishers : \E n \in 1..issued[p] : Give(r, p, n)

Spec == Init /\ [][Next]_<<issued, given>>
=============================================================================
