-------------------------- MODULE RequestLifecycle --------------------------
(***************************************************************************)
(* What a client of SmpClient relies on, without the table, the sequence   *)
(* numbers, the queue or the link: "issue a request and get exactly one    *)
(* answer" (src/include/smply/smp_client.hpp).                             *)
(***************************************************************************)
CONSTANTS Requests,   \* the requests that may be issued
          Outcomes    \* what a callback may be told

VARIABLE status       \* of each request: unissued, outstanding, or its outcome

Init == status = [r \in Requests |-> "unissued"]

Issue(r) ==
  /\ status[r] = "unissued"
  /\ status' = [status EXCEPT ![r] = "outstanding"]

Complete(r) ==
  /\ status[r] = "outstanding"
  /\ \E o \in Outcomes : status' = [status EXCEPT ![r] = o]

Next == \E r \in Requests : Issue(r) \/ Complete(r)

Spec == Init /\ [][Next]_status
=============================================================================
