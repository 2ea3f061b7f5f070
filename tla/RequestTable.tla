---------------------------- MODULE RequestTable ----------------------------
(***************************************************************************)
(* What a request/response layer promises its callers: every request gets  *)
(* one answer and keeps it, it succeeds only by the first message of the   *)
(* device that carries its id, and nobody waits for ever.                  *)
(* CompanionSession and MRPProtocol are shown to implement this module.    *)
(***************************************************************************)
EXTENDS FiniteSets

CONSTANT Tx          \* transaction ids

VARIABLES promise,   \* what the caller of each request holds
          replied    \* ids of requests a message of the device has carried

vars == <<promise, replied>>

Outcomes == {"none", "pending", "resolved", "rejected"}

Init == /\ promise = [x \in Tx |-> "none"]
        /\ replied = {}

Issue(x) == /\ promise[x] = "none"
            /\ promise' = [promise EXCEPT ![x] = "pending"]
            /\ UNCHANGED replied

\* A message settles the request whose id it carries, or comes after that.
Reply(x) == /\ promise[x] # "none"
            /\ x \notin replied
            /\ replied' = replied \cup {x}
            /\ \/ /\ promise[x] = "pending"
                  /\ \E o \in {"resolved", "rejected"} :
                        promise' = [promise EXCEPT ![x] = o]
               \/ /\ promise[x] # "pending"
                  /\ UNCHANGED promise

\* A timeout, a send that failed, or the end of the session.
Fail(S) == /\ \A x \in S : promise[x] = "pending"
           /\ promise' = [x \in Tx |-> IF x \in S THEN "rejected" ELSE promise[x]]
           /\ UNCHANGED replied

Next == \/ \E x \in Tx : Issue(x) \/ Reply(x)
        \/ \E S \in SUBSET Tx : Fail(S)

Spec == Init /\ [][Next]_vars

\* Every request is answered or fails in the end.
EveryRequestSettles ==
  \A x \in Tx : (promise[x] = "pending") ~> (promise[x] # "pending")

=============================================================================
