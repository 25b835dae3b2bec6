------------------------------- MODULE RpcCalls -------------------------------
(***************************************************************************)
(* What TcpClient::sendAndWaitResponse promises its callers, with no       *)
(* threads, sockets or stream identifiers in sight.  A call that has begun *)
(* ends at most once, as ok or as failed.  It may end as ok only if the    *)
(* peer answered it, and the result it returns is the answer to that very  *)
(* call; it may fail at any time (timeout, refused write, disconnect).     *)
(* An answer to a call exists only once the call has begun.                *)
(***************************************************************************)
CONSTANTS Calls,   \* the calls the application makes
          None     \* "no result"

VARIABLES outcome,    \* outcome[k]: how far call k has come
          result,     \* result[k]: the call whose answer k returned
          answered    \* the calls the peer has answered

vars == <<outcome, result, answered>>

Init == /\ outcome = [k \in Calls |-> "idle"]
        /\ result = [k \in Calls |-> None]
        /\ answered = {}

Begin(k) == /\ outcome[k] = "idle"
            /\ outcome' = [outcome EXCEPT ![k] = "pending"]
            /\ UNCHANGED <<result, answered>>

\* The peer may answer late: the call may have failed in the meantime.
Answer(k) == /\ outcome[k] # "idle"
             /\ answered' = answered \cup {k}
             /\ UNCHANGED <<outcome, result>>

Succeed(k) == /\ outcome[k] = "pending"
              /\ k \in answered
              /\ outcome' = [outcome EXCEPT ![k] = "ok"]
              /\ result' = [result EXCEPT ![k] = k]
              /\ UNCHANGED answered

Fail(k) == /\ outcome[k] = "pending"
           /\ outcome' = [outcome EXCEPT ![k] = "failed"]
           /\ UNCHANGED <<result, answered>>

Next == \E k \in Calls : Begin(k) \/ Answer(k) \/ Succeed(k) \/ Fail(k)

Spec == Init /\ [][Next]_vars
===============================================================================
