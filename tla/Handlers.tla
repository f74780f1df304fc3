------------------------------- MODULE Handlers -------------------------------
(***************************************************************************)
(* What the REST and WebSocket handlers of the server have in common.  A   *)
(* request is a task of the event loop that suspends at its database       *)
(* statements: a function of server/db/repositories is one transaction.    *)
(* An action is one such statement, with the code up to the next one, and  *)
(* pc[r] names the statement that request r waits for.  Audit rows, push   *)
(* notifications and names for display change nothing that is modelled.    *)
(***************************************************************************)
EXTENDS Naturals, Sequences, FiniteSets

CONSTANTS
    Users,       \* ids of accounts
    Requests,    \* requests; each is handled once
    NoRequest

ASSUME UsersAssumption == Users \subseteq Nat \ {0}

VARIABLES
    req,         \* req[r]: the request, once it has arrived
    pc           \* pc[r]: the statement r waits for, "new" or "done"

\* Request r goes from one statement to another.
Goto(r, from, to) ==
    /\ pc[r] = from
    /\ pc' = [pc EXCEPT ![r] = to]

\* Request a arrives, and waits for the statement named first.
Arrive(r, a, first) ==
    /\ Goto(r, "new", first)
    /\ req' = [req EXCEPT ![r] = a]

===============================================================================
