---------------------------- MODULE TokenBucket ----------------------------
(***************************************************************************)
(* What a rate limiter promises: every client has a bucket that gains one  *)
(* token per unit of time until it is full; a request is let through if    *)
(* there is a token for it, which it takes, and refused only if there is   *)
(* none.                                                                   *)
(***************************************************************************)
EXTENDS Integers

CONSTANTS
    Requests, \* requests, one after the other
    Clients,  \* who is counted
    Burst     \* tokens in a full bucket

VARIABLES
    tokens, \* what is in each client's bucket now
    client, \* whose request it is, or was
    verdict \* what has become of it

vars == <<tokens, client, verdict>>

Init ==
    /\ tokens = [c \in Clients |-> Burst]
    /\ client \in [Requests -> Clients]
    /\ verdict = [r \in Requests |-> "none"]

Arrive(r, c) ==
    /\ verdict[r] # "waiting"
    /\ client' = [client EXCEPT ![r] = c]
    /\ verdict' = [verdict EXCEPT ![r] = "waiting"]
    /\ UNCHANGED tokens

Judge(r) ==
    /\ verdict[r] = "waiting"
    /\ IF tokens[client[r]] > 0
       THEN /\ verdict' = [verdict EXCEPT ![r] = "passed"]
            /\ tokens' = [tokens EXCEPT ![client[r]] = @ - 1]
       ELSE /\ verdict' = [verdict EXCEPT ![r] = "refused"]
            /\ UNCHANGED tokens
    /\ UNCHANGED client

\* One unit of time passes.
Refill ==
    /\ tokens' = [c \in Clients |-> IF tokens[c] < Burst THEN tokens[c] + 1 ELSE Burst]
    /\ UNCHANGED <<client, verdict>>

Next ==
    \/ Refill
    \/ \E r \in Requests : Judge(r) \/ \E c \in Clients : Arrive(r, c)

Spec == Init /\ [][Next]_vars
=============================================================================
