------------------------------ MODULE Exchange -----------------------------
(***************************************************************************)
(* What the proxy promises about one exchange, whatever happens to the     *)
(* models behind it: the client is answered once and for good, at most two *)
(* attempts are made upstream, and an attempt that is not the answer is    *)
(* followed by another one only while nothing has reached the client.      *)
(***************************************************************************)
EXTENDS Naturals

CONSTANTS Requests, Answers, NoAnswer

VARIABLES
    sent,  \* attempts made for each request
    answer \* what the client of each request has got

vars == <<sent, answer>>

Init ==
    /\ sent = [r \in Requests |-> 0]
    /\ answer = [r \in Requests |-> NoAnswer]

\* An attempt: it yields the answer, or it is the first one and leaves the
\* client without one.
Attempt(r) ==
    /\ answer[r] = NoAnswer
    /\ sent[r] < 2
    /\ sent' = [sent EXCEPT ![r] = @ + 1]
    /\ \/ answer' = answer /\ sent[r] = 0
       \/ \E a \in Answers : answer' = [answer EXCEPT ![r] = a]

\* An answer that needs no attempt, or no further one.
Refuse(r) ==
    /\ answer[r] = NoAnswer
    /\ \E a \in Answers : answer' = [answer EXCEPT ![r] = a]
    /\ UNCHANGED sent

Next == \E r \in Requests : Attempt(r) \/ Refuse(r)

Spec == Init /\ [][Next]_vars
=============================================================================
