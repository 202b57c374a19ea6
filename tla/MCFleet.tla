------------------------------ MODULE MCFleet ------------------------------
(* One worker machine, viewed by two clients, while the config is edited.  *)
EXTENDS Fleet, TLC

CONSTANTS v1, v2, u1, a, k1, k2, w1, w2, BadUrl

Keys == (u1 :> k1)

\* An edit takes the name and the right key from the entry for u1, in a list
\* with entries that Load skips.
Named == [name |-> w1, url |-> u1, key |-> k1]
Unnamed == [name |-> NoName, url |-> u1, key |-> k2]
Shadow == [name |-> LocalMachine, url |-> u1, key |-> k1]
Broken == [name |-> w2, url |-> BadUrl, key |-> k1]

First == <<Named>>
Edits == {First, <<Shadow, Broken, Unnamed>>}
=============================================================================
