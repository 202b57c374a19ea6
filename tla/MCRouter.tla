----------------------------- MODULE MCRouter ------------------------------
(* Two requests, the coordinator's own machine and one worker.             *)
EXTENDS Router, TLC

CONSTANTS r1, r2, u1, a, b, k1, w1, x

KeysOfWorkers == (u1 :> k1)

OneWorker == <<[name |-> w1, url |-> u1, key |-> k1]>>

\* Model a has the default port and the alias x; b is a launch_cmd.
TwoPorts ==
    (a :> [alias |-> x, launch |-> NoCommand, port |-> NoPort]) @@
    (b :> [alias |-> NoName, launch |-> 9000, port |-> NoPort])

\* Both requests ask for b; or one asks for a and the other for the list.
Same == (r1 :> b) @@ (r2 :> b)
ModelAndList == (r1 :> x) @@ (r2 :> ListName)
Asked == {Same, ModelAndList}
=============================================================================
