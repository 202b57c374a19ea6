-------------------------- MODULE MCServerManager --------------------------
(* Small instances of ServerManager for TLC.                               *)
EXTENDS ServerManager, TLC

CONSTANTS l1, l2, a, b

TwoStarts == (l1 :> a) @@ (l2 :> b)

\* No reload, and reloads that add and remove model b.
Fixed == {{a, b}}
Edited == {{a}, {a, b}}
=============================================================================
