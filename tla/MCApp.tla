------------------------------- MODULE MCApp -------------------------------
(* Small instances of App for TLC.                                         *)
EXTENDS App, TLC

CONSTANTS l1, l2, a, b

TwoStarts == (l1 :> a) @@ (l2 :> b)
Fixed == {{a, b}}
=============================================================================
