--------------------------- MODULE MCConfigEditor --------------------------
(* One page, and the texts that matter: two good ones and one with an error. *)
EXTENDS ConfigEditor

CONSTANTS good, better, wrong

Texts == {good, better, wrong}
Savable == {good, better}
=============================================================================
