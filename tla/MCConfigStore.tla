--------------------------- MODULE MCConfigStore ---------------------------
(* Small instances of ConfigStore for TLC.                                 *)
EXTENDS ConfigStore

CONSTANTS good, better, dup, trailing

\* dup: two models of one name, which only the reload accepts;
\* trailing: bytes after the JSON value, which only the save accepts.
Texts == {good, better, dup, trailing}
Loads == {good, better, dup}
Passes == {good, better, trailing}
=============================================================================
