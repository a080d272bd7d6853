------------------------------ MODULE MCDumps ------------------------------
(* An instance of Dumps: one program of each kind, and three versions of   *)
(* the interpreter, the last of which moves the pin and the dump format.   *)
EXTENDS Dumps

MCOrder  == <<"corpus", "fixture">>
MCPin    == <<1, 1, 2>>
MCFormat == <<1, 1, 2>>
=============================================================================
