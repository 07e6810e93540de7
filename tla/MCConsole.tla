------------------------------ MODULE MCConsole ------------------------------
(* Instances of Console for TLC: a screen of two lines of two columns.     *)
EXTENDS Console
MCMessages == { <<<<"red">>, <<"a", "tab", "b">>, <<"newline">>>>, <<<<"c", "newline", "d">>>> }
==============================================================================
