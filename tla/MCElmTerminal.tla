--------------------------- MODULE MCElmTerminal ----------------------------
(* Small instances of ElmTerminal.                                          *)
EXTENDS ElmTerminal
=============================================================================
