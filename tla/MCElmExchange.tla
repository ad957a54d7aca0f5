---------------------------- MODULE MCElmExchange ---------------------------
(* A small instance of ElmExchange: a ceiling of 3 where the code's         *)
(* MAX_OWED_PROMPTS is 4, and the one retry that the polled reads have.     *)
EXTENDS ElmExchange
=============================================================================
