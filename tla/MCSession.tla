----------------------------- MODULE MCSession -----------------------------
(* One connection of one account, whose client may log out (run unclosed). *)
EXTENDS Session

CONSTANT c1
=============================================================================
