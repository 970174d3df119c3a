--------------------------- MODULE MCControlSocket ---------------------------
(***************************************************************************)
(* Commands for checking ControlSocket.                                    *)
(***************************************************************************)
EXTENDS ControlSocket

\* Two commands whose messages have different lengths, "2|9|" and "3|10|".
BothCommands == {CTRL_PAUSE, CTRL_STOP}
=============================================================================
