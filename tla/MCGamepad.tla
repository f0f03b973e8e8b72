----------------------------- MODULE MCGamepad -----------------------------
(* Two controllers whose buttons have two states.                            *)
EXTENDS Gamepad
MCPads == {0, 1}
MCButtons == {0, 1}
============================================================================
