-------------------------------- MODULE MCTty ------------------------------
(* Two readers of one process group, a ring for two characters and lines   *)
(* of two; the modes of a shell and of an editor.                          *)
EXTENDS Tty, TLC

CONSTANTS r1, r2

MCPgid == r1 :> 1 @@ r2 :> 1
MCModes == {<<TRUE, TRUE>>, <<FALSE, FALSE>>}
============================================================================
