--------------------------- MODULE MCBallastFiles ---------------------------
(***************************************************************************)
(* Small instances of BallastFiles: the daemon and one command.            *)
(***************************************************************************)
EXTENDS BallastFiles

\* Two configurations an edit switches between, one file and a file size apart.
SmallConfs == { [count |-> 2, size |-> 1], [count |-> 1, size |-> 2] }
=============================================================================
