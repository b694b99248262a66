-------------------------- MODULE MCBallastRelease --------------------------
(***************************************************************************)
(* BallastRelease for TLC: one pool.                                       *)
(***************************************************************************)
EXTENDS BallastRelease

OnePool == <<"a">>

=============================================================================
