---------------------------- MODULE MCWalkerPool ----------------------------
(* WalkerPool for TLC: below root r a marked directory m with a child n, a huge directory h
   with a marker and a child k, a protected opaque tree o, a sealed one z, an excluded x;
   below root q an opaque tree s on another device and a directory t that cannot be read. *)
EXTENDS WalkerPool

CONSTANTS r, q, s, t, m, n, h, k, o, x, z

MCParent == [d \in Dirs \ Roots |->
               CASE d = n -> m [] d = k -> h [] d \in {s, t} -> q [] OTHER -> r]
=============================================================================
