---------------------------- MODULE MCLifecycle ----------------------------
(* Connections that share the key of a channel (an encoder that             *)
(* reconnects); and two channels, with a connection on the spare key that   *)
(* either streamer may reset to.                                            *)
EXTENDS Lifecycle, TLC

CONSTANTS k1, k2, k3, s1, s2

OneKey  == [s \in Sources |-> k1]
TwoKeys == [s \in Sources |-> IF s = s1 THEN k1 ELSE k3]

Symmetry ==
  UNION {Permutations(S) : S \in {Broadcasts, Jobs}}
=============================================================================
