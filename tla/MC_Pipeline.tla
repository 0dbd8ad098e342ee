----------------------------- MODULE MC_Pipeline -----------------------------
(* Instances of Pipeline for TLC.                                          *)
EXTENDS Pipeline

CONSTANTS s1, s2

(* Three chunks: the greeting's chunk and two more, so that chunks are     *)
(* queued while the worker processes a batch and left over at its exit.   *)
MC_NumChunks == 3

(* ~Connection's own order.                                               *)
MC_Teardown == ConnectionTeardown

(* A host that resolves, one that does not, and the empty string; the     *)
(* default port and the invalid port 0.                                   *)
MC_Hosts == {"asterisk", "unknown", ""}
MC_Resolvable == {"asterisk"}
MC_Ports == {0, 5038}

(* Two subscriptions, one of whose callbacks unsubscribes itself.         *)
MC_Subs == {s1, s2}
MC_Reentrant == {s2}
=============================================================================
