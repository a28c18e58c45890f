--------------------------- MODULE MCDataChannel ----------------------------
(* Instances of DataChannel for TLC.  The state space is finite as it is:  *)
(* the calls bound the streams.                                            *)
EXTENDS DataChannel

=============================================================================
