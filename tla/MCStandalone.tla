---------------------------- MODULE MCStandalone ----------------------------
(* Instances of Standalone for TLC: the limits are small enough that the   *)
(* children run into them, and every limit can also be off (0).            *)
EXTENDS Standalone

MCConfigs ==
    {[max_clients |-> 2, max_per_ip |-> 1],
     [max_clients |-> 1, max_per_ip |-> 0]}

MCConfigsSmall ==
    {[max_clients |-> 1, max_per_ip |-> 0]}

=============================================================================
