----------------------------- MODULE Admission ------------------------------
(***************************************************************************)
(* What the standalone listener promises its administrator, with no        *)
(* process, signal or table in sight: sessions are admitted and leave, and *)
(* no admission ever exceeds a limit that the sessions it counts were      *)
(* admitted under.  The code only refuses a session (check_limits in       *)
(* prelogin.c); that the refusals add up to this is what Standalone shows. *)
(***************************************************************************)
EXTENDS Integers, FiniteSets

CONSTANTS Sessions, Addrs, NoAddr, Configs

VARIABLES
    active,   \* the admitted sessions
    client,   \* the address of each active session
    limit     \* the limits in force when it was launched

avars == <<active, client, limit>>

NoLimit == [max_clients |-> 0, max_per_ip |-> 0]

(* Among the sessions launched under a limit of at most m (0 is no limit)  *)
(* at most m are active at once, in all and per address.                   *)
LimitsRespected ==
    \A c \in Configs :
        /\ Cardinality({s \in active : limit[s].max_clients \in 1..c.max_clients})
              <= c.max_clients
        /\ \A a \in Addrs :
              Cardinality({s \in active :
                              /\ client[s] = a
                              /\ limit[s].max_per_ip \in 1..c.max_per_ip})
                 <= c.max_per_ip

Init ==
    /\ active = {}
    /\ client = [s \in Sessions |-> NoAddr]
    /\ limit = [s \in Sessions |-> NoLimit]

Admit(s) ==
    /\ s \notin active
    /\ active' = active \cup {s}
    /\ \E a \in Addrs : client' = [client EXCEPT ![s] = a]
    /\ \E c \in Configs : limit' = [limit EXCEPT ![s] = c]
    /\ LimitsRespected'

Leave(s) ==
    /\ s \in active
    /\ active' = active \ {s}
    /\ client' = [client EXCEPT ![s] = NoAddr]
    /\ limit' = [limit EXCEPT ![s] = NoLimit]

Next == \E s \in Sessions : Admit(s) \/ Leave(s)

Spec == Init /\ [][Next]_avars

=============================================================================
