------------------------------ MODULE DataPath ------------------------------
(***************************************************************************)
(* What a session promises about data connections, with one process and no *)
(* remote calls in sight: a set-up (PORT or PASV) serves for one attempt,  *)
(* the attempt yields at most one connection, to the client unless the     *)
(* configuration allows others, and nothing is set up while one is open.   *)
(***************************************************************************)
CONSTANTS
    Peers,      \* who may be at the other end of a data connection
    NoPeer,     \* no data connection
    Client,     \* the peer of the control connection
    AnyPeer     \* AnyPeer[m]: a set-up of kind m may reach other peers

VARIABLES
    setup,      \* "none", "port" or "pasv"
    used,       \* an attempt to connect was made with this set-up
    conn,       \* the open data connection, NoPeer if none
    over        \* the session's command processing has ended

dvars == <<setup, used, conn, over>>

Init ==
    /\ setup = "none"
    /\ used = FALSE
    /\ conn = NoPeer
    /\ over = FALSE

SetUp(m) ==
    /\ setup = "none" /\ ~used /\ ~over
    /\ conn = NoPeer
    /\ setup' = m
    /\ UNCHANGED <<used, conn, over>>

Connect(p) ==
    /\ setup # "none" /\ ~used /\ ~over
    /\ p = Client \/ AnyPeer[setup]
    /\ used' = TRUE
    /\ conn' = p
    /\ UNCHANGED <<setup, over>>

ConnectFails ==
    /\ setup # "none" /\ ~used /\ ~over
    /\ used' = TRUE
    /\ UNCHANGED <<setup, conn, over>>

Disconnect ==
    /\ conn # NoPeer
    /\ conn' = NoPeer
    /\ UNCHANGED <<setup, used, over>>

Drop ==
    /\ conn = NoPeer
    /\ setup' = "none"
    /\ used' = FALSE
    /\ UNCHANGED <<conn, over>>

(* The session ends; a listening socket may outlive it for a moment.       *)
End ==
    /\ over' = TRUE
    /\ setup' \in {setup, "none"}
    /\ used' = FALSE
    /\ conn' = NoPeer

Next ==
    \/ \E m \in {"port", "pasv"} : SetUp(m)
    \/ \E p \in Peers : Connect(p)
    \/ ConnectFails
    \/ Disconnect
    \/ Drop
    \/ End

Spec == Init /\ [][Next]_dvars

=============================================================================
