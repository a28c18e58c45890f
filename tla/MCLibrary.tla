----------------------------- MODULE MCLibrary ------------------------------
(* The parts that run by themselves, checked side by side: a behaviour     *)
(* picks one part, and the others keep a fixed state.                      *)
EXTENDS HashChains, SandboxNeeds, Tracer, Filters, Files, TLC

VARIABLE part

-----------------------------------------------------------------------------
(* Four keys in two buckets, so that chains get longer than two nodes.     *)
MCHashFunc == [k \in Keys |-> IF k \in {"k1", "k2", "k3"} THEN 0 ELSE 1]

(* Every switch the filters look at, flipped in pairs from the defaults    *)
(* and from everything on, and alone from two more configurations.         *)
Switches ==
    {"port_enable", "pasv_enable", "idle_session_timeout", "data_connection_timeout",
     "xferlog_enable", "dual_log_enable", "ssl_enable", "syslog_enable", "write_enable",
     "lock_upload_files", "async_abor_enable", "use_sendfile", "one_process_model",
     "chown_uploads", "text_userdb_names", "anon_mkdir_write_enable",
     "anon_other_write_enable", "anon_upload_enable", "delete_failed_uploads",
     "mdtm_write", "chmod_enable", "port_promiscuous"}
DefaultSwitches ==
    {"port_enable", "pasv_enable", "idle_session_timeout", "data_connection_timeout",
     "lock_upload_files", "use_sendfile", "mdtm_write", "chmod_enable"}
Flip(t, s) == (t \ s) \cup (s \ t)
MCConfigs ==
    {Flip(t, {s1, s2}) : t \in {DefaultSwitches, Switches}, s1, s2 \in Switches}
    \cup {Flip(t, {s}) : t \in {{}, Switches \ {"one_process_model"}}, s \in Switches}

(* Calls on both sides of every rule the tracer's validators have.         *)
Traced(nr, f) == [CallWith(nr, f) EXCEPT !.arch = "32bit"]
AsTraced(c) == [nr |-> c.nr, cs |-> c.arch, args |-> c.args]
MCTracedCalls ==
    {AsTraced(c) : c \in
        {Traced("read", <<>>), Call("read"), Traced("exit_group", <<>>), Traced("fork", <<>>),
         Traced("unlink", <<>>), Traced("open", 2 :> {"O_WRONLY"}),
         Traced("open", 2 :> {"O_NONBLOCK"}), Traced("open", 2 :> {"O_SYNC"}),
         Traced("mmap2", 4 :> {"MAP_SHARED"}), Traced("fcntl64", 2 :> {"F_SETOWN"} @@ 3 :> {"other"}),
         Traced("socket", 1 :> {"PF_INET"} @@ 2 :> {"SOCK_STREAM"}),
         Traced("setsockopt", 2 :> {"SOL_SOCKET"} @@ 3 :> {"SO_LINGER"}),
         Traced("getsockopt", 2 :> {"SOL_SOCKET"} @@ 3 :> {"SO_ERROR"}),
         Traced("bind", 2 :> {"PF_INET", "other"} @@ 3 :> {"sockaddr_in"}),
         Traced("connect", 2 :> {"PF_INET", "client"} @@ 3 :> {"sockaddr_in"}),
         Traced("connect", 2 :> {"PF_INET", "other"} @@ 3 :> {"sockaddr_in"})}}
MCTracerConfigs == {{"port_enable"}, {"write_enable"}}

Over(chars, n) == UNION {[1..k -> chars] : k \in 1..n}
MCNames == Over({"a", "b"}, 3)
MCTrees == {{}, {<<"a">>, <<"b">>}, MCNames}
MCPatterns == Over({"a", "b", "*", "?", "{", "}", ","}, 4)

MCFileConfigs == {[lock |-> l, del |-> d] : l, d \in BOOLEAN} \ {[lock |-> FALSE, del |-> FALSE]}

-----------------------------------------------------------------------------
LibraryInit ==
    /\ part \in {"hash", "seccomp", "tracer", "filters", "files"}
    /\ HashInit
    /\ IF part = "seccomp" THEN SeccompInit
       ELSE role = "broker" /\ conf = {} /\ anon = FALSE /\ rules = <<>> /\ filter = <<>>
    /\ IF part = "tracer" THEN TracerInit
       ELSE TracerInit /\ tunables = {"port_enable"}
    /\ IF part = "filters" THEN FilterInit
       ELSE /\ access_str = <<"*">> /\ tree = {} /\ name = <<>>
            /\ answer = [passes |-> FALSE, allowed |-> TRUE]
    /\ IF part = "files" THEN FilesInit
       ELSE FilesInit /\ config = [lock |-> TRUE, del |-> TRUE]

LibraryNext ==
    \/ part = "hash" /\ HashNext
       /\ UNCHANGED <<part, seccompVars, traceVars, filterVars, fileVars>>
    \/ part = "seccomp" /\ SeccompNext
       /\ UNCHANGED <<part, hashVars, traceVars, filterVars, fileVars>>
    \/ part = "tracer" /\ TracerNext
       /\ UNCHANGED <<part, hashVars, seccompVars, filterVars, fileVars>>
    \/ part = "filters" /\ FilterNext
       /\ UNCHANGED <<part, hashVars, seccompVars, traceVars, fileVars>>
    \/ part = "files" /\ FilesNext
       /\ UNCHANGED <<part, hashVars, seccompVars, traceVars, filterVars>>

libraryVars ==
    <<part, hashVars, seccompVars, traceVars, filterVars, fileVars>>

LibrarySpec == LibraryInit /\ [][LibraryNext]_libraryVars

=============================================================================
