------------------------------ MODULE MCLogin -------------------------------
(* Configurations that differ in who may log in, how many processes serve  *)
(* a session and whether it is encrypted; and per-user files that change   *)
(* the account and the jail after the password was checked.                *)
EXTENDS SslSlave

(* A configuration by the switches that are on. *)
Tunables(on, fails) ==
    [s \in Switches \cup {"max_login_fails"} |->
        IF s = "max_login_fails" THEN fails ELSE s \in on]

Usual == {"local_enable", "anonymous_enable", "ftp_enable", "userlist_deny",
          "force_local_logins_ssl", "virtual_use_local_privs", "connect_from_port_20"}

MCConfigs == {
    Tunables(Usual, 2),
    Tunables(Usual \cup {"session_support", "userlist_enable", "chroot_list_enable"}, 2),
    Tunables((Usual \ {"userlist_deny", "anonymous_enable"})
                \cup {"ssl_enable", "userlist_enable"}, 1),
    Tunables((Usual \ {"virtual_use_local_privs"})
                \cup {"ssl_enable", "implicit_ssl", "force_anon_logins_ssl",
                      "guest_enable", "chown_uploads"}, 1),
    Tunables((Usual \ {"local_enable"}) \cup {"one_process_model", "no_anon_password"}, 0),
    Tunables((Usual \ {"local_enable", "ftp_enable"})
                \cup {"one_process_model", "http_enable"}, 2),
    Tunables((Usual \ {"local_enable"}) \cup {"run_as_launching_user"}, 2),
    Tunables(Usual \cup {"one_process_model"}, 2) }

MCUserFiles == {<<>>, [s \in {"guest_enable"} |-> TRUE],
                [s \in {"chroot_local_user", "session_support"} |-> TRUE]}
=============================================================================
