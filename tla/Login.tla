------------------------------- MODULE Login --------------------------------
(***************************************************************************)
(* From the start of a session to its hand-over: the process main.c starts *)
(* for one client (the privileged parent), the unprivileged child that     *)
(* speaks FTP before the login, and the child that serves the session      *)
(* after it.  prelogin.c, twoprocess.c, oneprocess.c, privops.c, secutil.c *)
(* and the AUTH, PBSZ and PROT commands of ssl.c.                          *)
(*                                                                         *)
(* What is kept of a process is where it is, its credentials and which     *)
(* ends of the two socket pairs it holds: end-of-file on a socket is what  *)
(* tells a process that its partner is gone.                               *)
(***************************************************************************)
EXTENDS Naturals, FiniteSets

CONSTANTS
    Configs,        \* the tunables a server may be started with
    UserFiles,      \* per-user configuration files: what each one overrides
    Locals,         \* the user names that have an account
    Listed,         \* the names in userlist_file and chroot_list_file
    HasCaps,        \* vsf_sysdep_has_capabilities
    HasCapsNonRoot, \* vsf_sysdep_has_capabilities_as_non_root
    None

Switches ==
    {"local_enable", "anonymous_enable", "ftp_enable", "http_enable",
     "one_process_model", "run_as_launching_user", "ssl_enable",
     "implicit_ssl", "allow_anon_ssl", "force_local_logins_ssl",
     "force_anon_logins_ssl", "userlist_enable", "userlist_deny",
     "no_anon_password", "deny_email_enable", "guest_enable",
     "virtual_use_local_privs", "chroot_local_user", "chroot_list_enable",
     "session_support", "chown_uploads", "connect_from_port_20"}

Users == {"anon", "odd"} \cup Locals

(* What the parent finds out about a user. *)
Logins == [user : Users, anon : BOOLEAN, chroot : BOOLEAN, ssl : BOOLEAN]

(* A per-user file does not change ssl_enable: the descriptors that the    *)
(* hand-over closes were made when the session started.  A system that can *)
(* keep capabilities over a change of user (prctl) has them.               *)
ASSUME LoginConstants ==
    /\ \A c \in Configs :
          /\ DOMAIN c = Switches \cup {"max_login_fails"}
          /\ \A s \in Switches : c[s] \in BOOLEAN
          /\ c["max_login_fails"] \in Nat
    /\ \A f \in UserFiles :
          /\ DOMAIN f \subseteq Switches \ {"ssl_enable"}
          /\ \A s \in DOMAIN f : f[s] \in BOOLEAN
    /\ Locals \cap {"anon", "odd", "root", "launcher", "nopriv", "ftp", "guest"} = {}
    /\ Listed \subseteq Users
    /\ HasCaps \in BOOLEAN /\ HasCapsNonRoot \in BOOLEAN
    /\ HasCapsNonRoot => HasCaps
    /\ None \notin Users \cup {"OK", "BAD"} /\ None \notin Logins

Procs == {"parent", "prelogin", "session"}
Passwords == {"good", "bad"}
Caps == {"CHOWN", "NET_BIND_SERVICE"}
Ends == {"parent_fd", "child_fd", "new_parent_fd", "new_child_fd",
         "ssl_consumer_fd", "ssl_slave_fd"}

VARIABLES
    cfg,             \* the tunables of this session
    pc,              \* where each process is
    creds,           \* the credentials of each process
    fds,             \* the ends of the socket pairs each process holds
    user_str,        \* the name the pre-login child was given, or None
    control_use_ssl, \* of the pre-login child, and of the session it leads to
    data_use_ssl,
    login_fails,
    eof,             \* a read of the command connection returns 0
    request,         \* the login request in the socket, or None
    result,          \* the answer in the socket, or None
    sigchld,         \* of the parent: handler installed, signal pending
    auth,            \* what the parent found: a name and how it logged in
    tries            \* failed attempts the parent has verified

vars == <<cfg, pc, creds, fds, user_str, control_use_ssl, data_use_ssl,
          login_fails, eof, request, result, sigchld, auth, tries>>

Stopped == {"none", "gone", "bug", "oops"}

(* Some process still has this end of a socket pair open. *)
Held(end) == \E p \in Procs : end \in fds[p]

(***************************************************************************)
(* Credentials                                                             *)
(***************************************************************************)
Root == [uid |-> "root", jailed |-> FALSE, caps |-> Caps,
         no_procs |-> FALSE, no_fds |-> FALSE]

(* Who may launch vsftpd: root, or a user without capabilities.            *)
Launchers == {Root, [Root EXCEPT !.uid = "launcher", !.caps = {}]}

(* vsf_sysutil_running_as_root, in main().                                 *)
RunningAsRoot == creds["parent"].uid = "root"

(* vsf_secutil_change_credentials, where it does not die: without          *)
(* capabilities that survive the change of user, a process that needs one  *)
(* stays root, and skips the limits too.                                   *)
ChangeCredentials(c, uid, caps, jail, procs, nofds) ==
    LET inside == [c EXCEPT !.jailed = jail, !.no_fds = nofds]
    IN  IF caps # {} /\ ~HasCaps THEN inside
        ELSE IF caps # {} /\ ~HasCapsNonRoot THEN [inside EXCEPT !.caps = caps]
        ELSE [inside EXCEPT !.uid = uid, !.caps = caps, !.no_procs = procs]

(* The privileges that the requests of a session need. *)
NeededCaps ==
    (IF cfg.chown_uploads THEN {"CHOWN"} ELSE {})
    \cup (IF cfg.connect_from_port_20 THEN {"NET_BIND_SERVICE"} ELSE {})

(***************************************************************************)
(* How a process ends.  die() and exit() are the same here; "bug" is a     *)
(* check of the program's own state that failed, "oops" one of a request.  *)
(***************************************************************************)
Stop(p, how) ==
    /\ pc' = [pc EXCEPT ![p] = how]
    /\ fds' = [fds EXCEPT ![p] = {}]
    /\ sigchld' = IF p # "parent" /\ sigchld.handler
                  THEN [sigchld EXCEPT !.pending = TRUE] ELSE sigchld

Exit(p) ==
    /\ Stop(p, "gone")
    /\ UNCHANGED <<cfg, creds, user_str, control_use_ssl, data_use_ssl,
                   login_fails, eof, request, result, auth, tries>>

Goto(p, place) == pc' = [pc EXCEPT ![p] = place]
-----------------------------------------------------------------------------
(***************************************************************************)
(* Starting up                                                             *)
(***************************************************************************)
Init ==
    /\ cfg \in Configs
    /\ pc = [p \in Procs |-> IF p = "parent" THEN "main" ELSE "none"]
    /\ \E c \in Launchers : creds = [p \in Procs |-> c]
    /\ fds = [p \in Procs |-> {}]
    /\ user_str = None
    /\ control_use_ssl = FALSE
    /\ data_use_ssl = FALSE
    /\ login_fails = 0
    /\ eof = FALSE
    /\ request = None
    /\ result = None
    /\ sigchld = [handler |-> FALSE, pending |-> FALSE]
    /\ auth = None
    /\ tries = 0

SaneConfig ==
    /\ cfg.one_process_model => ~cfg.local_enable /\ HasCapsNonRoot
    /\ cfg.local_enable \/ cfg.anonymous_enable
    /\ cfg.ftp_enable \/ cfg.http_enable
    /\ cfg.http_enable => cfg.one_process_model

(* main(): die_unless_privileged, the sanity checks, the session's globals *)
(* and limits, and then what run_as_launching_user implies, in part only   *)
(* for a user who is not root.                                             *)
Main ==
    /\ pc["parent"] = "main"
    /\ IF SaneConfig /\ (RunningAsRoot \/ cfg.run_as_launching_user)
       THEN /\ Goto("parent", "launch")
            /\ cfg' = IF cfg.run_as_launching_user
                      THEN [cfg EXCEPT !["one_process_model"] = TRUE,
                                       !["connect_from_port_20"] = @ /\ RunningAsRoot,
                                       !["chown_uploads"] = @ /\ RunningAsRoot]
                      ELSE cfg
            /\ UNCHANGED <<fds, sigchld>>
       ELSE Stop("parent", "gone") /\ UNCHANGED cfg
    /\ UNCHANGED <<creds, user_str, control_use_ssl, data_use_ssl, login_fails,
                   eof, request, result, auth, tries>>

(* vsf_one_process_start: the one process is written as the pre-login      *)
(* child, which then has no parent.  One that runs as the launching user   *)
(* keeps the credentials it was started with, root's included.             *)
OneProcessStart ==
    /\ pc["parent"] = "launch"
    /\ cfg.one_process_model
    /\ pc' = [pc EXCEPT !["parent"] = "none", !["prelogin"] = "connected"]
    /\ creds' = [creds EXCEPT !["prelogin"] =
                    IF cfg.run_as_launching_user
                    THEN creds["parent"]
                    ELSE ChangeCredentials(Root, "ftp", NeededCaps, TRUE, TRUE, FALSE)]
    /\ UNCHANGED <<cfg, fds, user_str, control_use_ssl, data_use_ssl, login_fails,
                   eof, request, result, sigchld, auth, tries>>

(* vsf_two_process_start up to the fork: the socket pairs, then SIGCHLD,   *)
(* then the child with a copy of everything.                               *)
TwoProcessStart ==
    /\ pc["parent"] = "launch"
    /\ ~cfg.one_process_model
    /\ LET ends == {"parent_fd", "child_fd"}
                   \cup (IF cfg.ssl_enable THEN {"ssl_consumer_fd", "ssl_slave_fd"}
                                           ELSE {})
       IN  fds' = [fds EXCEPT !["parent"] = ends, !["prelogin"] = ends]
    /\ sigchld' = [handler |-> TRUE, pending |-> FALSE]
    /\ pc' = [pc EXCEPT !["parent"] = "forked", !["prelogin"] = "born"]
    /\ UNCHANGED <<cfg, creds, user_str, control_use_ssl, data_use_ssl, login_fails,
                   eof, request, result, auth, tries>>

(* priv_sock_set_parent_context and ssl_comm_channel_set_consumer_context: *)
(* the parent keeps its own end, and the consumer's end of the other pair  *)
(* for the session to inherit.                                             *)
ParentContext ==
    /\ pc["parent"] = "forked"
    /\ LET close == {"child_fd"} \cup (IF cfg.ssl_enable THEN {"ssl_slave_fd"} ELSE {})
       IN  IF close \subseteq fds["parent"]
           THEN /\ fds' = [fds EXCEPT !["parent"] = @ \ close]
                /\ Goto("parent", "login")
                /\ UNCHANGED sigchld
           ELSE Stop("parent", "bug")
    /\ UNCHANGED <<cfg, creds, user_str, control_use_ssl, data_use_ssl, login_fails,
                   eof, request, result, auth, tries>>

(* Mutant: drop_all_privs is left for later. *)
ChildContextAsRoot ==
    /\ pc["prelogin"] = "born"
    /\ fds' = [fds EXCEPT !["prelogin"] = @ \ {"parent_fd", "ssl_consumer_fd"}]
    /\ Goto("prelogin", "connected")
    /\ UNCHANGED <<cfg, creds, user_str, control_use_ssl, data_use_ssl, login_fails,
                   eof, request, result, sigchld, auth, tries>>

(* The child's own half: its context, the user list, drop_all_privs and    *)
(* the sandbox, all before it talks to the client.                         *)
ChildContext ==
    /\ pc["prelogin"] = "born"
    /\ LET close == {"parent_fd"} \cup (IF cfg.ssl_enable THEN {"ssl_consumer_fd"} ELSE {})
       IN  IF close \subseteq fds["prelogin"]
           THEN /\ fds' = [fds EXCEPT !["prelogin"] = @ \ close]
                /\ creds' = [creds EXCEPT !["prelogin"] =
                      ChangeCredentials(Root, "nopriv", {}, TRUE, TRUE, ~cfg.ssl_enable)]
                /\ Goto("prelogin", "connected")
                /\ UNCHANGED sigchld
           ELSE Stop("prelogin", "bug") /\ UNCHANGED creds
    /\ UNCHANGED <<cfg, user_str, control_use_ssl, data_use_ssl, login_fails,
                   eof, request, result, auth, tries>>

(* init_connection: an implicit handshake, the greeting, the command loop. *)
InitConnection ==
    /\ pc["prelogin"] = "connected"
    /\ control_use_ssl' = (cfg.ssl_enable /\ cfg.implicit_ssl)
    /\ Goto("prelogin", "commands")
    /\ UNCHANGED <<cfg, creds, fds, user_str, data_use_ssl, login_fails, eof,
                   request, result, sigchld, auth, tries>>
-----------------------------------------------------------------------------
(***************************************************************************)
(* The pre-login command loop.  Commands that only have a reply (FEAT,     *)
(* OPTS, PBSZ, an empty line, anything unknown) change nothing here.       *)
(***************************************************************************)
AtCommand == pc["prelogin"] = "commands" /\ ~eof /\ cfg.ftp_enable

(* str_contains_line(userlist_str, user): the list is read for local users *)
(* in the two process model only, and empty otherwise.                     *)
OnUserlist(u) == cfg.local_enable /\ ~cfg.one_process_model /\ u \in Listed

(* Mutant: the name is not checked on an anonymous only server. *)
UserVerdictAnyone(u) ==
    IF cfg.userlist_enable /\ (OnUserlist(u) <=> cfg.userlist_deny) THEN "deny" ELSE "ask"

(* What handle_user_command makes of a name. *)
UserVerdict(u) ==
    LET anon == u = "anon"
    IN  IF ~cfg.local_enable /\ ~anon THEN "refuse"
        ELSE IF /\ anon /\ control_use_ssl
                /\ ~cfg.allow_anon_ssl /\ ~cfg.force_anon_logins_ssl THEN "refuse"
        ELSE IF /\ cfg.ssl_enable /\ ~control_use_ssl
                /\ IF anon THEN cfg.force_anon_logins_ssl
                           ELSE cfg.force_local_logins_ssl THEN "exit"
        ELSE IF cfg.userlist_enable /\ (OnUserlist(u) <=> cfg.userlist_deny) THEN "deny"
        ELSE IF anon /\ cfg.no_anon_password THEN "login"
        ELSE "ask"

(* Mutant: one failure too many. *)
CountFailureLate ==
    /\ login_fails' = login_fails + 1
    /\ user_str' = None
    /\ IF login_fails >= cfg.max_login_fails
       THEN Stop("prelogin", "gone")
       ELSE Goto("prelogin", "commands") /\ UNCHANGED <<fds, sigchld>>

(* check_login_fails, and the loop goes on without a user name. *)
CountFailure ==
    /\ login_fails' = login_fails + 1
    /\ user_str' = None
    /\ IF login_fails + 1 >= cfg.max_login_fails
       THEN Stop("prelogin", "gone")
       ELSE Goto("prelogin", "commands") /\ UNCHANGED <<fds, sigchld>>

(* handle_login and its two cases: a name PAM might not cope with is       *)
(* refused, "oops" is the parent's check that local users are allowed.     *)
CheckAuth(u, pw) == u \in Locals /\ pw = "good"

HandleLogin(u, pw) ==
    IF u = "odd" THEN "fail"
    ELSE IF cfg.anonymous_enable /\ u = "anon"
         THEN IF cfg.deny_email_enable /\ pw = "bad" THEN "fail" ELSE "anon"
    ELSE IF ~cfg.local_enable THEN "oops"
    ELSE IF CheckAuth(u, pw) THEN "real" ELSE "fail"

(* vsf_one_process_login *)
LoginHere(u, pw) ==
    LET verdict == HandleLogin(u, pw)
    IN  /\ CASE verdict = "fail" ->
                  /\ tries' = tries + 1
                  /\ CountFailure
                  /\ UNCHANGED auth
             [] verdict = "anon" ->
                  /\ auth' = [user |-> u, anon |-> TRUE, chroot |-> TRUE,
                              ssl |-> control_use_ssl]
                  /\ user_str' = u
                  /\ Goto("prelogin", "serve")
                  /\ UNCHANGED <<tries, login_fails, fds, sigchld>>
             [] OTHER ->
                  /\ Stop("prelogin", IF verdict = "oops" THEN "oops" ELSE "bug")
                  /\ user_str' = u
                  /\ UNCHANGED <<tries, auth, login_fails>>
        /\ UNCHANGED request

(* vsf_two_process_login up to the answer: a write to a parent that is     *)
(* gone fails, and the child dies.                                         *)
LoginThere(u, pw) ==
    /\ user_str' = u
    /\ IF Held("parent_fd")
       THEN /\ request' = [user |-> u, pass |-> pw, control_use_ssl |-> control_use_ssl,
                           data_use_ssl |-> data_use_ssl]
            /\ Goto("prelogin", "waiting")
            /\ UNCHANGED <<fds, sigchld>>
       ELSE Stop("prelogin", "gone") /\ UNCHANGED request
    /\ UNCHANGED <<login_fails, auth, tries>>

DoLogin(u, pw) ==
    IF cfg.one_process_model THEN LoginHere(u, pw) ELSE LoginThere(u, pw)

UserCommand(u) ==
    /\ AtCommand
    /\ LET verdict == UserVerdict(u)
       IN  CASE verdict = "login" -> DoLogin(u, "good")
             [] verdict = "deny" ->
                  CountFailure /\ UNCHANGED <<request, auth, tries>>
             [] verdict = "exit" ->
                  /\ Stop("prelogin", "gone")
                  /\ user_str' = u
                  /\ UNCHANGED <<login_fails, request, auth, tries>>
             [] OTHER ->
                  /\ user_str' = IF verdict = "ask" THEN u ELSE None
                  /\ UNCHANGED <<pc, fds, sigchld, login_fails, request, auth, tries>>
    /\ UNCHANGED <<cfg, creds, control_use_ssl, data_use_ssl, eof, result>>

(* Mutant: PASS before USER. *)
PassCommandFirst(pw) ==
    /\ AtCommand
    /\ DoLogin(user_str, pw)
    /\ UNCHANGED <<cfg, creds, control_use_ssl, data_use_ssl, eof, result>>

PassCommand(pw) ==
    /\ AtCommand
    /\ user_str # None
    /\ DoLogin(user_str, pw)
    /\ UNCHANGED <<cfg, creds, control_use_ssl, data_use_ssl, eof, result>>

(* handle_get: the HTTP server is an anonymous login, and one request. *)
GetCommand ==
    /\ pc["prelogin"] = "commands" /\ ~eof
    /\ ~cfg.ftp_enable
    /\ IF HandleLogin("anon", "good") = "anon"
       THEN /\ auth' = [user |-> "anon", anon |-> TRUE, chroot |-> TRUE,
                        ssl |-> control_use_ssl]
            /\ Goto("prelogin", "serve")
            /\ UNCHANGED <<fds, sigchld>>
       ELSE Stop("prelogin", "oops") /\ UNCHANGED auth
    /\ user_str' = "anon"
    /\ UNCHANGED <<cfg, creds, control_use_ssl, data_use_ssl, login_fails, eof,
                   request, result, tries>>

(* handle_auth: a handshake that fails ends the process (ChildExit). *)
AuthCommand(kind) ==
    /\ AtCommand
    /\ cfg.ssl_enable /\ ~control_use_ssl
    /\ control_use_ssl' = TRUE
    /\ data_use_ssl' = (data_use_ssl \/ kind \in {"SSL", "TLS-P"})
    /\ UNCHANGED <<cfg, pc, creds, fds, user_str, login_fails, eof, request,
                   result, sigchld, auth, tries>>

(* handle_prot *)
ProtCommand(level) ==
    /\ AtCommand
    /\ cfg.ssl_enable /\ control_use_ssl
    /\ data_use_ssl' = (level = "P")
    /\ UNCHANGED <<cfg, pc, creds, fds, user_str, control_use_ssl, login_fails,
                   eof, request, result, sigchld, auth, tries>>

(* The rest of vsf_two_process_login: on success the child is no longer    *)
(* needed, unless it is the one that can encrypt.                          *)
LoginResult ==
    /\ pc["prelogin"] = "waiting"
    /\ result # None
    /\ result' = None
    /\ IF result = "BAD" THEN CountFailure
       ELSE /\ IF ~control_use_ssl THEN Stop("prelogin", "gone")
               ELSE IF "child_fd" \in fds["prelogin"]
               THEN /\ fds' = [fds EXCEPT !["prelogin"] = @ \ {"child_fd"}]
                    /\ Goto("prelogin", "slave")
                    /\ UNCHANGED sigchld
               ELSE Stop("prelogin", "bug")
            /\ UNCHANGED <<login_fails, user_str>>
    /\ UNCHANGED <<cfg, creds, control_use_ssl, data_use_ssl, eof, request, auth, tries>>

(* handle_alarm_timeout: in the command loop the session ends; while the   *)
(* parent checks a password only the connection is shut for reading, and   *)
(* whoever reads it next meets the end of it.                              *)
IdleTimeout ==
    /\ ~eof
    /\ \/ /\ pc["prelogin"] = "commands"
          /\ Stop("prelogin", "gone")
       \/ /\ pc["prelogin"] = "waiting"
          /\ UNCHANGED <<pc, fds, sigchld>>
    /\ eof' = TRUE
    /\ UNCHANGED <<cfg, creds, user_str, control_use_ssl, data_use_ssl,
                   login_fails, request, result, auth, tries>>

(* Mutant: the loop goes on when a read returns nothing. *)
ChildEofIgnored ==
    /\ pc["prelogin"] = "waiting" /\ result = None /\ ~Held("parent_fd")
    /\ Exit("prelogin")

(* The child finds the connection or its parent gone, or QUIT. *)
ChildEof ==
    /\ \/ pc["prelogin"] = "commands" /\ eof
       \/ pc["prelogin"] = "waiting" /\ result = None /\ ~Held("parent_fd")
    /\ Exit("prelogin")

ChildExit == pc["prelogin"] \in {"born", "connected", "commands", "waiting"} /\ Exit("prelogin")
-----------------------------------------------------------------------------
(***************************************************************************)
(* The privileged parent                                                   *)
(***************************************************************************)
(* process_login_req reads one request; SIGCHLD is looked at after a read. *)
ParentRead ==
    /\ pc["parent"] = "login"
    /\ request # None
    /\ ~sigchld.pending
    /\ Goto("parent", "verify")
    /\ UNCHANGED <<cfg, creds, fds, user_str, control_use_ssl, data_use_ssl,
                   login_fails, eof, request, result, sigchld, auth, tries>>

(* Whether a local user is put in a jail: the list turns the default round. *)
DoChroot(u) == cfg.chroot_local_user # (cfg.chroot_list_enable /\ u \in Listed)

(* The verdict, and on success SIGCHLD is ignored before the child is told *)
(* (it may exit in response).  A child that is gone cannot be told: the    *)
(* parent dies.                                                            *)
ParentVerify ==
    /\ pc["parent"] = "verify"
    /\ LET u == request.user
           verdict == HandleLogin(u, request.pass)
           ssl == request.control_use_ssl /\ cfg.ssl_enable
       IN  /\ tries' = IF verdict = "fail" THEN tries + 1 ELSE tries
           /\ auth' = IF verdict \in {"anon", "real"}
                      THEN [user |-> u, anon |-> verdict = "anon",
                            chroot |-> verdict = "anon" \/ DoChroot(u), ssl |-> ssl]
                      ELSE auth
           /\ IF verdict = "oops" \/ ~Held("child_fd")
              THEN /\ Stop("parent", IF verdict = "oops" THEN "oops" ELSE "gone")
                   /\ UNCHANGED result
              ELSE /\ result' = IF verdict = "fail" THEN "BAD" ELSE "OK"
                   /\ Goto("parent", IF verdict = "fail" THEN "login" ELSE "granted")
                   /\ sigchld' = [sigchld EXCEPT !.handler = @ /\ verdict = "fail"]
                   /\ UNCHANGED fds
    /\ request' = None
    /\ UNCHANGED <<cfg, creds, user_str, control_use_ssl, data_use_ssl, login_fails, eof>>

(* Mutant: the parent goes on at once. *)
ParentWaitNot ==
    /\ pc["parent"] = "granted"
    /\ Goto("parent", "handover")
    /\ UNCHANGED <<cfg, creds, fds, user_str, control_use_ssl, data_use_ssl,
                   login_fails, eof, request, result, sigchld, auth, tries>>

(* Without encryption the child is waited for, so that it is gone before   *)
(* its successor speaks.                                                   *)
ParentWait ==
    /\ pc["parent"] = "granted"
    /\ ~auth.ssl => pc["prelogin"] \in Stopped
    /\ Goto("parent", "handover")
    /\ UNCHANGED <<cfg, creds, fds, user_str, control_use_ssl, data_use_ssl,
                   login_fails, eof, request, result, sigchld, auth, tries>>

Override(c, f) == [s \in DOMAIN c |-> IF s \in DOMAIN f THEN f[s] ELSE c[s]]

(* The rest of common_do_login up to the fork: the user's own file, a new  *)
(* socket pair, SIGCHLD again.                                             *)
HandOver(f) ==
    /\ pc["parent"] = "handover"
    /\ cfg' = Override(cfg, f)
    /\ LET ends == (fds["parent"] \ {"parent_fd", "child_fd"})
                   \cup {"new_parent_fd", "new_child_fd"}
       IN  fds' = [fds EXCEPT !["parent"] = ends, !["session"] = ends]
    /\ sigchld' = [sigchld EXCEPT !.handler = TRUE]
    /\ pc' = [pc EXCEPT !["parent"] = "split", !["session"] = "born"]
    /\ UNCHANGED <<creds, user_str, control_use_ssl, data_use_ssl, login_fails,
                   eof, request, result, auth, tries>>

(* The session: its own end of the pair, the guest account, and then the   *)
(* credentials it keeps.                                                   *)
Guest == cfg.guest_enable /\ ~auth.anon
SessionUid == IF auth.anon THEN "ftp" ELSE IF Guest THEN "guest" ELSE auth.user
(* Mutant: a guest is treated as the local user it logged in as. *)
SessionChrootLocal == auth.chroot
SessionChroot == auth.chroot \/ (Guest /\ ~cfg.virtual_use_local_privs)

SessionContext ==
    /\ pc["session"] = "born"
    /\ IF "new_parent_fd" \in fds["session"]
       THEN /\ fds' = [fds EXCEPT !["session"] = @ \ {"new_parent_fd"}]
            /\ creds' = [creds EXCEPT !["session"] =
                  ChangeCredentials(Root, SessionUid, {}, SessionChroot, TRUE, FALSE)]
            /\ Goto("session", "serve")
            /\ UNCHANGED sigchld
       ELSE Stop("session", "bug") /\ UNCHANGED creds
    /\ UNCHANGED <<cfg, user_str, control_use_ssl, data_use_ssl, login_fails, eof,
                   request, result, auth, tries>>

(* The parent after the fork, and minimize_privilege. *)
ParentMinimize ==
    /\ pc["parent"] = "split"
    /\ LET close == {"new_child_fd"} \cup (IF cfg.ssl_enable THEN {"ssl_consumer_fd"} ELSE {})
       IN  IF close \subseteq fds["parent"]
           THEN /\ fds' = [fds EXCEPT !["parent"] = @ \ close]
                /\ creds' = IF ~auth.anon /\ cfg.session_support THEN creds
                            ELSE [creds EXCEPT !["parent"] =
                                    ChangeCredentials(Root, "nopriv", NeededCaps,
                                                      TRUE, FALSE, FALSE)]
                /\ Goto("parent", "serve")
                /\ UNCHANGED sigchld
           ELSE Stop("parent", "bug") /\ UNCHANGED creds
    /\ UNCHANGED <<cfg, user_str, control_use_ssl, data_use_ssl, login_fails, eof,
                   request, result, auth, tries>>

(* handle_sigchld, at the reads of the two request loops. *)
ParentSigchld ==
    /\ pc["parent"] \in {"login", "serve"}
    /\ sigchld.pending
    /\ Exit("parent")

(* A request that cannot be read: the other end is closed. *)
ParentEof ==
    /\ \/ pc["parent"] = "login" /\ request = None /\ ~Held("child_fd")
       \/ pc["parent"] = "serve" /\ ~Held("new_child_fd")
    /\ Exit("parent")

(* A fork, a file or a system call that fails. *)
ParentDies ==
    /\ pc["parent"] \in {"launch", "forked", "verify", "granted", "handover", "split"}
    /\ Exit("parent")

(* handle_sigterm: the connection is shut for every process that has it.   *)
Sigterm ==
    /\ pc["parent"] \in {"login", "serve"}
    /\ Stop("parent", "gone")
    /\ eof' = TRUE
    /\ UNCHANGED <<cfg, creds, user_str, control_use_ssl, data_use_ssl, login_fails,
                   request, result, auth, tries>>
-----------------------------------------------------------------------------
(***************************************************************************)
(* What the session and its SSL slave do between the hand-over and their   *)
(* end is the subject of other modules; here they end.                     *)
(***************************************************************************)
Serving == {p \in Procs : p # "parent" /\ pc[p] = "serve"}
SlaveGone == auth # None /\ auth.ssl /\ pc["prelogin"] \in Stopped

(* The end of the connection, or of the process that can read it. *)
ServiceEnds ==
    \E p \in Serving :
        /\ eof \/ (p = "session" /\ SlaveGone)
        /\ Exit(p)

(* ssl_slave: no consumer is left to make a request. *)
SlaveEof == pc["prelogin"] = "slave" /\ ~Held("ssl_consumer_fd") /\ Exit("prelogin")

(* QUIT, a time-out, or a check that fails. *)
ServiceExit ==
    \E p \in {"prelogin", "session"} :
        pc[p] \in {"serve", "slave", "born"} /\ Exit(p)

(* PROT in the session, which has its own copy of the flag. *)
SessionProt(level) ==
    /\ pc["session"] = "serve" /\ auth.ssl
    /\ data_use_ssl' = (level = "P")
    /\ UNCHANGED <<cfg, pc, creds, fds, user_str, control_use_ssl, login_fails,
                   eof, request, result, sigchld, auth, tries>>

(* The client closes the connection. *)
HangUp ==
    /\ ~eof
    /\ eof' = TRUE
    /\ UNCHANGED <<cfg, pc, creds, fds, user_str, control_use_ssl, data_use_ssl,
                   login_fails, request, result, sigchld, auth, tries>>

StartUp == Main \/ OneProcessStart \/ TwoProcessStart \/ ParentContext \/ ChildContext
           \/ InitConnection
ClientCommand ==
    \/ \E u \in Users : UserCommand(u)
    \/ \E pw \in Passwords : PassCommand(pw)
    \/ GetCommand
    \/ \E kind \in {"TLS", "TLS-P"} : AuthCommand(kind)
    \/ \E level \in {"C", "P"} : ProtCommand(level)
ParentStep == ParentRead \/ ParentVerify \/ ParentWait \/ ParentMinimize
              \/ (\E f \in UserFiles : HandOver(f))
Handover == ParentStep \/ LoginResult \/ SessionContext
Ending == ChildEof \/ ParentSigchld \/ ParentEof
Failing == IdleTimeout \/ ChildExit \/ ParentDies \/ Sigterm \/ HangUp

LoginNext == StartUp \/ ClientCommand \/ Handover \/ Ending \/ Failing
Next == LoginNext \/ ServiceEnds \/ SlaveEof \/ ServiceExit
        \/ \E level \in {"C", "P"} : SessionProt(level)

Spec == Init /\ [][Next]_vars

(* Each process goes on with what it does; nothing is assumed of the       *)
(* client, of failures or of signals from outside.                         *)
Fairness == /\ WF_vars(StartUp) /\ WF_vars(ParentStep) /\ WF_vars(LoginResult)
            /\ WF_vars(SessionContext) /\ WF_vars(ChildEof)
            /\ WF_vars(ParentSigchld) /\ WF_vars(ParentEof)
FairSpec == Spec /\ Fairness /\ WF_vars(ServiceEnds) /\ WF_vars(SlaveEof)
-----------------------------------------------------------------------------
(***************************************************************************)
(* Properties                                                              *)
(***************************************************************************)
Places == Stopped \cup {"main", "launch", "forked", "login", "verify", "granted",
                        "handover", "split", "serve", "born", "connected",
                        "commands", "waiting", "slave"}
Uids == {"root", "launcher", "nopriv", "ftp", "guest"} \cup Locals

(* Every variable stays in its type (session.h, privsock.h).               *)
TypeOK ==
    /\ DOMAIN cfg = Switches \cup {"max_login_fails"}
    /\ pc \in [Procs -> Places]
    /\ creds \in [Procs -> [uid : Uids, jailed : BOOLEAN, caps : SUBSET Caps,
                            no_procs : BOOLEAN, no_fds : BOOLEAN]]
    /\ fds \in [Procs -> SUBSET Ends]
    /\ user_str \in Users \cup {None}
    /\ control_use_ssl \in BOOLEAN /\ data_use_ssl \in BOOLEAN
    /\ login_fails \in Nat /\ tries \in Nat
    /\ eof \in BOOLEAN
    /\ request = None \/ request \in [user : Users, pass : Passwords,
                                      control_use_ssl : BOOLEAN, data_use_ssl : BOOLEAN]
    /\ result \in {None, "OK", "BAD"}
    /\ sigchld \in [handler : BOOLEAN, pending : BOOLEAN]
    /\ auth \in Logins \cup {None}

(* No process meets a check of its own that fails: the descriptors that    *)
(* priv_sock_set_*_context and ssl_comm_channel_set_*_context close are    *)
(* open, whatever order the three processes run in, and the parent never   *)
(* gets a local login it was not configured for (privops.c:386).           *)
NoBug == \A p \in Procs : pc[p] \notin {"bug", "oops"}

(* With two processes, one that reads what the client sends is not root    *)
(* and has no capability, and before the login it is in a jail:            *)
(* drop_all_privs comes before init_connection, the session's change of    *)
(* credentials before process_post_login.  The process that is on its own  *)
(* is ftp, in a jail, with the capabilities that the tunables ask for.     *)
(* The exception is run_as_launching_user: that one is what its launcher   *)
(* was, root with all capabilities if root launched it, or else a user     *)
(* without any; and what main() leaves switched on it has the privilege    *)
(* for (main.c:248).                                                       *)
Talking == {p \in {"prelogin", "session"} :
              pc[p] \in {"connected", "commands", "waiting", "slave", "serve"}}
Alone == pc["parent"] = "none"
Unprivileged ==
    \A p \in Talking :
        /\ ~Alone =>
              /\ creds[p].uid # "root" /\ creds[p].caps = {}
              /\ p = "prelogin" => creds[p].jailed
        /\ Alone /\ ~cfg.run_as_launching_user =>
              creds[p].uid = "ftp" /\ creds[p].jailed /\ creds[p].caps = NeededCaps
        /\ Alone /\ cfg.run_as_launching_user =>
              /\ creds[p].uid = "root" \/ creds[p].caps = {}
              /\ NeededCaps \subseteq creds[p].caps

(* The session runs as the account whose password the parent checked, or   *)
(* as one the configuration puts in its place, and an account without a    *)
(* name of its own never leaves its jail (twoprocess.c, common_do_login).  *)
ServedAsAuthenticated ==
    pc["session"] = "serve" =>
        /\ auth # None
        /\ IF auth.anon THEN auth.user = "anon" ELSE auth.user \in Locals
        /\ creds["session"].uid \in Locals => creds["session"].uid = auth.user
        /\ creds["session"].uid = "ftp" => creds["session"].jailed
        /\ creds["session"].uid = "guest" =>
              cfg.virtual_use_local_privs \/ creds["session"].jailed

(* After the hand-over the parent can do what the session will ask for,    *)
(* and it is root only to log the user out, or because the system has no   *)
(* capabilities that survive a change of user.                             *)
ParentPrivilege ==
    pc["parent"] = "serve" =>
        /\ NeededCaps \subseteq creds["parent"].caps
        /\ \/ creds["parent"].uid = "nopriv" /\ creds["parent"].caps = NeededCaps
           \/ ~auth.anon /\ cfg.session_support
           \/ NeededCaps # {} /\ ~HasCapsNonRoot

(* Whatever was agreed at login, each process has the privilege its part   *)
(* needs, from the moment it can be talked to, and no more but for a       *)
(* server that was told to run as the root that launched it.               *)
LeastPrivilege == Unprivileged /\ ParentPrivilege

(* What a login request the parent checks has behind it. However the       *)
(* client mixes USER, PASS, AUTH and time, no more wrong passwords are     *)
(* checked than check_login_fails lets through; and force_local_logins_ssl, *)
(* which is looked at when USER is handled, holds when the password comes, *)
(* which needs that AUTH is never undone.                                  *)
TriesBounded ==
    tries <= IF cfg.max_login_fails > 0 THEN cfg.max_login_fails ELSE 1
LocalNeedsSsl ==
    /\ request # None /\ request.user # "anon"
    /\ cfg.ssl_enable /\ cfg.force_local_logins_ssl
    => request.control_use_ssl
RequestsGuarded == TriesBounded /\ LocalNeedsSsl

(* Two processes never write to the command connection in turn: when the   *)
(* session speaks, the pre-login child is gone, or it is, or is about to   *)
(* become, the slave that speaks for it.                                   *)
OneSpeaker ==
    pc["session"] = "serve" =>
        \/ pc["prelogin"] \in Stopped
        \/ auth.ssl /\ pc["prelogin"] = "slave"
        \/ auth.ssl /\ pc["prelogin"] = "waiting" /\ result = "OK"

(* No process lingers: the end of the connection, seen by whichever        *)
(* process reads it, ends all of them. And so does the end of the session, *)
(* by SIGCHLD, by the end of file on the parent's socket, and by that on   *)
(* the slave's, which the parent must not hold open.                       *)
AllStopped == \A p \in Procs : pc[p] \in Stopped
NobodyLingers == eof \/ pc["session"] \in Stopped \ {"none"} ~> AllStopped
=============================================================================
