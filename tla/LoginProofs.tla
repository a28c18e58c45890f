---------------------------- MODULE LoginProofs -----------------------------
(***************************************************************************)
(* Proofs about Login, for any configurations, per-user files and accounts *)
(* and for any number of attempts.  LoginIInv is the inductive invariant:  *)
(* it says which places the three processes can be at together, what is in *)
(* the socket between them at those places, and what each of them has.     *)
(***************************************************************************)
EXTENDS Login, TLAPS

-----------------------------------------------------------------------------
(* The inductive invariant.                                                *)

CfgOK(c) ==
    /\ DOMAIN c = Switches \cup {"max_login_fails"}
    /\ \A s \in Switches : c[s] \in BOOLEAN
    /\ c["max_login_fails"] \in Nat

(* Where each process can be, and where they can be together.  The one     *)
(* process model has no parent; the only check that can fail is the one    *)
(* for a local login of the launching user.                                *)
WeirdLogin == cfg.run_as_launching_user /\ cfg.local_enable
Together ==
    /\ pc["parent"] \in {"none", "gone", "main", "launch", "forked", "login", "verify",
                         "granted", "handover", "split", "serve"}
    /\ pc["prelogin"] \in {"none", "gone", "bug", "born", "connected", "commands",
                           "waiting", "slave", "serve"}
    /\ pc["session"] \in {"none", "gone", "born", "serve"}
    /\ pc["parent"] \in {"main", "launch"} => pc["prelogin"] = "none"
    /\ pc["prelogin"] = "none" =>
          pc["session"] = "none" /\ pc["parent"] \in {"main", "launch", "gone"}
    /\ pc["parent"] = "none" =>
          /\ pc["prelogin"] \in {"connected", "commands", "serve", "gone", "bug"}
          /\ pc["session"] = "none"
    /\ pc["parent"] # "none" => pc["prelogin"] \notin {"serve", "bug"}
    /\ pc["session"] # "none" => pc["parent"] \in {"split", "serve", "gone"}
    /\ pc["prelogin"] = "bug" => WeirdLogin

(* What the sanity checks of main() leave of the configurations, as long   *)
(* as no per-user file was read.                                           *)
Sane ==
    /\ cfg.local_enable \/ cfg.anonymous_enable
    /\ ~cfg.ftp_enable => cfg.anonymous_enable /\ cfg.one_process_model
    /\ cfg.one_process_model /\ ~cfg.run_as_launching_user =>
          ~cfg.local_enable /\ HasCapsNonRoot
Checked ==
    pc["session"] = "none" =>
        /\ pc["parent"] # "main" /\ (pc["parent"] # "gone" \/ pc["prelogin"] # "none")
              => Sane
        /\ pc["prelogin"] # "none" => (cfg.one_process_model <=> pc["parent"] = "none")
        /\ \E c \in Configs : /\ cfg.local_enable = c["local_enable"]
                              /\ cfg.run_as_launching_user = c["run_as_launching_user"]

(* The ends that the processes will close are open.                        *)
IfSsl(ends) == IF cfg.ssl_enable THEN ends ELSE {}
HeldByParent ==
    CASE pc["parent"] = "forked" ->
            {"parent_fd", "child_fd"} \cup IfSsl({"ssl_consumer_fd", "ssl_slave_fd"})
      [] pc["parent"] \in {"login", "verify", "granted", "handover"} ->
            {"parent_fd"} \cup IfSsl({"ssl_consumer_fd"})
      [] pc["parent"] = "split" ->
            {"new_parent_fd", "new_child_fd"} \cup IfSsl({"ssl_consumer_fd"})
      [] pc["parent"] = "serve" -> {"new_parent_fd"}
      [] OTHER -> {}
HeldByPrelogin ==
    CASE pc["prelogin"] = "born" ->
            {"parent_fd", "child_fd"} \cup IfSsl({"ssl_consumer_fd", "ssl_slave_fd"})
      [] pc["prelogin"] \in {"connected", "commands", "waiting"} /\ pc["parent"] # "none" ->
            {"child_fd"} \cup IfSsl({"ssl_slave_fd"})
      [] pc["prelogin"] = "slave" -> IfSsl({"ssl_slave_fd"})
      [] OTHER -> {}
HeldBySession ==
    CASE pc["session"] = "born" ->
            {"new_parent_fd", "new_child_fd"} \cup IfSsl({"ssl_consumer_fd"})
      [] pc["session"] = "serve" -> {"new_child_fd"} \cup IfSsl({"ssl_consumer_fd"})
      [] OTHER -> {}
EndsExact ==
    /\ fds["parent"] = HeldByParent
    /\ fds["prelogin"] = HeldByPrelogin
    /\ fds["session"] = HeldBySession
    /\ control_use_ssl => cfg.ssl_enable

(* What is in the socket: a request of a child that waits for its answer,  *)
(* or the answer; and once the login is granted, what became of the child. *)
Quiet ==
    /\ pc["prelogin"] \in {"none", "born", "connected", "commands", "serve", "slave"}
          => request = None /\ result = None
    /\ pc["parent"] = "none" => request = None /\ result = None
Asked ==
    /\ pc["parent"] = "verify" => request # None
    /\ request # None =>
          /\ result = None
          /\ pc["parent"] \in {"forked", "login", "verify", "gone"}
          /\ pc["session"] = "none"
          /\ request.control_use_ssl <=> control_use_ssl
Told ==
    /\ result = "BAD" => pc["parent"] \in {"login", "gone"} /\ pc["session"] = "none"
    /\ result = "OK" => /\ pc["parent"] \in {"granted", "handover", "split", "serve", "gone"}
                        /\ auth # None
                        /\ auth.ssl <=> control_use_ssl
GrantedTo ==
    /\ pc["parent"] \in {"granted", "handover", "split", "serve"} \/ pc["session"] # "none" =>
          /\ auth # None
          /\ \/ pc["prelogin"] = "gone"
             \/ pc["prelogin"] = "waiting" /\ result = "OK"
             \/ pc["prelogin"] = "slave"
    /\ pc["parent"] \in {"handover", "split", "serve"} \/ pc["session"] # "none" =>
          pc["prelogin"] = "gone" \/ auth.ssl
    /\ pc["prelogin"] = "slave" => auth # None /\ auth.ssl
Channel == Quiet /\ Asked /\ Told /\ GrantedTo

(* A name that was accepted may log in, and over the connection there is.  *)
MayLogIn(u, ssl) ==
    u # "anon" =>
        /\ cfg.local_enable
        /\ cfg.ssl_enable /\ cfg.force_local_logins_ssl => ssl
NamesGuarded ==
    /\ pc["prelogin"] \in {"none", "born", "connected"} => user_str = None
    /\ pc["prelogin"] = "commands" /\ user_str # None => MayLogIn(user_str, control_use_ssl)
    /\ request # None => MayLogIn(request.user, request.control_use_ssl)

(* Who was found.                                                          *)
AuthSound ==
    auth # None => IF auth.anon THEN auth.user = "anon" /\ auth.chroot
                   ELSE auth.user \in Locals

(* Until then there is nobody, and from then on the connection stays what  *)
(* it was.                                                                 *)
Found ==
    /\ pc["prelogin"] \in {"none", "born", "connected", "commands"} => auth = None
    /\ request # None \/ result = "BAD" => auth = None
    /\ auth # None => (auth.ssl <=> control_use_ssl)

(* A launcher that main() let through, and the process on its own.         *)
Launched ==
    \/ creds["parent"] = Root
    \/ /\ creds["parent"] \in Launchers
       /\ cfg.run_as_launching_user /\ cfg.one_process_model
       /\ ~cfg.connect_from_port_20 /\ ~cfg.chown_uploads
AloneSound ==
    /\ ~cfg.run_as_launching_user =>
          /\ creds["prelogin"].uid = "ftp" /\ creds["prelogin"].jailed
          /\ creds["prelogin"].caps = NeededCaps
    /\ cfg.run_as_launching_user =>
          /\ creds["prelogin"].uid = "root" \/ creds["prelogin"].caps = {}
          /\ NeededCaps \subseteq creds["prelogin"].caps

(* The credentials of the processes that a client can talk to.             *)
Dropped ==
    /\ pc["prelogin"] \in {"connected", "commands", "waiting", "slave", "serve"} =>
          IF pc["parent"] = "none" THEN AloneSound
          ELSE /\ creds["prelogin"].uid # "root"
               /\ creds["prelogin"].jailed /\ creds["prelogin"].caps = {}
    /\ pc["session"] = "serve" =>
          creds["session"].caps = {} /\ creds["session"].uid # "root"
    /\ pc["parent"] = "main" => creds["parent"] \in Launchers
    /\ pc["parent"] = "launch" => Launched
    /\ pc["parent"] \in {"forked", "login", "verify", "granted", "handover", "split"}
          => creds["parent"].caps = Caps
    /\ ServedAsAuthenticated
    /\ ParentPrivilege

(* The failures the child has counted and those the parent has verified.   *)
Allowed == IF cfg.max_login_fails > 0 THEN cfg.max_login_fails ELSE 1
Counted ==
    /\ tries <= Allowed
    /\ pc["prelogin"] \in {"none", "born", "connected", "commands", "waiting"} =>
          /\ login_fails < Allowed
          /\ tries <= IF result = "BAD" THEN login_fails + 1 ELSE login_fails
    /\ request # None => login_fails < Allowed /\ tries <= login_fails

LoginIInv ==
    /\ TypeOK /\ CfgOK(cfg) /\ Together /\ Checked /\ EndsExact /\ Channel
    /\ NamesGuarded /\ AuthSound /\ Found /\ Dropped /\ Counted

-----------------------------------------------------------------------------
(* How a process ends.                                                     *)

SigchldType == [handler : BOOLEAN, pending : BOOLEAN]

LEMMA StopSigchld ==
    ASSUME TypeOK, NEW p \in Procs, NEW how, Stop(p, how)
    PROVE  sigchld' \in SigchldType
  BY DEF TypeOK, Stop, SigchldType

(* The pre-login child may end anywhere, and take its answer with it.      *)
LEMMA PreloginStops ==
    ASSUME LoginIInv, NEW how \in {"gone", "bug"},
           pc["prelogin"] \notin {"none", "gone", "bug"},
           how = "bug" => pc["parent"] = "none" /\ WeirdLogin,
           pc' = [pc EXCEPT !["prelogin"] = how],
           fds' = [fds EXCEPT !["prelogin"] = {}],
           sigchld' \in SigchldType, eof' \in BOOLEAN, user_str' \in Users \cup {None},
           login_fails' \in Nat, tries' \in Nat, tries' <= Allowed,
           request # None => login_fails' = login_fails /\ tries' = tries,
           result' \in {result, None},
           UNCHANGED <<cfg, creds, control_use_ssl, data_use_ssl, request, auth>>
    PROVE  LoginIInv'
  <1>1. TypeOK'
    BY LoginConstants DEF LoginIInv, SigchldType, TypeOK, Users, Places, Stopped, Uids,
           Procs, Together
  <1>2. CfgOK(cfg)'
    BY LoginConstants DEF LoginIInv, SigchldType, CfgOK
  <1>3. Together'
    BY LoginConstants DEF LoginIInv, SigchldType, WeirdLogin, Together, TypeOK, Procs
  <1>4. Checked'
    BY LoginConstants DEF LoginIInv, SigchldType, Checked, Sane, Together, TypeOK,
           Procs
  <1>5. EndsExact'
    BY LoginConstants DEF LoginIInv, SigchldType, EndsExact, HeldByParent,
           HeldByPrelogin, HeldBySession, IfSsl, Together, TypeOK, Procs
  <1>6. Quiet'
    BY LoginConstants DEF LoginIInv, SigchldType, Channel, Quiet, Asked, Together,
           TypeOK, Procs
  <1>7. Asked'
    BY LoginConstants DEF LoginIInv, SigchldType, Channel, Quiet, Asked, Together,
           TypeOK, Procs
  <1>8. Told'
    BY LoginConstants DEF LoginIInv, SigchldType, Channel, Quiet, Asked, Told,
           Together, TypeOK, Procs
  <1>9. GrantedTo'
    BY LoginConstants DEF LoginIInv, SigchldType, Channel, Quiet, Told, GrantedTo,
           Together, TypeOK, Procs
  <1>10. NamesGuarded'
    BY LoginConstants DEF LoginIInv, SigchldType, NamesGuarded, MayLogIn, Channel,
           Asked, Together, TypeOK, Procs
  <1>11. AuthSound'
    BY LoginConstants DEF LoginIInv, SigchldType, AuthSound
  <1>12. Found'
    BY LoginConstants DEF LoginIInv, SigchldType, Found, Channel, Quiet, Asked, Told,
           Together, TypeOK, Procs
  <1>13. Dropped'
    BY LoginConstants DEF LoginIInv, SigchldType, Dropped, ServedAsAuthenticated,
           ParentPrivilege, AloneSound, Launched, NeededCaps, Together, TypeOK, Procs
  <1>14. Counted'
    BY LoginConstants, ZenonT(40) DEF LoginIInv, SigchldType, Counted, Allowed, Channel, Quiet,
           Asked, Together, TypeOK, Procs
  <1> QED
    BY <1>1, <1>2, <1>3, <1>4, <1>5, <1>6, <1>7, <1>8, <1>9, <1>10, <1>11, <1>12,
           <1>13, <1>14 DEF LoginIInv, Channel

LEMMA ParentStops ==
    ASSUME LoginIInv, pc["parent"] \notin {"none", "gone"},
           pc' = [pc EXCEPT !["parent"] = "gone"],
           fds' = [fds EXCEPT !["parent"] = {}],
           sigchld' \in SigchldType, eof' \in BOOLEAN,
           UNCHANGED <<cfg, creds, user_str, control_use_ssl, data_use_ssl, login_fails,
                       request, result, auth, tries>>
    PROVE  LoginIInv'
  <1>1. TypeOK'
    BY LoginConstants DEF LoginIInv, SigchldType, TypeOK, Users, Places, Stopped, Uids,
           Procs, Together
  <1>2. CfgOK(cfg)'
    BY LoginConstants DEF LoginIInv, SigchldType, CfgOK
  <1>3. Together'
    BY LoginConstants DEF LoginIInv, SigchldType, WeirdLogin, Together, TypeOK, Procs
  <1>4. Checked'
    BY LoginConstants DEF LoginIInv, SigchldType, Checked, Sane, Together, TypeOK,
           Procs
  <1>5. EndsExact'
    BY LoginConstants DEF LoginIInv, SigchldType, EndsExact, HeldByParent,
           HeldByPrelogin, HeldBySession, IfSsl, Together, TypeOK, Procs
  <1>6. Quiet'
    BY LoginConstants DEF LoginIInv, SigchldType, Channel, Quiet, Asked, Together,
           TypeOK, Procs
  <1>7. Asked'
    BY LoginConstants DEF LoginIInv, SigchldType, Channel, Quiet, Asked, Together,
           TypeOK, Procs
  <1>8. Told'
    BY LoginConstants DEF LoginIInv, SigchldType, Channel, Quiet, Asked, Told,
           Together, TypeOK, Procs
  <1>9. GrantedTo'
    BY LoginConstants DEF LoginIInv, SigchldType, Channel, Quiet, Told, GrantedTo,
           Together, TypeOK, Procs
  <1>10. NamesGuarded'
    BY LoginConstants DEF LoginIInv, SigchldType, NamesGuarded, MayLogIn, Channel,
           Asked, Together, TypeOK, Procs
  <1>11. AuthSound'
    BY LoginConstants DEF LoginIInv, SigchldType, AuthSound
  <1>12. Found'
    BY LoginConstants DEF LoginIInv, SigchldType, Found, Channel, Quiet, Asked, Told,
           Together, TypeOK, Procs
  <1>13. Dropped'
    BY LoginConstants DEF LoginIInv, SigchldType, Dropped, ServedAsAuthenticated,
           ParentPrivilege, AloneSound, Launched, NeededCaps, Together, TypeOK, Procs
  <1>14. Counted'
    BY LoginConstants DEF LoginIInv, SigchldType, Counted, Allowed, Channel, Quiet,
           Asked, Together, TypeOK, Procs
  <1> QED
    BY <1>1, <1>2, <1>3, <1>4, <1>5, <1>6, <1>7, <1>8, <1>9, <1>10, <1>11, <1>12,
           <1>13, <1>14 DEF LoginIInv, Channel

LEMMA SessionStops ==
    ASSUME LoginIInv, pc["session"] \notin {"none", "gone"},
           pc' = [pc EXCEPT !["session"] = "gone"],
           fds' = [fds EXCEPT !["session"] = {}],
           sigchld' \in SigchldType,
           UNCHANGED <<cfg, creds, user_str, control_use_ssl, data_use_ssl, login_fails,
                       eof, request, result, auth, tries>>
    PROVE  LoginIInv'
  <1>1. TypeOK'
    BY LoginConstants DEF LoginIInv, SigchldType, TypeOK, Users, Places, Stopped, Uids,
           Procs, Together
  <1>2. CfgOK(cfg)'
    BY LoginConstants DEF LoginIInv, SigchldType, CfgOK
  <1>3. Together'
    BY LoginConstants DEF LoginIInv, SigchldType, WeirdLogin, Together, TypeOK, Procs
  <1>4. Checked'
    BY LoginConstants DEF LoginIInv, SigchldType, Checked, Sane, Together, TypeOK,
           Procs
  <1>5. EndsExact'
    BY LoginConstants DEF LoginIInv, SigchldType, EndsExact, HeldByParent,
           HeldByPrelogin, HeldBySession, IfSsl, Together, TypeOK, Procs
  <1>6. Quiet'
    BY LoginConstants DEF LoginIInv, SigchldType, Channel, Quiet, Asked, Together,
           TypeOK, Procs
  <1>7. Asked'
    BY LoginConstants DEF LoginIInv, SigchldType, Channel, Quiet, Asked, Together,
           TypeOK, Procs
  <1>8. Told'
    BY LoginConstants DEF LoginIInv, SigchldType, Channel, Quiet, Asked, Told,
           Together, TypeOK, Procs
  <1>9. GrantedTo'
    BY LoginConstants DEF LoginIInv, SigchldType, Channel, Quiet, Told, GrantedTo,
           Together, TypeOK, Procs
  <1>10. NamesGuarded'
    BY LoginConstants DEF LoginIInv, SigchldType, NamesGuarded, MayLogIn, Channel,
           Asked, Together, TypeOK, Procs
  <1>11. AuthSound'
    BY LoginConstants DEF LoginIInv, SigchldType, AuthSound
  <1>12. Found'
    BY LoginConstants DEF LoginIInv, SigchldType, Found, Channel, Quiet, Asked, Told,
           Together, TypeOK, Procs
  <1>13. Dropped'
    BY LoginConstants DEF LoginIInv, SigchldType, Dropped, ServedAsAuthenticated,
           ParentPrivilege, AloneSound, Launched, NeededCaps, Together, TypeOK, Procs
  <1>14. Counted'
    BY LoginConstants DEF LoginIInv, SigchldType, Counted, Allowed, Channel, Quiet,
           Asked, Together, TypeOK, Procs
  <1> QED
    BY <1>1, <1>2, <1>3, <1>4, <1>5, <1>6, <1>7, <1>8, <1>9, <1>10, <1>11, <1>12,
           <1>13, <1>14 DEF LoginIInv, Channel

(* The end of the connection and the protection of the data are no part of *)
(* the invariant.                                                          *)
LEMMA NothingElse ==
    ASSUME LoginIInv, eof' \in BOOLEAN, data_use_ssl' \in BOOLEAN,
           UNCHANGED <<cfg, pc, creds, fds, user_str, control_use_ssl, login_fails,
                       request, result, sigchld, auth, tries>>
    PROVE  LoginIInv'
  <1>1. TypeOK'
    BY LoginConstants DEF LoginIInv, TypeOK, Users, Places, Stopped, Uids, Procs,
           Together
  <1>2. CfgOK(cfg)'
    BY LoginConstants DEF LoginIInv, CfgOK
  <1>3. Together'
    BY LoginConstants DEF LoginIInv, WeirdLogin, Together, TypeOK, Procs
  <1>4. Checked'
    BY LoginConstants DEF LoginIInv, Checked, Sane, Together, TypeOK, Procs
  <1>5. EndsExact'
    BY LoginConstants DEF LoginIInv, EndsExact, HeldByParent, HeldByPrelogin,
           HeldBySession, IfSsl, Together, TypeOK, Procs
  <1>6. Quiet'
    BY LoginConstants DEF LoginIInv, Channel, Quiet, Asked, Together, TypeOK, Procs
  <1>7. Asked'
    BY LoginConstants DEF LoginIInv, Channel, Quiet, Asked, Together, TypeOK, Procs
  <1>8. Told'
    BY LoginConstants DEF LoginIInv, Channel, Quiet, Asked, Told, Together, TypeOK,
           Procs
  <1>9. GrantedTo'
    BY LoginConstants DEF LoginIInv, Channel, Quiet, Told, GrantedTo, Together, TypeOK,
           Procs
  <1>10. NamesGuarded'
    BY LoginConstants DEF LoginIInv, NamesGuarded, MayLogIn, Channel, Asked, Together,
           TypeOK, Procs
  <1>11. AuthSound'
    BY LoginConstants DEF LoginIInv, AuthSound
  <1>12. Found'
    BY LoginConstants DEF LoginIInv, Found, Channel, Quiet, Asked, Told, Together,
           TypeOK, Procs
  <1>13. Dropped'
    BY LoginConstants DEF LoginIInv, Dropped, ServedAsAuthenticated, ParentPrivilege,
           AloneSound, Launched, NeededCaps, Together, TypeOK, Procs
  <1>14. Counted'
    BY LoginConstants DEF LoginIInv, Counted, Allowed, Channel, Quiet, Asked, Together,
           TypeOK, Procs
  <1> QED
    BY <1>1, <1>2, <1>3, <1>4, <1>5, <1>6, <1>7, <1>8, <1>9, <1>10, <1>11, <1>12,
           <1>13, <1>14 DEF LoginIInv, Channel

-----------------------------------------------------------------------------
(* The commands before the login.                                          *)

(* The child goes on with commands, having counted a failure or not.       *)
LEMMA BackToCommands ==
    ASSUME LoginIInv,
           \/ pc["prelogin"] = "commands"
           \/ pc["prelogin"] = "waiting" /\ result = "BAD",
           pc' = [pc EXCEPT !["prelogin"] = "commands"],
           user_str' \in Users \cup {None},
           user_str' # None => MayLogIn(user_str', control_use_ssl),
           login_fails' \in Nat, login_fails' < Allowed,
           tries' \in Nat, tries' <= login_fails', result' = None,
           UNCHANGED <<cfg, creds, fds, control_use_ssl, data_use_ssl, eof, request,
                       sigchld, auth>>
    PROVE  LoginIInv'
  <1>1. /\ tries' <= Allowed' /\ login_fails' < Allowed' /\ request' = None
        /\ result' # "BAD" /\ pc'["prelogin"] = "commands"
    <2>1. Allowed' = Allowed /\ Allowed \in Nat
      BY DEF LoginIInv, CfgOK, Allowed
    <2>2. request = None
      BY LoginConstants DEF LoginIInv, Channel, Quiet, Asked
    <2> QED
      BY <2>1, <2>2, LoginConstants DEF LoginIInv, TypeOK, Procs
  <1>2. TypeOK'
    BY <1>1, LoginConstants DEF LoginIInv, TypeOK, Users, Places, Stopped, Uids, Procs,
           Together
  <1>3. CfgOK(cfg)'
    BY <1>1, LoginConstants DEF LoginIInv, CfgOK
  <1>4. Together'
    BY <1>1, LoginConstants DEF LoginIInv, WeirdLogin, Together, TypeOK, Procs
  <1>5. Checked'
    BY <1>1, LoginConstants DEF LoginIInv, Checked, Sane, Together, TypeOK, Procs
  <1>6. EndsExact'
    BY <1>1, LoginConstants DEF LoginIInv, EndsExact, HeldByParent, HeldByPrelogin,
           HeldBySession, IfSsl, Together, TypeOK, Procs
  <1>7. Quiet'
    BY <1>1, LoginConstants DEF LoginIInv, Channel, Quiet, Asked, Together, TypeOK,
           Procs
  <1>8. Asked'
    BY <1>1, LoginConstants DEF LoginIInv, Channel, Quiet, Asked, Together, TypeOK,
           Procs
  <1>9. Told'
    BY <1>1, LoginConstants DEF LoginIInv, Channel, Quiet, Asked, Told, Together,
           TypeOK, Procs
  <1>10. GrantedTo'
    BY <1>1, LoginConstants DEF LoginIInv, Channel, Quiet, Told, GrantedTo, Together,
           TypeOK, Procs
  <1>11. NamesGuarded'
    BY <1>1, LoginConstants DEF LoginIInv, NamesGuarded, MayLogIn, Channel, Asked,
           Together, TypeOK, Procs
  <1>12. AuthSound'
    BY <1>1, LoginConstants DEF LoginIInv, AuthSound
  <1>13. Found'
    BY <1>1, LoginConstants DEF LoginIInv, Found, Channel, Quiet, Asked, Told,
           Together, TypeOK, Procs
  <1>14. Dropped'
    BY <1>1, LoginConstants DEF LoginIInv, Dropped, ServedAsAuthenticated,
           ParentPrivilege, AloneSound, Launched, NeededCaps, Together, TypeOK, Procs
  <1>15. Counted'
    BY <1>1, LoginConstants DEF LoginIInv, Counted, TypeOK, Procs
  <1> QED
    BY <1>2, <1>3, <1>4, <1>5, <1>6, <1>7, <1>8, <1>9, <1>10, <1>11, <1>12, <1>13,
           <1>14, <1>15 DEF LoginIInv, Channel

LEMMA CountFailureInv ==
    ASSUME LoginIInv, CountFailure,
           \/ pc["prelogin"] = "commands"
           \/ pc["prelogin"] = "waiting" /\ result = "BAD",
           tries' \in Nat, tries' <= login_fails + 1, result' = None,
           UNCHANGED <<cfg, creds, control_use_ssl, data_use_ssl, eof, request, auth>>
    PROVE  LoginIInv'
  <1>1. login_fails < Allowed /\ login_fails \in Nat /\ request = None /\ eof \in BOOLEAN
    BY LoginConstants DEF LoginIInv, Counted, Channel, Quiet, Asked, TypeOK
  <1>2. CASE login_fails + 1 >= cfg.max_login_fails
    <2>1. Stop("prelogin", "gone") /\ user_str' = None /\ login_fails' = login_fails + 1
      BY <1>2 DEF CountFailure
    <2>2. sigchld' \in SigchldType
      BY <2>1, StopSigchld DEF Procs, LoginIInv
    <2>3. tries' <= Allowed
      BY <1>1 DEF Allowed, LoginIInv, CfgOK
    <2>4. pc["prelogin"] \notin {"none", "gone", "bug"}
      OBVIOUS
    <2> QED
      BY <1>1, <2>1, <2>2, <2>3, <2>4, PreloginStops DEF Stop
  <1>3. CASE ~(login_fails + 1 >= cfg.max_login_fails)
    <2>1. /\ Goto("prelogin", "commands") /\ UNCHANGED <<fds, sigchld>>
          /\ user_str' = None /\ login_fails' = login_fails + 1
      BY <1>3 DEF CountFailure
    <2>2. login_fails' < Allowed /\ login_fails' \in Nat
      BY <1>1, <1>3, <2>1 DEF Allowed, LoginIInv, CfgOK
    <2> QED
      BY <1>1, <2>1, <2>2, BackToCommands DEF Goto
  <1> QED
    BY <1>2, <1>3

(* Where the child takes commands, no login has been granted, and a name   *)
(* it was given may log in.                                                *)
LEMMA AtCommands ==
    ASSUME LoginIInv, pc["prelogin"] = "commands"
    PROVE  /\ pc["session"] = "none" /\ request = None /\ result = None
           /\ pc["parent"] \in {"none", "forked", "login", "gone"}
           /\ cfg.one_process_model <=> pc["parent"] = "none"
           /\ Sane /\ tries <= login_fails /\ login_fails < Allowed
  <1>1. request = None /\ result = None
    BY DEF LoginIInv, Channel, Quiet
  <1>2. pc["session"] = "none" /\ pc["parent"] \in {"none", "forked", "login", "gone"}
    BY <1>1 DEF LoginIInv, Together, Channel, GrantedTo, Asked
  <1>3. Sane /\ (cfg.one_process_model <=> pc["parent"] = "none")
    BY <1>2 DEF LoginIInv, Checked
  <1>4. tries <= login_fails /\ login_fails < Allowed
    BY <1>1, LoginConstants DEF LoginIInv, Counted
  <1> QED
    BY <1>1, <1>2, <1>3, <1>4

LEMMA VerdictMayLogIn ==
    ASSUME NEW u, UserVerdict(u) \in {"login", "ask"}
    PROVE  MayLogIn(u, control_use_ssl)
  BY DEF UserVerdict, MayLogIn

LEMMA VerdictLogin ==
    ASSUME NEW u, UserVerdict(u) = "login"
    PROVE  u = "anon"
  BY DEF UserVerdict

(* vsf_one_process_login succeeds.                                         *)
LEMMA ServesHere ==
    ASSUME LoginIInv, pc["prelogin"] = "commands", pc["parent"] = "none",
           pc' = [pc EXCEPT !["prelogin"] = "serve"],
           auth' = [user |-> "anon", anon |-> TRUE, chroot |-> TRUE, ssl |-> control_use_ssl],
           user_str' = "anon",
           UNCHANGED <<cfg, creds, fds, control_use_ssl, data_use_ssl, login_fails, eof,
                       request, result, sigchld, tries>>
    PROVE  LoginIInv'
  <1>1. TypeOK'
    BY LoginConstants DEF LoginIInv, TypeOK, Users, Places, Stopped, Uids, Procs,
           Together, Logins
  <1>2. CfgOK(cfg)'
    BY LoginConstants DEF LoginIInv, CfgOK
  <1>3. Together'
    BY LoginConstants DEF LoginIInv, WeirdLogin, Together, TypeOK, Procs
  <1>4. Checked'
    BY LoginConstants DEF LoginIInv, Checked, Sane, Together, TypeOK, Procs
  <1>5. EndsExact'
    BY LoginConstants DEF LoginIInv, EndsExact, HeldByParent, HeldByPrelogin,
           HeldBySession, IfSsl, Together, TypeOK, Procs
  <1>6. Quiet'
    BY LoginConstants DEF LoginIInv, Channel, Quiet, Asked, Together, TypeOK, Procs
  <1>7. Asked'
    BY LoginConstants DEF LoginIInv, Channel, Quiet, Asked, Together, TypeOK, Procs
  <1>8. Told'
    BY LoginConstants DEF LoginIInv, Channel, Quiet, Asked, Told, Together, TypeOK,
           Procs
  <1>9. GrantedTo'
    BY LoginConstants DEF LoginIInv, Channel, Quiet, Told, GrantedTo, Together, TypeOK,
           Procs
  <1>10. NamesGuarded'
    BY LoginConstants DEF LoginIInv, NamesGuarded, MayLogIn, Channel, Asked, Together,
           TypeOK, Procs
  <1>11. AuthSound'
    BY LoginConstants DEF LoginIInv, AuthSound
  <1>12. Found'
    BY LoginConstants DEF LoginIInv, Found, Channel, Quiet, Asked, Told, Together,
           TypeOK, Procs
  <1>13. Dropped'
    BY LoginConstants DEF LoginIInv, Dropped, ServedAsAuthenticated, ParentPrivilege,
           AloneSound, Launched, NeededCaps, Together, TypeOK, Procs
  <1>14. Counted'
    BY LoginConstants DEF LoginIInv, Counted, Allowed, Channel, Quiet, Asked, Together,
           TypeOK, Procs
  <1> QED
    BY <1>1, <1>2, <1>3, <1>4, <1>5, <1>6, <1>7, <1>8, <1>9, <1>10, <1>11, <1>12,
           <1>13, <1>14 DEF LoginIInv, Channel

LEMMA LoginHereInv ==
    ASSUME LoginIInv, pc["prelogin"] = "commands", cfg.one_process_model,
           NEW u \in Users, NEW pw \in Passwords, MayLogIn(u, control_use_ssl),
           LoginHere(u, pw),
           UNCHANGED <<cfg, creds, control_use_ssl, data_use_ssl, eof, result>>
    PROVE  LoginIInv'
  <1>1. /\ pc["parent"] = "none" /\ Sane /\ request = None /\ result = None
        /\ tries <= login_fails /\ login_fails < Allowed
    BY AtCommands
  <1>2. tries \in Nat /\ login_fails \in Nat /\ eof \in BOOLEAN
    BY DEF LoginIInv, TypeOK
  <1>3. request' = request
    BY DEF LoginHere
  <1>4. HandleLogin(u, pw) \in {"fail", "anon", "oops", "real"}
    BY DEF HandleLogin
  <1>5. CASE HandleLogin(u, pw) = "fail"
    <2>1. tries' = tries + 1 /\ CountFailure /\ UNCHANGED auth
      BY <1>5 DEF LoginHere
    <2> QED
      BY <1>1, <1>2, <1>3, <2>1, CountFailureInv
  <1>6. CASE HandleLogin(u, pw) = "anon"
    <2>1. u = "anon"
      BY <1>6 DEF HandleLogin
    <2>2. /\ auth' = [user |-> "anon", anon |-> TRUE, chroot |-> TRUE, ssl |-> control_use_ssl]
          /\ user_str' = "anon"
          /\ Goto("prelogin", "serve")
          /\ UNCHANGED <<tries, login_fails, fds, sigchld>>
      BY <1>6, <2>1 DEF LoginHere
    <2> QED
      BY <1>1, <1>3, <2>2, ServesHere DEF Goto
  <1>7. CASE HandleLogin(u, pw) = "real"
    <2>1. WeirdLogin
      BY <1>1, <1>7 DEF HandleLogin, Sane, WeirdLogin
    <2>2. Stop("prelogin", "bug") /\ user_str' = u /\ UNCHANGED <<tries, auth, login_fails>>
      BY <1>7 DEF LoginHere
    <2>3. sigchld' \in SigchldType
      BY <2>2, StopSigchld DEF Procs, LoginIInv
    <2>4. tries <= Allowed
      BY DEF LoginIInv, Counted
    <2> QED
      BY <1>1, <1>2, <1>3, <2>1, <2>2, <2>3, <2>4, PreloginStops DEF Stop
  <1>8. HandleLogin(u, pw) # "oops"
    BY <1>1 DEF HandleLogin, MayLogIn, Sane
  <1> QED
    BY <1>4, <1>5, <1>6, <1>7, <1>8

(* vsf_two_process_login sends the request.                                *)
LEMMA AsksParent ==
    ASSUME LoginIInv, pc["prelogin"] = "commands", pc["parent"] \in {"forked", "login"},
           NEW u \in Users, NEW pw \in Passwords, MayLogIn(u, control_use_ssl),
           pc' = [pc EXCEPT !["prelogin"] = "waiting"],
           request' = [user |-> u, pass |-> pw, control_use_ssl |-> control_use_ssl,
                       data_use_ssl |-> data_use_ssl],
           user_str' = u,
           UNCHANGED <<cfg, creds, fds, control_use_ssl, data_use_ssl, login_fails, eof,
                       result, sigchld, auth, tries>>
    PROVE  LoginIInv'
  <1>1. TypeOK'
    BY LoginConstants DEF LoginIInv, TypeOK, Users, Places, Stopped, Uids, Procs,
           Together
  <1>2. CfgOK(cfg)'
    BY LoginConstants DEF LoginIInv, CfgOK
  <1>3. Together'
    BY LoginConstants DEF LoginIInv, WeirdLogin, Together, TypeOK, Procs
  <1>4. Checked'
    BY LoginConstants DEF LoginIInv, Checked, Sane, Together, TypeOK, Procs
  <1>5. EndsExact'
    BY LoginConstants DEF LoginIInv, EndsExact, HeldByParent, HeldByPrelogin,
           HeldBySession, IfSsl, Together, TypeOK, Procs
  <1>6. Quiet'
    BY LoginConstants DEF LoginIInv, Channel, Quiet, Asked, Together, TypeOK, Procs
  <1>7. Asked'
    BY LoginConstants DEF LoginIInv, Channel, Quiet, Asked, Together, TypeOK, Procs
  <1>8. Told'
    BY LoginConstants DEF LoginIInv, Channel, Quiet, Asked, Told, Together, TypeOK,
           Procs
  <1>9. GrantedTo'
    BY LoginConstants DEF LoginIInv, Channel, Quiet, Told, GrantedTo, Together, TypeOK,
           Procs
  <1>10. NamesGuarded'
    BY LoginConstants DEF LoginIInv, NamesGuarded, MayLogIn, Channel, Asked, Together,
           TypeOK, Procs
  <1>11. AuthSound'
    BY LoginConstants DEF LoginIInv, AuthSound
  <1>12. Found'
    BY LoginConstants DEF LoginIInv, Found, Channel, Quiet, Asked, Told, Together,
           TypeOK, Procs
  <1>13. Dropped'
    BY LoginConstants DEF LoginIInv, Dropped, ServedAsAuthenticated, ParentPrivilege,
           AloneSound, Launched, NeededCaps, Together, TypeOK, Procs
  <1>14. Counted'
    BY LoginConstants DEF LoginIInv, Counted, Allowed, Channel, Quiet, Asked, Together,
           TypeOK, Procs
  <1> QED
    BY <1>1, <1>2, <1>3, <1>4, <1>5, <1>6, <1>7, <1>8, <1>9, <1>10, <1>11, <1>12,
           <1>13, <1>14 DEF LoginIInv, Channel

LEMMA LoginThereInv ==
    ASSUME LoginIInv, pc["prelogin"] = "commands", ~cfg.one_process_model,
           NEW u \in Users, NEW pw \in Passwords, MayLogIn(u, control_use_ssl),
           LoginThere(u, pw),
           UNCHANGED <<cfg, creds, control_use_ssl, data_use_ssl, eof, result>>
    PROVE  LoginIInv'
  <1>1. /\ pc["parent"] \in {"forked", "login", "gone"} /\ request = None
        /\ pc["session"] = "none"
    BY AtCommands
  <1>2. CASE Held("parent_fd")
    <2>1. pc["parent"] \in {"forked", "login"}
      BY <1>1, <1>2 DEF Held, Procs, LoginIInv, EndsExact, HeldByParent, HeldByPrelogin,
                        HeldBySession, IfSsl
    <2>2. /\ request' = [user |-> u, pass |-> pw, control_use_ssl |-> control_use_ssl,
                         data_use_ssl |-> data_use_ssl]
          /\ Goto("prelogin", "waiting") /\ user_str' = u
          /\ UNCHANGED <<fds, sigchld, login_fails, auth, tries>>
      BY <1>2 DEF LoginThere
    <2> QED
      BY <2>1, <2>2, AsksParent DEF Goto
  <1>3. CASE ~Held("parent_fd")
    <2>1. /\ Stop("prelogin", "gone") /\ user_str' = u
          /\ UNCHANGED <<request, login_fails, auth, tries>>
      BY <1>3 DEF LoginThere
    <2>2. sigchld' \in SigchldType
      BY <2>1, StopSigchld DEF Procs, LoginIInv
    <2>3. tries <= Allowed /\ tries \in Nat /\ login_fails \in Nat /\ eof \in BOOLEAN
      BY DEF LoginIInv, Counted, TypeOK
    <2> QED
      BY <1>1, <2>1, <2>2, <2>3, PreloginStops DEF Stop
  <1> QED
    BY <1>2, <1>3

LEMMA DoLoginInv ==
    ASSUME LoginIInv, pc["prelogin"] = "commands",
           NEW u \in Users, NEW pw \in Passwords, MayLogIn(u, control_use_ssl),
           DoLogin(u, pw),
           UNCHANGED <<cfg, creds, control_use_ssl, data_use_ssl, eof, result>>
    PROVE  LoginIInv'
  BY LoginHereInv, LoginThereInv DEF DoLogin

LEMMA UserInv ==
    ASSUME LoginIInv, NEW u \in Users, UserCommand(u)
    PROVE  LoginIInv'
  <1>1. pc["prelogin"] = "commands"
    BY DEF UserCommand, AtCommand
  <1>2. /\ request = None /\ result = None /\ tries <= login_fails /\ login_fails < Allowed
    BY <1>1, AtCommands
  <1>3. /\ tries \in Nat /\ login_fails \in Nat /\ eof \in BOOLEAN /\ tries <= Allowed
        /\ pc \in [Procs -> Places]
    BY DEF LoginIInv, TypeOK, Counted
  <1>4. UNCHANGED <<cfg, creds, control_use_ssl, data_use_ssl, eof, result>>
    BY DEF UserCommand
  <1>5. CASE UserVerdict(u) = "login"
    <2>1. DoLogin(u, "good")
      BY <1>5 DEF UserCommand
    <2>2. MayLogIn(u, control_use_ssl)
      BY <1>5, VerdictMayLogIn
    <2> QED
      BY <1>1, <1>4, <2>1, <2>2, DoLoginInv DEF Passwords
  <1>6. CASE UserVerdict(u) = "deny"
    <2>1. CountFailure /\ UNCHANGED <<request, auth, tries>>
      BY <1>6 DEF UserCommand
    <2> QED
      BY <1>1, <1>2, <1>3, <1>4, <2>1, CountFailureInv
  <1>7. CASE UserVerdict(u) = "exit"
    <2>1. /\ Stop("prelogin", "gone") /\ user_str' = u
          /\ UNCHANGED <<login_fails, request, auth, tries>>
      BY <1>7 DEF UserCommand
    <2>2. sigchld' \in SigchldType
      BY <2>1, StopSigchld DEF Procs, LoginIInv
    <2> QED
      BY <1>1, <1>2, <1>3, <1>4, <2>1, <2>2, PreloginStops DEF Stop
  <1>8. CASE UserVerdict(u) \notin {"login", "deny", "exit"}
    <2>1. /\ user_str' = IF UserVerdict(u) = "ask" THEN u ELSE None
          /\ UNCHANGED <<pc, fds, sigchld, login_fails, request, auth, tries>>
      BY <1>8 DEF UserCommand
    <2>2. pc' = [pc EXCEPT !["prelogin"] = "commands"]
      BY <1>1, <1>3, <2>1 DEF Procs
    <2>3. user_str' # None => MayLogIn(user_str', control_use_ssl)
      BY <2>1, VerdictMayLogIn
    <2> QED
      BY <1>1, <1>2, <1>3, <1>4, <2>1, <2>2, <2>3, BackToCommands
  <1> QED
    BY <1>5, <1>6, <1>7, <1>8

LEMMA PassInv ==
    ASSUME LoginIInv, NEW pw \in Passwords, PassCommand(pw)
    PROVE  LoginIInv'
  <1>1. pc["prelogin"] = "commands" /\ user_str # None
    BY DEF PassCommand, AtCommand
  <1>2. user_str \in Users /\ MayLogIn(user_str, control_use_ssl)
    BY <1>1 DEF LoginIInv, TypeOK, NamesGuarded
  <1> QED
    BY <1>1, <1>2, DoLoginInv DEF PassCommand

LEMMA GetInv ==
    ASSUME LoginIInv, GetCommand
    PROVE  LoginIInv'
  <1>1. pc["prelogin"] = "commands" /\ ~cfg.ftp_enable
    BY DEF GetCommand
  <1>2. Sane /\ pc["parent"] = "none" /\ cfg.anonymous_enable
    BY <1>1, AtCommands DEF Sane
  <1>3. HandleLogin("anon", "good") = "anon"
    BY <1>2 DEF HandleLogin
  <1> QED
    BY <1>1, <1>2, <1>3, ServesHere DEF GetCommand, Goto

LEMMA AuthInv ==
    ASSUME LoginIInv, NEW kind, AuthCommand(kind)
    PROVE  LoginIInv'
  <1>1. TypeOK'
    BY LoginConstants DEF LoginIInv, AuthCommand, AtCommand, TypeOK, Users, Places,
           Stopped, Uids, Procs, Together
  <1>2. CfgOK(cfg)'
    BY LoginConstants DEF LoginIInv, AuthCommand, AtCommand, CfgOK
  <1>3. Together'
    BY LoginConstants DEF LoginIInv, AuthCommand, AtCommand, WeirdLogin, Together,
           TypeOK, Procs
  <1>4. Checked'
    BY LoginConstants DEF LoginIInv, AuthCommand, AtCommand, Checked, Sane, Together,
           TypeOK, Procs
  <1>5. EndsExact'
    BY LoginConstants DEF LoginIInv, AuthCommand, AtCommand, EndsExact, HeldByParent,
           HeldByPrelogin, HeldBySession, IfSsl, Together, TypeOK, Procs
  <1>6. Quiet'
    BY LoginConstants DEF LoginIInv, AuthCommand, AtCommand, Channel, Quiet, Asked,
           Together, TypeOK, Procs
  <1>7. Asked'
    BY LoginConstants DEF LoginIInv, AuthCommand, AtCommand, Channel, Quiet, Asked,
           Together, TypeOK, Procs
  <1>8. Told'
    BY LoginConstants DEF LoginIInv, AuthCommand, AtCommand, Channel, Quiet, Asked,
           Told, Together, TypeOK, Procs
  <1>9. GrantedTo'
    BY LoginConstants DEF LoginIInv, AuthCommand, AtCommand, Channel, Quiet, Told,
           GrantedTo, Together, TypeOK, Procs
  <1>10. NamesGuarded'
    BY LoginConstants DEF LoginIInv, AuthCommand, AtCommand, NamesGuarded, MayLogIn,
           Channel, Asked, Together, TypeOK, Procs
  <1>11. AuthSound'
    BY LoginConstants DEF LoginIInv, AuthCommand, AtCommand, AuthSound
  <1>12. Found'
    BY LoginConstants DEF LoginIInv, AuthCommand, AtCommand, Found, Channel, Quiet,
           Asked, Told, Together, TypeOK, Procs
  <1>13. Dropped'
    BY LoginConstants DEF LoginIInv, AuthCommand, AtCommand, Dropped,
           ServedAsAuthenticated, ParentPrivilege, AloneSound, Launched, NeededCaps,
           Together, TypeOK, Procs
  <1>14. Counted'
    BY LoginConstants DEF LoginIInv, AuthCommand, AtCommand, Counted, Allowed, Channel,
           Quiet, Asked, Together, TypeOK, Procs
  <1> QED
    BY <1>1, <1>2, <1>3, <1>4, <1>5, <1>6, <1>7, <1>8, <1>9, <1>10, <1>11, <1>12,
           <1>13, <1>14 DEF LoginIInv, Channel

LEMMA ProtInv ==
    ASSUME LoginIInv, NEW level, ProtCommand(level) \/ SessionProt(level)
    PROVE  LoginIInv'
  <1>1. data_use_ssl' \in BOOLEAN /\ eof' \in BOOLEAN
    BY DEF ProtCommand, SessionProt, LoginIInv, TypeOK
  <1> QED
    BY <1>1, NothingElse DEF ProtCommand, SessionProt

-----------------------------------------------------------------------------
(* Starting up.                                                            *)

LEMMA LoginInitInv == Init => LoginIInv
  <1> SUFFICES ASSUME Init PROVE LoginIInv
    OBVIOUS
  <1>1. CfgOK(cfg)
    BY LoginConstants DEF Init, CfgOK
  <1>2. TypeOK
    <2>1. PICK c \in Launchers : creds = [p \in Procs |-> c]
      BY DEF Init
    <2>2. c \in [uid : Uids, jailed : BOOLEAN, caps : SUBSET Caps,
                no_procs : BOOLEAN, no_fds : BOOLEAN]
      <3>1. CASE c = Root
        BY <3>1 DEF Root, Uids
      <3>2. CASE c = [Root EXCEPT !.uid = "launcher", !.caps = {}]
        BY <3>2 DEF Root, Uids
      <3> QED
        BY <3>1, <3>2 DEF Launchers
    <2> QED
      BY <1>1, <2>1, <2>2 DEF Init, TypeOK, CfgOK, Procs, Places, Stopped, Ends
  <1>3. Together /\ Checked
    BY DEF Init, Together, Checked, Procs
  <1>4. EndsExact
    BY DEF Init, EndsExact, HeldByParent, HeldByPrelogin, HeldBySession, Procs
  <1>5. Channel /\ NamesGuarded /\ AuthSound /\ Found
    BY LoginConstants DEF Init, Channel, Quiet, Asked, Told, GrantedTo, NamesGuarded,
                          AuthSound, Found, Procs
  <1>6. Dropped
    BY DEF Init, Dropped, ServedAsAuthenticated, ParentPrivilege, Procs
  <1>7. Counted
    BY <1>1, LoginConstants DEF Init, Counted, Allowed, CfgOK, Procs
  <1> QED
    BY <1>1, <1>2, <1>3, <1>4, <1>5, <1>6, <1>7 DEF LoginIInv

LEMMA MainInv ==
    ASSUME LoginIInv, Main
    PROVE  LoginIInv'
  <1>1. CASE ~(SaneConfig /\ (RunningAsRoot \/ cfg.run_as_launching_user))
    <2>1. Stop("parent", "gone") /\ UNCHANGED cfg
      BY <1>1 DEF Main
    <2>2. sigchld' \in SigchldType
      BY <2>1, StopSigchld DEF Procs, LoginIInv
    <2>3. eof' \in BOOLEAN
      BY DEF Main, LoginIInv, TypeOK
    <2> QED
      BY <2>1, <2>2, <2>3, ParentStops DEF Main, Stop
  <1>2. CASE SaneConfig /\ (RunningAsRoot \/ cfg.run_as_launching_user)
    <2>1. /\ pc["parent"] = "main" /\ pc["prelogin"] = "none" /\ pc["session"] = "none"
          /\ pc' = [pc EXCEPT !["parent"] = "launch"]
          /\ UNCHANGED <<fds, sigchld, creds, user_str, control_use_ssl, data_use_ssl,
                         login_fails, eof, request, result, auth, tries>>
      BY <1>2 DEF Main, Goto, LoginIInv, Together
    <2>2. /\ \A s \in (Switches \cup {"max_login_fails"})
                        \ {"one_process_model", "connect_from_port_20", "chown_uploads"} :
                 cfg'[s] = cfg[s]
          /\ ~cfg.run_as_launching_user => cfg'["one_process_model"] = cfg["one_process_model"]
          /\ cfg.run_as_launching_user => cfg'["one_process_model"] = TRUE
          /\ CfgOK(cfg')
      <3>1. CASE cfg.run_as_launching_user
        <4>1. PICK port20 \in BOOLEAN, chown \in BOOLEAN :
                 cfg' = [cfg EXCEPT !["one_process_model"] = TRUE,
                                    !["connect_from_port_20"] = port20,
                                    !["chown_uploads"] = chown]
          BY <1>2, <3>1 DEF Main
        <4> QED
          BY <3>1, <4>1, ZenonT(40) DEF LoginIInv, CfgOK, Switches
      <3>2. CASE ~cfg.run_as_launching_user
        <4>1. cfg' = cfg
          BY <1>2, <3>2 DEF Main
        <4> QED
          BY <3>2, <4>1 DEF LoginIInv, CfgOK
      <3> QED
        BY <3>1, <3>2
    <2>3. /\ cfg'["local_enable"] = cfg["local_enable"]
          /\ cfg'["anonymous_enable"] = cfg["anonymous_enable"]
          /\ cfg'["ftp_enable"] = cfg["ftp_enable"]
          /\ cfg'["run_as_launching_user"] = cfg["run_as_launching_user"]
          /\ cfg'["ssl_enable"] = cfg["ssl_enable"]
          /\ cfg'["max_login_fails"] = cfg["max_login_fails"]
      BY <2>2 DEF Switches
    <2>4. TypeOK'
      BY <2>1, <2>2 DEF LoginIInv, TypeOK, CfgOK, Places, Procs
    <2>5. Together'
      BY <2>1 DEF LoginIInv, Together, TypeOK, Procs
    <2>6. Checked'
      <3>1. Sane'
        BY <1>2, <2>2, <2>3 DEF SaneConfig, Sane
      <3>2. \E c \in Configs : /\ cfg'["local_enable"] = c["local_enable"]
                               /\ cfg'["run_as_launching_user"] = c["run_as_launching_user"]
        BY <2>1, <2>3 DEF LoginIInv, Checked
      <3> QED
        BY <2>1, <3>1, <3>2 DEF LoginIInv, Checked, TypeOK, Procs
    <2>7. EndsExact'
      BY <2>1, <2>3 DEF LoginIInv, EndsExact, HeldByParent, HeldByPrelogin, HeldBySession,
                        IfSsl, TypeOK, Procs
    <2>8. Channel'
      BY <2>1 DEF LoginIInv, Channel, Quiet, Asked, Told, GrantedTo, TypeOK, Procs
    <2>9. NamesGuarded' /\ AuthSound' /\ Found'
      BY <2>1 DEF LoginIInv, Channel, Quiet, NamesGuarded, AuthSound, Found, TypeOK, Procs
    <2>12. Launched'
      <3>1. creds' = creds /\ creds["parent"] \in Launchers
        BY <2>1 DEF LoginIInv, Dropped
      <3>2. CASE RunningAsRoot
        <4>1. creds["parent"] = Root
          BY <3>1, <3>2 DEF RunningAsRoot, Launchers, Root
        <4> QED
          BY <3>1, <4>1 DEF Launched
      <3>3. CASE ~RunningAsRoot
        <4>1. cfg.run_as_launching_user
          BY <1>2, <3>3
        <4>2. cfg' = [cfg EXCEPT !["one_process_model"] = TRUE,
                                 !["connect_from_port_20"] = @ /\ FALSE,
                                 !["chown_uploads"] = @ /\ FALSE]
          BY <1>2, <3>3, <4>1 DEF Main
        <4>3. cfg'["one_process_model"] /\ cfg'["run_as_launching_user"]
          BY <2>2, <2>3, <4>1
        <4>4. ~cfg'["connect_from_port_20"] /\ ~cfg'["chown_uploads"]
          BY <4>2, ZenonT(40) DEF LoginIInv, CfgOK, Switches
        <4> QED
          BY <3>1, <4>3, <4>4 DEF Launched
      <3> QED
        BY <3>2, <3>3
    <2>10. Dropped'
      BY <2>1, <2>12 DEF LoginIInv, Dropped, ServedAsAuthenticated, ParentPrivilege, TypeOK,
                         Procs
    <2>11. Counted'
      BY <2>1, <2>3 DEF LoginIInv, Counted, Allowed, TypeOK, Procs
    <2> QED
      BY <2>2, <2>4, <2>5, <2>6, <2>7, <2>8, <2>9, <2>10, <2>11 DEF LoginIInv
  <1> QED
    BY <1>1, <1>2

(* What a change of credentials leaves.                                    *)
CredsType == [uid : Uids, jailed : BOOLEAN, caps : SUBSET Caps,
              no_procs : BOOLEAN, no_fds : BOOLEAN]

LEMMA ChangedCredentials ==
    ASSUME NEW uid \in Uids, NEW caps \in SUBSET Caps, NEW jail \in BOOLEAN,
           NEW procs \in BOOLEAN, NEW nofds \in BOOLEAN
    PROVE  /\ ChangeCredentials(Root, uid, caps, jail, procs, nofds) \in CredsType
           /\ ChangeCredentials(Root, uid, caps, jail, procs, nofds).jailed = jail
           /\ caps \subseteq ChangeCredentials(Root, uid, caps, jail, procs, nofds).caps
           /\ caps = {} \/ HasCapsNonRoot =>
                 /\ ChangeCredentials(Root, uid, caps, jail, procs, nofds).uid = uid
                 /\ ChangeCredentials(Root, uid, caps, jail, procs, nofds).caps = caps
  <1>1. CASE caps # {} /\ ~HasCaps
    BY <1>1, LoginConstants DEF ChangeCredentials, Root, CredsType, Uids
  <1>2. CASE caps # {} /\ HasCaps /\ ~HasCapsNonRoot
    BY <1>2 DEF ChangeCredentials, Root, CredsType, Uids
  <1>3. CASE caps = {} \/ (HasCaps /\ HasCapsNonRoot)
    BY <1>3 DEF ChangeCredentials, Root, CredsType, Uids
  <1> QED
    BY <1>1, <1>2, <1>3

LEMMA AllDropped ==
    ASSUME NEW uid \in Uids, NEW jail \in BOOLEAN, NEW procs \in BOOLEAN,
           NEW nofds \in BOOLEAN
    PROVE  /\ ChangeCredentials(Root, uid, {}, jail, procs, nofds) \in CredsType
           /\ ChangeCredentials(Root, uid, {}, jail, procs, nofds).jailed = jail
           /\ ChangeCredentials(Root, uid, {}, jail, procs, nofds).uid = uid
           /\ ChangeCredentials(Root, uid, {}, jail, procs, nofds).caps = {}
  BY DEF ChangeCredentials, Root, CredsType

LEMMA NeededCapsType == NeededCaps \subseteq Caps
  BY DEF NeededCaps, Caps

LEMMA OneProcessInv ==
    ASSUME LoginIInv, OneProcessStart
    PROVE  LoginIInv'
  <1> DEFINE c == IF cfg.run_as_launching_user THEN creds["parent"]
                  ELSE ChangeCredentials(Root, "ftp", NeededCaps, TRUE, TRUE, FALSE)
  <1>1. /\ pc["parent"] = "launch" /\ cfg.one_process_model
        /\ pc' = [pc EXCEPT !["parent"] = "none", !["prelogin"] = "connected"]
        /\ creds' = [creds EXCEPT !["prelogin"] = c]
        /\ UNCHANGED <<cfg, fds, user_str, control_use_ssl, data_use_ssl, login_fails,
                       eof, request, result, sigchld, auth, tries>>
    BY DEF OneProcessStart
  <1>2. pc["prelogin"] = "none" /\ pc["session"] = "none" /\ pc \in [Procs -> Places]
    BY <1>1 DEF LoginIInv, Together, TypeOK
  <1>3. /\ pc'["parent"] = "none" /\ pc'["prelogin"] = "connected"
        /\ pc'["session"] = "none" /\ pc' \in [Procs -> Places]
    BY <1>1, <1>2 DEF Procs, Places, Stopped
  <1>4. Sane
    BY <1>1, <1>2 DEF LoginIInv, Checked
  <1>20. Launched
    BY <1>1 DEF LoginIInv, Dropped
  <1>5. /\ c \in CredsType
        /\ ~cfg.run_as_launching_user =>
              c.uid = "ftp" /\ c.jailed /\ c.caps = NeededCaps
        /\ cfg.run_as_launching_user =>
              /\ c.uid = "root" \/ c.caps = {}
              /\ NeededCaps \subseteq c.caps
    <2>1. CASE cfg.run_as_launching_user
      <3>1. c = creds["parent"]
        BY <2>1
      <3> HIDE DEF c
      <3>2. CASE creds["parent"] = Root
        BY <2>1, <3>1, <3>2, NeededCapsType DEF Root, CredsType, Uids
      <3>3. CASE creds["parent"] # Root
        <4>1. NeededCaps = {} /\ c \in Launchers /\ c # Root
          BY <1>20, <3>1, <3>3 DEF Launched, NeededCaps
        <4>2. c = [Root EXCEPT !.uid = "launcher", !.caps = {}]
          BY <4>1 DEF Launchers
        <4>3. c \in CredsType /\ c.caps = {}
          BY <4>2 DEF Root, CredsType, Uids
        <4> QED
          BY <2>1, <4>1, <4>3
      <3> QED
        BY <3>2, <3>3
    <2>2. CASE ~cfg.run_as_launching_user
      <3>1. "ftp" \in Uids /\ NeededCaps \in SUBSET Caps /\ HasCapsNonRoot
        BY <1>1, <1>4, <2>2, NeededCapsType DEF Sane, Uids
      <3>2. c = ChangeCredentials(Root, "ftp", NeededCaps, TRUE, TRUE, FALSE)
        BY <2>2
      <3> HIDE DEF c
      <3>3. c \in CredsType /\ c.uid = "ftp" /\ c.jailed = TRUE /\ c.caps = NeededCaps
        BY <3>1, <3>2, ChangedCredentials
      <3> QED
        BY <2>2, <3>3
    <2> QED
      BY <2>1, <2>2
  <1> HIDE DEF c
  <1>6. TypeOK'
    BY <1>1, <1>2, <1>3, <1>4, <1>5, LoginConstants DEF LoginIInv, CredsType, TypeOK,
           Users, Places, Stopped, Uids, Procs, Together
  <1>7. CfgOK(cfg)'
    BY <1>1, <1>2, <1>3, <1>4, <1>5, LoginConstants DEF LoginIInv, CredsType, CfgOK
  <1>8. Together'
    BY <1>1, <1>2, <1>3, <1>4, <1>5, LoginConstants DEF LoginIInv, CredsType,
           WeirdLogin, Together, TypeOK, Procs
  <1>9. Checked'
    BY <1>1, <1>2, <1>3, <1>4, <1>5, LoginConstants DEF LoginIInv, CredsType, Checked,
           Sane, Together, TypeOK, Procs
  <1>10. EndsExact'
    BY <1>1, <1>2, <1>3, <1>4, <1>5, LoginConstants DEF LoginIInv, CredsType,
           EndsExact, HeldByParent, HeldByPrelogin, HeldBySession, IfSsl, Together,
           TypeOK, Procs
  <1>11. Quiet'
    BY <1>1, <1>2, <1>3, <1>4, <1>5, LoginConstants DEF LoginIInv, CredsType, Channel,
           Quiet, Asked, Together, TypeOK, Procs
  <1>12. Asked'
    BY <1>1, <1>2, <1>3, <1>4, <1>5, LoginConstants DEF LoginIInv, CredsType, Channel,
           Quiet, Asked, Together, TypeOK, Procs
  <1>13. Told'
    BY <1>1, <1>2, <1>3, <1>4, <1>5, LoginConstants DEF LoginIInv, CredsType, Channel,
           Quiet, Asked, Told, Together, TypeOK, Procs
  <1>14. GrantedTo'
    BY <1>1, <1>2, <1>3, <1>4, <1>5, LoginConstants DEF LoginIInv, CredsType, Channel,
           Quiet, Told, GrantedTo, Together, TypeOK, Procs
  <1>15. NamesGuarded'
    BY <1>1, <1>2, <1>3, <1>4, <1>5, LoginConstants DEF LoginIInv, CredsType,
           NamesGuarded, MayLogIn, Channel, Asked, Together, TypeOK, Procs
  <1>16. AuthSound'
    BY <1>1, <1>2, <1>3, <1>4, <1>5, LoginConstants DEF LoginIInv, CredsType, AuthSound
  <1>17. Found'
    BY <1>1, <1>2, <1>3, <1>4, <1>5, LoginConstants DEF LoginIInv, CredsType, Found,
           Channel, Quiet, Asked, Told, Together, TypeOK, Procs
  <1>18. Dropped'
    BY <1>1, <1>2, <1>3, <1>4, <1>5, LoginConstants DEF LoginIInv, CredsType, Dropped,
           AloneSound, ServedAsAuthenticated, ParentPrivilege, NeededCaps, Together,
           TypeOK, Procs
  <1>19. Counted'
    BY <1>1, <1>2, <1>3, <1>4, <1>5, LoginConstants DEF LoginIInv, CredsType, Counted,
           Allowed, Channel, Quiet, Asked, Together, TypeOK, Procs
  <1> QED
    BY <1>6, <1>7, <1>8, <1>9, <1>10, <1>11, <1>12, <1>13, <1>14, <1>15, <1>16, <1>17,
           <1>18, <1>19 DEF LoginIInv, Channel

LEMMA TwoProcessInv ==
    ASSUME LoginIInv, TwoProcessStart
    PROVE  LoginIInv'
  <1>1. pc["prelogin"] = "none" /\ pc["session"] = "none" /\ Sane
    BY DEF TwoProcessStart, LoginIInv, Together, Checked
  <1>2. TypeOK'
    BY <1>1, LoginConstants DEF LoginIInv, TwoProcessStart, TypeOK, Users, Places,
           Stopped, Uids, Procs, Together, Ends
  <1>3. CfgOK(cfg)'
    BY <1>1, LoginConstants DEF LoginIInv, TwoProcessStart, CfgOK
  <1>4. Together'
    BY <1>1, LoginConstants DEF LoginIInv, TwoProcessStart, WeirdLogin, Together,
           TypeOK, Procs
  <1>5. Checked'
    BY <1>1, LoginConstants DEF LoginIInv, TwoProcessStart, Checked, Sane, Together,
           TypeOK, Procs
  <1>6. EndsExact'
    BY <1>1, LoginConstants DEF LoginIInv, TwoProcessStart, EndsExact, HeldByParent,
           HeldByPrelogin, HeldBySession, IfSsl, Together, TypeOK, Procs
  <1>7. Quiet'
    BY <1>1, LoginConstants DEF LoginIInv, TwoProcessStart, Channel, Quiet, Asked,
           Together, TypeOK, Procs
  <1>8. Asked'
    BY <1>1, LoginConstants DEF LoginIInv, TwoProcessStart, Channel, Quiet, Asked,
           Together, TypeOK, Procs
  <1>9. Told'
    BY <1>1, LoginConstants DEF LoginIInv, TwoProcessStart, Channel, Quiet, Asked,
           Told, Together, TypeOK, Procs
  <1>10. GrantedTo'
    BY <1>1, LoginConstants DEF LoginIInv, TwoProcessStart, Channel, Quiet, Told,
           GrantedTo, Together, TypeOK, Procs
  <1>11. NamesGuarded'
    BY <1>1, LoginConstants DEF LoginIInv, TwoProcessStart, NamesGuarded, MayLogIn,
           Channel, Asked, Together, TypeOK, Procs
  <1>12. AuthSound'
    BY <1>1, LoginConstants DEF LoginIInv, TwoProcessStart, AuthSound
  <1>13. Found'
    BY <1>1, LoginConstants DEF LoginIInv, TwoProcessStart, Found, Channel, Quiet,
           Asked, Told, Together, TypeOK, Procs
  <1>16. creds["parent"].caps = Caps
    BY DEF TwoProcessStart, LoginIInv, Dropped, Launched, Root
  <1>14. Dropped'
    BY <1>1, <1>16, LoginConstants DEF LoginIInv, TwoProcessStart, Dropped,
           ServedAsAuthenticated, ParentPrivilege, AloneSound, Launched, NeededCaps,
           Together, TypeOK, Procs
  <1>15. Counted'
    BY <1>1, LoginConstants DEF LoginIInv, TwoProcessStart, Counted, Allowed, Channel,
           Quiet, Asked, Together, TypeOK, Procs
  <1> QED
    BY <1>2, <1>3, <1>4, <1>5, <1>6, <1>7, <1>8, <1>9, <1>10, <1>11, <1>12, <1>13,
           <1>14, <1>15 DEF LoginIInv, Channel

LEMMA ParentContextInv ==
    ASSUME LoginIInv, ParentContext
    PROVE  LoginIInv'
  <1> DEFINE close == {"child_fd"} \cup (IF cfg.ssl_enable THEN {"ssl_slave_fd"} ELSE {})
  <1>1. close \subseteq fds["parent"]
    BY DEF ParentContext, LoginIInv, EndsExact, HeldByParent, IfSsl
  <1>2. /\ pc["parent"] = "forked" /\ pc' = [pc EXCEPT !["parent"] = "login"]
        /\ fds' = [fds EXCEPT !["parent"] = @ \ close]
        /\ UNCHANGED <<sigchld, cfg, creds, user_str, control_use_ssl, data_use_ssl,
                       login_fails, eof, request, result, auth, tries>>
    BY <1>1 DEF ParentContext, Goto
  <1>3. TypeOK'
    BY <1>2, LoginConstants DEF LoginIInv, TypeOK, Users, Places, Stopped, Uids, Procs,
           Together
  <1>4. CfgOK(cfg)'
    BY <1>2, LoginConstants DEF LoginIInv, CfgOK
  <1>5. Together'
    BY <1>2, LoginConstants DEF LoginIInv, WeirdLogin, Together, TypeOK, Procs
  <1>6. Checked'
    BY <1>2, LoginConstants DEF LoginIInv, Checked, Sane, Together, TypeOK, Procs
  <1>7. EndsExact'
    BY <1>2, LoginConstants DEF LoginIInv, EndsExact, HeldByParent, HeldByPrelogin,
           HeldBySession, IfSsl, Together, TypeOK, Procs
  <1>8. Quiet'
    BY <1>2, LoginConstants DEF LoginIInv, Channel, Quiet, Asked, Together, TypeOK,
           Procs
  <1>9. Asked'
    BY <1>2, LoginConstants DEF LoginIInv, Channel, Quiet, Asked, Together, TypeOK,
           Procs
  <1>10. Told'
    BY <1>2, LoginConstants DEF LoginIInv, Channel, Quiet, Asked, Told, Together,
           TypeOK, Procs
  <1>11. GrantedTo'
    BY <1>2, LoginConstants DEF LoginIInv, Channel, Quiet, Told, GrantedTo, Together,
           TypeOK, Procs
  <1>12. NamesGuarded'
    BY <1>2, LoginConstants DEF LoginIInv, NamesGuarded, MayLogIn, Channel, Asked,
           Together, TypeOK, Procs
  <1>13. AuthSound'
    BY <1>2, LoginConstants DEF LoginIInv, AuthSound
  <1>14. Found'
    BY <1>2, LoginConstants DEF LoginIInv, Found, Channel, Quiet, Asked, Told,
           Together, TypeOK, Procs
  <1>15. Dropped'
    BY <1>2, LoginConstants DEF LoginIInv, Dropped, ServedAsAuthenticated,
           ParentPrivilege, AloneSound, Launched, NeededCaps, Together, TypeOK, Procs
  <1>16. Counted'
    BY <1>2, LoginConstants DEF LoginIInv, Counted, Allowed, Channel, Quiet, Asked,
           Together, TypeOK, Procs
  <1> QED
    BY <1>3, <1>4, <1>5, <1>6, <1>7, <1>8, <1>9, <1>10, <1>11, <1>12, <1>13, <1>14,
           <1>15, <1>16 DEF LoginIInv, Channel

LEMMA ChildContextInv ==
    ASSUME LoginIInv, ChildContext
    PROVE  LoginIInv'
  <1> DEFINE close == {"parent_fd"} \cup (IF cfg.ssl_enable THEN {"ssl_consumer_fd"} ELSE {})
             c == ChangeCredentials(Root, "nopriv", {}, TRUE, TRUE, ~cfg.ssl_enable)
  <1>1. close \subseteq fds["prelogin"]
    BY DEF ChildContext, LoginIInv, EndsExact, HeldByPrelogin, IfSsl
  <1>2. /\ pc["prelogin"] = "born" /\ pc' = [pc EXCEPT !["prelogin"] = "connected"]
        /\ fds' = [fds EXCEPT !["prelogin"] = @ \ close]
        /\ creds' = [creds EXCEPT !["prelogin"] = c]
        /\ UNCHANGED <<sigchld, cfg, user_str, control_use_ssl, data_use_ssl,
                       login_fails, eof, request, result, auth, tries>>
    BY <1>1 DEF ChildContext, Goto
  <1>3. c \in CredsType /\ c.jailed /\ c.caps = {} /\ c.uid # "root"
    <2>1. c \in CredsType /\ c.jailed = TRUE /\ c.uid = "nopriv" /\ c.caps = {}
      <3>1. "nopriv" \in Uids
        BY DEF Uids
      <3>2. \/ c = ChangeCredentials(Root, "nopriv", {}, TRUE, TRUE, TRUE)
            \/ c = ChangeCredentials(Root, "nopriv", {}, TRUE, TRUE, FALSE)
        <4>1. CASE cfg.ssl_enable
          BY <4>1
        <4>2. CASE ~cfg.ssl_enable
          BY <4>2
        <4> QED
          BY <4>1, <4>2
      <3> HIDE DEF c
      <3>3. ASSUME NEW n \in BOOLEAN,
                   c = ChangeCredentials(Root, "nopriv", {}, TRUE, TRUE, n)
            PROVE  c \in CredsType /\ c.jailed = TRUE /\ c.uid = "nopriv" /\ c.caps = {}
        <4>1. TRUE \in BOOLEAN
          OBVIOUS
        <4> QED
          BY <3>1, <3>3, <4>1, AllDropped, ZenonT(30)
      <3> QED
        BY <3>2, <3>3
    <2> QED
      BY <2>1
  <1> HIDE DEF c
  <1>4. TypeOK'
    BY <1>2, <1>3, LoginConstants DEF LoginIInv, CredsType, TypeOK, Users, Places,
           Stopped, Uids, Procs, Together
  <1>5. CfgOK(cfg)'
    BY <1>2, <1>3, LoginConstants DEF LoginIInv, CredsType, CfgOK
  <1>6. Together'
    BY <1>2, <1>3, LoginConstants DEF LoginIInv, CredsType, WeirdLogin, Together,
           TypeOK, Procs
  <1>7. Checked'
    BY <1>2, <1>3, LoginConstants DEF LoginIInv, CredsType, Checked, Sane, Together,
           TypeOK, Procs
  <1>8. EndsExact'
    BY <1>2, <1>3, LoginConstants DEF LoginIInv, CredsType, EndsExact, HeldByParent,
           HeldByPrelogin, HeldBySession, IfSsl, Together, TypeOK, Procs
  <1>9. Quiet'
    BY <1>2, <1>3, LoginConstants DEF LoginIInv, CredsType, Channel, Quiet, Asked,
           Together, TypeOK, Procs
  <1>10. Asked'
    BY <1>2, <1>3, LoginConstants DEF LoginIInv, CredsType, Channel, Quiet, Asked,
           Together, TypeOK, Procs
  <1>11. Told'
    BY <1>2, <1>3, LoginConstants DEF LoginIInv, CredsType, Channel, Quiet, Asked,
           Told, Together, TypeOK, Procs
  <1>12. GrantedTo'
    BY <1>2, <1>3, LoginConstants DEF LoginIInv, CredsType, Channel, Quiet, Told,
           GrantedTo, Together, TypeOK, Procs
  <1>13. NamesGuarded'
    BY <1>2, <1>3, LoginConstants DEF LoginIInv, CredsType, NamesGuarded, MayLogIn,
           Channel, Asked, Together, TypeOK, Procs
  <1>14. AuthSound'
    BY <1>2, <1>3, LoginConstants DEF LoginIInv, CredsType, AuthSound
  <1>15. Found'
    BY <1>2, <1>3, LoginConstants DEF LoginIInv, CredsType, Found, Channel, Quiet,
           Asked, Told, Together, TypeOK, Procs
  <1>16. Dropped'
    BY <1>2, <1>3, LoginConstants DEF LoginIInv, CredsType, Dropped,
           ServedAsAuthenticated, ParentPrivilege, AloneSound, Launched, NeededCaps,
           Together, TypeOK, Procs
  <1>17. Counted'
    BY <1>2, <1>3, LoginConstants DEF LoginIInv, CredsType, Counted, Allowed, Channel,
           Quiet, Asked, Together, TypeOK, Procs
  <1> QED
    BY <1>4, <1>5, <1>6, <1>7, <1>8, <1>9, <1>10, <1>11, <1>12, <1>13, <1>14, <1>15,
           <1>16, <1>17 DEF LoginIInv, Channel

LEMMA InitConnectionInv ==
    ASSUME LoginIInv, InitConnection
    PROVE  LoginIInv'
  <1>1. cfg.ssl_enable \in BOOLEAN /\ cfg.implicit_ssl \in BOOLEAN
    BY DEF LoginIInv, CfgOK, Switches
  <1>2. pc["session"] = "none" /\ request = None /\ result = None
    BY DEF InitConnection, LoginIInv, Channel, Quiet, GrantedTo
  <1>3. TypeOK'
    BY <1>1, <1>2, LoginConstants DEF LoginIInv, InitConnection, Goto, TypeOK, Users,
           Places, Stopped, Uids, Procs, Together
  <1>4. CfgOK(cfg)'
    BY <1>1, <1>2, LoginConstants DEF LoginIInv, InitConnection, Goto, CfgOK
  <1>5. Together'
    BY <1>1, <1>2, LoginConstants DEF LoginIInv, InitConnection, Goto, WeirdLogin,
           Together, TypeOK, Procs
  <1>6. Checked'
    BY <1>1, <1>2, LoginConstants DEF LoginIInv, InitConnection, Goto, Checked, Sane,
           Together, TypeOK, Procs
  <1>7. EndsExact'
    BY <1>1, <1>2, LoginConstants DEF LoginIInv, InitConnection, Goto, EndsExact,
           HeldByParent, HeldByPrelogin, HeldBySession, IfSsl, Together, TypeOK, Procs
  <1>8. Quiet'
    BY <1>1, <1>2, LoginConstants DEF LoginIInv, InitConnection, Goto, Channel, Quiet,
           Asked, Together, TypeOK, Procs
  <1>9. Asked'
    BY <1>1, <1>2, LoginConstants DEF LoginIInv, InitConnection, Goto, Channel, Quiet,
           Asked, Together, TypeOK, Procs
  <1>10. Told'
    BY <1>1, <1>2, LoginConstants DEF LoginIInv, InitConnection, Goto, Channel, Quiet,
           Asked, Told, Together, TypeOK, Procs
  <1>11. GrantedTo'
    BY <1>1, <1>2, LoginConstants DEF LoginIInv, InitConnection, Goto, Channel, Quiet,
           Told, GrantedTo, Together, TypeOK, Procs
  <1>12. NamesGuarded'
    BY <1>1, <1>2, LoginConstants DEF LoginIInv, InitConnection, Goto, NamesGuarded,
           MayLogIn, Channel, Asked, Together, TypeOK, Procs
  <1>13. AuthSound'
    BY <1>1, <1>2, LoginConstants DEF LoginIInv, InitConnection, Goto, AuthSound
  <1>14. Found'
    BY <1>1, <1>2, LoginConstants DEF LoginIInv, InitConnection, Goto, Found, Channel,
           Quiet, Asked, Told, Together, TypeOK, Procs
  <1>15. Dropped'
    BY <1>1, <1>2, LoginConstants DEF LoginIInv, InitConnection, Goto, Dropped,
           ServedAsAuthenticated, ParentPrivilege, AloneSound, Launched, NeededCaps,
           Together, TypeOK, Procs
  <1>16. Counted'
    BY <1>1, <1>2, LoginConstants DEF LoginIInv, InitConnection, Goto, Counted,
           Allowed, Channel, Quiet, Asked, Together, TypeOK, Procs
  <1> QED
    BY <1>3, <1>4, <1>5, <1>6, <1>7, <1>8, <1>9, <1>10, <1>11, <1>12, <1>13, <1>14,
           <1>15, <1>16 DEF LoginIInv, Channel

-----------------------------------------------------------------------------
(* The privileged parent, and the hand-over.                               *)

LEMMA ParentReadInv ==
    ASSUME LoginIInv, ParentRead
    PROVE  LoginIInv'
  <1>1. TypeOK'
    BY LoginConstants DEF LoginIInv, ParentRead, Goto, TypeOK, Users, Places, Stopped,
           Uids, Procs, Together
  <1>2. CfgOK(cfg)'
    BY LoginConstants DEF LoginIInv, ParentRead, Goto, CfgOK
  <1>3. Together'
    BY LoginConstants DEF LoginIInv, ParentRead, Goto, WeirdLogin, Together, TypeOK,
           Procs
  <1>4. Checked'
    BY LoginConstants DEF LoginIInv, ParentRead, Goto, Checked, Sane, Together, TypeOK,
           Procs
  <1>5. EndsExact'
    BY LoginConstants DEF LoginIInv, ParentRead, Goto, EndsExact, HeldByParent,
           HeldByPrelogin, HeldBySession, IfSsl, Together, TypeOK, Procs
  <1>6. Quiet'
    BY LoginConstants DEF LoginIInv, ParentRead, Goto, Channel, Quiet, Asked, Together,
           TypeOK, Procs
  <1>7. Asked'
    BY LoginConstants DEF LoginIInv, ParentRead, Goto, Channel, Quiet, Asked, Together,
           TypeOK, Procs
  <1>8. Told'
    BY LoginConstants DEF LoginIInv, ParentRead, Goto, Channel, Quiet, Asked, Told,
           Together, TypeOK, Procs
  <1>9. GrantedTo'
    BY LoginConstants DEF LoginIInv, ParentRead, Goto, Channel, Quiet, Told, GrantedTo,
           Together, TypeOK, Procs
  <1>10. NamesGuarded'
    BY LoginConstants DEF LoginIInv, ParentRead, Goto, NamesGuarded, MayLogIn, Channel,
           Asked, Together, TypeOK, Procs
  <1>11. AuthSound'
    BY LoginConstants DEF LoginIInv, ParentRead, Goto, AuthSound
  <1>12. Found'
    BY LoginConstants DEF LoginIInv, ParentRead, Goto, Found, Channel, Quiet, Asked,
           Told, Together, TypeOK, Procs
  <1>13. Dropped'
    BY LoginConstants DEF LoginIInv, ParentRead, Goto, Dropped, ServedAsAuthenticated,
           ParentPrivilege, AloneSound, Launched, NeededCaps, Together, TypeOK, Procs
  <1>14. Counted'
    BY LoginConstants DEF LoginIInv, ParentRead, Goto, Counted, Allowed, Channel,
           Quiet, Asked, Together, TypeOK, Procs
  <1> QED
    BY <1>1, <1>2, <1>3, <1>4, <1>5, <1>6, <1>7, <1>8, <1>9, <1>10, <1>11, <1>12,
           <1>13, <1>14 DEF LoginIInv, Channel

(* A request that is being verified: the child that made it waits, or is   *)
(* gone, and was free to make it.                                          *)
LEMMA AtVerify ==
    ASSUME LoginIInv, pc["parent"] = "verify"
    PROVE  /\ request # None /\ result = None /\ pc["session"] = "none"
           /\ pc["prelogin"] \in {"waiting", "gone"}
           /\ request.control_use_ssl <=> control_use_ssl
           /\ request.user \in Users
           /\ MayLogIn(request.user, request.control_use_ssl) /\ Sane
           /\ tries < Allowed /\ tries <= login_fails /\ login_fails < Allowed
  <1>1. /\ request # None /\ result = None /\ pc["session"] = "none"
        /\ request.control_use_ssl <=> control_use_ssl
    BY DEF LoginIInv, Channel, Asked
  <1>2. pc["prelogin"] \in {"waiting", "gone"}
    BY <1>1 DEF LoginIInv, Channel, Quiet, Together
  <1>3. Sane
    BY <1>1 DEF LoginIInv, Checked
  <1>4. MayLogIn(request.user, request.control_use_ssl) /\ request.user \in Users
    BY <1>1 DEF LoginIInv, NamesGuarded, TypeOK
  <1>5. tries < Allowed /\ tries <= login_fails /\ login_fails < Allowed
    BY <1>1 DEF LoginIInv, Counted, TypeOK, Allowed, CfgOK
  <1> QED
    BY <1>1, <1>2, <1>3, <1>4, <1>5

(* The request is refused, or its sender is gone.                          *)
LEMMA RefusedInv ==
    ASSUME LoginIInv, pc["parent"] = "verify",
           pc' = [pc EXCEPT !["parent"] = "login"],
           result' = "BAD", request' = None, tries' = tries + 1,
           sigchld' \in SigchldType,
           UNCHANGED <<cfg, creds, fds, user_str, control_use_ssl, data_use_ssl,
                       login_fails, eof, auth>>
    PROVE  LoginIInv'
  <1>1. /\ request # None /\ result = None /\ pc["session"] = "none"
        /\ pc["prelogin"] \in {"waiting", "gone"}
        /\ Sane /\ tries < Allowed /\ tries <= login_fails /\ login_fails < Allowed
    BY AtVerify
  <1>2. TypeOK'
    BY <1>1, LoginConstants DEF LoginIInv, SigchldType, TypeOK, Users, Places, Stopped,
           Uids, Procs, Together
  <1>3. CfgOK(cfg)'
    BY <1>1, LoginConstants DEF LoginIInv, SigchldType, CfgOK
  <1>4. Together'
    BY <1>1, LoginConstants DEF LoginIInv, SigchldType, WeirdLogin, Together, TypeOK,
           Procs
  <1>5. Checked'
    BY <1>1, LoginConstants DEF LoginIInv, SigchldType, Checked, Sane, Together,
           TypeOK, Procs
  <1>6. EndsExact'
    BY <1>1, LoginConstants DEF LoginIInv, SigchldType, EndsExact, HeldByParent,
           HeldByPrelogin, HeldBySession, IfSsl, Together, TypeOK, Procs
  <1>7. Quiet'
    BY <1>1, LoginConstants DEF LoginIInv, SigchldType, Channel, Quiet, Asked,
           Together, TypeOK, Procs
  <1>8. Asked'
    BY <1>1, LoginConstants DEF LoginIInv, SigchldType, Channel, Quiet, Asked,
           Together, TypeOK, Procs
  <1>9. Told'
    BY <1>1, LoginConstants DEF LoginIInv, SigchldType, Channel, Quiet, Asked, Told,
           Together, TypeOK, Procs
  <1>10. GrantedTo'
    BY <1>1, LoginConstants DEF LoginIInv, SigchldType, Channel, Quiet, Told,
           GrantedTo, Together, TypeOK, Procs
  <1>11. NamesGuarded'
    BY <1>1, LoginConstants DEF LoginIInv, SigchldType, NamesGuarded, MayLogIn,
           Channel, Asked, Together, TypeOK, Procs
  <1>12. AuthSound'
    BY <1>1, LoginConstants DEF LoginIInv, SigchldType, AuthSound
  <1>13. Found'
    BY <1>1, LoginConstants DEF LoginIInv, SigchldType, Found, Channel, Quiet, Asked,
           Told, Together, TypeOK, Procs
  <1>14. Dropped'
    BY <1>1, LoginConstants DEF LoginIInv, SigchldType, Dropped,
           ServedAsAuthenticated, ParentPrivilege, AloneSound, Launched, NeededCaps,
           Together, TypeOK, Procs
  <1>15. Counted'
    BY <1>1, LoginConstants DEF LoginIInv, SigchldType, Counted, Allowed, Channel,
           Quiet, Asked, Together, TypeOK, Procs, CfgOK
  <1> QED
    BY <1>2, <1>3, <1>4, <1>5, <1>6, <1>7, <1>8, <1>9, <1>10, <1>11, <1>12, <1>13,
           <1>14, <1>15 DEF LoginIInv, Channel

LEMMA SenderGoneInv ==
    ASSUME LoginIInv, pc["parent"] = "verify",
           pc' = [pc EXCEPT !["parent"] = "gone"],
           fds' = [fds EXCEPT !["parent"] = {}],
           pc["prelogin"] = "gone", request' = None,
           tries' \in Nat, tries' <= Allowed, AuthSound',
           auth' # None => (auth'.ssl <=> control_use_ssl),
           auth' \in Logins \cup {None},
           sigchld' \in SigchldType,
           UNCHANGED <<cfg, creds, user_str, control_use_ssl, data_use_ssl,
                       login_fails, eof, result>>
    PROVE  LoginIInv'
  <1>1. request # None /\ result = None /\ pc["session"] = "none" /\ Sane
    BY AtVerify
  <1>2. TypeOK'
    BY <1>1, LoginConstants DEF LoginIInv, SigchldType, TypeOK, Users, Places, Stopped,
           Uids, Procs, Together
  <1>3. CfgOK(cfg)'
    BY <1>1, LoginConstants DEF LoginIInv, SigchldType, CfgOK
  <1>4. Together'
    BY <1>1, LoginConstants DEF LoginIInv, SigchldType, WeirdLogin, Together, TypeOK,
           Procs
  <1>5. Checked'
    BY <1>1, LoginConstants DEF LoginIInv, SigchldType, Checked, Sane, Together,
           TypeOK, Procs
  <1>6. EndsExact'
    BY <1>1, LoginConstants DEF LoginIInv, SigchldType, EndsExact, HeldByParent,
           HeldByPrelogin, HeldBySession, IfSsl, Together, TypeOK, Procs
  <1>7. Quiet'
    BY <1>1, LoginConstants DEF LoginIInv, SigchldType, Channel, Quiet, Asked,
           Together, TypeOK, Procs
  <1>8. Asked'
    BY <1>1, LoginConstants DEF LoginIInv, SigchldType, Channel, Quiet, Asked,
           Together, TypeOK, Procs
  <1>9. Told'
    BY <1>1, LoginConstants DEF LoginIInv, SigchldType, Channel, Quiet, Asked, Told,
           Together, TypeOK, Procs
  <1>10. GrantedTo'
    BY <1>1, LoginConstants DEF LoginIInv, SigchldType, Channel, Quiet, Told,
           GrantedTo, Together, TypeOK, Procs
  <1>11. NamesGuarded'
    BY <1>1, LoginConstants DEF LoginIInv, SigchldType, NamesGuarded, MayLogIn,
           Channel, Asked, Together, TypeOK, Procs
  <1>12. AuthSound'
    OBVIOUS
  <1>13. Found'
    BY <1>1, LoginConstants DEF LoginIInv, SigchldType, Found, Channel, Quiet, Asked,
           Told, Together, TypeOK, Procs
  <1>14. Dropped'
    BY <1>1, LoginConstants DEF LoginIInv, SigchldType, Dropped,
           ServedAsAuthenticated, ParentPrivilege, AloneSound, Launched, NeededCaps,
           Together, TypeOK, Procs
  <1>15. Counted'
    BY <1>1, LoginConstants DEF LoginIInv, SigchldType, Counted, Allowed, Channel,
           Quiet, Asked, Together, TypeOK, Procs
  <1> QED
    BY <1>2, <1>3, <1>4, <1>5, <1>6, <1>7, <1>8, <1>9, <1>10, <1>11, <1>12, <1>13,
           <1>14, <1>15 DEF LoginIInv, Channel

LEMMA GrantedInv ==
    ASSUME LoginIInv, pc["parent"] = "verify",
           pc' = [pc EXCEPT !["parent"] = "granted"],
           pc["prelogin"] = "waiting", request' = None, result' = "OK", AuthSound',
           auth' \in Logins, auth'.ssl <=> control_use_ssl,
           sigchld' \in SigchldType,
           UNCHANGED <<cfg, creds, fds, user_str, control_use_ssl, data_use_ssl,
                       login_fails, eof, tries>>
    PROVE  LoginIInv'
  <1>1. /\ request # None /\ result = None /\ pc["session"] = "none" /\ Sane
        /\ tries <= login_fails /\ auth' # None
    BY AtVerify, LoginConstants
  <1>2. TypeOK'
    BY <1>1, LoginConstants DEF LoginIInv, SigchldType, TypeOK, Users, Places, Stopped,
           Uids, Procs, Together
  <1>3. CfgOK(cfg)'
    BY <1>1, LoginConstants DEF LoginIInv, SigchldType, CfgOK
  <1>4. Together'
    BY <1>1, LoginConstants DEF LoginIInv, SigchldType, WeirdLogin, Together, TypeOK,
           Procs
  <1>5. Checked'
    BY <1>1, LoginConstants DEF LoginIInv, SigchldType, Checked, Sane, Together,
           TypeOK, Procs
  <1>6. EndsExact'
    BY <1>1, LoginConstants DEF LoginIInv, SigchldType, EndsExact, HeldByParent,
           HeldByPrelogin, HeldBySession, IfSsl, Together, TypeOK, Procs
  <1>7. Quiet'
    BY <1>1, LoginConstants DEF LoginIInv, SigchldType, Channel, Quiet, Asked,
           Together, TypeOK, Procs
  <1>8. Asked'
    BY <1>1, LoginConstants DEF LoginIInv, SigchldType, Channel, Quiet, Asked,
           Together, TypeOK, Procs
  <1>9. Told'
    BY <1>1, LoginConstants DEF LoginIInv, SigchldType, Channel, Quiet, Asked, Told,
           Together, TypeOK, Procs
  <1>10. GrantedTo'
    BY <1>1, LoginConstants DEF LoginIInv, SigchldType, Channel, Quiet, Told,
           GrantedTo, Together, TypeOK, Procs
  <1>11. NamesGuarded'
    BY <1>1, LoginConstants DEF LoginIInv, SigchldType, NamesGuarded, MayLogIn,
           Channel, Asked, Together, TypeOK, Procs
  <1>12. AuthSound'
    OBVIOUS
  <1>13. Found'
    BY <1>1, LoginConstants DEF LoginIInv, SigchldType, Found, Channel, Quiet, Asked,
           Told, Together, TypeOK, Procs
  <1>14. Dropped'
    BY <1>1, LoginConstants DEF LoginIInv, SigchldType, Dropped,
           ServedAsAuthenticated, ParentPrivilege, AloneSound, Launched, NeededCaps,
           Together, TypeOK, Procs
  <1>15. Counted'
    BY <1>1, LoginConstants DEF LoginIInv, SigchldType, Counted, Allowed, Channel,
           Quiet, Asked, Together, TypeOK, Procs
  <1> QED
    BY <1>2, <1>3, <1>4, <1>5, <1>6, <1>7, <1>8, <1>9, <1>10, <1>11, <1>12, <1>13,
           <1>14, <1>15 DEF LoginIInv, Channel

LEMMA ParentVerifyInv ==
    ASSUME LoginIInv, ParentVerify
    PROVE  LoginIInv'
  <1> DEFINE u == request.user
             verdict == HandleLogin(u, request.pass)
             ssl == request.control_use_ssl /\ cfg.ssl_enable
             found == [user |-> u, anon |-> verdict = "anon",
                       chroot |-> verdict = "anon" \/ DoChroot(u), ssl |-> ssl]
  <1>1. /\ pc["parent"] = "verify" /\ request' = None
        /\ tries' = IF verdict = "fail" THEN tries + 1 ELSE tries
        /\ auth' = IF verdict \in {"anon", "real"} THEN found ELSE auth
        /\ UNCHANGED <<cfg, creds, user_str, control_use_ssl, data_use_ssl, login_fails, eof>>
    BY DEF ParentVerify
  <1>2. /\ pc["prelogin"] \in {"waiting", "gone"} /\ pc["session"] = "none"
        /\ request.control_use_ssl <=> control_use_ssl
        /\ u \in Users /\ MayLogIn(u, request.control_use_ssl) /\ Sane
        /\ tries < Allowed
    BY <1>1, AtVerify
  <1>3. verdict \in {"fail", "anon", "real", "oops"}
    BY DEF HandleLogin
  <1>4. verdict # "oops"
    BY <1>2 DEF HandleLogin, MayLogIn, Sane
  <1>5. /\ verdict = "anon" => u = "anon"
        /\ verdict = "real" => u \in Locals
    BY DEF HandleLogin, CheckAuth
  <1>6. Held("child_fd") <=> pc["prelogin"] = "waiting"
    BY <1>1, <1>2 DEF Held, Procs, LoginIInv, EndsExact, HeldByParent, HeldByPrelogin,
                      HeldBySession, IfSsl
  <1>7. /\ tries \in Nat /\ Allowed \in Nat /\ auth \in Logins \cup {None}
        /\ sigchld \in SigchldType /\ AuthSound
    BY DEF LoginIInv, TypeOK, Allowed, CfgOK, SigchldType
  <1>8. found \in Logins
    BY <1>2 DEF Logins
  <1>9. verdict \in {"anon", "real"} =>
          IF found.anon THEN found.user = "anon" /\ found.chroot ELSE found.user \in Locals
    BY <1>5
  <1>10. found.ssl <=> control_use_ssl
    BY <1>2 DEF LoginIInv, EndsExact
  <1>11. AuthSound' /\ auth' \in Logins \cup {None}
    BY <1>1, <1>7, <1>8, <1>9 DEF AuthSound
  <1>12. /\ tries' \in Nat /\ tries' <= Allowed
         /\ auth' # None => (auth'.ssl <=> control_use_ssl)
    BY <1>1, <1>2, <1>7, <1>10 DEF LoginIInv, Found
  <1>13. CASE ~Held("child_fd")
    <2>1. Stop("parent", "gone") /\ UNCHANGED result
      BY <1>4, <1>13 DEF ParentVerify
    <2>2. sigchld' \in SigchldType
      BY <2>1, StopSigchld DEF Procs, LoginIInv
    <2> QED
      BY <1>1, <1>2, <1>6, <1>11, <1>12, <1>13, <2>1, <2>2, SenderGoneInv DEF Stop
  <1>14. CASE Held("child_fd") /\ verdict = "fail"
    <2>1. /\ result' = "BAD" /\ Goto("parent", "login") /\ UNCHANGED fds
          /\ sigchld' = [sigchld EXCEPT !.handler = @ /\ verdict = "fail"]
      BY <1>14 DEF ParentVerify
    <2>2. sigchld' \in SigchldType
      BY <1>7, <2>1 DEF SigchldType
    <2>3. auth' = auth /\ tries' = tries + 1
      BY <1>1, <1>14
    <2> QED
      BY <1>1, <2>1, <2>2, <2>3, RefusedInv DEF Goto
  <1>15. CASE Held("child_fd") /\ verdict \in {"anon", "real"}
    <2>1. /\ result' = "OK" /\ Goto("parent", "granted") /\ UNCHANGED fds
          /\ sigchld' = [sigchld EXCEPT !.handler = @ /\ verdict = "fail"]
      BY <1>15 DEF ParentVerify
    <2>2. sigchld' \in SigchldType
      BY <1>7, <2>1 DEF SigchldType
    <2>3. auth' = found /\ tries' = tries
      BY <1>1, <1>15
    <2>4. auth' \in Logins /\ (auth'.ssl <=> control_use_ssl)
      BY <1>8, <1>10, <2>3
    <2> QED
      BY <1>1, <1>6, <1>11, <1>15, <2>1, <2>2, <2>3, <2>4, GrantedInv DEF Goto
  <1> QED
    BY <1>3, <1>4, <1>13, <1>14, <1>15

LEMMA ParentWaitInv ==
    ASSUME LoginIInv, ParentWait
    PROVE  LoginIInv'
  <1>1. ~auth.ssl => pc["prelogin"] = "gone"
    BY DEF ParentWait, LoginIInv, Channel, GrantedTo, Stopped
  <1>2. TypeOK'
    BY <1>1, LoginConstants DEF LoginIInv, ParentWait, Goto, TypeOK, Users, Places,
           Stopped, Uids, Procs, Together
  <1>3. CfgOK(cfg)'
    BY <1>1, LoginConstants DEF LoginIInv, ParentWait, Goto, CfgOK
  <1>4. Together'
    BY <1>1, LoginConstants DEF LoginIInv, ParentWait, Goto, WeirdLogin, Together,
           TypeOK, Procs
  <1>5. Checked'
    BY <1>1, LoginConstants DEF LoginIInv, ParentWait, Goto, Checked, Sane, Together,
           TypeOK, Procs
  <1>6. EndsExact'
    BY <1>1, LoginConstants DEF LoginIInv, ParentWait, Goto, EndsExact, HeldByParent,
           HeldByPrelogin, HeldBySession, IfSsl, Together, TypeOK, Procs
  <1>7. Quiet'
    BY <1>1, LoginConstants DEF LoginIInv, ParentWait, Goto, Channel, Quiet, Asked,
           Together, TypeOK, Procs
  <1>8. Asked'
    BY <1>1, LoginConstants DEF LoginIInv, ParentWait, Goto, Channel, Quiet, Asked,
           Together, TypeOK, Procs
  <1>9. Told'
    BY <1>1, LoginConstants DEF LoginIInv, ParentWait, Goto, Channel, Quiet, Asked,
           Told, Together, TypeOK, Procs
  <1>10. GrantedTo'
    BY <1>1, LoginConstants DEF LoginIInv, ParentWait, Goto, Channel, Quiet, Told,
           GrantedTo, Together, TypeOK, Procs
  <1>11. NamesGuarded'
    BY <1>1, LoginConstants DEF LoginIInv, ParentWait, Goto, NamesGuarded, MayLogIn,
           Channel, Asked, Together, TypeOK, Procs
  <1>12. AuthSound'
    BY <1>1, LoginConstants DEF LoginIInv, ParentWait, Goto, AuthSound
  <1>13. Found'
    BY <1>1, LoginConstants DEF LoginIInv, ParentWait, Goto, Found, Channel, Quiet,
           Asked, Told, Together, TypeOK, Procs
  <1>14. Dropped'
    BY <1>1, LoginConstants DEF LoginIInv, ParentWait, Goto, Dropped,
           ServedAsAuthenticated, ParentPrivilege, AloneSound, Launched, NeededCaps,
           Together, TypeOK, Procs
  <1>15. Counted'
    BY <1>1, LoginConstants DEF LoginIInv, ParentWait, Goto, Counted, Allowed, Channel,
           Quiet, Asked, Together, TypeOK, Procs
  <1> QED
    BY <1>2, <1>3, <1>4, <1>5, <1>6, <1>7, <1>8, <1>9, <1>10, <1>11, <1>12, <1>13,
           <1>14, <1>15 DEF LoginIInv, Channel

(* The file of a user leaves what the session was started with.            *)
LEMMA OverrideKeeps ==
    ASSUME NEW c, CfgOK(c), NEW f \in UserFiles
    PROVE  /\ CfgOK(Override(c, f))
           /\ Override(c, f)["ssl_enable"] = c["ssl_enable"]
           /\ Override(c, f)["max_login_fails"] = c["max_login_fails"]
  <1>1. /\ DOMAIN f \subseteq Switches \ {"ssl_enable"}
        /\ \A s \in DOMAIN f : f[s] \in BOOLEAN
    BY LoginConstants
  <1>2. "ssl_enable" \in Switches /\ "max_login_fails" \notin Switches
    BY DEF Switches
  <1> QED
    BY <1>1, <1>2 DEF Override, CfgOK

LEMMA HandOverInv ==
    ASSUME LoginIInv, NEW f \in UserFiles, HandOver(f)
    PROVE  LoginIInv'
  <1> DEFINE ends == (fds["parent"] \ {"parent_fd", "child_fd"})
                     \cup {"new_parent_fd", "new_child_fd"}
  <1>1. /\ pc["parent"] = "handover"
        /\ pc' = [pc EXCEPT !["parent"] = "split", !["session"] = "born"]
        /\ fds' = [fds EXCEPT !["parent"] = ends, !["session"] = ends]
        /\ sigchld' = [sigchld EXCEPT !.handler = TRUE]
        /\ cfg' = Override(cfg, f)
        /\ UNCHANGED <<creds, user_str, control_use_ssl, data_use_ssl, login_fails,
                       eof, request, result, auth, tries>>
    BY DEF HandOver
  <1>2. /\ CfgOK(cfg') /\ cfg'["ssl_enable"] = cfg["ssl_enable"]
        /\ cfg'["max_login_fails"] = cfg["max_login_fails"]
    BY <1>1, OverrideKeeps DEF LoginIInv
  <1>3. /\ pc'["parent"] = "split" /\ pc'["session"] = "born"
        /\ pc'["prelogin"] = pc["prelogin"] /\ pc' \in [Procs -> Places]
    BY <1>1 DEF LoginIInv, TypeOK, Procs, Places
  <1>4. /\ request = None /\ pc["session"] = "none" /\ auth # None
        /\ pc["prelogin"] \in {"gone", "waiting", "slave"}
        /\ pc["prelogin"] = "gone" \/ auth.ssl
        /\ result \in {None, "OK"}
        /\ pc["prelogin"] = "waiting" => result = "OK"
    BY <1>1 DEF LoginIInv, Channel, Asked, Told, GrantedTo, Together, TypeOK
  <1>5. /\ ends \subseteq Ends
        /\ ends = {"new_parent_fd", "new_child_fd"} \cup IfSsl({"ssl_consumer_fd"})
    BY <1>1 DEF LoginIInv, EndsExact, HeldByParent, IfSsl, Ends
  <1>6. /\ fds'["parent"] = ends /\ fds'["session"] = ends
        /\ fds'["prelogin"] = fds["prelogin"] /\ fds' \in [Procs -> SUBSET Ends]
    BY <1>1, <1>5 DEF LoginIInv, TypeOK, Procs
  <1> HIDE DEF ends
  <1>7. TypeOK'
    BY <1>1, <1>2, <1>3, <1>6 DEF LoginIInv, TypeOK, CfgOK
  <1>8. CfgOK(cfg)'
    BY <1>2
  <1>9. Together'
    BY <1>1, <1>2, <1>3, <1>4, <1>5, <1>6, LoginConstants DEF LoginIInv, WeirdLogin,
           Together, TypeOK, Procs
  <1>10. Checked'
    BY <1>1, <1>2, <1>3, <1>4, <1>5, <1>6, LoginConstants DEF LoginIInv, Checked, Sane,
           Together, TypeOK, Procs
  <1>11. EndsExact'
    BY <1>1, <1>2, <1>3, <1>4, <1>5, <1>6, LoginConstants DEF LoginIInv, EndsExact,
           HeldByParent, HeldByPrelogin, HeldBySession, IfSsl, Together, TypeOK, Procs
  <1>12. Quiet'
    BY <1>1, <1>2, <1>3, <1>4, <1>5, <1>6, LoginConstants DEF LoginIInv, Channel,
           Quiet, Asked, Together, TypeOK, Procs
  <1>13. Asked'
    BY <1>1, <1>2, <1>3, <1>4, <1>5, <1>6, LoginConstants DEF LoginIInv, Channel,
           Quiet, Asked, Together, TypeOK, Procs
  <1>14. Told'
    BY <1>1, <1>2, <1>3, <1>4, <1>5, <1>6, LoginConstants DEF LoginIInv, Channel,
           Quiet, Asked, Told, Together, TypeOK, Procs
  <1>15. GrantedTo'
    BY <1>1, <1>2, <1>3, <1>4, <1>5, <1>6, LoginConstants DEF LoginIInv, Channel,
           Quiet, Told, GrantedTo, Together, TypeOK, Procs
  <1>16. NamesGuarded'
    BY <1>1, <1>2, <1>3, <1>4, <1>5, <1>6, LoginConstants DEF LoginIInv, NamesGuarded,
           MayLogIn, Channel, Asked, Together, TypeOK, Procs
  <1>17. AuthSound'
    BY <1>1, <1>2, <1>3, <1>4, <1>5, <1>6, LoginConstants DEF LoginIInv, AuthSound
  <1>18. Found'
    BY <1>1, <1>2, <1>3, <1>4, <1>5, <1>6, LoginConstants DEF LoginIInv, Found,
           Channel, Quiet, Asked, Told, Together, TypeOK, Procs
  <1>19. Dropped'
    BY <1>1, <1>2, <1>3, <1>4, <1>5, <1>6, LoginConstants DEF LoginIInv, Dropped,
           ServedAsAuthenticated, ParentPrivilege, AloneSound, Launched, NeededCaps,
           Together, TypeOK, Procs
  <1>20. Counted'
    BY <1>1, <1>2, <1>3, <1>4, <1>5, <1>6, LoginConstants DEF LoginIInv, Counted,
           Allowed, Channel, Quiet, Asked, Together, TypeOK, Procs
  <1> QED
    BY <1>7, <1>8, <1>9, <1>10, <1>11, <1>12, <1>13, <1>14, <1>15, <1>16, <1>17, <1>18,
           <1>19, <1>20 DEF LoginIInv, Channel

LEMMA SessionContextInv ==
    ASSUME LoginIInv, SessionContext
    PROVE  LoginIInv'
  <1> DEFINE c == ChangeCredentials(Root, SessionUid, {}, SessionChroot, TRUE, FALSE)
  <1>1. "new_parent_fd" \in fds["session"]
    BY DEF SessionContext, LoginIInv, EndsExact, HeldBySession
  <1>2. /\ pc["session"] = "born" /\ pc' = [pc EXCEPT !["session"] = "serve"]
        /\ fds' = [fds EXCEPT !["session"] = @ \ {"new_parent_fd"}]
        /\ creds' = [creds EXCEPT !["session"] = c]
        /\ UNCHANGED <<sigchld, cfg, user_str, control_use_ssl, data_use_ssl,
                       login_fails, eof, request, result, auth, tries>>
    BY <1>1 DEF SessionContext, Goto
  <1>3. auth # None /\ auth \in Logins /\ AuthSound
    BY <1>2 DEF LoginIInv, Channel, GrantedTo, TypeOK
  <1>4. SessionUid \in Uids /\ SessionUid # "root" /\ SessionChroot \in BOOLEAN
    <2>1. cfg.guest_enable \in BOOLEAN /\ cfg.virtual_use_local_privs \in BOOLEAN
      BY DEF LoginIInv, CfgOK, Switches
    <2> QED
      BY <1>3, <2>1, LoginConstants DEF SessionUid, SessionChroot, Guest, AuthSound, Uids,
                                        Logins
  <1>5. c \in CredsType /\ c.jailed = SessionChroot /\ c.uid = SessionUid /\ c.caps = {}
    <2>1. ASSUME NEW uid \in Uids, NEW jail \in BOOLEAN,
                 c = ChangeCredentials(Root, uid, {}, jail, TRUE, FALSE)
          PROVE  c \in CredsType /\ c.jailed = jail /\ c.uid = uid /\ c.caps = {}
      <3> HIDE DEF c
      <3> QED
        BY <2>1 DEF ChangeCredentials, Root, CredsType
    <2>2. c = ChangeCredentials(Root, SessionUid, {}, SessionChroot, TRUE, FALSE)
      OBVIOUS
    <2> HIDE DEF c
    <2> QED
      BY <1>4, <2>1, <2>2
  <1>6. /\ c.uid \in Locals => c.uid = auth.user
        /\ c.uid = "ftp" => c.jailed
        /\ c.uid = "guest" => cfg.virtual_use_local_privs \/ c.jailed
        /\ IF auth.anon THEN auth.user = "anon" ELSE auth.user \in Locals
    BY <1>3, <1>5, LoginConstants DEF SessionUid, SessionChroot, Guest, AuthSound
  <1> HIDE DEF c
  <1>7. TypeOK'
    BY <1>2, <1>3, <1>4, <1>5, <1>6, LoginConstants DEF LoginIInv, CredsType, TypeOK,
           Users, Places, Stopped, Uids, Procs, Together
  <1>8. CfgOK(cfg)'
    BY <1>2, <1>3, <1>4, <1>5, <1>6, LoginConstants DEF LoginIInv, CredsType, CfgOK
  <1>9. Together'
    BY <1>2, <1>3, <1>4, <1>5, <1>6, LoginConstants DEF LoginIInv, CredsType,
           WeirdLogin, Together, TypeOK, Procs
  <1>10. Checked'
    BY <1>2, <1>3, <1>4, <1>5, <1>6, LoginConstants DEF LoginIInv, CredsType, Checked,
           Sane, Together, TypeOK, Procs
  <1>11. EndsExact'
    BY <1>2, <1>3, <1>4, <1>5, <1>6, LoginConstants DEF LoginIInv, CredsType,
           EndsExact, HeldByParent, HeldByPrelogin, HeldBySession, IfSsl, Together,
           TypeOK, Procs
  <1>12. Quiet'
    BY <1>2, <1>3, <1>4, <1>5, <1>6, LoginConstants DEF LoginIInv, CredsType, Channel,
           Quiet, Asked, Together, TypeOK, Procs
  <1>13. Asked'
    BY <1>2, <1>3, <1>4, <1>5, <1>6, LoginConstants DEF LoginIInv, CredsType, Channel,
           Quiet, Asked, Together, TypeOK, Procs
  <1>14. Told'
    BY <1>2, <1>3, <1>4, <1>5, <1>6, LoginConstants DEF LoginIInv, CredsType, Channel,
           Quiet, Asked, Told, Together, TypeOK, Procs
  <1>15. GrantedTo'
    BY <1>2, <1>3, <1>4, <1>5, <1>6, LoginConstants DEF LoginIInv, CredsType, Channel,
           Quiet, Told, GrantedTo, Together, TypeOK, Procs
  <1>16. NamesGuarded'
    BY <1>2, <1>3, <1>4, <1>5, <1>6, LoginConstants DEF LoginIInv, CredsType,
           NamesGuarded, MayLogIn, Channel, Asked, Together, TypeOK, Procs
  <1>17. AuthSound'
    BY <1>2, <1>3, <1>4, <1>5, <1>6, LoginConstants DEF LoginIInv, CredsType, AuthSound
  <1>18. Found'
    BY <1>2, <1>3, <1>4, <1>5, <1>6, LoginConstants DEF LoginIInv, CredsType, Found,
           Channel, Quiet, Asked, Told, Together, TypeOK, Procs
  <1>19. Dropped'
    BY <1>2, <1>3, <1>4, <1>5, <1>6, LoginConstants DEF LoginIInv, CredsType, Dropped,
           ServedAsAuthenticated, ParentPrivilege, AloneSound, Launched, NeededCaps,
           Together, TypeOK, Procs
  <1>20. Counted'
    BY <1>2, <1>3, <1>4, <1>5, <1>6, LoginConstants DEF LoginIInv, CredsType, Counted,
           Allowed, Channel, Quiet, Asked, Together, TypeOK, Procs
  <1> QED
    BY <1>7, <1>8, <1>9, <1>10, <1>11, <1>12, <1>13, <1>14, <1>15, <1>16, <1>17, <1>18,
           <1>19, <1>20 DEF LoginIInv, Channel

LEMMA ParentMinimizeInv ==
    ASSUME LoginIInv, ParentMinimize
    PROVE  LoginIInv'
  <1> DEFINE close == {"new_child_fd"} \cup (IF cfg.ssl_enable THEN {"ssl_consumer_fd"} ELSE {})
             c == ChangeCredentials(Root, "nopriv", NeededCaps, TRUE, FALSE, FALSE)
             keep == ~auth.anon /\ cfg.session_support
  <1>1. close \subseteq fds["parent"]
    BY DEF ParentMinimize, LoginIInv, EndsExact, HeldByParent, IfSsl
  <1>2. /\ pc["parent"] = "split" /\ pc' = [pc EXCEPT !["parent"] = "serve"]
        /\ fds' = [fds EXCEPT !["parent"] = @ \ close]
        /\ creds' = IF keep THEN creds ELSE [creds EXCEPT !["parent"] = c]
        /\ UNCHANGED <<sigchld, cfg, user_str, control_use_ssl, data_use_ssl,
                       login_fails, eof, request, result, auth, tries>>
    BY <1>1 DEF ParentMinimize, Goto
  <1>3. "nopriv" \in Uids /\ NeededCaps \in SUBSET Caps /\ NeededCaps' = NeededCaps
    BY <1>2, NeededCapsType DEF Uids, NeededCaps
  <1>4. /\ c \in CredsType /\ NeededCaps \subseteq c.caps
        /\ NeededCaps = {} \/ HasCapsNonRoot => c.uid = "nopriv" /\ c.caps = NeededCaps
    BY <1>3, ChangedCredentials
  <1> HIDE DEF c
  <1>5. /\ creds' \in [Procs -> CredsType]
        /\ creds'["prelogin"] = creds["prelogin"] /\ creds'["session"] = creds["session"]
    BY <1>2, <1>4 DEF LoginIInv, TypeOK, Procs, CredsType
  <1>6. /\ NeededCaps \subseteq creds'["parent"].caps
        /\ \/ creds'["parent"].uid = "nopriv" /\ creds'["parent"].caps = NeededCaps
           \/ keep
           \/ NeededCaps # {} /\ ~HasCapsNonRoot
    <2>1. CASE keep
      <3>1. creds["parent"].caps = Caps
        BY <1>2 DEF LoginIInv, Dropped
      <3> QED
        BY <1>2, <1>3, <2>1, <3>1
    <2>2. CASE ~keep
      <3>1. creds'["parent"] = c
        BY <1>2, <2>2 DEF LoginIInv, TypeOK, Procs
      <3> QED
        BY <1>4, <3>1
    <2> QED
      BY <2>1, <2>2
  <1>7. TypeOK'
    BY <1>2, <1>3, <1>5, <1>6, LoginConstants DEF LoginIInv, CredsType, TypeOK, Users,
           Places, Stopped, Uids, Procs, Together
  <1>8. CfgOK(cfg)'
    BY <1>2, <1>3, <1>5, <1>6, LoginConstants DEF LoginIInv, CredsType, CfgOK
  <1>9. Together'
    BY <1>2, <1>3, <1>5, <1>6, LoginConstants DEF LoginIInv, CredsType, WeirdLogin,
           Together, TypeOK, Procs
  <1>10. Checked'
    BY <1>2, <1>3, <1>5, <1>6, LoginConstants DEF LoginIInv, CredsType, Checked, Sane,
           Together, TypeOK, Procs
  <1>11. EndsExact'
    BY <1>2, <1>3, <1>5, <1>6, LoginConstants DEF LoginIInv, CredsType, EndsExact,
           HeldByParent, HeldByPrelogin, HeldBySession, IfSsl, Together, TypeOK, Procs
  <1>12. Quiet'
    BY <1>2, <1>3, <1>5, <1>6, LoginConstants DEF LoginIInv, CredsType, Channel, Quiet,
           Asked, Together, TypeOK, Procs
  <1>13. Asked'
    BY <1>2, <1>3, <1>5, <1>6, LoginConstants DEF LoginIInv, CredsType, Channel, Quiet,
           Asked, Together, TypeOK, Procs
  <1>14. Told'
    BY <1>2, <1>3, <1>5, <1>6, LoginConstants DEF LoginIInv, CredsType, Channel, Quiet,
           Asked, Told, Together, TypeOK, Procs
  <1>15. GrantedTo'
    BY <1>2, <1>3, <1>5, <1>6, LoginConstants DEF LoginIInv, CredsType, Channel, Quiet,
           Told, GrantedTo, Together, TypeOK, Procs
  <1>16. NamesGuarded'
    BY <1>2, <1>3, <1>5, <1>6, LoginConstants DEF LoginIInv, CredsType, NamesGuarded,
           MayLogIn, Channel, Asked, Together, TypeOK, Procs
  <1>17. AuthSound'
    BY <1>2, <1>3, <1>5, <1>6, LoginConstants DEF LoginIInv, CredsType, AuthSound
  <1>18. Found'
    BY <1>2, <1>3, <1>5, <1>6, LoginConstants DEF LoginIInv, CredsType, Found, Channel,
           Quiet, Asked, Told, Together, TypeOK, Procs
  <1>19. Dropped'
    BY <1>2, <1>3, <1>5, <1>6, LoginConstants DEF LoginIInv, CredsType, Dropped,
           ServedAsAuthenticated, ParentPrivilege, AloneSound, Launched, NeededCaps,
           Together, TypeOK, Procs
  <1>20. Counted'
    BY <1>2, <1>3, <1>5, <1>6, LoginConstants DEF LoginIInv, CredsType, Counted,
           Allowed, Channel, Quiet, Asked, Together, TypeOK, Procs
  <1> QED
    BY <1>7, <1>8, <1>9, <1>10, <1>11, <1>12, <1>13, <1>14, <1>15, <1>16, <1>17, <1>18,
           <1>19, <1>20 DEF LoginIInv, Channel

(* The child that can encrypt becomes the slave.                           *)
LEMMA BecomesSlave ==
    ASSUME LoginIInv, pc["prelogin"] = "waiting", result = "OK", control_use_ssl,
           pc' = [pc EXCEPT !["prelogin"] = "slave"],
           fds' = [fds EXCEPT !["prelogin"] = @ \ {"child_fd"}], result' = None,
           UNCHANGED <<cfg, creds, user_str, control_use_ssl, data_use_ssl, login_fails,
                       eof, request, sigchld, auth, tries>>
    PROVE  LoginIInv'
  <1>1. /\ auth # None /\ auth.ssl /\ pc["parent"] # "none" /\ request = None
        /\ pc["parent"] \in {"granted", "handover", "split", "serve", "gone"}
    BY LoginConstants DEF LoginIInv, Channel, Quiet, Asked, Told
  <1>2. TypeOK'
    BY <1>1, LoginConstants DEF LoginIInv, TypeOK, Users, Places, Stopped, Uids, Procs,
           Together
  <1>3. CfgOK(cfg)'
    BY <1>1, LoginConstants DEF LoginIInv, CfgOK
  <1>4. Together'
    BY <1>1, LoginConstants DEF LoginIInv, WeirdLogin, Together, TypeOK, Procs
  <1>5. Checked'
    BY <1>1, LoginConstants DEF LoginIInv, Checked, Sane, Together, TypeOK, Procs
  <1>6. EndsExact'
    BY <1>1, LoginConstants DEF LoginIInv, EndsExact, HeldByParent, HeldByPrelogin,
           HeldBySession, IfSsl, Together, TypeOK, Procs
  <1>7. Quiet'
    BY <1>1, LoginConstants DEF LoginIInv, Channel, Quiet, Asked, Together, TypeOK,
           Procs
  <1>8. Asked'
    BY <1>1, LoginConstants DEF LoginIInv, Channel, Quiet, Asked, Together, TypeOK,
           Procs
  <1>9. Told'
    BY <1>1, LoginConstants DEF LoginIInv, Channel, Quiet, Asked, Told, Together,
           TypeOK, Procs
  <1>10. GrantedTo'
    BY <1>1, LoginConstants DEF LoginIInv, Channel, Quiet, Told, GrantedTo, Together,
           TypeOK, Procs
  <1>11. NamesGuarded'
    BY <1>1, LoginConstants DEF LoginIInv, NamesGuarded, MayLogIn, Channel, Asked,
           Together, TypeOK, Procs
  <1>12. AuthSound'
    BY <1>1, LoginConstants DEF LoginIInv, AuthSound
  <1>13. Found'
    BY <1>1, LoginConstants DEF LoginIInv, Found, Channel, Quiet, Asked, Told,
           Together, TypeOK, Procs
  <1>14. Dropped'
    BY <1>1, LoginConstants DEF LoginIInv, Dropped, ServedAsAuthenticated,
           ParentPrivilege, AloneSound, Launched, NeededCaps, Together, TypeOK, Procs
  <1>15. Counted'
    BY <1>1, LoginConstants DEF LoginIInv, Counted, Allowed, Channel, Quiet, Asked,
           Together, TypeOK, Procs
  <1> QED
    BY <1>2, <1>3, <1>4, <1>5, <1>6, <1>7, <1>8, <1>9, <1>10, <1>11, <1>12, <1>13,
           <1>14, <1>15 DEF LoginIInv, Channel

LEMMA LoginResultInv ==
    ASSUME LoginIInv, LoginResult
    PROVE  LoginIInv'
  <1>1. /\ pc["prelogin"] = "waiting" /\ result # None /\ result' = None
        /\ UNCHANGED <<cfg, creds, control_use_ssl, data_use_ssl, eof, request, auth, tries>>
    BY DEF LoginResult
  <1>2. /\ result \in {"OK", "BAD"} /\ tries \in Nat /\ login_fails \in Nat
        /\ eof \in BOOLEAN /\ user_str \in Users \cup {None} /\ tries <= Allowed
        /\ result = "BAD" => tries <= login_fails + 1
    BY <1>1 DEF LoginIInv, TypeOK, Counted
  <1>3. CASE result = "BAD"
    <2>1. CountFailure
      BY <1>3 DEF LoginResult
    <2> QED
      BY <1>1, <1>2, <1>3, <2>1, CountFailureInv
  <1>4. CASE result = "OK" /\ ~control_use_ssl
    <2>1. Stop("prelogin", "gone") /\ UNCHANGED <<login_fails, user_str>>
      BY <1>4 DEF LoginResult
    <2>2. sigchld' \in SigchldType
      BY <2>1, StopSigchld DEF Procs, LoginIInv
    <2> QED
      BY <1>1, <1>2, <2>1, <2>2, PreloginStops DEF Stop
  <1>5. CASE result = "OK" /\ control_use_ssl
    <2>1. "child_fd" \in fds["prelogin"]
      BY <1>1, <1>5, LoginConstants DEF LoginIInv, Channel, Quiet, EndsExact, HeldByPrelogin
    <2>2. /\ fds' = [fds EXCEPT !["prelogin"] = @ \ {"child_fd"}]
          /\ Goto("prelogin", "slave") /\ UNCHANGED <<sigchld, login_fails, user_str>>
      BY <1>5, <2>1 DEF LoginResult
    <2> QED
      BY <1>1, <1>5, <2>2, BecomesSlave DEF Goto
  <1> QED
    BY <1>2, <1>3, <1>4, <1>5

-----------------------------------------------------------------------------
(* The ends.                                                               *)

LEMMA ExitInv ==
    ASSUME LoginIInv, NEW p \in Procs, Exit(p), pc[p] \notin {"none", "gone", "bug"}
    PROVE  LoginIInv'
  <1>1. /\ Stop(p, "gone")
        /\ UNCHANGED <<cfg, creds, user_str, control_use_ssl, data_use_ssl,
                       login_fails, eof, request, result, auth, tries>>
    BY DEF Exit
  <1>2. sigchld' \in SigchldType
    BY <1>1, StopSigchld DEF LoginIInv
  <1>3. /\ tries \in Nat /\ login_fails \in Nat /\ eof \in BOOLEAN /\ tries <= Allowed
        /\ user_str \in Users \cup {None}
    BY DEF LoginIInv, TypeOK, Counted
  <1>4. CASE p = "parent"
    BY <1>1, <1>2, <1>3, <1>4, ParentStops DEF Stop
  <1>5. CASE p = "prelogin"
    BY <1>1, <1>2, <1>3, <1>5, PreloginStops DEF Stop
  <1>6. CASE p = "session"
    BY <1>1, <1>2, <1>3, <1>6, SessionStops DEF Stop
  <1> QED
    BY <1>4, <1>5, <1>6 DEF Procs

LEMMA IdleTimeoutInv ==
    ASSUME LoginIInv, IdleTimeout
    PROVE  LoginIInv'
  <1>1. /\ eof' = TRUE
        /\ UNCHANGED <<cfg, creds, user_str, control_use_ssl, data_use_ssl,
                       login_fails, request, result, auth, tries>>
    BY DEF IdleTimeout
  <1>2. /\ tries \in Nat /\ login_fails \in Nat /\ tries <= Allowed
        /\ user_str \in Users \cup {None} /\ data_use_ssl \in BOOLEAN
    BY DEF LoginIInv, TypeOK, Counted
  <1>3. CASE pc["prelogin"] = "commands" /\ Stop("prelogin", "gone")
    <2>1. sigchld' \in SigchldType
      BY <1>3, StopSigchld DEF Procs, LoginIInv
    <2> QED
      BY <1>1, <1>2, <1>3, <2>1, PreloginStops DEF Stop
  <1>4. CASE UNCHANGED <<pc, fds, sigchld>>
    BY <1>1, <1>2, <1>4, NothingElse
  <1> QED
    BY <1>3, <1>4 DEF IdleTimeout

LEMMA SigtermInv ==
    ASSUME LoginIInv, Sigterm
    PROVE  LoginIInv'
  <1>1. Stop("parent", "gone") /\ pc["parent"] \in {"login", "serve"}
    BY DEF Sigterm
  <1>2. sigchld' \in SigchldType
    BY <1>1, StopSigchld DEF Procs, LoginIInv
  <1> QED
    BY <1>1, <1>2, ParentStops DEF Stop, Sigterm

LEMMA EndingInv ==
    ASSUME LoginIInv,
           \/ ChildEof \/ ParentSigchld \/ ParentEof \/ ChildExit \/ ParentDies
           \/ ServiceEnds \/ SlaveEof \/ ServiceExit
    PROVE  LoginIInv'
  <1>1. CASE ChildEof \/ ChildExit \/ SlaveEof
    BY <1>1, ExitInv DEF ChildEof, ChildExit, SlaveEof, Procs
  <1>2. CASE ParentSigchld \/ ParentEof \/ ParentDies
    BY <1>2, ExitInv DEF ParentSigchld, ParentEof, ParentDies, Procs
  <1>3. CASE ServiceEnds \/ ServiceExit
    BY <1>3, ExitInv DEF ServiceEnds, ServiceExit, Serving, Procs
  <1> QED
    BY <1>1, <1>2, <1>3

-----------------------------------------------------------------------------
LEMMA LoginStepInv ==
    ASSUME LoginIInv, [Next]_vars
    PROVE  LoginIInv'
  <1>1. CASE StartUp
    BY <1>1, MainInv, OneProcessInv, TwoProcessInv, ParentContextInv, ChildContextInv,
       InitConnectionInv DEF StartUp
  <1>2. CASE ClientCommand
    BY <1>2, UserInv, PassInv, GetInv, AuthInv, ProtInv DEF ClientCommand
  <1>3. CASE Handover
    BY <1>3, ParentReadInv, ParentVerifyInv, ParentWaitInv, ParentMinimizeInv, HandOverInv,
       LoginResultInv, SessionContextInv DEF Handover, ParentStep
  <1>4. CASE Ending \/ ServiceEnds \/ SlaveEof \/ ServiceExit
    BY <1>4, EndingInv DEF Ending
  <1>5. CASE Failing
    <2>1. CASE HangUp
      <3>1. eof' \in BOOLEAN /\ data_use_ssl' \in BOOLEAN
        BY <2>1 DEF HangUp, LoginIInv, TypeOK
      <3> QED
        BY <2>1, <3>1, NothingElse DEF HangUp
    <2> QED
      BY <1>5, <2>1, EndingInv, IdleTimeoutInv, SigtermInv DEF Failing
  <1>6. CASE \E level \in {"C", "P"} : SessionProt(level)
    BY <1>6, ProtInv
  <1>7. CASE UNCHANGED vars
    <2>1. eof' \in BOOLEAN /\ data_use_ssl' \in BOOLEAN
      BY <1>7 DEF vars, LoginIInv, TypeOK
    <2> QED
      BY <1>7, <2>1, NothingElse DEF vars
  <1> QED
    BY <1>1, <1>2, <1>3, <1>4, <1>5, <1>6, <1>7 DEF Next, LoginNext

LEMMA LoginInvariant == Spec => []LoginIInv
  <1>1. Init => LoginIInv
    BY LoginInitInv
  <1>2. LoginIInv /\ [Next]_vars => LoginIInv'
    BY LoginStepInv
  <1> QED
    BY <1>1, <1>2, PTL DEF Spec

(* Every variable stays in its type, for any configuration and any number  *)
(* of attempts (session.h, privsock.h).                                    *)
THEOREM LoginTypes == Spec => []TypeOK
  <1>1. LoginIInv => TypeOK
    BY DEF LoginIInv
  <1> QED
    BY <1>1, LoginInvariant, PTL

(* Whichever way the three processes interleave, the descriptors each of   *)
(* them closes are open, and the parent is never asked for a local login   *)
(* that it was not configured for: no process meets a failed check of its  *)
(* own, as long as no server is started that runs as the launching user    *)
(* and yet has local logins, which main() lets through (main.c:245).       *)
THEOREM LoginMeetsNoBug ==
    ASSUME \A c \in Configs : ~(c["run_as_launching_user"] /\ c["local_enable"])
    PROVE  Spec => []NoBug
  <1>1. LoginIInv => NoBug
    <2> SUFFICES ASSUME LoginIInv PROVE NoBug
      OBVIOUS
    <2>1. Together /\ Checked
      BY DEF LoginIInv
    <2>2. pc["prelogin"] # "bug"
      <3> SUFFICES ASSUME pc["prelogin"] = "bug" PROVE FALSE
        OBVIOUS
      <3>1. pc["session"] = "none" /\ WeirdLogin
        BY <2>1 DEF Together
      <3>2. \E c \in Configs : /\ cfg.local_enable = c["local_enable"]
                               /\ cfg.run_as_launching_user = c["run_as_launching_user"]
        BY <2>1, <3>1 DEF Checked
      <3> QED
        BY <3>1, <3>2 DEF WeirdLogin
    <2> QED
      BY <2>1, <2>2 DEF Together, NoBug, Procs
  <1> QED
    BY <1>1, LoginInvariant, PTL

(* The one check that can fail is that of vsf_one_process_login, and only  *)
(* on a server that runs as the launching user with local logins.          *)
THEOREM OnlyOneCheckFails ==
    Spec => [](~NoBug => pc["prelogin"] = "bug" /\ WeirdLogin)
  <1>1. LoginIInv => (~NoBug => pc["prelogin"] = "bug" /\ WeirdLogin)
    BY DEF LoginIInv, Together, NoBug, Procs
  <1> QED
    BY <1>1, LoginInvariant, PTL

(* From the moment a client can talk to a process, that process is not     *)
(* root and has only the capabilities its part needs, unless it was told   *)
(* to run as the root that launched it; after the hand-over the parent has *)
(* those the session will ask it to use (drop_all_privs, common_do_login,  *)
(* one_process_start, minimize_privilege).                                 *)
THEOREM PrivilegesAreLeast == Spec => []LeastPrivilege
  <1>1. LoginIInv => LeastPrivilege
    <2> SUFFICES ASSUME LoginIInv PROVE LeastPrivilege
      OBVIOUS
    <2>1. ParentPrivilege
      BY DEF LoginIInv, Dropped
    <2>2. ASSUME NEW p \in Talking
          PROVE  /\ ~Alone =>
                       /\ creds[p].uid # "root" /\ creds[p].caps = {}
                       /\ p = "prelogin" => creds[p].jailed
                 /\ Alone /\ ~cfg.run_as_launching_user =>
                       /\ creds[p].uid = "ftp" /\ creds[p].jailed
                       /\ creds[p].caps = NeededCaps
                 /\ Alone /\ cfg.run_as_launching_user =>
                       /\ creds[p].uid = "root" \/ creds[p].caps = {}
                       /\ NeededCaps \subseteq creds[p].caps
      <3>1. CASE p = "session"
        <4>1. pc["session"] = "serve"
          BY <3>1 DEF Talking, LoginIInv, Together
        <4>2. ~Alone
          BY <4>1 DEF LoginIInv, Together, Alone
        <4> QED
          BY <3>1, <4>1, <4>2 DEF LoginIInv, Dropped
      <3>2. CASE p = "prelogin"
        <4>1. pc["prelogin"] \in {"connected", "commands", "waiting", "slave", "serve"}
          BY <3>2 DEF Talking
        <4> QED
          BY <3>2, <4>1 DEF LoginIInv, Dropped, AloneSound, Alone
      <3> QED
        BY <3>1, <3>2 DEF Talking
    <2> QED
      BY <2>1, <2>2 DEF LeastPrivilege, Unprivileged
  <1> QED
    BY <1>1, LoginInvariant, PTL

(* The session runs as the account whose password the parent checked, or   *)
(* as the one the configuration puts in its place, and in its jail.        *)
THEOREM SessionIsAuthenticated == Spec => []ServedAsAuthenticated
  <1>1. LoginIInv => ServedAsAuthenticated
    BY DEF LoginIInv, Dropped
  <1> QED
    BY <1>1, LoginInvariant, PTL

(* However the client mixes USER, PASS and AUTH, the parent checks no more *)
(* wrong passwords than check_login_fails lets through, and no local login *)
(* in the clear where force_local_logins_ssl forbids it.                   *)
THEOREM LoginsAreGuarded == Spec => []RequestsGuarded
  <1>1. LoginIInv => RequestsGuarded
    BY DEF LoginIInv, Counted, Allowed, NamesGuarded, MayLogIn, RequestsGuarded,
           TriesBounded, LocalNeedsSsl
  <1> QED
    BY <1>1, LoginInvariant, PTL

(* Two processes never write to the command connection in turn.            *)
THEOREM OneProcessSpeaks == Spec => []OneSpeaker
  <1>1. LoginIInv => OneSpeaker
    BY DEF LoginIInv, Channel, GrantedTo, OneSpeaker, Stopped
  <1> QED
    BY <1>1, LoginInvariant, PTL

(* At every place each of the three processes holds exactly the ends of    *)
(* the socket pairs it needs there, so that the end of a process is seen   *)
(* by its partner as the end of a file (privsock.c, sslslave.c).           *)
THEOREM DescriptorsAreExact == Spec => []EndsExact
  <1>1. LoginIInv => EndsExact
    BY DEF LoginIInv
  <1> QED
    BY <1>1, LoginInvariant, PTL

-----------------------------------------------------------------------------
(* What no step does.                                                      *)

(* Once somebody has been found, nobody else is, and the connection stays  *)
(* as it was: there is no second login in a session (privops.c,            *)
(* twoprocess.c), and AUTH is not undone.                                  *)
IdentityFinal ==
    [][auth # None => auth' = auth /\ control_use_ssl' = control_use_ssl]_vars

(* The credentials of a process that a client can talk to do not change    *)
(* any more: nothing that was given up comes back.                         *)
CredentialsFinal == [][\A p \in Talking : creds'[p] = creds[p]]_vars

LEMMA EndingsKeep ==
    ASSUME \/ ChildEof \/ ParentSigchld \/ ParentEof \/ ServiceEnds \/ SlaveEof
           \/ ServiceExit \/ ChildExit \/ ParentDies
    PROVE  UNCHANGED <<creds, auth, control_use_ssl>>
  BY DEF ChildEof, ParentSigchld, ParentEof, ServiceEnds, SlaveEof, ServiceExit, ChildExit,
         ParentDies, Exit

LEMMA AtClientCommand ==
    ASSUME ClientCommand
    PROVE  pc["prelogin"] = "commands" /\ UNCHANGED creds
  BY DEF ClientCommand, UserCommand, PassCommand, GetCommand, AuthCommand, ProtCommand,
         AtCommand

LEMMA IdentityStep ==
    ASSUME LoginIInv, [Next]_vars, auth # None
    PROVE  auth' = auth /\ control_use_ssl' = control_use_ssl
  <1>1. /\ pc["prelogin"] \notin {"none", "born", "connected", "commands"}
        /\ request = None
    BY DEF LoginIInv, Found
  <1>2. pc["parent"] \notin {"main", "launch", "verify"}
    BY <1>1 DEF LoginIInv, Together, Channel, Asked
  <1>3. CASE StartUp
    BY <1>1, <1>2, <1>3 DEF StartUp, Main, OneProcessStart, TwoProcessStart, ParentContext,
                            ChildContext, InitConnection
  <1>4. CASE ClientCommand
    BY <1>1, <1>4, AtClientCommand
  <1>5. CASE Handover
    BY <1>2, <1>5 DEF Handover, ParentStep, ParentRead, ParentVerify, ParentWait,
                      ParentMinimize, HandOver, LoginResult, SessionContext
  <1>6. CASE Failing
    BY <1>6, EndingsKeep DEF Failing, IdleTimeout, Sigterm, HangUp
  <1>7. CASE \E level \in {"C", "P"} : SessionProt(level)
    BY <1>7 DEF SessionProt
  <1>8. CASE UNCHANGED vars
    BY <1>8 DEF vars
  <1> QED
    BY <1>3, <1>4, <1>5, <1>6, <1>7, <1>8, EndingsKeep DEF Next, LoginNext, Ending

LEMMA CredentialsStep ==
    ASSUME LoginIInv, [Next]_vars, NEW p \in Talking
    PROVE  creds'[p] = creds[p]
  <1>1. /\ creds \in [Procs -> CredsType] /\ p \in {"prelogin", "session"} /\ p \in Procs
        /\ pc[p] \notin {"none", "born"}
    BY DEF LoginIInv, TypeOK, CredsType, Talking, Procs
  <1>2. pc["parent"] = "launch" => pc["prelogin"] = "none" /\ pc["session"] = "none"
    BY DEF LoginIInv, Together
  <1>3. CASE StartUp
    BY <1>1, <1>2, <1>3 DEF StartUp, Main, OneProcessStart, TwoProcessStart, ParentContext,
                            ChildContext, InitConnection, Procs
  <1>4. CASE ClientCommand
    BY <1>4, AtClientCommand
  <1>5. CASE Handover
    BY <1>1, <1>5 DEF Handover, ParentStep, ParentRead, ParentVerify, ParentWait,
                      ParentMinimize, HandOver, LoginResult, SessionContext, Procs
  <1>6. CASE Failing
    BY <1>6, EndingsKeep DEF Failing, IdleTimeout, Sigterm, HangUp
  <1>7. CASE \E level \in {"C", "P"} : SessionProt(level)
    BY <1>7 DEF SessionProt
  <1>8. CASE UNCHANGED vars
    BY <1>8 DEF vars
  <1> QED
    BY <1>3, <1>4, <1>5, <1>6, <1>7, <1>8, EndingsKeep DEF Next, LoginNext, Ending

(* A session has one login: whoever was authenticated stays, however many  *)
(* requests follow and whichever process makes them.                       *)
THEOREM OneLogin == Spec => IdentityFinal
  <1>1. LoginIInv /\ [Next]_vars =>
           [auth # None => auth' = auth /\ control_use_ssl' = control_use_ssl]_vars
    BY IdentityStep
  <1> QED
    BY <1>1, LoginInvariant, PTL DEF Spec, IdentityFinal

(* What drop_all_privs and the change of credentials of a session gave up  *)
(* does not come back while a client can talk to the process.              *)
THEOREM NoPrivilegeReturns == Spec => CredentialsFinal
  <1>1. LoginIInv /\ [Next]_vars => [\A p \in Talking : creds'[p] = creds[p]]_vars
    BY CredentialsStep
  <1> QED
    BY <1>1, LoginInvariant, PTL DEF Spec, CredentialsFinal

=============================================================================
