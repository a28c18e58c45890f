---------------------------- MODULE SandboxNeeds ----------------------------
(* What the sandboxed processes ask of the kernel, by the configuration    *)
(* that makes them ask, against what the filters of Seccomp let them do.   *)
(* Calls are those of the wrappers in sysutil.c and sysdeputil.c; what the *)
(* C library adds of its own accord is not among them, except for memory.  *)
EXTENDS Seccomp

CallWith(nr, f) ==
    [nr |-> nr, arch |-> "X86_64",
     args |-> [i \in 1..6 |-> IF i \in DOMAIN f THEN f[i] ELSE {}]]
Call(nr) == CallWith(nr, <<>>)
Calls(nrs) == {Call(nr) : nr \in nrs}
Asks(cond, set) == IF cond THEN set ELSE {}

Fcntl(cmd, a) == CallWith("fcntl", <<{}, {cmd}, a>>)
Socket(family) ==
    CallWith("socket", <<{family}, {"SOCK_STREAM"}, {"IPPROTO_TCP"}>>)
Option(nr, level, name) == CallWith(nr, <<{}, {level}, {name}>>)
Open(flags) == CallWith("open", <<{}, flags>>)
FileLocking == {Fcntl("F_SETLKW", {}), Fcntl("F_SETLK", {})}

(* Memory, reading commands, replies, the goodbye.                         *)
CommandNeeds ==
    Calls({"read", "write", "close", "shutdown", "nanosleep", "munmap", "brk",
           "rt_sigreturn", "exit_group"})
    \cup {CallWith("mmap", <<{}, {}, {"PROT_READ", "PROT_WRITE"},
                              {"MAP_PRIVATE", "MAP_ANON"}>>),
          CallWith("recvfrom", <<{}, {}, {}, {"MSG_PEEK"}>>)}

(* vsf_cmdio_set_alarm.                                                    *)
IdleNeeds(t) == Asks("idle_session_timeout" \in t, Calls({"rt_sigaction", "alarm"}))

(* vsf_log_common: the date, the lock around the line, or syslog().        *)
LogNeeds(t) ==
    Asks(t \cap {"xferlog_enable", "dual_log_enable"} # {},
         FileLocking \cup Calls({"gettimeofday"}))
    \cup Asks("syslog_enable" \in t, Calls({"sendto"}))

(* ssl_slave, which the pre-login process turns into: it clears the alarm  *)
(* and receives the data connections.                                      *)
SlaveNeeds(t) == Asks("ssl_enable" \in t, Calls({"alarm", "recvmsg"}))

(* process_post_login: SIGURG for asynchronous ABOR.                       *)
UrgentNeeds(t) ==
    Asks("async_abor_enable" \in t, {Call("rt_sigaction"), Fcntl("F_SETOWN", {"pid"})})

(* init_data_sock_params, start_data_alarm and dispose_transfer_fd.        *)
TransferNeeds(t) ==
    {Option("setsockopt", "SOL_SOCKET", "SO_KEEPALIVE"),
     Option("setsockopt", "SOL_SOCKET", "SO_LINGER"),
     Option("setsockopt", "IPPROTO_IP", "IP_TOS")}
    \cup Asks("data_connection_timeout" \in t, Calls({"rt_sigaction", "alarm"}))

(* RETR: open, lock, look, seek, send.                                     *)
DownloadNeeds(t) ==
    {Open({"O_NONBLOCK"}), Call("fstat"), Call("lseek"),
     Fcntl("F_GETFL", {}), Fcntl("F_SETFL", {})}
    \cup Asks("lock_upload_files" \in t, FileLocking)
    \cup Asks("use_sendfile" \in t, {Call("sendfile")})

(* LIST, CWD, SIZE, MDTM and the access checks.                            *)
BrowseNeeds ==
    {Open({"O_NONBLOCK", "O_DIRECTORY", "O_CLOEXEC"})}
    \cup Calls({"getdents", "lstat", "stat", "fstat", "readlink", "getcwd", "chdir", "umask"})

(* The commands that write, as process_post_login dispatches them.         *)
WriteNeeds(t, a) ==
    LET other == ~a \/ "anon_other_write_enable" \in t
        upload == ~a \/ "anon_upload_enable" \in t
    IN  Asks("write_enable" \in t,
             Asks(upload,
                  Asks(other, {Open({"O_CREAT", "O_WRONLY", "O_NONBLOCK"}),
                               Call("ftruncate")})
                  \cup {Open({"O_CREAT", "O_EXCL", "O_WRONLY", "O_APPEND"}), Call("fstat"),
                        Fcntl("F_GETFL", {}), Fcntl("F_SETFL", {"O_WRONLY", "O_APPEND"})}
                  \cup Asks("lock_upload_files" \in t, FileLocking)
                  \cup Asks("delete_failed_uploads" \in t, {Call("unlink")}))
             \cup Asks(~a \/ "anon_mkdir_write_enable" \in t, {Call("mkdir")})
             \cup Asks(other, Calls({"unlink", "rmdir", "rename"}))
             \cup Asks(other /\ "mdtm_write" \in t, {Call("utime")})
             \cup Asks(~a /\ "chmod_enable" \in t, {Call("chmod")}))

(* The upload of an anonymous user that must change hands.                 *)
Chowns(t, a) ==
    a /\ {"write_enable", "anon_upload_enable", "chown_uploads"} \subseteq t

(* vsf_privop_get_ftp_port_sock, with the retry of bind().                 *)
PortNeeds(t) ==
    Asks("port_enable" \in t,
         {Socket("PF_INET"), Socket("PF_INET6"),
          Option("setsockopt", "SOL_SOCKET", "SO_REUSEADDR"),
          Option("getsockopt", "SOL_SOCKET", "SO_ERROR"),
          Fcntl("F_GETFL", {}), Fcntl("F_SETFL", {"O_RDWR", "O_NONBLOCK"}),
          Fcntl("F_SETFL", {"O_RDWR"})}
         \cup Calls({"bind", "nanosleep", "connect", "select", "close"}))

(* vsf_privop_pasv_listen and vsf_privop_accept_pasv.                      *)
PasvNeeds(t) ==
    Asks("pasv_enable" \in t,
         {Socket("PF_INET"), Socket("PF_INET6"),
          Option("setsockopt", "SOL_SOCKET", "SO_REUSEADDR")}
         \cup Calls({"bind", "listen", "select", "accept", "close"}))

(* The broker answers over the socket pair and passes descriptors; an      *)
(* upload to chown() reaches it the same way.                              *)
BrokerNeeds(t, a) ==
    Calls({"read", "write", "close", "exit_group"})
    \cup Asks("port_promiscuous" \notin t, PortNeeds(t)) \cup PasvNeeds(t)
    \cup Asks(t \cap {"port_enable", "pasv_enable"} # {}, {Call("sendmsg")})
    \cup Asks(Chowns(t, a), Calls({"recvmsg", "fstat", "fchown"}))

PostLoginNeeds(t, a) ==
    CommandNeeds \cup IdleNeeds(t) \cup LogNeeds(t) \cup UrgentNeeds(t)
    \cup TransferNeeds(t) \cup DownloadNeeds(t) \cup BrowseNeeds \cup WriteNeeds(t, a)
    \cup Asks(Chowns(t, a), {Call("fchmod")})

(* What a process does over its life.  Only anonymous users are served in  *)
(* the one process model.                                                  *)
Needs(r, t, a) ==
    CASE r = "prelogin"    -> CommandNeeds \cup IdleNeeds(t) \cup LogNeeds(t) \cup SlaveNeeds(t)
      [] r = "postlogin"   -> PostLoginNeeds(t, a)
                              \cup Asks(t \cap {"port_enable", "pasv_enable"} # {},
                                        {Call("recvmsg")})
                              \cup Asks(Chowns(t, a), {Call("sendmsg")})
                              \cup Asks("port_promiscuous" \in t, PortNeeds(t))
      [] r = "one_process" -> PostLoginNeeds(t, TRUE) \cup PortNeeds(t) \cup PasvNeeds(t)
                              \cup Asks(Chowns(t, TRUE), {Call("fchown")})
      [] r = "broker"      -> BrokerNeeds(t, a)

(* Where the filters and the code disagree: the calls that are killed or   *)
(* refused although the code makes them.  The pre-login process logs the   *)
(* connection itself; the slave clears an alarm nobody set; neither end    *)
(* may do what chown_uploads asks; a passive socket reuses its address     *)
(* even if PORT is off; bind() is retried after a nap; a promiscuous PORT  *)
(* connects without the broker; and with syslog_enable the rule that       *)
(* refuses socket() comes before the ones that permit it.                  *)
Gaps(r, t, a) ==
    LET reuse == Asks("pasv_enable" \in t /\ "port_enable" \notin t,
                      {Option("setsockopt", "SOL_SOCKET", "SO_REUSEADDR")})
    IN  CASE r = "prelogin"    ->
                Asks("syslog_enable" \in t, {Call("sendto")})
                \cup Asks("ssl_enable" \in t /\ "idle_session_timeout" \notin t,
                          {Call("alarm")})
          [] r = "postlogin"   ->
                Asks(Chowns(t, a), {Call("fchmod")})
                \cup Asks("port_promiscuous" \in t,
                          {c \in PortNeeds(t) :
                              \/ c.nr \in {"socket", "bind", "connect", "select", "getsockopt"}
                              \/ c = Option("setsockopt", "SOL_SOCKET", "SO_REUSEADDR")})
          [] r = "one_process" ->
                Asks(Chowns(t, TRUE), Calls({"fchmod", "fchown"})) \cup reuse
                \cup Asks("syslog_enable" \in t /\ t \cap {"port_enable", "pasv_enable"} # {},
                          {Socket("PF_INET"), Socket("PF_INET6")})
          [] r = "broker"      ->
                Asks(Chowns(t, a), Calls({"recvmsg", "fstat", "fchown"})) \cup reuse
                \cup Asks("port_enable" \in t /\ "port_promiscuous" \notin t,
                          {Call("nanosleep")})

-----------------------------------------------------------------------------
(* Calls near the rules' boundaries, and calls of another architecture.    *)
Strangers ==
    {[Call("read") EXCEPT !.arch = "I386"], Call("execve"), Call("mremap"), Call("socket"),
     CallWith("socket", <<{"PF_INET"}, {"SOCK_STREAM"}>>),
     CallWith("socket", <<{"PF_INET"}, {"SOCK_DGRAM"}, {"IPPROTO_TCP"}>>),
     CallWith("socket", <<{"PF_UNIX"}, {"SOCK_STREAM"}, {"IPPROTO_TCP"}>>),
     CallWith("mprotect", <<{}, {}, {"PROT_READ"}>>),
     CallWith("mprotect", <<{}, {}, {"PROT_READ", "PROT_EXEC"}>>),
     CallWith("mmap", <<{}, {}, {"PROT_READ", "PROT_EXEC"}, {"MAP_PRIVATE", "MAP_ANON"}>>),
     CallWith("mmap", <<{}, {}, {"PROT_READ"}, {"MAP_SHARED"}>>),
     CallWith("sendto", <<{}, {}, {}, {}, {}, {"len"}>>),
     CallWith("sendmsg", <<{}, {}, {"MSG_OOB"}>>),
     Open({"O_RDWR"}), Open({"O_TRUNC"}), Fcntl("F_SETFL", {"O_ASYNC"}),
     Fcntl("F_SETOWN", {"other"}), Option("setsockopt", "SOL_SOCKET", "SO_DEBUG")}

(* What a list of rules means: the first rule that fits decides.           *)
Fits(r, call) ==
    /\ call.arch = "X86_64"
    /\ r.nr = call.nr
    /\ \A n \in DOMAIN r.args :
          IF n = 1 /\ r.masked THEN call.args[r.args[n][1]] \subseteq r.args[n][2]
          ELSE call.args[r.args[n][1]] = r.args[n][2]

FirstFit(list, call) ==
    LET fit == {i \in DOMAIN list : Fits(list[i], call)}
        first == CHOOSE i \in fit : \A j \in fit : i <= j
    IN  IF fit = {} THEN "KILL"
        ELSE IF list[first].errno = NoError THEN "ALLOW" ELSE list[first].errno

(* The compiled filter decides every call as the list of rules reads: no   *)
(* jump lands inside another rule's block or beyond the program, the       *)
(* program fits the array it is written into exactly, and the rules fit    *)
(* theirs.                                                                 *)
FilterDecides ==
    filter # <<>> =>
        /\ Len(rules) <= kMaxSyscalls
        /\ Len(filter) = ProgramLength(rules)
        /\ \A c \in Strangers \cup Needs(role, conf, anon) :
              Verdict(c) = FirstFit(rules, c)

(* In every process and configuration the filter lets through every call   *)
(* the code makes there, except exactly those of Gaps.                     *)
SandboxServes ==
    filter # <<>> =>
        {c \in Needs(role, conf, anon) : Verdict(c) # "ALLOW"} = Gaps(role, conf, anon)

=============================================================================
