------------------------------- MODULE Tracer -------------------------------
(* The ptrace sandbox of the one process model (ptracesandbox.c and        *)
(* ftppolicy.c, 32-bit builds): a tracer that stops the session at every   *)
(* entry to and exit from the kernel, and decides at the entries whether   *)
(* the call may run.  The tracer knows only by counting whether a stop is  *)
(* an entry or an exit; the model keeps what the kernel knows beside it.   *)
(* An argument is the set of the flags it holds; configurations are sets   *)
(* of switches, as in Seccomp.                                             *)
EXTENDS Integers, FiniteSets

CONSTANTS
    TracerConfigs,   \* the configurations tried
    TracedCalls,     \* the calls the session may attempt
    NoCall           \* no call is pending

VARIABLES
    tunables,        \* the configuration
    tracer,          \* where the supervisor is
    pid,             \* p_sandbox->pid names the session (FALSE: -1)
    is_exit,         \* p_sandbox->is_exit
    session,         \* the traced process: what it does
    kernel,          \* which side of a call the session is on
    pending,         \* the call it is stopped at
    stopsig,         \* the signal it is stopped for
    executed,        \* history: the calls that ran under the tracer
    raced            \* history: the calls run by a kill from elsewhere

traceVars == <<tunables, tracer, pid, is_exit, session, kernel, pending, stopsig,
               executed, raced>>

-----------------------------------------------------------------------------
(* The permissions ptracesandbox.c offers: the calls each one allows; the  *)
(* sub-calls of socketcall() are named like the calls of other machines.   *)

PermitBasics ==
    [exit |-> {"exit", "exit_group"}, read |-> {"read"}, write |-> {"write"},
     sigaction |-> {"sigaction", "rt_sigaction"}, alarm |-> {"alarm"},
     query_time |-> {"gettimeofday", "time"}, mmap |-> {"mmap2"},
     mprotect |-> {"mprotect"}]

PermitFiles ==
    [file_stats |-> {"stat", "stat64", "lstat", "lstat64"},
     fd_stats |-> {"fstat", "fstat64"}, getcwd |-> {"getcwd"}, chdir |-> {"chdir"},
     umask |-> {"umask"}, open |-> {"open"}, close |-> {"close"},
     getdents |-> {"getdents", "getdents64"}, fcntl |-> {"fcntl", "fcntl64"}]

PermitChanges ==
    [sendfile |-> {"sendfile", "sendfile64"}, seek |-> {"lseek", "_llseek"},
     select |-> {"select", "_newselect"}, unlink |-> {"unlink"}, mkdir |-> {"mkdir"},
     rmdir |-> {"rmdir"}, rename |-> {"rename"}, utime |-> {"utime", "utimes"},
     sigreturn |-> {"sigreturn"}, recv |-> {"recv"}]

PermitRest ==
    [readlink |-> {"readlink"}, brk |-> {"brk"}, sleep |-> {"nanosleep"},
     fchmod |-> {"fchmod"}, chmod |-> {"chmod"}, fchown |-> {"fchown", "fchown32"},
     mremap |-> {"mremap"}, ftruncate |-> {"ftruncate", "ftruncate64"},
     socket |-> {"socket"}, bind |-> {"bind"}, connect |-> {"connect"},
     listen |-> {"listen"}, accept |-> {"accept"}, setsockopt |-> {"setsockopt"},
     getsockopt |-> {"getsockopt"}, shutdown |-> {"shutdown"}]

CallsOf(permits) ==
    (UNION {PermitBasics[p] : p \in permits \cap DOMAIN PermitBasics})
    \cup (UNION {PermitFiles[p] : p \in permits \cap DOMAIN PermitFiles})
    \cup (UNION {PermitChanges[p] : p \in permits \cap DOMAIN PermitChanges})
    \cup (UNION {PermitRest[p] : p \in permits \cap DOMAIN PermitRest})

(* policy_setup grants them by the configuration.  It runs before the      *)
(* login, when is_anonymous is still 0.                                    *)
policy_setup(t) ==
    {"exit", "mmap", "mprotect", "brk", "read", "write", "recv", "query_time",
     "open", "close", "file_stats", "readlink", "getcwd", "chdir", "getdents",
     "fd_stats", "seek", "shutdown", "fcntl", "setsockopt", "umask", "select",
     "sigreturn", "sleep", "sendfile", "socket", "bind"}
    \cup (IF "text_userdb_names" \in t THEN {"mremap"} ELSE {})
    \cup (IF t \cap {"async_abor_enable", "idle_session_timeout",
                     "data_connection_timeout"} # {} THEN {"sigaction"} ELSE {})
    \cup (IF t \cap {"idle_session_timeout", "data_connection_timeout"} # {}
          THEN {"alarm"} ELSE {})
    \cup (IF "port_enable" \in t THEN {"connect", "getsockopt"} ELSE {})
    \cup (IF "pasv_enable" \in t THEN {"listen", "accept"} ELSE {})
    \cup (IF "write_enable" \in t
          THEN {"mkdir", "unlink", "rmdir", "rename", "ftruncate"}
               \cup (IF "mdtm_write" \in t THEN {"utime"} ELSE {})
               \cup (IF "chmod_enable" \in t THEN {"chmod"} ELSE {})
          ELSE {})

validate_mmap2(c) == "MAP_SHARED" \notin c.args[4]
validate_open_default(c) == c.args[2] \cap {"O_ASYNC", "O_DIRECT", "O_SYNC"} = {}
validate_open_readonly(c) ==
    validate_open_default(c) /\ c.args[2] \cap {"O_WRONLY", "O_RDWR"} = {}

validate_fcntl(c) ==
    /\ \E cmd \in {"F_GETFL", "F_SETFL", "F_SETOWN", "F_SETLK", "F_SETLKW",
                   "F_SETLK64", "F_SETLKW64", "F_SETFD", "F_GETFD"} : c.args[2] = {cmd}
    /\ c.args[2] = {"F_SETFL"} => c.args[3] \cap {"O_ASYNC", "O_DIRECT"} = {}
    /\ c.args[2] = {"F_SETOWN"} => c.args[3] = {"pid"}

(* The family of the session's own address is PF_INET here.                *)
socket_validator(c) == c.args[1] = {"PF_INET"} /\ c.args[2] = {"SOCK_STREAM"}

(* The length and family of the address fit, and it is the client's; bind  *)
(* is checked the same way.                                                *)
connect_validator(c) == c.args[3] = {"sockaddr_in"} /\ c.args[2] = {"PF_INET", "client"}

getsockopt_validator(c) == c.args[2] = {"SOL_SOCKET"} /\ c.args[3] = {"SO_ERROR"}

setsockopt_validator(c) ==
    \/ /\ c.args[2] = {"SOL_SOCKET"}
       /\ c.args[3] \in {{"SO_KEEPALIVE"}, {"SO_REUSEADDR"}, {"SO_OOBINLINE"}, {"SO_LINGER"}}
    \/ c.args[2] = {"IPPROTO_TCP"} /\ c.args[3] = {"TCP_NODELAY"}
    \/ c.args[2] = {"IPPROTO_IP"} /\ c.args[3] = {"IP_TOS"}

(* The validators of the permitted calls; permitting open() again for      *)
(* writing replaces its validator.                                         *)
Validated(t, c) ==
    CASE c.nr = "open"       -> IF "write_enable" \in t THEN validate_open_default(c)
                                ELSE validate_open_readonly(c)
      [] c.nr = "mmap2"      -> validate_mmap2(c)
      [] c.nr = "fcntl"      -> validate_fcntl(c)
      [] c.nr = "fcntl64"    -> validate_fcntl(c)
      [] c.nr = "socket"     -> socket_validator(c)
      [] c.nr = "bind"       -> connect_validator(c)
      [] c.nr = "connect"    -> connect_validator(c)
      [] c.nr = "getsockopt" -> getsockopt_validator(c)
      [] c.nr = "setsockopt" -> setsockopt_validator(c)
      [] OTHER               -> TRUE

(* get_action: the right table, a permitted number, a valid argument.      *)
get_action(t, c) ==
    /\ c.cs = "32bit"
    /\ c.nr \in CallsOf(policy_setup(t))
    /\ Validated(t, c)

-----------------------------------------------------------------------------
(* The supervisor and the session.                                         *)

TracerInit ==
    /\ tunables \in TracerConfigs
    /\ tracer = "launch"
    /\ pid = FALSE
    /\ is_exit = FALSE
    /\ session = "none"
    /\ kernel = "user"
    /\ pending = NoCall
    /\ stopsig = "none"
    /\ executed = {}
    /\ raced = {}

Stopped == session = "stopped"
Histories == <<executed, raced>>

(* ptrace_sandbox_launch_process: fork, which may fail, and wait for the   *)
(* child's SIGSTOP at ptrace_sandbox_attach_point.                         *)
LaunchProcess ==
    /\ tracer = "launch"
    /\ \/ tracer' = "attach" /\ pid' = TRUE /\ session' = "starting"
       \/ tracer' = "failed" /\ UNCHANGED <<pid, session>>
    /\ UNCHANGED <<tunables, is_exit, kernel, pending, stopsig, Histories>>

AttachPoint ==
    /\ session = "starting"
    /\ session' = "stopped"
    /\ stopsig' = "SIGSTOP"
    /\ UNCHANGED <<tunables, tracer, pid, is_exit, kernel, pending, Histories>>

(* The child's first status: the SIGSTOP it sent itself, else it is killed *)
(* and the launch has failed.  The options may be refused as well.         *)
AttachStopped ==
    /\ tracer = "attach"
    /\ Stopped
    /\ \/ /\ tracer' = "run"
          /\ UNCHANGED <<pid, session>>
       \/ /\ tracer' = "failed"
          /\ pid' = FALSE
          /\ session' = "dead"
    /\ UNCHANGED <<tunables, is_exit, kernel, pending, stopsig, Histories>>

AttachDied ==
    /\ tracer = "attach"
    /\ session = "dead"
    /\ tracer' = "failed"
    /\ pid' = FALSE
    /\ UNCHANGED <<tunables, is_exit, session, kernel, pending, stopsig, Histories>>

(* PTRACE_SYSCALL: the session goes on with the signal it is given.  From  *)
(* an entry it executes its call and stops again at the exit.              *)
Resume(sig) ==
    /\ stopsig' = "none"
    /\ IF sig = "SIGKILL"
       THEN session' = "dead" /\ kernel' = "user" /\ pending' = NoCall /\ UNCHANGED executed
       ELSE IF kernel = "entry"
       THEN /\ session' = IF pending.nr = "exit_group" THEN "dead" ELSE "running"
            /\ kernel' = "exit"
            /\ executed' = executed \cup {pending}
            /\ pending' = NoCall
       ELSE /\ session' = "running"
            /\ kernel' = "user"
            /\ UNCHANGED <<pending, executed>>
    /\ UNCHANGED raced

(* run_processes lets the session go for the first time.                   *)
FirstContinue ==
    /\ tracer = "run"
    /\ Stopped
    /\ tracer' = "wait"
    /\ Resume("none")
    /\ UNCHANGED <<tunables, pid, is_exit>>

SignalToPass(sig) == IF sig \in {"SIGSTOP", "SIGCONT"} THEN "SIGKILL" ELSE sig

(* Mutant: a signal is counted like a system call stop.                    *)
HandleSignalCounted ==
    /\ tracer = "wait"
    /\ Stopped
    /\ stopsig # "SYSTRAP"
    /\ Resume(SignalToPass(stopsig))
    /\ is_exit' = ~is_exit
    /\ UNCHANGED <<tunables, tracer, pid>>

(* handle_event for a signal: it is passed on, a stop made a kill.         *)
HandleSignal ==
    /\ tracer = "wait"
    /\ Stopped
    /\ stopsig # "SYSTRAP"
    /\ Resume(SignalToPass(stopsig))
    /\ UNCHANGED <<tunables, tracer, pid, is_exit>>

(* handle_event for a system call stop counted as an exit.                 *)
HandleExit ==
    /\ tracer = "wait"
    /\ Stopped
    /\ stopsig = "SYSTRAP"
    /\ is_exit
    /\ is_exit' = FALSE
    /\ Resume("none")
    /\ UNCHANGED <<tunables, tracer, pid>>

(* handle_event for an entry: the call is resumed if get_action says so.   *)
HandleEntry ==
    /\ tracer = "wait"
    /\ Stopped
    /\ stopsig = "SYSTRAP"
    /\ ~is_exit
    /\ pending # NoCall
    /\ is_exit' = TRUE
    /\ IF get_action(tunables, pending)
       THEN Resume("none") /\ UNCHANGED tracer
       ELSE tracer' = "kill" /\ UNCHANGED <<session, kernel, pending, stopsig, Histories>>
    /\ UNCHANGED <<tunables, pid>>

(* ptrace_sandbox_kill_processes: a session stopped at an entry has its    *)
(* call rewritten into exit_group before it is killed and reaped; one that *)
(* is gone is only forgotten.                                              *)
KillProcesses ==
    /\ tracer = "kill"
    /\ tracer' = "failed"
    /\ pid' = FALSE
    /\ session' = "dead"
    /\ kernel' = "user"
    /\ pending' = NoCall
    /\ stopsig' = "none"
    /\ UNCHANGED <<tunables, is_exit, Histories>>

(* The session ended: waitpid reports it, or a ptrace call fails on it.    *)
HandleDeath ==
    /\ tracer \in {"wait", "run"}
    /\ session = "dead"
    /\ \/ tracer = "wait" /\ tracer' = "done" /\ pid' = FALSE
       \/ tracer' = "kill" /\ UNCHANGED pid
    /\ UNCHANGED <<tunables, is_exit, session, kernel, pending, stopsig, Histories>>

-----------------------------------------------------------------------------
(* The running session: it enters and leaves the kernel, is signalled, and *)
(* may be killed by somebody else at any time.                             *)

EnterCall(c) ==
    /\ session = "running"
    /\ kernel = "user"
    /\ session' = "stopped"
    /\ kernel' = "entry"
    /\ pending' = c
    /\ stopsig' = "SYSTRAP"
    /\ UNCHANGED <<tunables, tracer, pid, is_exit, Histories>>

LeaveCall ==
    /\ session = "running"
    /\ kernel = "exit"
    /\ session' = "stopped"
    /\ stopsig' = "SYSTRAP"
    /\ UNCHANGED <<tunables, tracer, pid, is_exit, kernel, pending, Histories>>

TakeSignal(sig) ==
    /\ session = "running"
    /\ kernel = "user"
    /\ session' = "stopped"
    /\ stopsig' = sig
    /\ UNCHANGED <<tunables, tracer, pid, is_exit, kernel, pending, Histories>>

(* The comment in ptrace_sandbox_launch_process: a call the session is     *)
(* stopped at still executes if a SIGKILL arrives before it is rewritten.  *)
RogueKill ==
    /\ session \in {"starting", "running", "stopped"}
    /\ session' = "dead"
    /\ raced' = IF kernel = "entry" /\ pending # NoCall THEN raced \cup {pending} ELSE raced
    /\ kernel' = "user"
    /\ pending' = NoCall
    /\ stopsig' = "none"
    /\ UNCHANGED <<tunables, tracer, pid, is_exit, executed>>

TracerNext ==
    \/ LaunchProcess \/ AttachPoint \/ AttachStopped \/ AttachDied
    \/ FirstContinue \/ HandleSignal \/ HandleExit \/ HandleEntry
    \/ HandleDeath \/ KillProcesses
    \/ \E c \in TracedCalls : EnterCall(c)
    \/ LeaveCall
    \/ \E sig \in {"SIGALRM", "SIGSTOP"} : TakeSignal(sig)
    \/ RogueKill

TracerSpec == TracerInit /\ [][TracerNext]_traceVars

-----------------------------------------------------------------------------
(* Every call that ran is one the policy permits, its arguments included:  *)
(* the tracer's count of entries and exits never falls out of step with    *)
(* the kernel, through signals between calls and a stop that becomes a     *)
(* kill, and a refused call never runs, unless a kill from elsewhere ran   *)
(* it.                                                                     *)
TracerGuards ==
    /\ \A c \in executed : get_action(tunables, c)
    /\ session = "stopped" /\ tracer = "wait" /\ stopsig = "SYSTRAP"
          => is_exit = (kernel = "exit")
    /\ tracer \in {"done", "failed"} => session \in {"none", "dead"} /\ ~pid
    /\ raced # {} => session = "dead"

=============================================================================
