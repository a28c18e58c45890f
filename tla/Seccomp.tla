------------------------------ MODULE Seccomp -------------------------------
(* The system call filter of seccompsandbox.c: the list of rules a process *)
(* collects before it locks itself down, the BPF program the list is       *)
(* compiled to, and the kernel's verdict on a call.  A configuration is    *)
(* the set of its switches that are on (a timeout is "on" if not 0), an    *)
(* argument of a call the set of the flags it holds, and 0 the empty set.  *)
EXTENDS Integers, Sequences, FiniteSets

CONSTANTS
    Configs,     \* the configurations tried: sets of switches
    Roles        \* the processes that lock themselves down

ASSUME SeccompRoles == Roles \subseteq {"prelogin", "postlogin", "one_process", "broker"}

VARIABLES
    role,        \* which process this is
    conf,        \* its configuration
    anon,        \* is_anonymous when the rules were collected
    rules,       \* s_syscalls, s_errnos, s_args_*, s_vals_*
    filter       \* the program handed to the kernel; <<>> before

seccompVars == <<role, conf, anon, rules, filter>>

kMaxSyscalls == 100

O_ACCMODE == {"O_WRONLY", "O_RDWR"}
kOpenFlags == {"O_CREAT", "O_EXCL", "O_APPEND", "O_NONBLOCK", "O_DIRECTORY",
               "O_CLOEXEC", "O_LARGEFILE"}

-----------------------------------------------------------------------------
(* One rule: the call, the error to return instead (if any), and up to     *)
(* three arguments <<position, value>> to compare; the first of them may   *)
(* be a mask of permitted flags instead.                                   *)

NoError == "none"

Rule(nr, errno, args, masked) ==
    <<[nr |-> nr, errno |-> errno, args |-> args, masked |-> masked]>>

allow_nr(nr) == Rule(nr, NoError, <<>>, FALSE)
reject_nr(nr, errcode) == Rule(nr, errcode, <<>>, FALSE)
allow_nr_1_arg_match(nr, a, v) == Rule(nr, NoError, <<<<a, v>>>>, FALSE)
allow_nr_1_arg_mask(nr, a, v) == Rule(nr, NoError, <<<<a, v>>>>, TRUE)
allow_nr_2_arg_match(nr, a, v, b, w) == Rule(nr, NoError, <<<<a, v>>, <<b, w>>>>, FALSE)
allow_nr_2_arg_mask_match(nr, a, v, b, w) == Rule(nr, NoError, <<<<a, v>>, <<b, w>>>>, TRUE)
allow_nr_3_arg_match(nr, a, v, b, w, c, x) ==
    Rule(nr, NoError, <<<<a, v>>, <<b, w>>, <<c, x>>>>, FALSE)

AllowAll(nrs) == [n \in DOMAIN nrs |-> allow_nr(nrs[n])[1]]
When(cond, list) == IF cond THEN list ELSE <<>>

seccomp_sandbox_setup_data_connections(t) ==
    allow_nr_3_arg_match("socket", 1, {"PF_INET"}, 2, {"SOCK_STREAM"}, 3, {"IPPROTO_TCP"})
    \o allow_nr_3_arg_match("socket", 1, {"PF_INET6"}, 2, {"SOCK_STREAM"},
                            3, {"IPPROTO_TCP"})
    \o AllowAll(<<"bind", "select">>)
    \o When("port_enable" \in t,
            allow_nr("connect")
            \o allow_nr_2_arg_match("getsockopt", 2, {"SOL_SOCKET"}, 3, {"SO_ERROR"})
            \o allow_nr_2_arg_match("setsockopt", 2, {"SOL_SOCKET"}, 3, {"SO_REUSEADDR"})
            \o allow_nr_1_arg_match("fcntl", 2, {"F_GETFL"})
            \o allow_nr_2_arg_match("fcntl", 2, {"F_SETFL"}, 3, {"O_RDWR", "O_NONBLOCK"})
            \o allow_nr_2_arg_match("fcntl", 2, {"F_SETFL"}, 3, {"O_RDWR"}))
    \o When("pasv_enable" \in t, AllowAll(<<"listen", "accept">>))

seccomp_sandbox_setup_base ==
    AllowAll(<<"read", "write">>)
    \o allow_nr_2_arg_match("mmap", 3, {"PROT_READ", "PROT_WRITE"},
                            4, {"MAP_PRIVATE", "MAP_ANON"})
    \o allow_nr_1_arg_mask("mprotect", 3, {"PROT_READ"})
    \o AllowAll(<<"munmap", "brk">>)
    \o reject_nr("mremap", "ENOSYS")
    \o AllowAll(<<"gettimeofday", "rt_sigreturn", "restart_syscall", "close",
                  "exit_group">>)

(* Mutant: waiting for the lock is allowed, releasing it is not.           *)
FileLocksWaiting == allow_nr_1_arg_match("fcntl", 2, {"F_SETLKW"})

(* The log and the upload locks: F_SETLKW locks, F_SETLK unlocks.          *)
FileLocks ==
    allow_nr_1_arg_match("fcntl", 2, {"F_SETLKW"})
    \o allow_nr_1_arg_match("fcntl", 2, {"F_SETLK"})

seccomp_sandbox_setup_prelogin(t) ==
    seccomp_sandbox_setup_base
    \o allow_nr_1_arg_match("recvfrom", 4, {"MSG_PEEK"})
    \o AllowAll(<<"nanosleep", "getpid", "shutdown">>)
    \o allow_nr_1_arg_match("fcntl", 2, {"F_GETFL"})
    \o allow_nr_2_arg_mask_match("fcntl", 3, kOpenFlags \cup O_ACCMODE, 2, {"F_SETFL"})
    \o When("idle_session_timeout" \in t, AllowAll(<<"rt_sigaction", "alarm">>))
    \o When(t \cap {"xferlog_enable", "dual_log_enable"} # {}, FileLocks)
    \o When("ssl_enable" \in t,
            allow_nr_1_arg_match("recvmsg", 3, {})
            \o allow_nr_2_arg_match("setsockopt", 2, {"IPPROTO_TCP"}, 3, {"TCP_NODELAY"}))
    \o When("syslog_enable" \in t, reject_nr("socket", "EACCES"))

(* The part that depends on what the user may write.                       *)
WriteRules(t, is_anon) ==
    LET other == ~is_anon \/ "anon_other_write_enable" \in t
    IN  When(~is_anon \/ "anon_mkdir_write_enable" \in t, allow_nr("mkdir"))
        \o When(other \/ "delete_failed_uploads" \in t, allow_nr("unlink"))
        \o When(other, AllowAll(<<"rmdir", "rename", "ftruncate">>))
        \o When(other /\ "mdtm_write" \in t, AllowAll(<<"utime", "utimes">>))
        \o When(~is_anon /\ "chmod_enable" \in t, allow_nr("chmod"))

seccomp_sandbox_setup_postlogin(t, is_anon) ==
    LET open_flag == IF "write_enable" \in t THEN kOpenFlags \cup O_ACCMODE ELSE kOpenFlags
        timeouts == t \cap {"idle_session_timeout", "data_connection_timeout"}
        chown == is_anon /\ "chown_uploads" \in t
    IN  allow_nr("lstat")
        \o seccomp_sandbox_setup_prelogin(t)
        \o When(t \cap {"xferlog_enable", "dual_log_enable", "lock_upload_files"} # {},
                FileLocks)
        \o When("async_abor_enable" \in t,
                allow_nr_2_arg_match("fcntl", 2, {"F_SETOWN"}, 3, {"pid"}))
        \o allow_nr_2_arg_match("setsockopt", 2, {"SOL_SOCKET"}, 3, {"SO_KEEPALIVE"})
        \o allow_nr_2_arg_match("setsockopt", 2, {"SOL_SOCKET"}, 3, {"SO_LINGER"})
        \o allow_nr_2_arg_match("setsockopt", 2, {"IPPROTO_IP"}, 3, {"IP_TOS"})
        \o AllowAll(<<"fstat", "lseek">>)
        \o allow_nr_1_arg_mask("open", 2, open_flag)
        \o allow_nr_1_arg_mask("openat", 3, open_flag)
        \o AllowAll(<<"stat", "readlink", "getcwd", "chdir", "getdents", "umask">>)
        \o When("use_sendfile" \in t, allow_nr("sendfile"))
        \o When(timeouts # {} \/ "async_abor_enable" \in t, allow_nr("rt_sigaction"))
        \o When(timeouts # {}, allow_nr("alarm"))
        \o (IF "one_process_model" \in t
            THEN seccomp_sandbox_setup_data_connections(t)
                 \o When(chown, AllowAll(<<"fchmod", "fchown">>))
            ELSE allow_nr_1_arg_match("recvmsg", 3, {})
                 \o When(chown \/ "ssl_enable" \in t, allow_nr_1_arg_match("sendmsg", 3, {})))
        \o When("syslog_enable" \in t, allow_nr_1_arg_match("sendto", 6, {}))
        \o When("text_userdb_names" \in t,
                reject_nr("socket", "EACCES")
                \o allow_nr_2_arg_match("mmap", 3, {"PROT_READ"}, 4, {"MAP_SHARED"}))
        \o When("write_enable" \in t, WriteRules(t, is_anon))

seccomp_sandbox_setup_postlogin_broker(t) ==
    seccomp_sandbox_setup_base
    \o seccomp_sandbox_setup_data_connections(t)
    \o allow_nr_1_arg_match("sendmsg", 3, {})

-----------------------------------------------------------------------------
(* seccomp_sandbox_lockdown: the program, one block per rule.              *)

Ld(k) == [op |-> "ld", k |-> k]
LdArg(n) == [op |-> "ldarg", k |-> n]
Jump(op, k, jt, jf) == [op |-> op, k |-> k, jt |-> jt, jf |-> jf]
Ret(k) == [op |-> "ret", k |-> k]

Header == <<Ld("arch"), Jump("jeq", "X86_64", 1, 0), Ret("KILL"), Ld("nr")>>

(* Mutant: a failed third argument lands on the block's own verdict.       *)
ArgFailsShort(n) == 2 * n - 2

(* How far a failed comparison of argument n jumps: over the other         *)
(* arguments' comparisons and the verdict, onto the reload of the number.  *)
ArgFails(n) == 2 * n - 1

(* The comparison of argument n, if the rule has one; a mask jumps if a    *)
(* flag outside it is set.                                                 *)
CompareArg(r, n) ==
    IF n > Len(r.args) THEN <<>>
    ELSE <<LdArg(r.args[n][1]),
           IF n = 1 /\ r.masked THEN Jump("jset", r.args[n][2], 1, 0)
           ELSE Jump("jeq", r.args[n][2], 0, ArgFails(n))>>

BlockSize(r) == IF Len(r.args) = 0 THEN 1 ELSE 2 * Len(r.args) + 2

Block(r) ==
    <<Jump("jeq", r.nr, 0, BlockSize(r))>>
    \o CompareArg(r, 3) \o CompareArg(r, 2) \o CompareArg(r, 1)
    \o <<Ret(IF r.errno = NoError THEN "ALLOW" ELSE r.errno)>>
    \o When(Len(r.args) > 0, <<Ld("nr")>>)

(* What is written after each turn of the loop over the rules.             *)
Written(list) ==
    LET Upto[i \in 0..Len(list)] ==
            IF i = 0 THEN Header ELSE Upto[i - 1] \o Block(list[i])
    IN  Upto

Program(list) == Written(list)[Len(list)] \o <<Ret("KILL")>>

(* The length of the array the program is written into.                    *)
ProgramLength(list) ==
    LET WithArgs(n) == Cardinality({i \in DOMAIN list : Len(list[i].args) = n})
    IN  Len(list) * 2 + WithArgs(1) * 3 + WithArgs(2) * 5 + WithArgs(3) * 7 + 5

(* The kernel runs the program on a call: the accumulator holds the word   *)
(* loaded last, a jump is relative to the next instruction, and jset with  *)
(* the complemented mask asks for a flag outside it.  Every instruction    *)
(* but the last one, which returns, goes forward.                          *)
Instruction(prog, call, m) ==
    LET ins == prog[m.pc]
        Go(d) == [pc |-> m.pc + 1 + d, acc |-> m.acc]
        Load(word) == [pc |-> m.pc + 1, acc |-> word]
    IN  CASE ins.op = "ret"   -> m
          [] ins.op = "ld"    -> Load(call[ins.k])
          [] ins.op = "ldarg" -> Load(call.args[ins.k])
          [] ins.op = "jeq"   -> Go(IF m.acc = ins.k THEN ins.jt ELSE ins.jf)
          [] ins.op = "jset"  -> Go(IF m.acc \ ins.k # {} THEN ins.jt ELSE ins.jf)

Execution(prog, call) ==
    LET After[k \in 0..Len(prog)] ==
            IF k = 0 THEN [pc |-> 1, acc |-> "none"]
            ELSE Instruction(prog, call, After[k - 1])
    IN  After

Verdict(call) == filter[Execution(filter, call)[Len(filter)].pc].k

-----------------------------------------------------------------------------
(* The life of a sandboxed process.  The one process of the one process    *)
(* model locks itself down before its user has logged in.                  *)

SeccompInit ==
    /\ role \in Roles
    /\ conf \in Configs
    /\ anon \in BOOLEAN
    /\ role = "one_process" <=> "one_process_model" \in conf
    /\ role = "one_process" => ~anon
    /\ rules = <<>>
    /\ filter = <<>>

(* The calls of twoprocess.c, postprivparent.c and oneprocess.c.           *)
RulesOf(r, t, a) ==
    CASE r = "prelogin"    -> seccomp_sandbox_setup_prelogin(t)
      [] r = "postlogin"   -> seccomp_sandbox_setup_postlogin(t, a)
      [] r = "one_process" -> seccomp_sandbox_setup_postlogin(t, a)
      [] r = "broker"      -> seccomp_sandbox_setup_postlogin_broker(t)

SetupSandbox ==
    /\ rules = <<>>
    /\ rules' = RulesOf(role, conf, anon)
    /\ UNCHANGED <<role, conf, anon, filter>>

(* With seccomp_sandbox on and a kernel that knows filters; else nothing   *)
(* is filtered and there is nothing to ask.                                *)
seccomp_sandbox_lockdown ==
    /\ rules # <<>>
    /\ filter = <<>>
    /\ filter' = Program(rules)
    /\ UNCHANGED <<role, conf, anon, rules>>

SeccompNext == SetupSandbox \/ seccomp_sandbox_lockdown

SeccompSpec == SeccompInit /\ [][SeccompNext]_seccompVars

=============================================================================
