----------------------------- MODULE Standalone -----------------------------
(***************************************************************************)
(* The standalone listener: vsf_standalone_main and its two deferred       *)
(* signal handlers (standalone.c), the hash tables it keeps (hash.c), the  *)
(* synchronous signal framework it runs under (sysutil.c), and the part of *)
(* each session child that the listener's numbers decide (prelogin.c).     *)
(*                                                                         *)
(* The listener is one thread.  A signal only sets a pending flag and arms *)
(* a one second alarm; its real handler runs after accept() returns.  So   *)
(* the interleavings that matter are: children that exit, signals that     *)
(* arrive and an alarm that fires between any two steps of the listener.   *)
(***************************************************************************)
EXTENDS Integers, FiniteSets

CONSTANTS
    Pids,     \* process ids the kernel can hand to children
    NoPid,    \* "no process": the value of new_child outside the launch
    Addrs,    \* client internet addresses
    NoAddr,   \* "no address": no connection, or no entry in the pid table
    Configs   \* the limits a configuration file may hold, 0 = unlimited

Limits == [max_clients : Nat, max_per_ip : Nat]

ASSUME StandaloneAssumption ==
    /\ IsFiniteSet(Pids)
    /\ NoPid \notin Pids
    /\ NoAddr \notin Addrs
    /\ Configs \subseteq Limits
    /\ Configs # {}

VARIABLES
    pc,          \* where the listener is, see Locations
    i,           \* the signal the loop of check_pending_actions looks at
    pending,     \* s_sig_details[].pending
    alarm,       \* is the process alarm armed?
    conn,        \* peer of the accepted connection, NoAddr if none
    newpid,      \* new_child, the pid fork() returned
    tunables,    \* tunable_max_clients and tunable_max_per_ip
    s_children,  \* the number of children the listener thinks it has
    ip_keys,     \* keys present in s_p_ip_count_hash
    ip_count,    \* values of s_p_ip_count_hash, 0 where there is no key
    pid_ip,      \* s_p_pid_ip_hash, NoAddr where there is no key
    procs,       \* kernel: the state of each child process
    peer,        \* kernel: the client a child is connected to
    launch       \* the vsf_client_launch and the tunables a child inherited

signals  == <<i, pending, alarm>>
tables   == <<s_children, ip_keys, ip_count, pid_ip>>
children == <<procs, peer, launch>>
vars == <<pc, i, pending, alarm, conn, newpid, tunables, s_children, ip_keys,
          ip_count, pid_ip, procs, peer, launch>>

-----------------------------------------------------------------------------

Signals == {"HUP", "CHLD"}

(* "top": about to call accept(); "blocked": asleep in it; "test",         *)
(* "cancel", "run": the loop of check_pending_actions; "reap": the loop of *)
(* handle_sigchld; "count", "fork", "undo", "record": a new client;        *)
(* "bug": the listener died in bug() or on a null table entry.             *)
Locations == {"top", "blocked", "test", "cancel", "run", "reap",
              "count", "fork", "undo", "record", "bug"}

(* "new": forked, limits not checked yet; "serving": check_limits passed;  *)
(* "zombie": exited, not waited for.                                       *)
ProcStates == {"free", "new", "serving", "zombie"}

Launch == [num_children : Nat, num_this_ip : Nat,
           max_clients : Nat, max_per_ip : Nat]

NoLaunch == [num_children |-> 0, num_this_ip |-> 0,
             max_clients |-> 0, max_per_ip |-> 0]

Init ==
    /\ pc = "top"
    /\ i = "HUP"
    /\ pending = [s \in Signals |-> FALSE]
    /\ alarm = FALSE
    /\ conn = NoAddr
    /\ newpid = NoPid
    /\ tunables \in Configs
    /\ s_children = 0
    /\ ip_keys = {}
    /\ ip_count = [a \in Addrs |-> 0]
    /\ pid_ip = [p \in Pids |-> NoAddr]
    /\ procs = [p \in Pids |-> "free"]
    /\ peer = [p \in Pids |-> NoAddr]
    /\ launch = [p \in Pids |-> NoLaunch]

-----------------------------------------------------------------------------
(* The synchronous signal framework.                                       *)

(* Mutant: the handler only sets the flag.                                 *)
DeliverNoAlarm(s) ==
    /\ pending' = [pending EXCEPT ![s] = TRUE]
    /\ pc' = IF pc = "blocked" THEN "test" ELSE pc
    /\ i' = IF pc = "blocked" THEN "HUP" ELSE i
    /\ UNCHANGED alarm

(* Delivery of a signal whose deferred handler is installed with use_alarm:*)
(* a blocked accept() fails with EINTR, anything else carries on.          *)
Deliver(s) ==
    /\ pending' = [pending EXCEPT ![s] = TRUE]
    /\ alarm' = TRUE
    /\ pc' = IF pc = "blocked" THEN "test" ELSE pc
    /\ i' = IF pc = "blocked" THEN "HUP" ELSE i

(* The alarm only has to interrupt accept(): its handler arms it again.    *)
AlarmFires ==
    /\ alarm
    /\ pc = "blocked"
    /\ pc' = "test"
    /\ i' = "HUP"
    /\ UNCHANGED <<pending, alarm, conn, newpid, tunables, tables, children>>

(* One iteration of the loop is over; SIGHUP is 1 and SIGCHLD 17, and the  *)
(* loop goes up.  After the last one accept_timeout returns.               *)
NextSignal ==
    /\ i' = IF i = "HUP" THEN "CHLD" ELSE "HUP"
    /\ pc' = IF i = "HUP" THEN "test"
             ELSE IF conn = NoAddr THEN "top" ELSE "count"

(* if (pending && !running)                                                *)
TestPending ==
    /\ pc = "test"
    /\ IF pending[i] THEN pc' = "cancel" /\ i' = i ELSE NextSignal
    /\ UNCHANGED <<pending, alarm, conn, newpid, tunables, tables, children>>

(* running = 1; alarm(0)                                                   *)
CancelAlarm ==
    /\ pc = "cancel"
    /\ alarm' = FALSE
    /\ pc' = "run"
    /\ UNCHANGED <<i, pending, conn, newpid, tunables, tables, children>>

(* pending = 0, then handle_sighup: defaults, then whatever the file holds.*)
HandleSighup ==
    /\ pc = "run"
    /\ i = "HUP"
    /\ pending' = [pending EXCEPT !["HUP"] = FALSE]
    /\ tunables' \in Configs
    /\ NextSignal
    /\ UNCHANGED <<alarm, conn, newpid, tables, children>>

(* pending = 0, then into the loop of handle_sigchld.                      *)
StartSigchld ==
    /\ pc = "run"
    /\ i = "CHLD"
    /\ pending' = [pending EXCEPT !["CHLD"] = FALSE]
    /\ pc' = "reap"
    /\ UNCHANGED <<i, alarm, conn, newpid, tunables, tables, children>>

-----------------------------------------------------------------------------
(* The tables.                                                             *)

(* Mutant: an off-by-one in the test for a zero count.                     *)
DropOKOffByOne(a) == a \in ip_keys /\ ip_count[a] > 1

(* drop_ip_count fails in bug() on a missing entry or a zero count.        *)
DropOK(a) == a \in ip_keys /\ ip_count[a] # 0

(* One client less at an address; the entry goes with the last.            *)
DropIpCount(a) ==
    /\ ip_count' = [ip_count EXCEPT ![a] = @ - 1]
    /\ ip_keys' = IF ip_count[a] = 1 THEN ip_keys \ {a} ELSE ip_keys

(* handle_ip_count: a new entry counts 1.                                  *)
HandleIpCount(a) ==
    /\ ip_count' = [ip_count EXCEPT ![a] = IF a \in ip_keys THEN @ + 1 ELSE 1]
    /\ ip_keys' = ip_keys \cup {a}

Bug ==
    /\ pc' = "bug"
    /\ UNCHANGED <<ip_keys, ip_count, pid_ip>>

-----------------------------------------------------------------------------
(* handle_sigchld: waitpid(-1, WNOHANG) until it finds no zombie.          *)

ReapOne(p) ==
    /\ pc = "reap"
    /\ procs[p] = "zombie"
    /\ procs' = [procs EXCEPT ![p] = "free"]
    /\ peer' = [peer EXCEPT ![p] = NoAddr]
    /\ launch' = [launch EXCEPT ![p] = NoLaunch]
    /\ s_children' = s_children - 1
    /\ IF pid_ip[p] # NoAddr /\ DropOK(pid_ip[p])
       THEN /\ DropIpCount(pid_ip[p])
            /\ pid_ip' = [pid_ip EXCEPT ![p] = NoAddr]
            /\ pc' = "reap"
       ELSE Bug
    /\ UNCHANGED <<signals, conn, newpid, tunables>>

ReapDone ==
    /\ pc = "reap"
    /\ \A p \in Pids : procs[p] # "zombie"
    /\ NextSignal
    /\ UNCHANGED <<pending, alarm, conn, newpid, tunables, tables, children>>

-----------------------------------------------------------------------------
(* The accept loop.                                                        *)

(* No connection is waiting: accept() goes to sleep.                       *)
Block ==
    /\ pc = "top"
    /\ pc' = "blocked"
    /\ UNCHANGED <<signals, conn, newpid, tunables, tables, children>>

(* accept() returns a connection, or fails (a is NoAddr); either way the   *)
(* pending actions are checked before the listener looks at the result.    *)
Accept(a) ==
    /\ pc \in {"top", "blocked"}
    /\ conn' = a
    /\ pc' = "test"
    /\ i' = "HUP"
    /\ UNCHANGED <<pending, alarm, newpid, tunables, tables, children>>

CountClient ==
    /\ pc = "count"
    /\ s_children' = s_children + 1
    /\ HandleIpCount(conn)
    /\ pc' = "fork"
    /\ UNCHANGED <<signals, conn, newpid, tunables, pid_ip, children>>

(* fork() succeeds: the child holds the numbers counted a step ago and a   *)
(* copy of the limits of this moment.                                      *)
Fork(p) ==
    /\ pc = "fork"
    /\ procs[p] = "free"
    /\ procs' = [procs EXCEPT ![p] = "new"]
    /\ peer' = [peer EXCEPT ![p] = conn]
    /\ launch' = [launch EXCEPT ![p] =
                     [num_children |-> s_children,
                      num_this_ip  |-> ip_count[conn],
                      max_clients  |-> tunables.max_clients,
                      max_per_ip   |-> tunables.max_per_ip]]
    /\ newpid' = p
    /\ pc' = "record"
    /\ UNCHANGED <<signals, conn, tunables, tables>>

ForkFails ==
    /\ pc = "fork"
    /\ pc' = "undo"
    /\ UNCHANGED <<signals, conn, newpid, tunables, tables, children>>

(* Mutant: the failed fork is taken back in one table only.                *)
UndoCountIpOnly ==
    /\ pc = "undo"
    /\ IF DropOK(conn)
       THEN DropIpCount(conn) /\ pc' = "top" /\ pid_ip' = pid_ip
       ELSE Bug
    /\ conn' = NoAddr
    /\ UNCHANGED <<s_children, signals, newpid, tunables, children>>

UndoCount ==
    /\ pc = "undo"
    /\ s_children' = s_children - 1
    /\ IF DropOK(conn)
       THEN DropIpCount(conn) /\ pc' = "top" /\ pid_ip' = pid_ip
       ELSE Bug
    /\ conn' = NoAddr
    /\ UNCHANGED <<signals, newpid, tunables, children>>

(* close() of the client socket, then hash_add_entry, which fails in bug() *)
(* on a key that is already there.                                         *)
RecordChild ==
    /\ pc = "record"
    /\ IF pid_ip[newpid] = NoAddr
       THEN /\ pid_ip' = [pid_ip EXCEPT ![newpid] = conn]
            /\ pc' = "top"
            /\ UNCHANGED <<ip_keys, ip_count>>
       ELSE Bug
    /\ conn' = NoAddr
    /\ newpid' = NoPid
    /\ UNCHANGED <<signals, tunables, s_children, children>>

-----------------------------------------------------------------------------
(* The children, and whoever sends SIGHUP.                                 *)

(* Mutants: an off-by-one in the first test, the second test left out.     *)
WithinLimitsOffByOne(l) ==
    /\ l.max_clients > 0 => l.num_children <= l.max_clients + 1
    /\ l.max_per_ip > 0 => l.num_this_ip <= l.max_per_ip

WithinMaxClientsOnly(l) ==
    l.max_clients > 0 => l.num_children <= l.max_clients

(* The tests of check_limits in the child.                                 *)
WithinLimits(l) ==
    /\ l.max_clients > 0 => l.num_children <= l.max_clients
    /\ l.max_per_ip > 0 => l.num_this_ip <= l.max_per_ip

(* By then the child's limits are the ones it was forked with or, where    *)
(* tcp_wrappers names one for this client, those of a per-IP configuration *)
(* file (VSFTPD_LOAD_CONF).                                                *)
CheckLimits(p, c) ==
    /\ procs[p] = "new"
    /\ launch' = [launch EXCEPT ![p] = [@ EXCEPT !.max_clients = c.max_clients,
                                                 !.max_per_ip = c.max_per_ip]]
    /\ WithinLimits(launch'[p])
    /\ procs' = [procs EXCEPT ![p] = "serving"]
    /\ UNCHANGED <<pc, signals, conn, newpid, tunables, tables, peer>>

(* A refused child exits; a child may also die or finish at any moment.    *)
(* (Nothing is modelled after the listener itself has died.)               *)
ChildExit(p) ==
    /\ procs[p] \in {"new", "serving"}
    /\ pc # "bug"
    /\ procs' = [procs EXCEPT ![p] = "zombie"]
    /\ Deliver("CHLD")
    /\ UNCHANGED <<conn, newpid, tunables, tables, peer, launch>>

SendSighup ==
    /\ pc # "bug"
    /\ Deliver("HUP")
    /\ UNCHANGED <<conn, newpid, tunables, tables, children>>

-----------------------------------------------------------------------------

(* Steps the listener takes by itself once it runs.                        *)
ListenerStep ==
    \/ TestPending
    \/ CancelAlarm
    \/ HandleSighup
    \/ StartSigchld
    \/ \E p \in Pids : ReapOne(p)
    \/ ReapDone
    \/ Block
    \/ CountClient
    \/ \E p \in Pids : Fork(p)
    \/ ForkFails
    \/ UndoCount
    \/ RecordChild

Next ==
    \/ ListenerStep
    \/ AlarmFires
    \/ \E a \in Addrs \cup {NoAddr} : Accept(a)
    \/ \E p \in Pids, c \in Configs : CheckLimits(p, c)
    \/ \E p \in Pids : ChildExit(p)
    \/ SendSighup

Spec == Init /\ [][Next]_vars

(* The kernel schedules the listener and lets an armed alarm expire; it    *)
(* owes nobody a client, a SIGHUP or the end of a session.                 *)
FairSpec == Spec /\ WF_vars(ListenerStep) /\ WF_vars(AlarmFires)

-----------------------------------------------------------------------------
(* Properties.                                                             *)

Unreaped == {p \in Pids : procs[p] # "free"}
UnreapedFrom(a) == {p \in Unreaped : peer[p] = a}
Serving == {p \in Pids : procs[p] = "serving"}

(* A client that is counted but has no process (yet, or any more).         *)
Uncovered == pc \in {"fork", "undo"}

(* Every variable has its type; in particular the unsigned counters of     *)
(* standalone.c never go below zero.                                       *)
TypeOK ==
    /\ pc \in Locations
    /\ i \in Signals
    /\ pending \in [Signals -> BOOLEAN]
    /\ alarm \in BOOLEAN
    /\ conn \in Addrs \cup {NoAddr}
    /\ newpid \in Pids \cup {NoPid}
    /\ tunables \in Configs
    /\ s_children \in Nat
    /\ ip_keys \in SUBSET Addrs
    /\ ip_count \in [Addrs -> Nat]
    /\ pid_ip \in [Pids -> Addrs \cup {NoAddr}]
    /\ procs \in [Pids -> ProcStates]
    /\ peer \in [Pids -> Addrs \cup {NoAddr}]
    /\ launch \in [Pids -> Launch]

(* handle_sigchld, drop_ip_count and hash_add_entry never reach a bug()    *)
(* call, whatever the order of forks, exits, failures and signals.         *)
NoBug == pc # "bug"

(* s_children (standalone.c) is exactly the number of children not yet     *)
(* waited for, plus the client being launched, at every moment.            *)
ChildrenCounted ==
    s_children = Cardinality(Unreaped) + (IF Uncovered THEN 1 ELSE 0)

(* s_p_ip_count_hash holds, for every address, exactly the number of its   *)
(* children not yet waited for (plus the client being launched), and keeps *)
(* no entry for an address without any: the table cannot leak or drift.    *)
IpCounted ==
    /\ \A a \in Addrs :
          ip_count[a] = Cardinality(UnreapedFrom(a))
                        + (IF Uncovered /\ conn = a THEN 1 ELSE 0)
    /\ ip_keys = {a \in Addrs : ip_count[a] > 0}

(* s_p_pid_ip_hash maps every child not yet waited for to its client,      *)
(* except the one whose fork() has just returned.                          *)
PidsRecorded ==
    \A p \in Pids :
        pid_ip[p] = IF procs[p] # "free" /\ ~(pc = "record" /\ newpid = p)
                    THEN peer[p] ELSE NoAddr

(* The listener's books agree with the processes that really exist: the    *)
(* counter, the table of addresses and the table of pids, through failed   *)
(* forks, children that exit before they are entered, and reused pids.     *)
BooksExact == ChildrenCounted /\ IpCounted /\ PidsRecorded

(* The purpose of max_clients: the sessions admitted under a limit of at   *)
(* most m are never more than m, even while SIGHUP changes the limit and   *)
(* older sessions live on under the one they were forked with.             *)
MaxClientsHolds ==
    \A c \in Configs :
        Cardinality({p \in Serving : launch[p].max_clients \in 1..c.max_clients})
            <= c.max_clients

(* The same for max_per_ip and the sessions of one address.                *)
MaxPerIpHolds ==
    \A c \in Configs : \A a \in Addrs :
        Cardinality({p \in Serving : /\ peer[p] = a
                                     /\ launch[p].max_per_ip \in 1..c.max_per_ip})
            <= c.max_per_ip

(* Both limits together: what an administrator sets them for.              *)
SessionsWithinLimits == MaxClientsHolds /\ MaxPerIpHolds

(* What the accounting rests on between two steps of the listener: while a *)
(* client is being launched its address is known, the process table and    *)
(* the peers agree, and the child to be recorded is the one just forked.   *)
LaunchConsistent ==
    /\ pc \in {"count", "fork", "undo", "record"} => conn \in Addrs
    /\ \A p \in Pids : (procs[p] # "free") <=> (peer[p] \in Addrs)
    /\ pc = "record" => /\ newpid \in Pids
                        /\ procs[newpid] # "free"
                        /\ peer[newpid] = conn

(* Why the limits hold without any order on the children: the numbers the  *)
(* listener hands out (num_children, num_this_ip) are such that at most n  *)
(* of the children not yet waited for hold a number of at most n.          *)
GrantsBounded ==
    \A c \in Configs :
        /\ Cardinality({p \in Unreaped : launch[p].num_children <= c.max_clients})
              <= c.max_clients
        /\ \A a \in Addrs :
              Cardinality({p \in UnreapedFrom(a) :
                              launch[p].num_this_ip <= c.max_per_ip})
                 <= c.max_per_ip

(* A serving child passed check_limits with the numbers it was launched    *)
(* with.                                                                   *)
ServingWithinLimits == \A p \in Serving : WithinLimits(launch[p])

(* The limits a child was launched with, as the record Admission uses.     *)
LimitsOf(p) == [max_clients |-> launch[p].max_clients,
                max_per_ip  |-> launch[p].max_per_ip]

(* A child runs under limits that some configuration file really held.     *)
LimitsLoaded == \A p \in Unreaped : LimitsOf(p) \in Configs

(* The inductive invariant.                                                *)
IInv ==
    /\ TypeOK
    /\ NoBug
    /\ ChildrenCounted
    /\ IpCounted
    /\ PidsRecorded
    /\ LaunchConsistent
    /\ GrantsBounded
    /\ ServingWithinLimits

(* Refinement: the serving children are the active sessions of Admission,  *)
(* which are admitted and leave one by one and never beyond the limits.    *)
Sessions == INSTANCE Admission WITH
    Sessions <- Pids,
    active <- Serving,
    client <- [p \in Pids |-> IF p \in Serving THEN peer[p] ELSE NoAddr],
    limit <- [p \in Pids |->
                 IF p \in Serving THEN LimitsOf(p)
                 ELSE [max_clients |-> 0, max_per_ip |-> 0]]

ImplementsAdmission == Sessions!Spec

(* Every child that exits is waited for, even if its SIGCHLD arrives just  *)
(* before accept() blocks or while handle_sigchld runs, with no further    *)
(* client or signal to wake the listener: the alarm is what guarantees it. *)
ZombiesReaped ==
    \A p \in Pids : procs[p] = "zombie" ~> procs[p] = "free"

(* The comment in vsf_sysutil_common_sighandler promises an alarm "until   *)
(* the signal is handled": a pending SIGHUP is eventually handled.         *)
SighupHandled == pending["HUP"] ~> ~pending["HUP"]

=============================================================================
