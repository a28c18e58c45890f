----------------------------- MODULE DataChannel ----------------------------
(***************************************************************************)
(* How a logged-in session sets up, uses and cleans up data connections    *)
(* with privilege separation: the unprivileged child (postlogin.c,         *)
(* ftpdataio.c) runs the FTP commands and asks the privileged parent       *)
(* (postprivparent.c, privops.c) over a socket pair (privsock.c,           *)
(* twoprocess.c) for everything that needs a listening socket, a           *)
(* privileged port or a chown.                                             *)
(*                                                                         *)
(* The two streams of the socket pair are modelled as sequences of what    *)
(* is written to them; a request is the command byte with its argument.    *)
(* Every remote call of every handler is a send and a wait of its own, so  *)
(* either process may die between any two of them.                         *)
(***************************************************************************)
EXTENDS Integers, Sequences

CONSTANTS
    PortPromiscuous,   \* tunable_port_promiscuous
    PasvPromiscuous,   \* tunable_pasv_promiscuous
    ChownUploads       \* tunable_chown_uploads, for an anonymous session

ASSUME DataChannelAssumption ==
    /\ PortPromiscuous \in BOOLEAN
    /\ PasvPromiscuous \in BOOLEAN
    /\ ChownUploads \in BOOLEAN

VARIABLES
    pc,              \* the child: where it is in which handler
    arg,             \* the child: argument of the PORT or EPRT being run
    port_sockaddr,   \* the child: p_port_sockaddr, None if not active
    data_fd,         \* the child: peer of the data connection, None if -1
    epsv_all,        \* the child: EPSV ALL was accepted
    ppc,             \* the parent: where it is
    listen_fd,       \* the parent: is pasv_listen_fd open?
    sock,            \* the parent: its copy of a data connection
    down, up         \* the streams child to parent and parent to child

child  == <<arg, port_sockaddr, data_fd, epsv_all>>
parent == <<ppc, listen_fd, sock>>
vars == <<pc, arg, port_sockaddr, data_fd, epsv_all, ppc, listen_fd, sock,
          down, up>>

None == "none"

(* Who is at the other end of a data connection.                           *)
Peers == {"client", "other"}

(* Arguments of PORT and EPRT: one that does not parse, another machine's  *)
(* address, a port below IPPORT_RESERVED, and one that is fine.            *)
Addresses == {"foreign", "reserved", "usable"}
PortArgs == Addresses \cup {"illegal"}

(* Where the child waits for the first answer of a call, and to which.     *)
CallOf ==
    [port1  |-> "PASV_CLEANUP", pasv1  |-> "PASV_CLEANUP",
     end    |-> "PASV_CLEANUP", pasv2  |-> "PASV_LISTEN",
     check1 |-> "PASV_ACTIVE",  check2 |-> "PASV_ACTIVE",
     get1   |-> "PASV_ACTIVE",  get2   |-> "PASV_ACTIVE",
     get3   |-> "PASV_ACTIVE",  chown  |-> "CHOWN",
     accept |-> "PASV_ACCEPT",  connect |-> "GET_DATA_SOCK"]

Waiting == DOMAIN CallOf

(* Where it waits for a second answer: a descriptor or an error number.    *)
Second == {"accept_fd", "accept_err", "connect_fd"}

(* Where it does not wait.  "bug" is a failed bug() check; the checks that *)
(* PORT and PASV are not both active fail by calling each other for ever.  *)
Running == {"idle", "file", "direct", "mark", "transfer", "cleanup"}
Stopped == {"gone", "bug"}

(* "wait": in priv_sock_get_cmd; "fd", "err": between the two writes of an *)
(* answer; "close": about to close its copy; "oops": died in a check of    *)
(* its own state or of a request; "gone": exited.                          *)
ParentLocations == {"wait", "fd", "err", "close", "oops", "gone"}

Result(r) == [kind |-> "result", val |-> r]
Number(n) == [kind |-> "int", val |-> n]
Fd(p)     == [kind |-> "fd", val |-> p]
Answers   == {Result("OK"), Result("BAD")} \cup {Number(n) : n \in -2..1}
             \cup {Fd(p) : p \in Peers}
Requests  == [cmd : {CallOf[l] : l \in Waiting}, port : Addresses \cup {None}]

Init ==
    /\ pc = "idle"
    /\ arg = None
    /\ port_sockaddr = None
    /\ data_fd = None
    /\ epsv_all = FALSE
    /\ ppc = "wait"
    /\ listen_fd = FALSE
    /\ sock = None
    /\ down = <<>>
    /\ up = <<>>

-----------------------------------------------------------------------------
(* Remote calls as the child makes them.                                   *)

(* The child writes a request and goes on to wait at l for the answer.     *)
Call(l) ==
    /\ pc' = l
    /\ down' = Append(down, [cmd |-> CallOf[l], port |-> None])

(* It reads the next thing on the stream.                                  *)
Read(a) ==
    /\ up # <<>>
    /\ Head(up) = a
    /\ up' = Tail(up)

-----------------------------------------------------------------------------
(* PASV and EPSV.                                                          *)

(* EPSV ALL, and the answers that change nothing.                          *)
EpsvAll ==
    /\ pc = "idle"
    /\ epsv_all' = TRUE
    /\ UNCHANGED <<pc, arg, port_sockaddr, data_fd, parent, down, up>>

(* PASV (refused after EPSV ALL) or EPSV: pasv_cleanup first.              *)
StartPasv(epsv) ==
    /\ pc = "idle"
    /\ epsv \/ ~epsv_all
    /\ Call("pasv1")
    /\ UNCHANGED <<child, parent, up>>

(* port_cleanup, then the parent is asked for a listening socket.          *)
PasvListen ==
    /\ pc = "pasv1"
    /\ Read(Result("OK"))
    /\ port_sockaddr' = None
    /\ Call("pasv2")
    /\ UNCHANGED <<arg, data_fd, epsv_all, parent>>

PasvDone ==
    /\ pc = "pasv2"
    /\ \E n \in -2..1 : Read(Number(n))
    /\ pc' = "idle"
    /\ UNCHANGED <<child, parent, down>>

-----------------------------------------------------------------------------
(* PORT and EPRT.                                                          *)

(* PORT is refused after EPSV ALL; EPRT is not, and clears the old address *)
(* before the call, PORT after it.                                         *)
StartPort(a, eprt) ==
    /\ pc = "idle"
    /\ eprt \/ ~epsv_all
    /\ arg' = a
    /\ port_sockaddr' = IF eprt THEN None ELSE port_sockaddr
    /\ Call("port1")
    /\ UNCHANGED <<data_fd, epsv_all, parent, up>>

(* The tests on the address: it parses, and unless promiscuous it is the   *)
(* client's own and the port is not reserved.                              *)
PortAccepted(a) ==
    /\ a # "illegal"
    /\ PortPromiscuous \/ a = "usable"

PortDone ==
    /\ pc = "port1"
    /\ Read(Result("OK"))
    /\ port_sockaddr' = IF PortAccepted(arg) THEN arg ELSE None
    /\ arg' = None
    /\ pc' = "idle"
    /\ UNCHANGED <<data_fd, epsv_all, parent, down>>

-----------------------------------------------------------------------------
(* RETR, LIST, NLST, STOR, APPE and STOU up to the data connection.        *)

(* data_transfer_checks_ok asks pasv_active first.                         *)
StartTransfer ==
    /\ pc = "idle"
    /\ Call("check1")
    /\ UNCHANGED <<child, parent, up>>

(* pasv_active answered yes: port_active must then say no.                 *)
ActiveYes(from, onward) ==
    /\ pc = from
    /\ Read(Number(1))
    /\ IF port_sockaddr # None
       THEN pc' = "bug" /\ down' = down
       ELSE onward
    /\ UNCHANGED <<child, parent>>

(* pasv_active answered no: port_active asks once more if PORT was given.  *)
ActiveNo(from, onward, neither) ==
    /\ pc = from
    /\ Read(Number(0))
    /\ IF port_sockaddr = None THEN neither ELSE onward
    /\ UNCHANGED <<child, parent>>

(* The second question of port_active.                                     *)
PortActive(from, onward) ==
    /\ pc = from
    /\ \/ Read(Number(0)) /\ onward
       \/ Read(Number(1)) /\ pc' = "bug" /\ down' = down
    /\ UNCHANGED <<child, parent>>

Goto(l) == pc' = l /\ down' = down

(* "Use PORT or PASV first." when neither is active.                       *)
CheckTransfer ==
    \/ ActiveYes("check1", Goto("file"))
    \/ ActiveNo("check1", Call("check2"), Goto("idle"))
    \/ PortActive("check2", Goto("file"))

(* Encryption required, permission denied, open failed: the set-up stays.  *)
FileFails ==
    /\ pc = "file"
    /\ pc' = "idle"
    /\ UNCHANGED <<child, parent, down, up>>

(* An upload may hand its file to the parent for chown.                    *)
FileOpened ==
    /\ pc = "file"
    /\ \/ Call("get1")
       \/ ChownUploads /\ Call("chown")
    /\ UNCHANGED <<child, parent, up>>

ChownDone ==
    /\ pc = "chown"
    /\ Read(Result("OK"))
    /\ Call("get1")
    /\ UNCHANGED <<child, parent>>

(* get_remote_transfer_fd checks again, with bug() if neither is active,   *)
(* and asks a last time which of the two it is.                            *)
GetRemoteTransferFd ==
    \/ ActiveYes("get1", Call("get3"))
    \/ ActiveNo("get1", Call("get2"), Goto("bug"))
    \/ PortActive("get2", Call("get3"))

(* PASV: ask the parent to accept.                                         *)
GetPasvFd == ActiveYes("get3", Call("accept"))

(* PORT: ask the parent to connect, or do it here if promiscuous.          *)
GetPortFd ==
    /\ pc = "get3"
    /\ Read(Number(0))
    /\ IF PortPromiscuous
       THEN Goto("direct")
       ELSE /\ pc' = "connect"
            /\ down' = Append(down, [cmd |-> "GET_DATA_SOCK",
                                     port |-> port_sockaddr])
    /\ UNCHANGED <<child, parent>>

-----------------------------------------------------------------------------
(* The data connection arrives, is used and is closed.                     *)

(* init_data_sock_params fails in bug() if there already is a connection.  *)
InitDataSock(p) ==
    /\ data_fd' = IF data_fd = None THEN p ELSE data_fd
    /\ pc' = IF data_fd = None THEN "mark" ELSE "bug"

(* Mutant: the error number that follows BAD is not read.                  *)
AcceptResultOnly ==
    /\ pc = "accept"
    /\ \/ Read(Result("OK")) /\ pc' = "accept_fd"
       \/ Read(Result("BAD")) /\ pc' = "cleanup"
    /\ UNCHANGED <<child, parent, down>>

(* The result of the call, then the descriptor or the error number.        *)
AcceptResult ==
    /\ pc = "accept"
    /\ \/ Read(Result("OK")) /\ pc' = "accept_fd"
       \/ Read(Result("BAD")) /\ pc' = "accept_err"
    /\ UNCHANGED <<child, parent, down>>

(* Mutant: the failed command returns without the clean-up.                *)
AcceptFailsReturns ==
    /\ pc = "accept_err"
    /\ \E n \in {-1, -2} : Read(Number(n))
    /\ pc' = "idle"
    /\ UNCHANGED <<child, parent, down>>

AcceptFails ==
    /\ pc = "accept_err"
    /\ \E n \in {-1, -2} : Read(Number(n))
    /\ pc' = "cleanup"
    /\ UNCHANGED <<child, parent, down>>

(* Mutant: the failure of the call is not checked.                         *)
ConnectResultUnchecked ==
    /\ pc = "connect"
    /\ \/ Read(Result("OK")) /\ pc' = "connect_fd"
       \/ Read(Result("BAD")) /\ pc' = "mark"
    /\ UNCHANGED <<child, parent, down>>

ConnectResult ==
    /\ pc = "connect"
    /\ \/ Read(Result("OK")) /\ pc' = "connect_fd"
       \/ Read(Result("BAD")) /\ pc' = "cleanup"
    /\ UNCHANGED <<child, parent, down>>

ReceiveFd ==
    /\ pc \in {"accept_fd", "connect_fd"}
    /\ \E p \in Peers : Read(Fd(p)) /\ InitDataSock(p)
    /\ UNCHANGED <<arg, port_sockaddr, epsv_all, parent, down>>

(* The child connects by itself, to whatever address PORT gave; a reserved *)
(* port is fatal.                                                          *)
ConnectDirect ==
    /\ pc = "direct"
    /\ CASE port_sockaddr = "reserved" ->
              pc' = "gone" /\ data_fd' = data_fd
         [] port_sockaddr = "foreign" ->
              \/ InitDataSock("other")
              \/ pc' = "cleanup" /\ data_fd' = data_fd
         [] OTHER ->
              \/ InitDataSock("client")
              \/ pc' = "cleanup" /\ data_fd' = data_fd
    /\ port_sockaddr' = IF pc' = "gone" THEN None ELSE port_sockaddr
    /\ UNCHANGED <<arg, epsv_all, parent, down, up>>

(* vsf_ftpdataio_dispose_transfer_fd, with bug() if there is none.         *)
Dispose ==
    /\ data_fd' = None
    /\ pc' = IF data_fd = None THEN "bug" ELSE "cleanup"

(* The 150 reply, then the SSL hand-shake, which may fail.                 *)
MarkConnect ==
    /\ pc = "mark"
    /\ \/ pc' = "transfer" /\ data_fd' = data_fd
       \/ Dispose
    /\ UNCHANGED <<arg, port_sockaddr, epsv_all, parent, down, up>>

(* Mutant: the command ends without the clean-up.                          *)
EndTransferReturns ==
    /\ pc = "transfer"
    /\ data_fd' = None
    /\ pc' = "idle"
    /\ UNCHANGED <<arg, port_sockaddr, epsv_all, parent, down, up>>

EndTransfer ==
    /\ pc = "transfer"
    /\ Dispose
    /\ UNCHANGED <<arg, port_sockaddr, epsv_all, parent, down, up>>

(* port_pasv_cleanup_out: port_cleanup, then pasv_cleanup.                 *)
Cleanup ==
    /\ pc = "cleanup"
    /\ port_sockaddr' = None
    /\ Call("end")
    /\ UNCHANGED <<arg, data_fd, epsv_all, parent, up>>

CommandDone ==
    /\ pc = "end"
    /\ Read(Result("OK"))
    /\ pc' = "idle"
    /\ UNCHANGED <<child, parent, down>>

-----------------------------------------------------------------------------
(* The parent: process_post_login_req, one request at a time.  A child     *)
(* that is gone cannot be answered, see ParentReap.                        *)

Alive == pc \notin Stopped

(* Reading a request, and answering it.                                    *)
Serve(cmd) ==
    /\ Alive
    /\ ppc = "wait"
    /\ down # <<>>
    /\ Head(down).cmd = cmd
    /\ down' = Tail(down)

Answer(a) == up' = Append(up, a)

(* A die() of the parent in a check of its own state or of a request.      *)
Oops == ppc' = "oops" /\ UNCHANGED <<listen_fd, sock, up>>

(* Mutant: nothing is answered when there was nothing to clean up.         *)
ServeCleanupSilent ==
    /\ Serve("PASV_CLEANUP")
    /\ listen_fd' = FALSE
    /\ IF listen_fd THEN Answer(Result("OK")) ELSE UNCHANGED up
    /\ UNCHANGED <<pc, child, ppc, sock>>

ServeCleanup ==
    /\ Serve("PASV_CLEANUP")
    /\ listen_fd' = FALSE
    /\ Answer(Result("OK"))
    /\ UNCHANGED <<pc, child, ppc, sock>>

ServeActive ==
    /\ Serve("PASV_ACTIVE")
    /\ Answer(Number(IF listen_fd THEN 1 ELSE 0))
    /\ UNCHANGED <<pc, child, parent>>

(* Trying up to nine ports; that none can be bound is ParentExit.          *)
ServeListen ==
    /\ Serve("PASV_LISTEN")
    /\ IF listen_fd
       THEN Oops
       ELSE /\ listen_fd' = TRUE
            /\ Answer(Number(1))
            /\ UNCHANGED <<ppc, sock>>
    /\ UNCHANGED <<pc, child>>

(* vsf_privop_accept_pasv: somebody connects in time, or nobody does; a    *)
(* connection from another address is closed again.                        *)
AcceptPasv(p) ==
    IF p = "client" \/ (p = "other" /\ PasvPromiscuous)
    THEN ppc' = "fd" /\ sock' = p /\ Answer(Result("OK"))
    ELSE ppc' = "err" /\ sock' = None /\ Answer(Result("BAD"))

ServeAccept ==
    /\ Serve("PASV_ACCEPT")
    /\ IF listen_fd
       THEN /\ \E p \in Peers \cup {None} : AcceptPasv(p)
            /\ UNCHANGED listen_fd
       ELSE Oops
    /\ UNCHANGED <<pc, child>>

(* vsf_privop_get_ftp_port_sock connects to the control connection's peer. *)
ServeDataSock ==
    /\ Serve("GET_DATA_SOCK")
    /\ IF listen_fd \/ Head(down).port = "reserved"
       THEN Oops
       ELSE /\ \/ ppc' = "fd" /\ sock' = "client" /\ Answer(Result("OK"))
               \/ UNCHANGED <<ppc, sock>> /\ Answer(Result("BAD"))
            /\ UNCHANGED listen_fd
    /\ UNCHANGED <<pc, child>>

(* Only dispatched if tunable_chown_uploads, else a bad request.           *)
ServeChown ==
    /\ Serve("CHOWN")
    /\ IF ChownUploads
       THEN Answer(Result("OK")) /\ UNCHANGED <<ppc, listen_fd, sock>>
       ELSE Oops
    /\ UNCHANGED <<pc, child>>

(* The second write of an answer: the descriptor, or -1 or -2.             *)
SendFd ==
    /\ Alive
    /\ ppc = "fd"
    /\ Answer(Fd(sock))
    /\ ppc' = "close"
    /\ UNCHANGED <<pc, child, listen_fd, sock, down>>

SendErr ==
    /\ Alive
    /\ ppc = "err"
    /\ \E n \in {-1, -2} : Answer(Number(n))
    /\ ppc' = "wait"
    /\ UNCHANGED <<pc, child, listen_fd, sock, down>>

(* Mutant: the parent keeps its copy of the descriptor.                    *)
CloseCopyLeaks ==
    /\ ppc = "close"
    /\ ppc' = "wait"
    /\ UNCHANGED <<pc, child, listen_fd, sock, down, up>>

CloseCopy ==
    /\ ppc = "close"
    /\ sock' = None
    /\ ppc' = "wait"
    /\ UNCHANGED <<pc, child, listen_fd, down, up>>

-----------------------------------------------------------------------------
(* The ends of the two processes.                                          *)

(* QUIT, an idle client, a lost connection, a die(): at any moment.        *)
ChildExit ==
    /\ Alive
    /\ pc' = "gone"
    /\ port_sockaddr' = None
    /\ data_fd' = None
    /\ UNCHANGED <<arg, epsv_all, parent, down, up>>

ParentGone ==
    /\ ppc' = "gone"
    /\ listen_fd' = FALSE
    /\ sock' = None
    /\ UNCHANGED <<pc, child, down, up>>

(* Mutant: only the read of a request notices, and no signal handler.      *)
ParentReapEofOnly ==
    /\ ~Alive
    /\ ppc = "wait"
    /\ ParentGone

(* SIGCHLD or the end of the stream makes the parent follow its child.     *)
ParentReap ==
    /\ ~Alive
    /\ ppc # "gone"
    /\ ParentGone

(* SIGTERM, or a bind() that fails for good: the parent exits first.       *)
ParentExit ==
    /\ ppc \notin {"gone", "oops"}
    /\ ParentGone

(* A read of the child meets the end of the stream.                        *)
ChildEof ==
    /\ pc \in Waiting \cup Second
    /\ up = <<>>
    /\ ppc \in {"gone", "oops"}
    /\ pc' = "gone"
    /\ port_sockaddr' = None
    /\ data_fd' = None
    /\ UNCHANGED <<arg, epsv_all, parent, down, up>>

-----------------------------------------------------------------------------

(* What the client makes the child do.                                     *)
ClientCommand ==
    \/ EpsvAll
    \/ \E epsv \in BOOLEAN : StartPasv(epsv)
    \/ \E a \in PortArgs, eprt \in BOOLEAN : StartPort(a, eprt)
    \/ StartTransfer

ChildStep ==
    \/ PasvListen \/ PasvDone \/ PortDone
    \/ CheckTransfer \/ FileFails \/ FileOpened \/ ChownDone
    \/ GetRemoteTransferFd \/ GetPasvFd \/ GetPortFd
    \/ AcceptResult \/ AcceptFails \/ ConnectResult \/ ReceiveFd
    \/ ConnectDirect \/ MarkConnect \/ EndTransfer \/ Cleanup \/ CommandDone
    \/ ChildEof

ParentStep ==
    \/ ServeCleanup \/ ServeActive \/ ServeListen \/ ServeAccept
    \/ ServeDataSock \/ ServeChown \/ SendFd \/ SendErr \/ CloseCopy
    \/ ParentReap

Next ==
    \/ ClientCommand
    \/ ChildStep
    \/ ParentStep
    \/ ChildExit
    \/ ParentExit

Spec == Init /\ [][Next]_vars

(* Both processes are scheduled; accept_timeout, connect_timeout and       *)
(* data_connection_timeout bound the steps that depend on the client.      *)
FairSpec == Spec /\ WF_vars(ChildStep) /\ WF_vars(ParentStep)

-----------------------------------------------------------------------------
(* Properties.                                                             *)

(* Every variable has its type.                                            *)
TypeOK ==
    /\ pc \in Waiting \cup Second \cup Running \cup Stopped
    /\ arg \in PortArgs \cup {None}
    /\ port_sockaddr \in Addresses \cup {None}
    /\ data_fd \in Peers \cup {None}
    /\ epsv_all \in BOOLEAN
    /\ ppc \in ParentLocations
    /\ listen_fd \in BOOLEAN
    /\ sock \in Peers \cup {None}
    /\ down \in Seq(Requests)
    /\ up \in Seq(Answers)

(* The bug() checks of the child: never "port and pasv both active", never *)
(* "neither PORT nor PASV active" after the checks passed, never a data    *)
(* descriptor too many or missing.                                         *)
ChildNoBug == pc # "bug"

(* No request of the child makes the parent die() in one of its checks:    *)
(* listening twice, accepting or connecting in the wrong mode, a reserved  *)
(* port, an unknown command.                                               *)
ParentNoOops == ppc # "oops"

(* The calls stay in step: a child that is not waiting has left no answer  *)
(* unread and no request behind, on every error path of every handler.     *)
CallsInStep ==
    pc \in Running => down = <<>> /\ up = <<>>

(* At most one of PORT and PASV is active, at every moment, although the   *)
(* one is kept in the child and the other in the parent.                   *)
NeverBoth == ~(listen_fd /\ port_sockaddr # None)

(* None of the checks the two processes make of themselves and of each     *)
(* other can fail, and what the child's are about holds between them too.  *)
ChecksHold == ChildNoBug /\ ParentNoOops /\ NeverBoth

(* Between two commands no process keeps a data connection open, so the    *)
(* client sees the end of every transfer.                                  *)
ConnectionsClosed ==
    pc = "idle" /\ ppc = "wait" => data_fd = None /\ sock = None

(* A data connection leads to the control connection's peer unless the     *)
(* configuration says otherwise.                                           *)
DataPeerIsClient ==
    ~PortPromiscuous /\ ~PasvPromiscuous => "other" \notin {data_fd, sock}

(* A command that was started ends: the two processes never wait for each  *)
(* other.                                                                  *)
CommandCompletes == pc # "idle" ~> pc \in {"idle", "gone"}

(* The parent never outlives its child for good.                           *)
ParentFollows == ~Alive ~> ppc = "gone"

(* The inductive invariant: first, what is on the streams for each place   *)
(* of the child, and what the parent is doing meanwhile.                   *)

(* The request is written and not read yet.                                *)
Asking ==
    /\ down = <<[cmd |-> CallOf[pc],
                 port |-> IF pc = "connect" THEN port_sockaddr ELSE None]>>
    /\ up = <<>>
    /\ ppc \in {"wait", "close", "gone"}

(* The whole answer is a.                                                  *)
Answered(a) == down = <<>> /\ up = <<a>> /\ ppc \in {"wait", "gone"}

(* A peer the parent may hand over, by the call it was asked with.         *)
MayServe(p) == p = "client" \/ (PasvPromiscuous /\ port_sockaddr = None)

(* The answer begins with OK and a descriptor follows; or BAD and a number.*)
FdFollows ==
    /\ down = <<>>
    /\ \/ up = <<Result("OK")>> /\ ppc \in {"fd", "gone"}
       \/ \E p \in Peers : /\ MayServe(p)
                           /\ up = <<Result("OK"), Fd(p)>>
                           /\ ppc \in {"close", "wait", "gone"}

ErrFollows ==
    /\ down = <<>>
    /\ \/ up = <<Result("BAD")>> /\ ppc \in {"err", "gone"}
       \/ \E n \in {-1, -2} : /\ up = <<Result("BAD"), Number(n)>>
                              /\ ppc \in {"wait", "gone"}

(* The first part was read, the second is still to come or is there.       *)
FdDue ==
    /\ down = <<>>
    /\ \/ up = <<>> /\ ppc \in {"fd", "gone"}
       \/ \E p \in Peers : /\ MayServe(p)
                           /\ up = <<Fd(p)>>
                           /\ ppc \in {"close", "wait", "gone"}

ErrDue ==
    /\ down = <<>>
    /\ \/ up = <<>> /\ ppc \in {"err", "gone"}
       \/ \E n \in {-1, -2} : up = <<Number(n)>> /\ ppc \in {"wait", "gone"}

AskingActive == {"check1", "check2", "get1", "get2", "get3"}

Streams ==
    /\ pc \in Running =>
          down = <<>> /\ up = <<>> /\ ppc \in {"wait", "close", "gone"}
    /\ pc \in {"port1", "pasv1", "end"} =>
          Asking \/ (Answered(Result("OK")) /\ ~listen_fd)
    /\ pc = "pasv2" => (Asking /\ ~listen_fd) \/ Answered(Number(1))
    /\ pc \in AskingActive =>
          \/ Asking
          \/ /\ Answered(Number(1))
             /\ port_sockaddr = None
             /\ listen_fd \/ ppc = "gone"
          \/ /\ Answered(Number(0))
             /\ ~listen_fd
             /\ pc # "check1" => port_sockaddr # None
    /\ pc = "chown" => Asking \/ Answered(Result("OK"))
    /\ pc = "accept" => Asking \/ FdFollows \/ ErrFollows
    /\ pc = "connect" => Asking \/ FdFollows \/ Answered(Result("BAD"))
    /\ pc \in {"accept_fd", "connect_fd"} => FdDue
    /\ pc = "accept_err" => ErrDue

(* Second, which of the two kinds of set-up is active where.               *)
SetUps ==
    /\ pc \in {"check2", "get2", "connect", "connect_fd", "direct"} =>
          port_sockaddr # None
    /\ pc \in {"pasv2", "accept", "accept_fd", "accept_err", "end", "gone"} =>
          port_sockaddr = None
    /\ pc \in {"file", "chown", "get1", "get3"} =>
          port_sockaddr # None \/ listen_fd \/ ppc = "gone"
    /\ pc = "accept" => listen_fd \/ ppc = "gone"
    /\ pc \in {"connect", "connect_fd"} => ~PortPromiscuous
    /\ pc = "chown" => ChownUploads
    /\ pc = "port1" => arg \in PortArgs
    /\ ~PortPromiscuous => port_sockaddr \in {None, "usable"}
    /\ ppc = "gone" => ~listen_fd

(* Third, who holds a data connection, and to whom.                        *)
Descriptors ==
    /\ (data_fd # None) <=> (pc \in {"mark", "transfer"})
    /\ (sock # None) <=> (ppc \in {"fd", "close"})
    /\ ppc = "fd" => MayServe(sock) \/ pc = "gone"
    /\ sock = "other" => PasvPromiscuous
    /\ data_fd = "other" => IF port_sockaddr = None THEN PasvPromiscuous
                                                    ELSE PortPromiscuous

IInv ==
    /\ TypeOK
    /\ ChildNoBug
    /\ ParentNoOops
    /\ NeverBoth
    /\ Streams
    /\ SetUps
    /\ Descriptors

(* Refinement: the two processes together do what DataPath promises of a   *)
(* session.  The set-up is PASV as long as the parent listens or the child *)
(* is using what the parent accepted.                                      *)
UsesPasv ==
    pc \in {"accept", "accept_fd", "accept_err", "mark", "transfer", "cleanup"}

SetUpNow ==
    IF port_sockaddr # None THEN "port"
    ELSE IF listen_fd \/ UsesPasv THEN "pasv" ELSE "none"

UsedNow ==
    \/ pc \in {"accept_err", "mark", "transfer", "cleanup"}
    \/ pc = "end" /\ listen_fd

Over == ~Alive

Path == INSTANCE DataPath WITH
    NoPeer <- None,
    Client <- "client",
    AnyPeer <- [port |-> PortPromiscuous, pasv |-> PasvPromiscuous],
    setup <- SetUpNow,
    used <- UsedNow,
    conn <- data_fd,
    over <- Over

(* The session implements DataPath: a set-up serves for one attempt, an    *)
(* attempt yields at most one connection, and nothing is set up while one  *)
(* is open.                                                                *)
ImplementsDataPath == Path!Spec

=============================================================================
