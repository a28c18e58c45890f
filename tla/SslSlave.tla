------------------------------ MODULE SslSlave ------------------------------
(***************************************************************************)
(* An encrypted session after the hand-over.  The session (the consumer)   *)
(* has no keys: it asks the process that spoke before the login to read    *)
(* commands, write replies and move data for it, over the socket pair that *)
(* Login set up.  sslslave.c, readwrite.c, ssl.c and the parts of          *)
(* ftpdataio.c that talk to the slave; Login's processes and their ends    *)
(* are part of this module, so that either partner may die at any point.   *)
(*                                                                         *)
(* A request is sent whole and answered whole: only the order of requests  *)
(* and answers can go wrong.  The two processes share the data connection: *)
(* when the session shuts it down, the slave's call on it returns.         *)
(***************************************************************************)
EXTENDS Login, Sequences

CONSTANTS
    StrictReadEof,  \* tunable_strict_ssl_read_eof
    StrictShutdown, \* tunable_strict_ssl_write_shutdown
    RequireReuse,   \* tunable_require_ssl_reuse
    AsyncAbor,      \* tunable_async_abor_enable
    MaxLines,       \* bound: commands read from the client after the login
    MaxChunks       \* bound: chunks of data moved in the session

(* The places where the session waits for an answer, and the request. *)
Awaits == [getcmd |-> "GET_USER_CMD", reply |-> "WRITE_USER_RESP",
           shake |-> "DO_SSL_HANDSHAKE", reading |-> "DO_SSL_READ",
           writing |-> "DO_SSL_WRITE", closing |-> "DO_SSL_CLOSE"]

ASSUME SslConstants ==
    /\ {StrictReadEof, StrictShutdown, RequireReuse, AsyncAbor} \subseteq BOOLEAN
    /\ MaxLines \in Nat /\ MaxChunks \in Nat
    /\ None \notin {"open", "shut"} \cup {Awaits[p] : p \in DOMAIN Awaits}

VARIABLES
    at,            \* what the session does next, or which answer it waits for
    after,         \* where it goes on when a reply is written
    req, ans,      \* requests and answers in the socket pair
    work,          \* the request the slave is busy with, or None
    slave_data,    \* of the slave: data_fd, p_data_ssl
    data_fd,       \* of the session: None, "open" or "shut" by its alarm
    alarm,         \* "none", "idle" or "data"; "late": it went off in the
                   \* close of the data connection and is not handled yet
    flags,         \* idle_timeout, data_timeout, data_progress
    xfer,          \* the transfer: its direction, how it ended, what was told,
                   \* whether the session's alarm shut it down
    used           \* bounds: lines and chunks so far, an urgent byte seen

sslvars == <<at, after, req, ans, work, slave_data, data_fd, alarm, flags, xfer, used>>
allvars == <<vars, sslvars>>

NoXfer == [dir |-> "none", end |-> "none", told |-> "none", shut |-> FALSE]

(* The session waits for the answer to a request. *)
Waiting == at \in DOMAIN Awaits

SslInit ==
    /\ Init
    /\ at = "top" /\ after = "top"
    /\ req = <<>> /\ ans = <<>> /\ work = None
    /\ slave_data = [data_fd |-> FALSE, p_data_ssl |-> FALSE]
    /\ data_fd = None
    /\ alarm = "none"
    /\ flags = [idle_timeout |-> FALSE, data_timeout |-> FALSE, data_progress |-> FALSE]
    /\ xfer = NoXfer
    /\ used = [lines |-> 0, chunks |-> 0, urgent |-> FALSE]

Encrypted == pc["session"] = "serve" /\ auth.ssl
SlaveUp == pc["prelogin"] = "slave"

(***************************************************************************)
(* The session.  A request to a slave that is gone cannot be written: that *)
(* is ServiceEnds.                                                         *)
(***************************************************************************)
Ask(place) ==
    /\ pc["prelogin"] \notin Stopped
    /\ at' = place
    /\ req' = Append(req, Awaits[place])

Reply(next) == Ask("reply") /\ after' = next

(* The answer the session waited for, which it takes from the socket. *)
Answer == Head(ans)
Answered(place) == Encrypted /\ at = place /\ ans # <<>> /\ ans' = Tail(ans)

(* The end of process_post_login's loop, where a data time-out is seen.    *)
TimedOut ==
    /\ Encrypted /\ at = "top" /\ flags.data_timeout
    /\ Reply("exit")
    /\ UNCHANGED <<vars, ans, work, slave_data, data_fd, alarm, flags, xfer, used>>

(* vsf_cmdio_get_cmd_and_arg and ftp_getline: the idle alarm, the request. *)
AskLine ==
    /\ Encrypted /\ at = "top" /\ ~flags.data_timeout
    /\ Ask("getcmd")
    /\ alarm' = "idle"
    /\ xfer' = NoXfer
    /\ UNCHANGED <<vars, after, ans, work, slave_data, data_fd, flags, used>>

(* The rest of them: a time-out, the end of the connection, a line that is *)
(* too long, or a command.                                                 *)
GotLine ==
    /\ Answered("getcmd")
    /\ IF flags.idle_timeout \/ Answer.val = "long"
       THEN Reply("exit") /\ UNCHANGED vars
       ELSE IF Answer.val = "eof"
       THEN /\ Exit("session")
            /\ UNCHANGED <<at, after, req>>
       ELSE /\ at' = Answer.val
            /\ UNCHANGED <<vars, after, req>>
    /\ UNCHANGED <<work, slave_data, data_fd, alarm, flags, xfer, used>>

NoopCommand ==
    /\ Encrypted /\ at = "noop"
    /\ Reply("top")
    /\ UNCHANGED <<vars, ans, work, slave_data, data_fd, alarm, flags, xfer, used>>

ProtLine == [C |-> "prot C", P |-> "prot P"]

ProtAfterLogin(level) ==
    /\ at = ProtLine[level]
    /\ SessionProt(level)
    /\ Reply("top")
    /\ UNCHANGED <<ans, work, slave_data, data_fd, alarm, flags, xfer, used>>

(* get_remote_transfer_fd: a data connection, its alarm, and the mark.     *)
StartTransfer ==
    /\ Encrypted /\ at \in {"stor", "retr"}
    /\ data_fd' = "open"
    /\ alarm' = "data"
    /\ flags' = [flags EXCEPT !.data_progress = FALSE]
    /\ xfer' = [NoXfer EXCEPT !.dir = at]
    /\ Reply("mark")
    /\ UNCHANGED <<vars, ans, work, slave_data, used>>

(* ftp_write_str_common: a reply that is not written ends the session.  An *)
(* alarm that went off before is handled in the wait for the answer.       *)
ReplyWritten ==
    /\ Answered("reply") /\ alarm # "late"
    /\ IF Answer.val = "ok" /\ after # "exit"
       THEN at' = after /\ UNCHANGED vars
       ELSE Exit("session") /\ UNCHANGED at
    /\ UNCHANGED <<after, req, work, slave_data, data_fd, alarm, flags, xfer, used>>

(* vsf_ftpdataio_post_mark_connect *)
PostMarkConnect ==
    /\ Encrypted /\ at = "mark"
    /\ IF data_use_ssl THEN Ask("shake") ELSE at' = "move" /\ UNCHANGED req
    /\ UNCHANGED <<vars, after, ans, work, slave_data, data_fd, alarm, flags, xfer, used>>

GotHandshake ==
    /\ Answered("shake")
    /\ IF Answer.val = "ok"
       THEN at' = "move" /\ UNCHANGED <<xfer, req, after>>
       ELSE /\ Reply(IF RequireReuse THEN "exit" ELSE "dispose")
            /\ xfer' = [xfer EXCEPT !.end = "refused"]
    /\ UNCHANGED <<vars, work, slave_data, data_fd, alarm, flags, used>>

(* do_file_send_rwloop, do_file_recv: one chunk through the slave.         *)
MoveChunk ==
    /\ Encrypted /\ at = "move" /\ data_use_ssl
    /\ Ask(IF xfer.dir = "stor" THEN "reading" ELSE "writing")
    /\ UNCHANGED <<vars, after, ans, work, slave_data, data_fd, alarm, flags, xfer, used>>

(* A download has read its file to the end; a transfer in the clear is     *)
(* over, well or not.  The end of an upload that the alarm shut down reads *)
(* as any other: read returns 0.                                           *)
MoveEnds(how) ==
    /\ Encrypted /\ at = "move"
    /\ data_use_ssl => xfer.dir = "retr" /\ how = "whole"
    /\ data_fd = "shut" /\ ~data_use_ssl /\ xfer.dir = "retr" => how = "failed"
    /\ at' = "dispose"
    /\ xfer' = [xfer EXCEPT !.end = how]
    /\ UNCHANGED <<vars, after, req, ans, work, slave_data, data_fd, alarm, flags, used>>

(* ftp_read_data, ftp_write_data: progress is noted here, because the      *)
(* slave's own calls cannot.                                               *)
GotChunk ==
    /\ Encrypted /\ at \in {"reading", "writing"}
    /\ Answered(at)
    /\ LET val == Answer.val
       IN  /\ at' = IF val = "data" THEN "move" ELSE "dispose"
           /\ flags' = IF val = "data" THEN [flags EXCEPT !.data_progress = TRUE] ELSE flags
           /\ xfer' = IF val = "data" THEN xfer
                      ELSE [xfer EXCEPT !.end = IF val = "error" THEN "failed" ELSE val]
    /\ UNCHANGED <<vars, after, req, work, slave_data, data_fd, alarm, used>>

(* The close() of the session's own descriptor waits for the client        *)
(* (SO_LINGER) if nothing has failed so far, under an alarm of its own.    *)
Linger(failed) == alarm' = IF failed \/ flags.data_timeout THEN alarm ELSE "data"

(* vsf_ftpdataio_dispose_transfer_fd: the slave closes first. *)
Dispose ==
    /\ Encrypted /\ at = "dispose"
    /\ IF data_use_ssl
       THEN /\ Ask("closing")
            /\ alarm' = "data"
       ELSE /\ at' = "closed"
            /\ Linger(FALSE)
            /\ UNCHANGED req
    /\ UNCHANGED <<vars, after, ans, work, slave_data, data_fd, flags, xfer, used>>

GotClose ==
    /\ Answered("closing")
    /\ at' = "closed"
    /\ Linger(Answer.val # "ok")
    /\ xfer' = IF Answer.val = "ok" \/ xfer.end = "refused" THEN xfer
               ELSE [xfer EXCEPT !.end = "failed"]
    /\ UNCHANGED <<vars, after, req, work, slave_data, data_fd, flags, used>>

(* Mutant: the wrong descriptor is closed. *)
FinishTransferWrongFd ==
    /\ Encrypted /\ at = "closed"
    /\ fds' = [fds EXCEPT !["session"] = @ \ {"ssl_consumer_fd"}]
    /\ at' = "top"
    /\ data_fd' = None
    /\ UNCHANGED <<cfg, pc, creds, user_str, control_use_ssl, data_use_ssl, login_fails,
                   eof, request, result, sigchld, auth, tries, after, req, ans, work,
                   slave_data, alarm, flags, xfer, used>>

(* The rest of it, and the final reply.  The close ends by itself or by    *)
(* the alarm, whose handler does not run in it: an alarm that has gone off *)
(* when clear_alarm is called is handled when the session next waits.      *)
(* There is no reply when the data timed out, which is reported at the end *)
(* of the command, and none when the handshake was refused, which has been.*)
Whole == {"whole", "cut"}
FinishTransfer ==
    /\ Encrypted /\ at = "closed"
    /\ data_fd' = None
    /\ alarm' \in IF alarm = "data" THEN {"none", "late"} ELSE {"none"}
    /\ IF flags.data_timeout \/ xfer.end = "refused"
       THEN at' = "top" /\ UNCHANGED <<after, req, xfer>>
       ELSE /\ Reply("top")
            /\ xfer' = [xfer EXCEPT !.told = IF xfer.end \in Whole THEN "226" ELSE "426"]
    /\ UNCHANGED <<vars, ans, work, slave_data, flags, used>>

(* A wait that an alarm interrupts: for an answer, or for the data of a    *)
(* transfer in the clear.                                                  *)
Interruptible == Encrypted /\ (Waiting \/ (at = "move" /\ ~data_use_ssl))

(* Mutant: the data connection is not shut down. *)
AlarmNotes ==
    /\ Interruptible /\ alarm # "none"
    /\ flags' = IF alarm = "idle" THEN [flags EXCEPT !.idle_timeout = TRUE]
                ELSE [flags EXCEPT !.data_timeout = TRUE]
    /\ alarm' = "none"
    /\ eof' = TRUE
    /\ UNCHANGED <<cfg, pc, creds, fds, user_str, control_use_ssl, data_use_ssl,
                   login_fails, request, result, sigchld, auth, tries, data_fd,
                   at, after, req, ans, work, slave_data, xfer, used>>

(* The alarm interrupts the wait, or has gone off when its end is seen.    *)
(* handle_alarm_timeout, and handle_sigalrm, which lets a transfer that    *)
(* moves go on; there may be no transfer any more.                         *)
Alarm ==
    /\ Interruptible /\ alarm # "none"
    /\ LET stalled == alarm = "idle" \/ ~flags.data_progress
           shuts == alarm # "idle" /\ stalled /\ data_fd # None
       IN  /\ flags' = IF alarm = "idle" THEN [flags EXCEPT !.idle_timeout = TRUE]
                       ELSE IF stalled THEN [flags EXCEPT !.data_timeout = TRUE]
                       ELSE [flags EXCEPT !.data_progress = FALSE]
           /\ alarm' = IF stalled THEN "none" ELSE "data"
           /\ data_fd' = IF shuts THEN "shut" ELSE data_fd
           /\ xfer' = [xfer EXCEPT !.shut = @ \/ shuts]
           /\ eof' = (eof \/ stalled)
    /\ UNCHANGED <<cfg, pc, creds, fds, user_str, control_use_ssl, data_use_ssl,
                   login_fails, request, result, sigchld, auth, tries,
                   at, after, req, ans, work, slave_data, used>>

(* Mutant: with encryption too. *)
SigurgInstalledAlways == AsyncAbor

(* process_post_login installs handle_sigurg only without encryption: it   *)
(* would ask for a line while another request is not answered.             *)
SigurgInstalled == AsyncAbor /\ ~control_use_ssl

Urgent ==
    /\ Encrypted /\ Waiting /\ data_fd # None
    /\ ~used.urgent
    /\ used' = [used EXCEPT !.urgent = TRUE]
    /\ IF SigurgInstalled THEN Ask("getcmd") ELSE UNCHANGED <<at, req>>
    /\ UNCHANGED <<vars, after, ans, work, slave_data, data_fd, alarm, flags, xfer>>
-----------------------------------------------------------------------------
(***************************************************************************)
(* The slave                                                               *)
(***************************************************************************)
Clean == ~slave_data.data_fd /\ ~slave_data.p_data_ssl
Active == slave_data.data_fd /\ slave_data.p_data_ssl
NoData == [data_fd |-> FALSE, p_data_ssl |-> FALSE]

Answers(val) == ans' = Append(ans, [kind |-> work, val |-> val]) /\ work' = None

(* What ssl_slave checks when it has read a request.                       *)
Acceptable(r) ==
    CASE r = "DO_SSL_HANDSHAKE" -> Clean
      [] r \in {"DO_SSL_READ", "DO_SSL_WRITE"} -> Active
      [] r = "DO_SSL_CLOSE" -> Clean \/ Active
      [] OTHER -> TRUE

SlaveTakes ==
    /\ SlaveUp /\ work = None /\ req # <<>>
    /\ req' = Tail(req)
    /\ work' = Head(req)
    /\ IF Acceptable(Head(req))
       THEN /\ slave_data' = IF Head(req) = "DO_SSL_HANDSHAKE"
                             THEN [slave_data EXCEPT !.data_fd = TRUE] ELSE slave_data
            /\ UNCHANGED vars
       ELSE /\ Stop("prelogin", "bug")
            /\ UNCHANGED <<cfg, creds, user_str, control_use_ssl, data_use_ssl,
                           login_fails, eof, request, result, auth, tries, slave_data>>
    /\ UNCHANGED <<at, after, ans, data_fd, alarm, flags, xfer, used>>

Commands == {"noop", "prot C", "prot P", "stor", "retr", "long"}

SlaveLine(line) ==
    /\ SlaveUp /\ work = "GET_USER_CMD"
    /\ ~eof /\ used.lines < MaxLines
    /\ used' = [used EXCEPT !.lines = @ + 1]
    /\ Answers(line)
    /\ UNCHANGED <<vars, at, after, req, slave_data, data_fd, alarm, flags, xfer>>

(* The end of the command connection.  ssl_read_common makes it an error   *)
(* when it is not TLS's own and strict_ssl_read_eof is set, and            *)
(* str_netfd_alloc dies of an error: SlaveDies.                            *)
SlaveLineEof ==
    /\ SlaveUp /\ work = "GET_USER_CMD"
    /\ eof
    /\ Answers("eof")
    /\ UNCHANGED <<vars, at, after, req, slave_data, data_fd, alarm, flags, xfer, used>>

SlaveReply(val) ==
    /\ SlaveUp /\ work = "WRITE_USER_RESP"
    /\ Answers(val)
    /\ UNCHANGED <<vars, at, after, req, slave_data, data_fd, alarm, flags, xfer, used>>

(* ssl_accept: the handshake, then the session must be the control         *)
(* connection's, and so must the certificate if there was one.             *)
SlaveAccept(val) ==
    /\ SlaveUp /\ work = "DO_SSL_HANDSHAKE"
    /\ val = "ok" => data_fd = "open"
    /\ Answers(val)
    /\ slave_data' = IF val = "ok" THEN [data_fd |-> TRUE, p_data_ssl |-> TRUE] ELSE NoData
    /\ UNCHANGED <<vars, at, after, req, data_fd, alarm, flags, xfer, used>>

(* Mutant: every end of file is taken for TLS's own. *)
ReadResultLax(how) == how

(* ssl_read_into_str and ssl_write: data, or how the data ended.  "cut" is *)
(* an end of file that is not TLS's own.                                   *)
ReadResult(how) == IF how = "cut" /\ StrictReadEof THEN "error" ELSE how

SlaveMoves(how) ==
    /\ SlaveUp /\ work \in {"DO_SSL_READ", "DO_SSL_WRITE"}
    /\ work = "DO_SSL_WRITE" => how \in {"data", "error"}
    /\ data_fd = "shut" => how # "data"
    /\ how = "data" => used.chunks < MaxChunks
    /\ used' = IF how = "data" THEN [used EXCEPT !.chunks = @ + 1] ELSE used
    /\ Answers(ReadResult(how))
    /\ UNCHANGED <<vars, at, after, req, slave_data, data_fd, alarm, flags, xfer>>

(* Mutant: the slave's own descriptor stays open. *)
SlaveClosesNot(clean) ==
    /\ SlaveUp /\ work = "DO_SSL_CLOSE"
    /\ Answers(IF clean THEN "ok" ELSE "bad")
    /\ slave_data' = [slave_data EXCEPT !.p_data_ssl = FALSE]
    /\ UNCHANGED <<vars, at, after, req, data_fd, alarm, flags, xfer, used>>

(* ssl_data_close, where there is something to close. *)
SlaveCloses(clean) ==
    /\ SlaveUp /\ work = "DO_SSL_CLOSE"
    /\ data_fd = "shut" /\ ~Clean => ~clean
    /\ Answers(IF Clean \/ clean \/ ~StrictShutdown THEN "ok" ELSE "bad")
    /\ slave_data' = NoData
    /\ UNCHANGED <<vars, at, after, req, data_fd, alarm, flags, xfer, used>>

(* The handshake fails, or a call on the command connection does. *)
SlaveDies ==
    /\ SlaveUp /\ work \in {"DO_SSL_HANDSHAKE", "GET_USER_CMD"}
    /\ Exit("prelogin")
    /\ UNCHANGED sslvars
-----------------------------------------------------------------------------
SessionStep ==
    \/ AskLine \/ TimedOut \/ GotLine \/ NoopCommand \/ StartTransfer \/ ReplyWritten
    \/ (\E level \in {"C", "P"} : ProtAfterLogin(level))
    \/ PostMarkConnect \/ GotHandshake \/ MoveChunk \/ GotChunk
    \/ Dispose \/ GotClose \/ FinishTransfer
TransferEnds == \E how \in {"whole", "failed"} : MoveEnds(how)
SlaveStep ==
    \/ SlaveTakes \/ SlaveLineEof
    \/ \E val \in {"ok", "bad"} : SlaveReply(val)
SlaveClient ==
    \/ \E line \in Commands : SlaveLine(line)
    \/ \E val \in {"ok", "bad"} : SlaveAccept(val)
    \/ \E how \in {"data", "whole", "cut", "error"} : SlaveMoves(how)
    \/ \E clean \in BOOLEAN : SlaveCloses(clean)

(* A call of the slave on the data connection returns when it is shut.     *)
SlaveUnblocked ==
    /\ data_fd = "shut"
    /\ \/ (\E how \in {"cut", "error"} : SlaveMoves(how))
       \/ SlaveCloses(FALSE)
       \/ work = "DO_SSL_HANDSHAKE" /\ (SlaveAccept("bad") \/ SlaveDies)

(* What Login leaves to this module: a session in the clear ends as there, *)
(* an encrypted one when its slave is gone; the slave sees that it has no  *)
(* consumer when it reads the next request.                                *)
LostPartner == (Encrypted => SlaveGone) /\ ServiceEnds /\ UNCHANGED sslvars
NoConsumer == work = None /\ SlaveEof /\ UNCHANGED sslvars
Quits ==
    /\ Encrypted => ~Waiting
    /\ \E p \in Serving \cup {q \in {"session"} : pc[q] = "born"} : Exit(p)
    /\ UNCHANGED sslvars

PlainStep == LoginNext /\ UNCHANGED sslvars

SslNext == PlainStep \/ LostPartner \/ NoConsumer \/ Quits
           \/ SessionStep \/ TransferEnds \/ SlaveStep \/ SlaveClient
           \/ SlaveDies \/ Alarm \/ Urgent

SslSpec == SslInit /\ [][SslNext]_allvars

(* On top of Login's: the session and the slave go on, and alarms go off.  *)
(* The client owes nothing but to take the replies it is sent (SlaveReply  *)
(* is a step of the slave): it is not asked to move data.                  *)
SslFairSpec ==
    /\ SslSpec
    /\ Fairness
    /\ WF_allvars(LostPartner) /\ WF_allvars(NoConsumer)
    /\ WF_allvars(SessionStep) /\ WF_allvars(SlaveStep)
    /\ WF_allvars((data_use_ssl \/ data_fd = "shut") /\ TransferEnds)
    /\ WF_allvars(SlaveUnblocked) /\ WF_allvars(Alarm)
-----------------------------------------------------------------------------
(* Every variable stays in its type.                                       *)
SslTypeOK ==
    /\ TypeOK
    /\ at \in DOMAIN Awaits \cup {"top", "mark", "move", "dispose", "closed"} \cup Commands
    /\ after \in {"top", "exit", "mark", "dispose"}
    /\ work \in {None} \cup {Awaits[p] : p \in DOMAIN Awaits}
    /\ slave_data \in [data_fd : BOOLEAN, p_data_ssl : BOOLEAN]
    /\ data_fd \in {None, "open", "shut"}
    /\ alarm \in {"none", "idle", "data", "late"}

(* Session and slave stay in step: at most one request is under way, and   *)
(* the answer that the session reads next is the answer to the request it  *)
(* made.  An integer read as the answer to another request would be taken  *)
(* for a length (readwrite.c, privsock.c have no tags).                    *)
InStep ==
    LET busy == IF work = None THEN 0 ELSE 1
    IN  /\ Len(req) + busy + Len(ans) <= 1
        /\ ans # <<>> /\ Encrypted => Waiting /\ Head(ans).kind = Awaits[at]

(* When the session is between commands the slave holds no descriptor and  *)
(* no TLS state of a transfer, however the transfer ended; the next        *)
(* handshake would meet bug("state not clean").                            *)
SlaveReleases == Encrypted /\ at \in {"top", "getcmd"} => Clean /\ data_fd = None

(* An upload that is reported complete ended with TLS's own end of data,   *)
(* if strict_ssl_read_eof asks for that (ssl.c, ssl_read_common), and its  *)
(* connection was not shut down by the session's own alarm, which a read   *)
(* cannot tell from the client's end of the data: dispose has to look at   *)
(* data_timeout (ftpdataio.c:95).  That flag may be set once more after    *)
(* the look, when the alarm of the close is handled as 226 is written.     *)
UploadWhole ==
    xfer.told = "226" =>
        /\ ~xfer.shut
        /\ xfer.end = "cut" => ~StrictReadEof
        /\ xfer.end \in {"whole", "cut"}

(* A client that stops in the middle of a handshake, of a chunk or of the  *)
(* close cannot hold the session, and an idle one is disconnected, although *)
(* it is the slave that waits for the client and the session that has the  *)
(* alarm: its handler shuts the connection that the slave waits on.        *)
Stalled == Encrypted /\ at \in {"shake", "reading", "writing", "closing"}
TimeoutsReach ==
    /\ Stalled ~> ~Stalled
    /\ Encrypted /\ at = "getcmd" ~> at # "getcmd" \/ AllStopped

(* The session and its slave do nothing that Login does not allow: no      *)
(* descriptor, credential or answer of the login protocol changes here.    *)
LoginSpec == Spec
=============================================================================
