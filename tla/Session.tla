------------------------------- MODULE Session ------------------------------
(***************************************************************************)
(* The command loop of a logged-in session (postlogin.c, ftpcmdio.c,       *)
(* ftpdataio.c) with its two asynchronous events: the alarm, which is the  *)
(* idle timeout or the data timeout according to the handler installed     *)
(* last, and SIGURG, which announces an ABOR in the middle of a transfer.  *)
(* Both only set a pending flag; the handlers run in                       *)
(* vsf_sysutil_check_pending_actions, after system calls that may block.   *)
(*                                                                         *)
(* The control connection is in plain text.  How a data connection is set  *)
(* up is the subject of DataChannel; here setup says whether it was.       *)
(***************************************************************************)
EXTENDS Integers, Sequences

CONSTANTS
    IdleTimeout,   \* is tunable_idle_session_timeout positive?
    DataTimeout,   \* is tunable_data_connection_timeout positive?
    AsyncAbor,     \* tunable_async_abor_enable
    ClientLines,   \* the lines this client sends
    MaxLines,      \* bound: how many of them
    MaxChunks      \* bound: chunks of data per transfer

(* Lines that announce themselves with urgent data: ABOR and any other.    *)
Urgent == {"urgent ABOR", "urgent other"}

(* Lines by what the command loop does with them.  "plain" is any command  *)
(* answered at once, "setup" a PASV or PORT, "stat" a STAT of a file.      *)
Uploads   == {"stor"}
Downloads == {"retr"}
Transfers == Uploads \cup Downloads \cup {"list"}
Lines == {"blank", "plain", "setup", "quit", "stat"} \cup Transfers \cup Urgent

ASSUME SessionAssumption ==
    /\ IdleTimeout \in BOOLEAN
    /\ DataTimeout \in BOOLEAN
    /\ AsyncAbor \in BOOLEAN
    /\ ClientLines \subseteq Lines
    /\ MaxLines \in Nat
    /\ MaxChunks \in Nat

VARIABLES
    pc,             \* what the session runs next
    back,           \* where handle_sigurg returns to, None if not in it
    at,             \* the slot check_pending_actions looks at, or "run"
    inbox,          \* complete lines that arrived and are not read
    partial,        \* a line that began with urgent data and goes on
    sent,           \* lines sent so far
    gone,           \* has the client hung up?
    ctl_shut,       \* is the control connection shut for reading?
    line,           \* the line read last
    cmd,            \* ftp_cmd_str
    alrm, urg,      \* are SIGALRM, SIGURG pending?
    handler,        \* of SIGALRM: "none", "idle", "data"
    timer,          \* alarm(): "off", for what it was set, or "again"
    idle_timeout, data_timeout, data_progress, abor_received,
    data_fd,        \* None, "open", or "shut" by a handler
    ret,            \* retval of the transfer
    setup,          \* is PORT or PASV active?
    log_type,       \* is a log entry begun?
    chunks          \* bound: chunks moved in this transfer

(* What happened since the command was read: lines read, final replies,    *)
(* ABOR lines read by handle_sigurg; was the transfer reported complete;   *)
(* was its connection cut by a handler; what was logged; and where the     *)
(* session was when the alarm went off last.                               *)
VARIABLES consumed, answered, abors, ok, cut, logged, fired

client == <<partial, sent, gone>>
signal == <<alrm, urg, handler, timer, fired>>
flags  == <<idle_timeout, data_timeout, data_progress, abor_received, ctl_shut>>
data   == <<data_fd, ret, setup, chunks>>
past   == <<consumed, answered, abors, ok, cut, logged>>
vars == <<pc, back, at, inbox, client, line, cmd, signal, flags, data,
          log_type, past>>

None == "none"

(* Getting a command, in the loop or in handle_sigurg.                     *)
Getting == {"peek", "got", "eof", "parse"}
Moving  == {"move", "dispose", "close"}

(* Writing a reply, until the connection takes it, and what follows.       *)
Saying == {"say_move", "say_abor", "say_end", "say_unknown"}
After(l) ==
    CASE l = "say_move"    -> "move"
      [] l = "say_abor"    -> "abor"
      [] l = "say_end"     -> "end"
      [] l = "say_unknown" -> "unknown"
      [] OTHER -> l

Locations == {"top", "run", "connect", "report", "abor", "end", "unknown",
              "exit", "bug"} \cup Getting \cup Moving \cup Saying

Init ==
    /\ pc = "top" /\ back = None /\ at = "run"
    /\ inbox = <<>> /\ partial = None /\ sent = 0 /\ gone = FALSE
    /\ line = None /\ cmd = None
    /\ alrm = FALSE /\ urg = FALSE /\ handler = None /\ timer = "off"
    /\ idle_timeout = FALSE /\ data_timeout = FALSE
    /\ data_progress = FALSE /\ abor_received = FALSE /\ ctl_shut = FALSE
    /\ data_fd = None /\ ret = 0 /\ setup = FALSE /\ chunks = 0
    /\ log_type = FALSE
    /\ consumed = 0 /\ answered = 0 /\ abors = 0
    /\ ok = FALSE /\ cut = FALSE /\ logged = None /\ fired = None

-----------------------------------------------------------------------------
(* The client and the kernel.                                              *)

ClientSends(l) ==
    /\ ~gone /\ partial = None /\ sent < MaxLines
    /\ l \in ClientLines \ Urgent
    /\ inbox' = Append(inbox, l)
    /\ sent' = sent + 1
    /\ UNCHANGED <<pc, back, at, partial, gone, line, cmd, signal, flags, data,
                   log_type, past>>

(* The urgent bytes arrive before the rest of the line.                    *)
ClientUrgent(l) ==
    /\ ~gone /\ partial = None /\ sent < MaxLines
    /\ l \in ClientLines \cap Urgent
    /\ partial' = l
    /\ sent' = sent + 1
    /\ urg' = IF AsyncAbor THEN TRUE ELSE urg
    /\ UNCHANGED <<pc, back, at, inbox, gone, line, cmd, alrm, handler, timer,
                   fired, flags, data, log_type, past>>

ClientCompletes ==
    /\ ~gone /\ partial # None
    /\ inbox' = Append(inbox, partial)
    /\ partial' = None
    /\ UNCHANGED <<pc, back, at, sent, gone, line, cmd, signal, flags, data,
                   log_type, past>>

ClientHangsUp ==
    /\ gone' = TRUE
    /\ ~gone
    /\ UNCHANGED <<pc, back, at, inbox, partial, sent, line, cmd, signal, flags,
                   data, log_type, past>>

(* The alarm goes off; vsf_sysutil_common_sighandler sets it to go off     *)
(* every second until it is handled.                                       *)
Expire ==
    /\ timer # "off" /\ ~alrm /\ pc # "exit"
    /\ alrm' = TRUE
    /\ timer' = "again"
    /\ fired' = IF back = None /\ pc \in Getting THEN "waiting" ELSE "working"
    /\ UNCHANGED <<pc, back, at, inbox, client, line, cmd, urg, handler, flags,
                   data, log_type, past>>

-----------------------------------------------------------------------------
(* vsf_sysutil_check_pending_actions: SIGALRM comes before SIGURG.         *)

(* A system call that may block has returned; l is what follows it.        *)
Check(l) == pc' = l /\ at' = "alrm"

(* A signal interrupts the system call that the session waits in.          *)
Interrupted ==
    /\ pc \in {"peek", "connect", "move"} \cup Saying /\ at = "run"
    /\ alrm \/ urg
    /\ at' = "alrm"
    /\ UNCHANGED <<pc, back, inbox, client, line, cmd, signal, flags, data,
                   log_type, past>>

NoAlarm ==
    /\ at = "alrm" /\ ~alrm
    /\ at' = "urg"
    /\ UNCHANGED <<pc, back, inbox, client, line, cmd, signal, flags, data,
                   log_type, past>>

(* Mutant: the handler notes the time-out and leaves the connection as it  *)
(* is.                                                                     *)
HandleIdleAlarmNotes ==
    /\ at = "alrm" /\ alrm /\ handler = "idle"
    /\ at' = "urg"
    /\ alrm' = FALSE /\ timer' = "off"
    /\ idle_timeout' = TRUE
    /\ UNCHANGED <<pc, back, inbox, client, line, cmd, urg, handler, fired, ctl_shut,
                   data_timeout, data_progress, abor_received, data, log_type,
                   past>>

(* handle_alarm_timeout                                                    *)
HandleIdleAlarm ==
    /\ at = "alrm" /\ alrm /\ handler = "idle"
    /\ at' = "urg"
    /\ alrm' = FALSE /\ timer' = "off"
    /\ idle_timeout' = TRUE
    /\ ctl_shut' = TRUE
    /\ UNCHANGED <<pc, back, inbox, client, line, cmd, urg, handler, fired,
                   data_timeout, data_progress, abor_received, data, log_type,
                   past>>

(* A connection that a handler shuts down.                                 *)
Shut ==
    IF data_fd = None
    THEN UNCHANGED <<data_fd, cut>>
    ELSE data_fd' = "shut" /\ cut' = TRUE

(* handle_sigalrm, no progress since the last time.                        *)
DataAlarmStalled ==
    /\ at = "alrm" /\ alrm /\ handler = "data" /\ ~data_progress
    /\ at' = "urg"
    /\ alrm' = FALSE /\ timer' = "off"
    /\ data_timeout' = TRUE
    /\ ctl_shut' = TRUE
    /\ Shut
    /\ UNCHANGED <<pc, back, inbox, client, line, cmd, urg, handler, fired,
                   idle_timeout, data_progress, abor_received, ret, setup,
                   chunks, log_type, consumed, answered, abors, ok, logged>>

(* Mutant: the handler does not start the alarm again.                     *)
DataAlarmProgressOnce ==
    /\ at = "alrm" /\ alrm /\ handler = "data" /\ data_progress
    /\ at' = "urg"
    /\ alrm' = FALSE /\ timer' = "off"
    /\ data_progress' = FALSE
    /\ UNCHANGED <<pc, back, inbox, client, line, cmd, urg, handler, fired,
                   idle_timeout, data_timeout, abor_received, ctl_shut, data,
                   log_type, past>>

(* handle_sigalrm, otherwise: start_data_alarm again.                      *)
DataAlarmProgress ==
    /\ at = "alrm" /\ alrm /\ handler = "data" /\ data_progress
    /\ at' = "urg"
    /\ alrm' = FALSE /\ timer' = "data"
    /\ data_progress' = FALSE
    /\ UNCHANGED <<pc, back, inbox, client, line, cmd, urg, handler, fired,
                   idle_timeout, data_timeout, abor_received, ctl_shut, data,
                   log_type, past>>

(* Nothing pending, or handle_sigurg is running already.                   *)
NoUrgent ==
    /\ at = "urg" /\ (~urg \/ back # None)
    /\ at' = "run"
    /\ UNCHANGED <<pc, back, inbox, client, line, cmd, signal, flags, data,
                   log_type, past>>

(* Mutant: the signal stays pending.                                       *)
UrgentIgnoredKept ==
    /\ at = "urg" /\ urg /\ back = None /\ data_fd = None
    /\ at' = "run"
    /\ UNCHANGED <<pc, back, inbox, client, line, cmd, alrm, urg, handler, timer,
                   fired, flags, data, log_type, past>>

(* handle_sigurg without a data connection.                                *)
UrgentIgnored ==
    /\ at = "urg" /\ urg /\ back = None /\ data_fd = None
    /\ at' = "run"
    /\ urg' = FALSE
    /\ UNCHANGED <<pc, back, inbox, client, line, cmd, alrm, handler, timer,
                   fired, flags, data, log_type, past>>

(* handle_sigurg gets a command, without an alarm of its own.              *)
HandleUrgent ==
    /\ at = "urg" /\ urg /\ back = None /\ data_fd # None
    /\ at' = "run"
    /\ urg' = FALSE
    /\ back' = pc
    /\ pc' = "peek"
    /\ UNCHANGED <<inbox, client, line, cmd, alrm, handler, timer, fired, flags,
                   data, log_type, past>>

-----------------------------------------------------------------------------
(* vsf_cmdio_get_cmd_and_arg                                               *)

(* vsf_cmdio_set_alarm                                                     *)
SetAlarm ==
    /\ pc = "top" /\ at = "run"
    /\ pc' = "peek"
    /\ IF IdleTimeout
       THEN handler' = "idle" /\ timer' = "idle"
       ELSE UNCHANGED <<handler, timer>>
    /\ UNCHANGED <<back, at, inbox, client, line, cmd, alrm, urg, fired, flags,
                   data, log_type, past>>

Peek ==
    /\ pc = "peek" /\ at = "run"
    /\ inbox # <<>>
    /\ Check("got")
    /\ UNCHANGED <<back, inbox, client, line, cmd, signal, flags, data, log_type,
                   past>>

PeekEof ==
    /\ pc = "peek" /\ at = "run"
    /\ inbox = <<>> /\ (gone \/ ctl_shut)
    /\ Check("eof")
    /\ UNCHANGED <<back, inbox, client, line, cmd, signal, flags, data, log_type,
                   past>>

ReadLine ==
    /\ pc = "got" /\ at = "run"
    /\ line' = Head(inbox)
    /\ inbox' = Tail(inbox)
    /\ Check("parse")
    /\ UNCHANGED <<back, client, cmd, signal, flags, data, log_type, past>>

(* 500 Input line too long.                                                *)
LineTooLong ==
    /\ pc = "got" /\ at = "run"
    /\ pc' = "exit"
    /\ UNCHANGED <<back, at, inbox, client, line, cmd, signal, flags, data,
                   log_type, past>>

(* 421 Timeout.                                                            *)
IdleExit ==
    /\ pc \in {"parse", "eof"} /\ at = "run" /\ idle_timeout
    /\ pc' = "exit"
    /\ UNCHANGED <<back, at, inbox, client, line, cmd, signal, flags, data,
                   log_type, past>>

(* The client hung up, or the data alarm shut the connection.              *)
EofExit ==
    /\ pc = "eof" /\ at = "run" /\ ~idle_timeout
    /\ pc' = "exit"
    /\ UNCHANGED <<back, at, inbox, client, line, cmd, signal, flags, data,
                   log_type, past>>

(* The loop has a command: what is recorded of the last one starts anew.   *)
Dispatch ==
    /\ pc = "parse" /\ at = "run" /\ ~idle_timeout /\ back = None
    /\ pc' = "run"
    /\ cmd' = line
    /\ consumed' = IF line = "blank" THEN 0 ELSE 1
    /\ answered' = 0 /\ abors' = 0
    /\ ok' = FALSE /\ cut' = FALSE /\ logged' = None
    /\ UNCHANGED <<back, at, inbox, client, line, signal, flags, data, log_type>>

(* handle_sigurg has an ABOR.                                              *)
SigurgAbor ==
    /\ pc = "parse" /\ at = "run" /\ ~idle_timeout /\ back # None
    /\ line = "urgent ABOR"
    /\ pc' = back /\ back' = None
    /\ abor_received' = TRUE
    /\ Shut
    /\ consumed' = consumed + 1
    /\ abors' = abors + 1
    /\ UNCHANGED <<at, inbox, client, line, cmd, signal, idle_timeout,
                   data_timeout, data_progress, ctl_shut, ret, setup, chunks,
                   log_type, answered, ok, logged>>

(* It has anything else: 500 Unknown command.                              *)
SigurgUnknown ==
    /\ pc = "parse" /\ at = "run" /\ ~idle_timeout /\ back # None
    /\ line # "urgent ABOR"
    /\ pc' = "say_unknown"
    /\ consumed' = consumed + 1
    /\ answered' = answered + 1
    /\ UNCHANGED <<back, at, inbox, client, line, cmd, signal, flags, data, log_type,
                   abors, ok, cut, logged>>

SigurgReturns ==
    /\ pc = "unknown" /\ at = "run"
    /\ pc' = back /\ back' = None
    /\ UNCHANGED <<at, inbox, client, line, cmd, signal, flags, data, log_type,
                   past>>

-----------------------------------------------------------------------------
(* The commands.                                                           *)

(* A final reply is written; what follows is After(l).                     *)
Reply(l) ==
    /\ answered' = answered + 1
    /\ pc' = l
    /\ UNCHANGED at

(* The connection has taken the reply: a client that does not read can     *)
(* keep the write from coming to this.                                     *)
Written ==
    /\ pc \in Saying /\ at = "run"
    /\ Check(After(pc))
    /\ UNCHANGED <<back, inbox, client, line, cmd, signal, flags, data, log_type,
                   past>>

Bug ==
    /\ pc' = "bug"
    /\ UNCHANGED <<back, at, inbox, client, line, cmd, signal, flags, data,
                   log_type, past>>

Running(c) == pc = "run" /\ at = "run" /\ cmd = c

(* The session dies on a control connection it cannot write to: the client *)
(* is gone, or does not read and a handler made the descriptor             *)
(* non-blocking.                                                           *)
WriteFails ==
    /\ pc \in Saying /\ at = "run"
    /\ gone \/ ctl_shut
    /\ pc' = "exit"
    /\ UNCHANGED <<back, at, inbox, client, line, cmd, signal, flags, data,
                   log_type, past>>

(* vsf_log_start_entry, for a command that is logged; its check that the   *)
(* entry before was written is made where the command is begun.            *)
StartEntry(logs) ==
    /\ logs => ~log_type
    /\ log_type' = IF logs THEN TRUE ELSE log_type

(* A command answered at once, not logged, or logged as done.              *)
Plain ==
    /\ \E c \in {"plain"} \cup Urgent : Running(c)
    /\ Reply("say_end")
    /\ logged' \in {None, "ok"}
    /\ logged' = "ok" => ~log_type
    /\ UNCHANGED <<back, inbox, client, line, cmd, signal, flags, data, log_type,
                   consumed, abors, ok, cut>>

(* A command that failed after vsf_log_start_entry.                        *)
PlainFails ==
    /\ Running("plain")
    /\ IF log_type
       THEN Bug
       ELSE /\ Reply("say_end")
            /\ StartEntry(TRUE)
            /\ UNCHANGED <<back, inbox, client, line, cmd, signal, flags, data,
                           consumed, abors, ok, cut, logged>>

Blank ==
    /\ Running("blank")
    /\ pc' = "end"
    /\ UNCHANGED <<back, at, inbox, client, line, cmd, signal, flags, data,
                   log_type, past>>

Quit ==
    /\ Running("quit")
    /\ pc' = "exit"
    /\ answered' = answered + 1
    /\ UNCHANGED <<back, at, inbox, client, line, cmd, signal, flags, data,
                   log_type, consumed, abors, ok, cut, logged>>

(* PASV, EPSV, PORT or EPRT: any earlier set-up ends first.                *)
SetUp ==
    /\ Running("setup")
    /\ setup' \in BOOLEAN
    /\ Reply("say_end")
    /\ UNCHANGED <<back, inbox, client, line, cmd, signal, flags, data_fd, ret,
                   chunks, log_type, consumed, abors, ok, cut, logged>>

(* STAT of a file: the listing goes over the control connection.           *)
StatFile(l) ==
    /\ Running("stat")
    /\ l \in {"say_end", "say_abor"}
    /\ Reply(l)
    /\ UNCHANGED <<back, inbox, client, line, cmd, signal, flags, data, log_type,
                   consumed, abors, ok, cut, logged>>

-----------------------------------------------------------------------------
(* A transfer.                                                             *)

(* start_data_alarm                                                        *)
StartDataAlarm ==
    CASE DataTimeout -> handler' = "data" /\ timer' = "data"
      [] ~DataTimeout /\ IdleTimeout -> timer' = "off" /\ UNCHANGED handler
      [] OTHER -> UNCHANGED <<handler, timer>>

(* No set-up, or the file cannot be had.                                   *)
Refuse(logs) ==
    /\ \E c \in Transfers : Running(c)
    /\ logs => setup /\ cmd # "list"
    /\ StartEntry(logs)
    /\ Reply("say_end")
    /\ UNCHANGED <<back, inbox, client, line, cmd, signal, flags, data, consumed,
                   abors, ok, cut, logged>>

GetRemoteTransferFd ==
    /\ \E c \in Transfers : Running(c)
    /\ setup
    /\ IF cmd # "list" /\ log_type
       THEN Bug
       ELSE /\ StartEntry(cmd # "list")
            /\ abor_received' = FALSE
            /\ pc' = "connect"
            /\ UNCHANGED <<back, at, inbox, client, line, cmd, signal, data, past,
                           idle_timeout, data_timeout, data_progress, ctl_shut>>

(* No connection: 425 and port_cleanup, pasv_cleanup.                      *)
ConnectFails ==
    /\ pc = "connect" /\ at = "run"
    /\ setup' = FALSE
    /\ Reply("say_end")
    /\ UNCHANGED <<back, inbox, client, line, cmd, signal, flags, data_fd, ret,
                   chunks, log_type, consumed, abors, ok, cut, logged>>

(* init_data_sock_params, then 150.                                        *)
Connected ==
    /\ pc = "connect" /\ at = "run"
    /\ IF data_fd # None
       THEN Bug
       ELSE /\ data_fd' = "open"
            /\ data_progress' = FALSE
            /\ StartDataAlarm
            /\ ret' = 0 /\ chunks' = 0
            /\ pc' = "say_move"
            /\ UNCHANGED <<back, at, inbox, client, line, cmd, alrm, urg, fired,
                           idle_timeout, data_timeout, abor_received, ctl_shut,
                           setup, log_type, past>>

(* A chunk goes through: handle_io notes it.  What arrived before the      *)
(* connection was shut can still be read.                                  *)
MoveChunk ==
    /\ pc = "move" /\ at = "run"
    /\ data_fd = "open" \/ cmd \in Uploads
    /\ chunks < MaxChunks
    /\ chunks' = chunks + 1
    /\ data_progress' = TRUE
    /\ Check("move")
    /\ UNCHANGED <<back, inbox, client, line, cmd, signal, idle_timeout,
                   data_timeout, abor_received, ctl_shut, data_fd, ret, setup,
                   log_type, past>>

(* The end of the file, a local error (-1) or one of the network (-2).     *)
(* A connection that was shut reads as the end of the file.                *)
MoveEnds(r) ==
    /\ pc = "move" /\ at = "run"
    /\ r \in IF cmd = "list" THEN {0, -2} ELSE {0, -1, -2}
    /\ ret' = r
    /\ Check("dispose")
    /\ UNCHANGED <<back, inbox, client, line, cmd, signal, flags, data_fd, setup,
                   chunks, log_type, past>>

(* vsf_ftpdataio_dispose_transfer_fd, up to its close().                   *)
Dispose ==
    /\ pc = "dispose" /\ at = "run"
    /\ IF data_fd = None
       THEN Bug
       ELSE /\ pc' = "close"
            /\ IF abor_received \/ data_timeout
               THEN UNCHANGED <<handler, timer>>
               ELSE StartDataAlarm
            /\ UNCHANGED <<back, at, inbox, client, line, cmd, alrm, urg, fired,
                           flags, data, log_type, past>>

(* Mutant: the result is not corrected after an ABOR or a timeout.         *)
CloseTrusts ==
    /\ pc = "close" /\ at = "run"
    /\ data_fd' = None
    /\ timer' = IF DataTimeout THEN "off" ELSE timer
    /\ pc' = "report"
    /\ UNCHANGED <<back, at, inbox, client, line, cmd, alrm, urg, handler, fired,
                   flags, ret, setup, chunks, log_type, past>>

(* close() lingers; a signal ends it, and no handler runs here.            *)
Close ==
    /\ pc = "close" /\ at = "run"
    /\ data_fd' = None
    /\ timer' = IF DataTimeout THEN "off" ELSE timer
    /\ ret' = IF (abor_received \/ data_timeout) /\ ret = 0 THEN -2 ELSE ret
    /\ pc' = "report"
    /\ UNCHANGED <<back, at, inbox, client, line, cmd, alrm, urg, handler, fired,
                   flags, setup, chunks, log_type, past>>

(* 226: logged, then answered.                                             *)
ReportOk ==
    /\ pc = "report" /\ at = "run" /\ ret = 0
    /\ ok' = TRUE
    /\ logged' = IF cmd = "list" THEN logged ELSE "ok"
    /\ log_type' = IF cmd = "list" THEN log_type ELSE FALSE
    /\ Reply("say_abor")
    /\ UNCHANGED <<back, inbox, client, line, cmd, signal, flags, data, consumed,
                   abors, cut>>

(* 451, or 426 unless the reply is left to the data timeout.               *)
ReportFailure ==
    /\ pc = "report" /\ at = "run" /\ ret # 0
    /\ IF ret = -2 /\ data_timeout
       THEN pc' = "abor" /\ UNCHANGED <<at, answered>>
       ELSE Reply("say_abor")
    /\ UNCHANGED <<back, inbox, client, line, cmd, signal, flags, data, log_type,
                   consumed, abors, ok, cut, logged>>

(* Mutant: the ABOR is forgotten without a reply.                          *)
CheckAborSilent ==
    /\ pc = "abor" /\ at = "run"
    /\ abor_received' = FALSE
    /\ pc' = "end"
    /\ setup' = IF cmd = "stat" THEN setup ELSE FALSE
    /\ UNCHANGED <<back, at, inbox, client, line, cmd, signal, idle_timeout,
                   answered, data_timeout, data_progress, ctl_shut, data_fd, ret, chunks,
                   log_type, consumed, abors, ok, cut, logged>>

(* check_abor, then port_cleanup and pasv_cleanup.                         *)
CheckAbor ==
    /\ pc = "abor" /\ at = "run"
    /\ abor_received' = FALSE
    /\ IF abor_received
       THEN Reply("say_end")
       ELSE pc' = "end" /\ UNCHANGED <<at, answered>>
    /\ setup' = IF cmd = "stat" THEN setup ELSE FALSE
    /\ UNCHANGED <<back, inbox, client, line, cmd, signal, idle_timeout,
                   data_timeout, data_progress, ctl_shut, data_fd, ret, chunks,
                   log_type, consumed, abors, ok, cut, logged>>

-----------------------------------------------------------------------------
(* The end of the loop's body.                                             *)

(* Mutant: what was not reported complete is logged as if it were.         *)
LogFailedAsOk ==
    /\ pc = "end" /\ at = "run" /\ log_type
    /\ log_type' = FALSE
    /\ logged' = "ok"
    /\ Check("end")
    /\ UNCHANGED <<back, inbox, client, line, cmd, signal, flags, data, consumed,
                   answered, abors, ok, cut>>

(* An entry still open is logged as failed.                                *)
LogFailed ==
    /\ pc = "end" /\ at = "run" /\ log_type
    /\ log_type' = FALSE
    /\ logged' = "failed"
    /\ Check("end")
    /\ UNCHANGED <<back, inbox, client, line, cmd, signal, flags, data, consumed,
                   answered, abors, ok, cut>>

(* Mutant: an open log entry stays open.                                   *)
EndCommandUnlogged ==
    /\ pc = "end" /\ at = "run"
    /\ pc' = IF data_timeout THEN "exit" ELSE "top"
    /\ UNCHANGED <<back, at, inbox, client, line, cmd, signal, flags, data,
                   log_type, past>>

(* 421 Data timeout, or the next command.                                  *)
EndCommand ==
    /\ pc = "end" /\ at = "run" /\ ~log_type
    /\ pc' = IF data_timeout THEN "exit" ELSE "top"
    /\ UNCHANGED <<back, at, inbox, client, line, cmd, signal, flags, data,
                   log_type, past>>

Client ==
    \/ \E l \in ClientLines : ClientSends(l) \/ ClientUrgent(l)
    \/ ClientCompletes
    \/ ClientHangsUp

Pending ==
    \/ NoAlarm \/ HandleIdleAlarm \/ DataAlarmStalled \/ DataAlarmProgress
    \/ NoUrgent \/ UrgentIgnored \/ HandleUrgent

GetCommand ==
    \/ SetAlarm \/ Peek \/ PeekEof \/ ReadLine \/ LineTooLong
    \/ IdleExit \/ EofExit \/ Dispatch \/ SigurgAbor \/ SigurgUnknown \/ SigurgReturns

Command ==
    \/ Plain \/ PlainFails \/ Blank \/ Quit \/ SetUp
    \/ \E l \in {"say_end", "say_abor"} : StatFile(l)
    \/ \E logs \in BOOLEAN : Refuse(logs)
    \/ GetRemoteTransferFd \/ ConnectFails \/ Connected
    \/ Dispose \/ Close \/ ReportOk \/ ReportFailure \/ CheckAbor
    \/ LogFailed \/ EndCommand

Move == MoveChunk \/ \E r \in {0, -1, -2} : MoveEnds(r)

Next ==
    \/ Client \/ Expire \/ Interrupted \/ Pending \/ GetCommand \/ Command \/ Move
    \/ Written \/ WriteFails

Spec == Init /\ [][Next]_vars

(* The process is scheduled, its alarm goes off, and the alarm, which      *)
(* repeats, surely interrupts a system call.  A transfer moves only if the *)
(* client lets it, unless its connection was shut.  A reply is taken only  *)
(* if the client lets it, and one thing is asked of it: that it takes, or  *)
(* breaks, the connection for a reply written where no alarm is set, which *)
(* dispose leaves so; else the write waits for ever (ftpcmdio.c:138).      *)
(* A write to a descriptor made non-blocking returns at once.              *)
FairSpec ==
    /\ Spec
    /\ WF_vars(Expire)
    /\ WF_vars(alrm /\ timer # "off" /\ Interrupted)
    /\ WF_vars(Pending \/ GetCommand \/ Command)
    /\ WF_vars(data_fd = "shut" /\ Move)
    /\ WF_vars((timer = "off" \/ ctl_shut) /\ (Written \/ WriteFails))

-----------------------------------------------------------------------------
TypeControl ==
    /\ pc \in Locations
    /\ back \in {None, "say_move", "move", "dispose"}
    /\ at \in {"run", "alrm", "urg"}
    /\ inbox \in Seq(Lines)
    /\ line \in Lines \cup {None}
    /\ cmd \in Lines \cup {None}
    /\ log_type \in BOOLEAN

TypeClient ==
    /\ partial \in Urgent \cup {None}
    /\ sent \in Nat
    /\ gone \in BOOLEAN

TypeSignal ==
    /\ alrm \in BOOLEAN
    /\ urg \in BOOLEAN
    /\ handler \in {None, "idle", "data"}
    /\ timer \in {"off", "idle", "data", "again"}
    /\ fired \in {None, "waiting", "working"}

TypeFlags ==
    /\ idle_timeout \in BOOLEAN
    /\ data_timeout \in BOOLEAN
    /\ data_progress \in BOOLEAN
    /\ abor_received \in BOOLEAN
    /\ ctl_shut \in BOOLEAN

TypeData ==
    /\ data_fd \in {None, "open", "shut"}
    /\ ret \in {0, -1, -2}
    /\ setup \in BOOLEAN
    /\ chunks \in Nat

TypePast ==
    /\ consumed \in Nat
    /\ answered \in Nat
    /\ abors \in Nat
    /\ ok \in BOOLEAN
    /\ cut \in BOOLEAN
    /\ logged \in {None, "ok", "failed"}

TypeOK ==
    TypeControl /\ TypeClient /\ TypeSignal /\ TypeFlags /\ TypeData /\ TypePast

(* No bug() is reached: no second data connection while one is open, no    *)
(* disposal without one, no log entry begun before the last is written,    *)
(* whatever the signals do in between.                                     *)
NoBug == pc # "bug"

(* When the next command is awaited, every line read so far has had its    *)
(* final reply, the lines handle_sigurg read in the middle of a transfer   *)
(* included; only the ABORs of one transfer share one reply.               *)
Answered ==
    pc = "top" =>
        consumed = answered + (IF abors > 1 THEN abors - 1 ELSE 0)

(* "226 Transfer complete" is never sent for a transfer whose connection   *)
(* was shut by an ABOR or by the data timeout, although such an upload     *)
(* reads as a complete one.                                                *)
SuccessIsWhole == ok => ~cut

(* The log says of a transfer what the client was told.                    *)
LogTruthful ==
    pc = "top" /\ cmd \in Uploads \cup Downloads =>
        (logged = "ok" <=> ok)

(* handle_sigurg waits only for a line the client has begun: a SIGURG that *)
(* is left over never makes it wait for a command yet to be sent.          *)
SigurgHasLine ==
    back # None /\ pc = "peek" => inbox # <<>> \/ partial # None

(* With both timeouts on, an alarm guards every wait for a line, for data  *)
(* and for the client to take a reply, but for the replies that follow a   *)
(* transfer: it is set, or pending, or has shut what the session waits for.*)
NeverUnguarded ==
    IdleTimeout /\ DataTimeout =>
        /\ pc = "peek" => timer # "off" \/ alrm \/ ctl_shut
        /\ pc = "move" => timer # "off" \/ alrm \/ data_fd = "shut"
        /\ \/ pc \in {"say_move", "say_unknown"}
           \/ pc \in Saying /\ cmd \notin Transfers
           => timer # "off" \/ alrm \/ ctl_shut

(* A command comes to an end, or the session does.                         *)
CommandCompletes == pc = "run" ~> pc \in {"top", "exit"}

(* A client that falls silent, in a command, a transfer or between two, is *)
(* disconnected.                                                           *)
SessionEnds == <>(pc = "exit")

(* A client that stops sending, moving data or reading replies does not    *)
(* hold the process for ever, in a command or between two: an alarm ends   *)
(* it.  The exception is FairSpec's last conjunct, a client that does not  *)
(* take a reply written after dispose cleared the alarm.                   *)
NeverHangs == CommandCompletes /\ SessionEnds

(* vsftpd.conf.5 on idle_session_timeout: "the maximum time a remote       *)
(* client may spend between FTP commands".  The alarm that ends a session  *)
(* as idle went off while a command was awaited.                           *)
IdleOnlyBetweenCommands == idle_timeout => fired = "waiting"

(* vsftpd.conf.5 on data_connection_timeout: "the maximum time we permit   *)
(* data transfers to stall".  No data timeout follows a transfer that was  *)
(* reported complete.                                                      *)
NoTimeoutAfterSuccess == ok => ~data_timeout

=============================================================================
