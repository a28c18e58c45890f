--------------------------- MODULE SslSlaveProofs ---------------------------
(***************************************************************************)
(* Proofs about SslSlave, for any number of commands and chunks: that the  *)
(* encrypted session and its slave implement Login, and that they stay in  *)
(* step.  SslIInv follows the one request that can be under way, and what  *)
(* the slave keeps of a transfer, through the places of the session.       *)
(***************************************************************************)
EXTENDS SslSlave, LoginProofs

-----------------------------------------------------------------------------
(* The inductive invariant, with Login's.                                  *)

AtPlaces ==
    {"getcmd", "reply", "shake", "reading", "writing", "closing",
     "top", "mark", "move", "dispose", "closed"} \cup Commands
FlagsType == [idle_timeout : BOOLEAN, data_timeout : BOOLEAN, data_progress : BOOLEAN]
XferType == [dir : {"none", "stor", "retr"},
             end : {"none", "whole", "cut", "failed", "refused"},
             told : {"none", "226", "426"}, shut : BOOLEAN]
UsedType == [lines : Nat, chunks : Nat, urgent : BOOLEAN]
SslTypes ==
    /\ at \in AtPlaces
    /\ after \in {"top", "exit", "mark", "dispose"}
    /\ slave_data \in [data_fd : BOOLEAN, p_data_ssl : BOOLEAN]
    /\ data_fd \in {None, "open", "shut"}
    /\ alarm \in {"none", "idle", "data", "late"}
    /\ flags \in FlagsType /\ xfer \in XferType /\ used \in UsedType

(* The answers that a request can have.                                    *)
Values(r) ==
    CASE r = "GET_USER_CMD" -> Commands \cup {"eof"}
      [] r \in {"DO_SSL_READ", "DO_SSL_WRITE"} ->
            {"data", "whole", "error"} \cup (IF StrictReadEof THEN {} ELSE {"cut"})
      [] OTHER -> {"ok", "bad"}

(* One request is under way, or its answer, exactly while the session      *)
(* waits; a session that ends at an answer leaves nothing.                 *)
Sent(r) == req = <<r>> /\ work = None /\ ans = <<>>
Taken(r) == req = <<>> /\ work = r /\ ans = <<>>
AnsweredWith(r, v) == req = <<>> /\ work = None /\ ans = <<[kind |-> r, val |-> v]>>
Nothing == req = <<>> /\ work = None /\ ans = <<>>
UnderWay(r) == Sent(r) \/ Taken(r) \/ \E v \in Values(r) : AnsweredWith(r, v)
Exchange ==
    IF Waiting THEN \/ UnderWay(Awaits[at])
                    \/ Nothing /\ at \in {"getcmd", "reply"} /\ pc["session"] = "gone"
    ELSE Nothing
Begun == at # "top" => pc["session"] \in {"serve", "gone"}

(* What the slave has of the data connection at each place.                *)
Half == slave_data.data_fd /\ ~slave_data.p_data_ssl
SlaveHas ==
    CASE at = "shake" ->
            /\ data_use_ssl
            /\ req # <<>> => Clean
            /\ work # None => Half
            /\ ans # <<>> => IF Answer.val = "ok" THEN Active ELSE Clean
      [] at = "move" -> IF data_use_ssl THEN Active ELSE Clean
      [] at \in {"reading", "writing"} -> data_use_ssl /\ Active
      [] at = "dispose" -> Clean \/ (data_use_ssl /\ Active)
      [] at = "closing" -> data_use_ssl /\ (Clean \/ Active) /\ (ans # <<>> => Clean)
      [] OTHER -> Clean

(* What the session has of it.                                             *)
SessionHas ==
    /\ at \in {"top", "getcmd"} \cup Commands => data_fd = None
    /\ at \in {"mark", "shake", "move", "reading", "writing", "dispose", "closing", "closed"}
          => data_fd # None
    /\ at = "reply" => /\ after = "top" => data_fd = None
                       /\ after \in {"mark", "dispose"} => data_fd # None

(* What a transfer was reported as: a connection that the alarm shut down  *)
(* has left its mark, and none is left to shut down after the report.      *)
Reported ==
    /\ xfer.told # "none" =>
          data_fd = None /\ (at = "top" \/ (at = "reply" /\ after \in {"top", "exit"}))
    /\ xfer.shut => flags.data_timeout
    /\ xfer.end = "cut" => ~StrictReadEof
    /\ UploadWhole

Kept == SslTypes /\ Exchange /\ Begun /\ SlaveHas /\ SessionHas /\ Reported
SslIInv == LoginIInv /\ Kept
-----------------------------------------------------------------------------
(* What Login's own steps leave of a session that has begun.               *)

LEMMA StopKeepsSession ==
    ASSUME pc \in [Procs -> Places], NEW p \in {"parent", "prelogin"}, NEW how,
           Stop(p, how) \/ Goto(p, how)
    PROVE  pc'["session"] = pc["session"]
  BY DEF Stop, Goto, Procs

LEMMA CommandKeepsSession ==
    ASSUME LoginIInv, ClientCommand
    PROVE  pc["session"] = "none" /\ pc'["session"] = "none"
  <1>1. pc["prelogin"] = "commands"
    BY DEF ClientCommand, UserCommand, PassCommand, GetCommand, AuthCommand, ProtCommand,
           AtCommand
  <1>2. pc["session"] = "none"
    BY <1>1, AtCommands
  <1>3. pc'["session"] = pc["session"]
    <2>1. pc \in [Procs -> Places]
      BY DEF LoginIInv, TypeOK
    <2>2. ASSUME NEW u, NEW pw, DoLogin(u, pw)
          PROVE  pc'["session"] = pc["session"]
      BY <2>1, <2>2 DEF DoLogin, LoginHere, LoginThere, CountFailure, Stop, Goto, Procs
    <2>3. ASSUME NEW u, UserCommand(u)
          PROVE  pc'["session"] = pc["session"]
      <3>1. CASE UserVerdict(u) = "login"
        BY <2>2, <2>3, <3>1 DEF UserCommand
      <3>2. CASE UserVerdict(u) # "login"
        BY <2>1, <2>3, <3>2 DEF UserCommand, CountFailure, Stop, Goto, Procs
      <3> QED
        BY <3>1, <3>2
    <2> QED
      BY <2>1, <2>2, <2>3 DEF ClientCommand, PassCommand, GetCommand, AuthCommand,
                              ProtCommand, Stop, Goto, Procs
  <1> QED
    BY <1>2, <1>3

LEMMA LoginKeepsSession ==
    ASSUME LoginIInv, LoginNext, pc["session"] \in {"serve", "gone"}
    PROVE  pc'["session"] = pc["session"] /\ data_use_ssl' = data_use_ssl
  <1>1. pc \in [Procs -> Places]
    BY DEF LoginIInv, TypeOK
  <1>2. /\ pc["parent"] \in {"split", "serve", "gone"}
        /\ pc["prelogin"] \in {"gone", "waiting", "slave"}
    BY DEF LoginIInv, Together, Channel, GrantedTo
  <1>3. CASE StartUp
    BY <1>2, <1>3 DEF StartUp, Main, OneProcessStart, TwoProcessStart, ParentContext,
                      ChildContext, InitConnection
  <1>4. CASE ClientCommand
    BY <1>4, CommandKeepsSession
  <1>5. CASE Handover
    <2>1. CASE ParentMinimize
      BY <1>1, <2>1, StopKeepsSession DEF ParentMinimize
    <2>2. CASE LoginResult
      BY <1>1, <2>2, StopKeepsSession DEF LoginResult, CountFailure
    <2> QED
      BY <1>2, <1>5, <2>1, <2>2 DEF Handover, ParentStep, ParentRead, ParentVerify,
                                    ParentWait, HandOver, SessionContext
  <1>6. CASE Ending
    BY <1>1, <1>6, StopKeepsSession DEF Ending, ChildEof, ParentSigchld, ParentEof, Exit
  <1>7. CASE Failing
    BY <1>1, <1>7, StopKeepsSession DEF Failing, IdleTimeout, ChildExit, ParentDies,
                                        Sigterm, HangUp, Exit
  <1> QED
    BY <1>3, <1>4, <1>5, <1>6, <1>7 DEF LoginNext

-----------------------------------------------------------------------------
(* The request under way.                                                  *)

LEMMA OneInSequence ==
    ASSUME NEW x
    PROVE  /\ Append(<<>>, x) = <<x>> /\ Head(<<x>>) = x /\ Tail(<<x>>) = <<>>
           /\ <<x>> # <<>> /\ Len(<<x>>) = 1
  OBVIOUS

LEMMA AnswerRead ==
    ASSUME SslIInv, ans # <<>>
    PROVE  /\ Waiting /\ req = <<>> /\ work = None /\ Tail(ans) = <<>>
           /\ Answer.val \in Values(Awaits[at])
           /\ Answer.kind = Awaits[at]
  <1>1. Waiting /\ UnderWay(Awaits[at])
    BY DEF SslIInv, Kept, Exchange, Nothing
  <1>2. PICK v \in Values(Awaits[at]) : AnsweredWith(Awaits[at], v)
    BY <1>1 DEF UnderWay, Sent, Taken
  <1>3. Answer = [kind |-> Awaits[at], val |-> v] /\ Tail(ans) = <<>>
    BY <1>2, OneInSequence DEF AnsweredWith, Answer
  <1> QED
    BY <1>1, <1>2, <1>3 DEF AnsweredWith

LEMMA SlaveBusy ==
    ASSUME SslIInv, work # None
    PROVE  Waiting /\ work = Awaits[at] /\ req = <<>> /\ ans = <<>>
  BY DEF SslIInv, Kept, Exchange, Nothing, UnderWay, Sent, Taken, AnsweredWith

LEMMA SlaveAsked ==
    ASSUME SslIInv, req # <<>>
    PROVE  /\ Waiting /\ req = <<Awaits[at]>> /\ work = None /\ ans = <<>>
           /\ Head(req) = Awaits[at] /\ Tail(req) = <<>>
  <1>1. Waiting /\ req = <<Awaits[at]>> /\ work = None /\ ans = <<>>
    BY DEF SslIInv, Kept, Exchange, Nothing, UnderWay, Sent, Taken, AnsweredWith
  <1> QED
    BY <1>1, OneInSequence

LEMMA AtRest ==
    ASSUME SslIInv, ~Waiting
    PROVE  Nothing
  BY DEF SslIInv, Kept, Exchange

LEMMA Asks ==
    ASSUME req = <<>>, work' = None, ans' = <<>>, NEW place \in DOMAIN Awaits, Ask(place)
    PROVE  /\ Exchange' /\ at' = place /\ req' = <<Awaits[place]>>
  <1>1. at' = place /\ req' = <<Awaits[place]>>
    BY OneInSequence DEF Ask
  <1> QED
    BY <1>1 DEF Exchange, Waiting, UnderWay, Sent

LEMMA AsksNot ==
    ASSUME req' = <<>>, work' = None, ans' = <<>>, at' \notin DOMAIN Awaits
    PROVE  Exchange'
  BY DEF Exchange, Waiting, Nothing

-----------------------------------------------------------------------------
(* The encrypted session implements Login.                                 *)

(* The slave never meets a request that it has to refuse.                  *)
LEMMA RequestsAcceptable ==
    ASSUME SslIInv, req # <<>>
    PROVE  Acceptable(Head(req))
  <1>1. Waiting /\ Head(req) = Awaits[at] /\ ans = <<>>
    BY SlaveAsked
  <1>2. at \in {"getcmd", "reply", "shake", "reading", "writing", "closing"}
    BY <1>1 DEF Waiting, Awaits
  <1>3. /\ at = "shake" => Clean
        /\ at \in {"reading", "writing"} => Active
        /\ at = "closing" => Clean \/ Active
    BY DEF SslIInv, Kept, SlaveHas
  <1> QED
    BY <1>1, <1>2, <1>3 DEF Acceptable, Awaits

LEMMA SslImplements ==
    ASSUME SslIInv, [SslNext]_allvars
    PROVE  [Next]_vars
  <1>1. CASE PlainStep
    BY <1>1 DEF PlainStep, Next
  <1>2. CASE LostPartner \/ NoConsumer
    BY <1>2 DEF LostPartner, NoConsumer, Next
  <1>3. CASE Quits
    <2>1. ServiceExit
      BY <1>3 DEF Quits, ServiceExit, Serving, Procs
    <2> QED
      BY <2>1 DEF Next
  <1>4. CASE SessionStep
    <2>1. CASE GotLine \/ ReplyWritten
      <3>1. UNCHANGED vars \/ (pc["session"] = "serve" /\ Exit("session"))
        BY <2>1 DEF GotLine, ReplyWritten, Answered, Encrypted
      <3>2. CASE pc["session"] = "serve" /\ Exit("session")
        BY <3>2 DEF Next, ServiceExit
      <3> QED
        BY <3>1, <3>2
    <2>2. CASE \E level \in {"C", "P"} : ProtAfterLogin(level)
      BY <2>2 DEF ProtAfterLogin, Next
    <2>3. CASE \/ AskLine \/ TimedOut \/ NoopCommand \/ StartTransfer \/ PostMarkConnect \/ GotHandshake
               \/ MoveChunk \/ GotChunk \/ Dispose \/ GotClose \/ FinishTransfer
      BY <2>3 DEF AskLine, TimedOut, NoopCommand, StartTransfer, PostMarkConnect, GotHandshake,
                  MoveChunk, GotChunk, Dispose, GotClose, FinishTransfer
    <2> QED
      BY <1>4, <2>1, <2>2, <2>3 DEF SessionStep
  <1>5. CASE TransferEnds \/ Urgent
    BY <1>5 DEF TransferEnds, MoveEnds, Urgent
  <1>6. CASE SlaveStep \/ SlaveClient
    <2>1. CASE SlaveTakes
      BY <2>1, RequestsAcceptable DEF SlaveTakes
    <2> QED
      BY <1>6, <2>1 DEF SlaveStep, SlaveClient, SlaveLineEof, SlaveReply, SlaveLine,
                        SlaveAccept, SlaveMoves, SlaveCloses
  <1>7. CASE SlaveDies
    BY <1>7 DEF SlaveDies, SlaveUp, Next, ServiceExit
  <1>8. CASE Alarm
    <2>1. eof \in BOOLEAN
      BY DEF SslIInv, LoginIInv, TypeOK
    <2>2. /\ eof' \in {TRUE, eof}
          /\ UNCHANGED <<cfg, pc, creds, fds, user_str, control_use_ssl, data_use_ssl,
                         login_fails, request, result, sigchld, auth, tries>>
      BY <1>8, <2>1 DEF Alarm
    <2>3. UNCHANGED vars \/ HangUp
      BY <2>1, <2>2 DEF vars, HangUp
    <2> QED
      BY <2>3 DEF Next, LoginNext, Failing
  <1>9. CASE UNCHANGED allvars
    BY <1>9 DEF allvars
  <1> QED
    BY <1>1, <1>2, <1>3, <1>4, <1>5, <1>6, <1>7, <1>8, <1>9 DEF SslNext

-----------------------------------------------------------------------------
(* The steps of the session.                                               *)

LEMMA AskLineKeeps ==
    ASSUME SslIInv, AskLine
    PROVE  Kept'
  <1>1. /\ Encrypted /\ at = "top" /\ Ask("getcmd") /\ alarm' = "idle" /\ xfer' = NoXfer
        /\ UNCHANGED <<vars, after, ans, work, slave_data, data_fd, flags, used>>
    BY DEF AskLine
  <1>2. Nothing
    BY <1>1, AtRest DEF Waiting, Awaits
  <1>3. Exchange' /\ at' = "getcmd"
    BY <1>1, <1>2, Asks DEF Nothing, Awaits
  <1>4. SslTypes'
    BY <1>1, <1>3 DEF SslIInv, Kept, Encrypted, vars, NoXfer, SslTypes, AtPlaces,
           Commands, XferType
  <1>5. Begun'
    BY <1>1, <1>3 DEF SslIInv, Kept, Encrypted, vars, NoXfer, Begun
  <1>6. SlaveHas'
    BY <1>1, <1>3 DEF SslIInv, Kept, Encrypted, vars, NoXfer, SlaveHas, Clean, Active,
           Half, Commands, SslTypes
  <1>7. SessionHas'
    BY <1>1, <1>3 DEF SslIInv, Kept, Encrypted, vars, NoXfer, SessionHas, Commands,
           SslTypes
  <1>8. Reported'
    BY <1>1, <1>3 DEF SslIInv, Kept, Encrypted, vars, NoXfer, Reported, UploadWhole,
           SslTypes, XferType, FlagsType
  <1> QED
    BY <1>3, <1>4, <1>5, <1>6, <1>7, <1>8 DEF Kept

(* A reply, from a place where nothing is under way or at an answer.       *)
LEMMA Replies ==
    ASSUME req = <<>>, work' = None, ans' = <<>>, NEW next, Reply(next)
    PROVE  Exchange' /\ at' = "reply" /\ after' = next
  <1>1. "reply" \in DOMAIN Awaits
    BY DEF Awaits
  <1> QED
    BY <1>1, Asks DEF Reply

LEMMA TimedOutKeeps ==
    ASSUME SslIInv, TimedOut
    PROVE  Kept'
  <1>1. /\ Encrypted /\ at = "top" /\ Reply("exit")
        /\ UNCHANGED <<vars, ans, work, slave_data, data_fd, alarm, flags, xfer, used>>
    BY DEF TimedOut
  <1>2. Nothing
    BY <1>1, AtRest DEF Waiting, Awaits
  <1>3. Exchange' /\ at' = "reply" /\ after' = "exit"
    BY <1>1, <1>2, Replies DEF Nothing
  <1>4. SslTypes'
    BY <1>1, <1>3 DEF SslIInv, Kept, Encrypted, vars, SslTypes, AtPlaces, Commands
  <1>5. Begun'
    BY <1>1, <1>3 DEF SslIInv, Kept, Encrypted, vars, Begun
  <1>6. SlaveHas'
    BY <1>1, <1>3 DEF SslIInv, Kept, Encrypted, vars, SlaveHas, Clean, Active, Half,
           Commands, SslTypes
  <1>7. SessionHas'
    BY <1>1, <1>3 DEF SslIInv, Kept, Encrypted, vars, SessionHas, Commands, SslTypes
  <1>8. Reported'
    BY <1>1, <1>3 DEF SslIInv, Kept, Encrypted, vars, Reported, UploadWhole, SslTypes,
           XferType, FlagsType
  <1> QED
    BY <1>3, <1>4, <1>5, <1>6, <1>7, <1>8 DEF Kept

LEMMA GotLineKeeps ==
    ASSUME SslIInv, GotLine
    PROVE  Kept'
  <1>1. /\ Encrypted /\ at = "getcmd" /\ ans # <<>> /\ ans' = Tail(ans)
        /\ UNCHANGED <<work, slave_data, data_fd, alarm, flags, xfer, used>>
    BY DEF GotLine, Answered
  <1>2. /\ req = <<>> /\ work = None /\ Tail(ans) = <<>>
        /\ Answer.val \in Commands \cup {"eof"}
    BY <1>1, AnswerRead DEF Values, Awaits
  <1>3. pc \in [Procs -> Places]
    BY DEF SslIInv, LoginIInv, TypeOK
  <1>4. Clean /\ data_fd = None /\ xfer.told = "none" /\ pc["session"] = "serve"
    BY <1>1 DEF SslIInv, Kept, SlaveHas, SessionHas, Reported, Encrypted
  <1>5. CASE flags.idle_timeout \/ Answer.val = "long"
    <2>1. Reply("exit") /\ UNCHANGED vars
      BY <1>5 DEF GotLine
    <2>2. Exchange' /\ at' = "reply" /\ after' = "exit"
      BY <1>1, <1>2, <2>1, Replies
    <2>3. SslTypes'
      BY <1>1, <1>2, <1>4, <2>1, <2>2 DEF SslIInv, Kept, vars, SslTypes, AtPlaces,
             Commands
    <2>4. Begun'
      BY <1>1, <1>2, <1>4, <2>1, <2>2 DEF SslIInv, Kept, vars, Begun
    <2>5. SlaveHas'
      BY <1>1, <1>2, <1>4, <2>1, <2>2 DEF SslIInv, Kept, vars, SlaveHas, Clean, Active,
             Half, Commands, SslTypes
    <2>6. SessionHas'
      BY <1>1, <1>2, <1>4, <2>1, <2>2 DEF SslIInv, Kept, vars, SessionHas, Commands,
             SslTypes
    <2>7. Reported'
      BY <1>1, <1>2, <1>4, <2>1, <2>2 DEF SslIInv, Kept, vars, Reported, UploadWhole,
             SslTypes, XferType, FlagsType
    <2> QED
      BY <2>2, <2>3, <2>4, <2>5, <2>6, <2>7 DEF Kept
  <1>6. CASE ~(flags.idle_timeout \/ Answer.val = "long") /\ Answer.val = "eof"
    <2>1. Exit("session") /\ UNCHANGED <<at, after, req>>
      BY <1>6 DEF GotLine
    <2>2. pc'["session"] = "gone" /\ UNCHANGED <<data_use_ssl, auth>>
      BY <1>3, <2>1 DEF Exit, Stop, Procs
    <2>3. Exchange'
      BY <1>1, <1>2, <2>1, <2>2 DEF Exchange, Nothing, Waiting
    <2>4. SslTypes'
      BY <1>1, <1>2, <1>4, <2>1, <2>2 DEF SslIInv, Kept, SslTypes, AtPlaces, Commands
    <2>5. Begun'
      BY <1>1, <1>2, <1>4, <2>1, <2>2 DEF SslIInv, Kept, Begun
    <2>6. SlaveHas'
      BY <1>1, <1>2, <1>4, <2>1, <2>2 DEF SslIInv, Kept, SlaveHas, Clean, Active, Half,
             Commands, SslTypes
    <2>7. SessionHas'
      BY <1>1, <1>2, <1>4, <2>1, <2>2 DEF SslIInv, Kept, SessionHas, Commands, SslTypes
    <2>8. Reported'
      BY <1>1, <1>2, <1>4, <2>1, <2>2 DEF SslIInv, Kept, Reported, UploadWhole,
             SslTypes, XferType, FlagsType
    <2> QED
      BY <2>3, <2>4, <2>5, <2>6, <2>7, <2>8 DEF Kept
  <1>7. CASE ~(flags.idle_timeout \/ Answer.val = "long") /\ Answer.val # "eof"
    <2>1. at' = Answer.val /\ UNCHANGED <<vars, after, req>>
      BY <1>7 DEF GotLine
    <2>2. at' \in Commands /\ at' \notin DOMAIN Awaits
      BY <1>2, <1>7, <2>1 DEF Commands, Awaits
    <2>3. Exchange'
      BY <1>1, <1>2, <2>1, <2>2, AsksNot
    <2>4. SslTypes'
      BY <1>1, <1>2, <1>4, <2>1, <2>2 DEF SslIInv, Kept, vars, SslTypes, AtPlaces,
             Commands
    <2>5. Begun'
      BY <1>1, <1>2, <1>4, <2>1, <2>2 DEF SslIInv, Kept, vars, Begun
    <2>6. SlaveHas'
      BY <1>1, <1>2, <1>4, <2>1, <2>2 DEF SslIInv, Kept, vars, SlaveHas, Clean, Active,
             Half, Commands, SslTypes
    <2>7. SessionHas'
      BY <1>1, <1>2, <1>4, <2>1, <2>2 DEF SslIInv, Kept, vars, SessionHas, Commands,
             SslTypes
    <2>8. Reported'
      BY <1>1, <1>2, <1>4, <2>1, <2>2 DEF SslIInv, Kept, vars, Reported, UploadWhole,
             SslTypes, XferType, FlagsType
    <2> QED
      BY <2>3, <2>4, <2>5, <2>6, <2>7, <2>8 DEF Kept
  <1> QED
    BY <1>5, <1>6, <1>7

LEMMA NoopKeeps ==
    ASSUME SslIInv, NoopCommand \/ \E level \in {"C", "P"} : ProtAfterLogin(level)
    PROVE  Kept'
  <1>1. /\ Encrypted /\ at \in {"noop", "prot C", "prot P"} /\ Reply("top")
        /\ UNCHANGED <<pc, ans, work, slave_data, data_fd, alarm, flags, xfer, used>>
    <2>1. CASE NoopCommand
      BY <2>1 DEF NoopCommand, vars
    <2>2. ASSUME NEW level \in {"C", "P"}, ProtAfterLogin(level)
          PROVE  <1>1!:
      <3>1. at \in {"prot C", "prot P"}
        <4>1. ProtLine["C"] = "prot C" /\ ProtLine["P"] = "prot P"
          BY DEF ProtLine
        <4> QED
          BY <2>2, <4>1 DEF ProtAfterLogin
      <3> QED
        BY <2>2, <3>1 DEF ProtAfterLogin, SessionProt, Encrypted
    <2> QED
      BY <2>1, <2>2
  <1>2. Nothing
    BY <1>1, AtRest DEF Waiting, Awaits
  <1>3. Exchange' /\ at' = "reply" /\ after' = "top"
    BY <1>1, <1>2, Replies DEF Nothing
  <1>4. SslTypes'
    BY <1>1, <1>3 DEF SslIInv, Kept, Encrypted, SslTypes, AtPlaces, Commands
  <1>5. Begun'
    BY <1>1, <1>3 DEF SslIInv, Kept, Encrypted, Begun
  <1>6. SlaveHas'
    BY <1>1, <1>3 DEF SslIInv, Kept, Encrypted, SlaveHas, Clean, Active, Half,
           Commands, SslTypes
  <1>7. SessionHas'
    BY <1>1, <1>3 DEF SslIInv, Kept, Encrypted, SessionHas, Commands, SslTypes
  <1>8. Reported'
    BY <1>1, <1>3 DEF SslIInv, Kept, Encrypted, Reported, UploadWhole, SslTypes,
           XferType, FlagsType
  <1> QED
    BY <1>3, <1>4, <1>5, <1>6, <1>7, <1>8 DEF Kept

LEMMA StartTransferKeeps ==
    ASSUME SslIInv, StartTransfer
    PROVE  Kept'
  <1>1. /\ Encrypted /\ at \in {"stor", "retr"} /\ Reply("mark")
        /\ data_fd' = "open" /\ alarm' = "data"
        /\ flags' = [flags EXCEPT !.data_progress = FALSE]
        /\ xfer' = [NoXfer EXCEPT !.dir = at]
        /\ UNCHANGED <<vars, ans, work, slave_data, used>>
    BY DEF StartTransfer
  <1>2. Nothing
    BY <1>1, AtRest DEF Waiting, Awaits
  <1>3. Exchange' /\ at' = "reply" /\ after' = "mark"
    BY <1>1, <1>2, Replies DEF Nothing
  <1>4. None # "open"
    BY SslConstants
  <1>5. SslTypes'
    BY <1>1, <1>3, <1>4 DEF SslIInv, Kept, Encrypted, vars, NoXfer, SslTypes, AtPlaces,
           Commands, FlagsType, XferType, NoXfer
  <1>6. Begun'
    BY <1>1, <1>3, <1>4 DEF SslIInv, Kept, Encrypted, vars, NoXfer, Begun
  <1>7. SlaveHas'
    BY <1>1, <1>3, <1>4 DEF SslIInv, Kept, Encrypted, vars, NoXfer, SlaveHas, Clean,
           Active, Half, Commands, SslTypes
  <1>8. SessionHas'
    BY <1>1, <1>3, <1>4 DEF SslIInv, Kept, Encrypted, vars, NoXfer, SessionHas,
           Commands, SslTypes
  <1>9. Reported'
    BY <1>1, <1>3, <1>4 DEF SslIInv, Kept, Encrypted, vars, NoXfer, Reported,
           UploadWhole, SslTypes, XferType, FlagsType
  <1> QED
    BY <1>3, <1>5, <1>6, <1>7, <1>8, <1>9 DEF Kept

LEMMA ReplyWrittenKeeps ==
    ASSUME SslIInv, ReplyWritten
    PROVE  Kept'
  <1>1. /\ Encrypted /\ at = "reply" /\ ans # <<>> /\ ans' = Tail(ans)
        /\ UNCHANGED <<after, req, work, slave_data, data_fd, alarm, flags, xfer, used>>
    BY DEF ReplyWritten, Answered
  <1>2. req = <<>> /\ work = None /\ Tail(ans) = <<>>
    BY <1>1, AnswerRead
  <1>3. pc \in [Procs -> Places]
    BY DEF SslIInv, LoginIInv, TypeOK
  <1>4. CASE Answer.val = "ok" /\ after # "exit"
    <2>1. at' = after /\ UNCHANGED vars
      BY <1>4 DEF ReplyWritten
    <2>2. at' \in {"top", "mark", "dispose"}
      BY <1>4, <2>1 DEF SslIInv, Kept, SslTypes
    <2>3. Exchange'
      BY <1>1, <1>2, <2>2, AsksNot DEF Awaits
    <2>4. SslTypes'
      BY <1>1, <1>2, <2>1, <2>2 DEF SslIInv, Kept, Encrypted, vars, SslTypes, AtPlaces,
             Commands
    <2>5. Begun'
      BY <1>1, <1>2, <2>1, <2>2 DEF SslIInv, Kept, Encrypted, vars, Begun
    <2>6. SlaveHas'
      BY <1>1, <1>2, <2>1, <2>2 DEF SslIInv, Kept, Encrypted, vars, SlaveHas, Clean,
             Active, Half, Commands, SslTypes
    <2>7. SessionHas'
      BY <1>1, <1>2, <2>1, <2>2 DEF SslIInv, Kept, Encrypted, vars, SessionHas,
             Commands, SslTypes
    <2>8. Reported'
      BY <1>1, <1>2, <2>1, <2>2 DEF SslIInv, Kept, Encrypted, vars, Reported,
             UploadWhole, SslTypes, XferType, FlagsType
    <2> QED
      BY <2>3, <2>4, <2>5, <2>6, <2>7, <2>8 DEF Kept
  <1>5. CASE ~(Answer.val = "ok" /\ after # "exit")
    <2>1. Exit("session") /\ UNCHANGED at
      BY <1>5 DEF ReplyWritten
    <2>2. pc'["session"] = "gone" /\ UNCHANGED <<data_use_ssl, auth>>
      BY <1>3, <2>1 DEF Exit, Stop, Procs
    <2>3. Exchange'
      BY <1>1, <1>2, <2>1, <2>2 DEF Exchange, Nothing, Waiting
    <2>4. SslTypes'
      BY <1>1, <1>2, <2>1, <2>2 DEF SslIInv, Kept, SslTypes, AtPlaces, Commands
    <2>5. Begun'
      BY <1>1, <1>2, <2>1, <2>2 DEF SslIInv, Kept, Begun
    <2>6. SlaveHas'
      BY <1>1, <1>2, <2>1, <2>2 DEF SslIInv, Kept, SlaveHas, Clean, Active, Half,
             Commands, SslTypes
    <2>7. SessionHas'
      BY <1>1, <1>2, <2>1, <2>2 DEF SslIInv, Kept, SessionHas, Commands, SslTypes
    <2>8. Reported'
      BY <1>1, <1>2, <2>1, <2>2 DEF SslIInv, Kept, Reported, UploadWhole, SslTypes,
             XferType, FlagsType
    <2> QED
      BY <2>3, <2>4, <2>5, <2>6, <2>7, <2>8 DEF Kept
  <1> QED
    BY <1>4, <1>5

LEMMA PostMarkKeeps ==
    ASSUME SslIInv, PostMarkConnect
    PROVE  Kept'
  <1>1. /\ Encrypted /\ at = "mark"
        /\ UNCHANGED <<vars, after, ans, work, slave_data, data_fd, alarm, flags, xfer, used>>
    BY DEF PostMarkConnect
  <1>2. Nothing
    BY <1>1, AtRest DEF Waiting, Awaits
  <1>3. CASE data_use_ssl
    <2>1. Exchange' /\ at' = "shake" /\ work' = None /\ ans' = <<>>
      BY <1>1, <1>2, <1>3, Asks DEF PostMarkConnect, Nothing, Awaits
    <2>2. SslTypes'
      BY <1>1, <1>3, <2>1 DEF SslIInv, Kept, Encrypted, vars, SslTypes, AtPlaces,
             Commands
    <2>3. Begun'
      BY <1>1, <1>3, <2>1 DEF SslIInv, Kept, Encrypted, vars, Begun
    <2>4. SlaveHas'
      BY <1>1, <1>3, <2>1 DEF SslIInv, Kept, Encrypted, vars, SlaveHas, Clean, Active,
             Half, Commands, SslTypes
    <2>5. SessionHas'
      BY <1>1, <1>3, <2>1 DEF SslIInv, Kept, Encrypted, vars, SessionHas, Commands,
             SslTypes
    <2>6. Reported'
      BY <1>1, <1>3, <2>1 DEF SslIInv, Kept, Encrypted, vars, Reported, UploadWhole,
             SslTypes, XferType, FlagsType
    <2> QED
      BY <2>1, <2>2, <2>3, <2>4, <2>5, <2>6 DEF Kept
  <1>4. CASE ~data_use_ssl
    <2>1. Exchange' /\ at' = "move"
      BY <1>1, <1>2, <1>4, AsksNot DEF PostMarkConnect, Nothing, Awaits
    <2>2. SslTypes'
      BY <1>1, <1>4, <2>1 DEF SslIInv, Kept, Encrypted, vars, SslTypes, AtPlaces,
             Commands
    <2>3. Begun'
      BY <1>1, <1>4, <2>1 DEF SslIInv, Kept, Encrypted, vars, Begun
    <2>4. SlaveHas'
      BY <1>1, <1>4, <2>1 DEF SslIInv, Kept, Encrypted, vars, SlaveHas, Clean, Active,
             Half, Commands, SslTypes
    <2>5. SessionHas'
      BY <1>1, <1>4, <2>1 DEF SslIInv, Kept, Encrypted, vars, SessionHas, Commands,
             SslTypes
    <2>6. Reported'
      BY <1>1, <1>4, <2>1 DEF SslIInv, Kept, Encrypted, vars, Reported, UploadWhole,
             SslTypes, XferType, FlagsType
    <2> QED
      BY <2>1, <2>2, <2>3, <2>4, <2>5, <2>6 DEF Kept
  <1> QED
    BY <1>3, <1>4

LEMMA GotHandshakeKeeps ==
    ASSUME SslIInv, GotHandshake
    PROVE  Kept'
  <1>1. /\ Encrypted /\ at = "shake" /\ ans # <<>> /\ ans' = Tail(ans)
        /\ UNCHANGED <<vars, work, slave_data, data_fd, alarm, flags, used>>
    BY DEF GotHandshake, Answered
  <1>2. req = <<>> /\ work = None /\ Tail(ans) = <<>>
    BY <1>1, AnswerRead
  <1>3. data_use_ssl /\ IF Answer.val = "ok" THEN Active ELSE Clean
    BY <1>1 DEF SslIInv, Kept, SlaveHas
  <1>4. CASE Answer.val = "ok"
    <2>1. at' = "move" /\ UNCHANGED <<xfer, req, after>>
      BY <1>4 DEF GotHandshake
    <2>2. Exchange'
      BY <1>1, <1>2, <2>1, AsksNot DEF Awaits
    <2>3. SslTypes'
      BY <1>1, <1>3, <1>4, <2>1 DEF SslIInv, Kept, Encrypted, vars, SslTypes, AtPlaces,
             Commands
    <2>4. Begun'
      BY <1>1, <1>3, <1>4, <2>1 DEF SslIInv, Kept, Encrypted, vars, Begun
    <2>5. SlaveHas'
      BY <1>1, <1>3, <1>4, <2>1 DEF SslIInv, Kept, Encrypted, vars, SlaveHas, Clean,
             Active, Half, Commands, SslTypes
    <2>6. SessionHas'
      BY <1>1, <1>3, <1>4, <2>1 DEF SslIInv, Kept, Encrypted, vars, SessionHas,
             Commands, SslTypes
    <2>7. Reported'
      BY <1>1, <1>3, <1>4, <2>1 DEF SslIInv, Kept, Encrypted, vars, Reported,
             UploadWhole, SslTypes, XferType, FlagsType
    <2> QED
      BY <2>2, <2>3, <2>4, <2>5, <2>6, <2>7 DEF Kept
  <1>5. CASE Answer.val # "ok"
    <2>1. PICK next \in {"exit", "dispose"} : Reply(next)
      BY <1>5 DEF GotHandshake
    <2>2. xfer' = [xfer EXCEPT !.end = "refused"]
      BY <1>5 DEF GotHandshake
    <2>3. Exchange' /\ at' = "reply" /\ after' = next
      BY <1>1, <1>2, <2>1, Replies
    <2>4. SslTypes'
      BY <1>1, <1>3, <1>5, <2>1, <2>2, <2>3 DEF SslIInv, Kept, Encrypted, vars,
             SslTypes, AtPlaces, Commands, XferType
    <2>5. Begun'
      BY <1>1, <1>3, <1>5, <2>1, <2>2, <2>3 DEF SslIInv, Kept, Encrypted, vars, Begun
    <2>6. SlaveHas'
      BY <1>1, <1>3, <1>5, <2>1, <2>2, <2>3 DEF SslIInv, Kept, Encrypted, vars,
             SlaveHas, Clean, Active, Half, Commands, SslTypes
    <2>7. SessionHas'
      BY <1>1, <1>3, <1>5, <2>1, <2>2, <2>3 DEF SslIInv, Kept, Encrypted, vars,
             SessionHas, Commands, SslTypes
    <2>8. Reported'
      BY <1>1, <1>3, <1>5, <2>1, <2>2, <2>3 DEF SslIInv, Kept, Encrypted, vars,
             Reported, UploadWhole, SslTypes, XferType, FlagsType
    <2> QED
      BY <2>3, <2>4, <2>5, <2>6, <2>7, <2>8 DEF Kept
  <1> QED
    BY <1>4, <1>5

LEMMA MoveChunkKeeps ==
    ASSUME SslIInv, MoveChunk
    PROVE  Kept'
  <1>1. /\ Encrypted /\ at = "move" /\ data_use_ssl
        /\ UNCHANGED <<vars, after, ans, work, slave_data, data_fd, alarm, flags, xfer, used>>
    BY DEF MoveChunk
  <1>2. Nothing
    BY <1>1, AtRest DEF Waiting, Awaits
  <1>3. PICK place \in {"reading", "writing"} : Ask(place)
    BY DEF MoveChunk
  <1>4. Exchange' /\ at' = place
    BY <1>1, <1>2, <1>3, Asks DEF Nothing, Awaits
  <1>5. SslTypes'
    BY <1>1, <1>3, <1>4 DEF SslIInv, Kept, Encrypted, vars, SslTypes, AtPlaces,
           Commands
  <1>6. Begun'
    BY <1>1, <1>3, <1>4 DEF SslIInv, Kept, Encrypted, vars, Begun
  <1>7. SlaveHas'
    BY <1>1, <1>3, <1>4 DEF SslIInv, Kept, Encrypted, vars, SlaveHas, Clean, Active,
           Half, Commands, SslTypes
  <1>8. SessionHas'
    BY <1>1, <1>3, <1>4 DEF SslIInv, Kept, Encrypted, vars, SessionHas, Commands,
           SslTypes
  <1>9. Reported'
    BY <1>1, <1>3, <1>4 DEF SslIInv, Kept, Encrypted, vars, Reported, UploadWhole,
           SslTypes, XferType, FlagsType
  <1> QED
    BY <1>4, <1>5, <1>6, <1>7, <1>8, <1>9 DEF Kept

LEMMA MoveEndsKeeps ==
    ASSUME SslIInv, NEW how \in {"whole", "failed"}, MoveEnds(how)
    PROVE  Kept'
  <1>1. /\ Encrypted /\ at = "move" /\ at' = "dispose" /\ xfer' = [xfer EXCEPT !.end = how]
        /\ UNCHANGED <<vars, after, req, ans, work, slave_data, data_fd, alarm, flags, used>>
    BY DEF MoveEnds
  <1>2. Nothing
    BY <1>1, AtRest DEF Waiting, Awaits
  <1>3. Exchange'
    BY <1>1, <1>2, AsksNot DEF Nothing, Awaits
  <1>4. SslTypes'
    BY <1>1 DEF SslIInv, Kept, Encrypted, vars, SslTypes, AtPlaces, Commands, XferType
  <1>5. Begun'
    BY <1>1 DEF SslIInv, Kept, Encrypted, vars, Begun
  <1>6. SlaveHas'
    BY <1>1 DEF SslIInv, Kept, Encrypted, vars, SlaveHas, Clean, Active, Half,
           Commands, SslTypes
  <1>7. SessionHas'
    BY <1>1 DEF SslIInv, Kept, Encrypted, vars, SessionHas, Commands, SslTypes
  <1>8. Reported'
    BY <1>1 DEF SslIInv, Kept, Encrypted, vars, Reported, UploadWhole, SslTypes,
           XferType, FlagsType
  <1> QED
    BY <1>3, <1>4, <1>5, <1>6, <1>7, <1>8 DEF Kept

LEMMA GotChunkKeeps ==
    ASSUME SslIInv, GotChunk
    PROVE  Kept'
  <1>1. /\ Encrypted /\ at \in {"reading", "writing"} /\ ans # <<>> /\ ans' = Tail(ans)
        /\ UNCHANGED <<vars, after, req, work, slave_data, data_fd, alarm, used>>
    BY DEF GotChunk, Answered
  <1>2. /\ req = <<>> /\ work = None /\ Tail(ans) = <<>>
        /\ Answer.val \in {"data", "whole", "error"}
                            \cup (IF StrictReadEof THEN {} ELSE {"cut"})
    BY <1>1, AnswerRead DEF Values, Awaits
  <1>3. data_use_ssl /\ Active
    BY <1>1 DEF SslIInv, Kept, SlaveHas
  <1>4. CASE Answer.val = "data"
    <2>1. at' = "move" /\ flags' = [flags EXCEPT !.data_progress = TRUE] /\ xfer' = xfer
      BY <1>4 DEF GotChunk
    <2>2. Exchange'
      BY <1>1, <1>2, <2>1, AsksNot DEF Awaits
    <2>3. SslTypes'
      BY <1>1, <1>3, <2>1 DEF SslIInv, Kept, Encrypted, vars, SslTypes, AtPlaces,
             Commands, FlagsType
    <2>4. Begun'
      BY <1>1, <1>3, <2>1 DEF SslIInv, Kept, Encrypted, vars, Begun
    <2>5. SlaveHas'
      BY <1>1, <1>3, <2>1 DEF SslIInv, Kept, Encrypted, vars, SlaveHas, Clean, Active,
             Half, Commands, SslTypes
    <2>6. SessionHas'
      BY <1>1, <1>3, <2>1 DEF SslIInv, Kept, Encrypted, vars, SessionHas, Commands,
             SslTypes
    <2>7. Reported'
      BY <1>1, <1>3, <2>1 DEF SslIInv, Kept, Encrypted, vars, Reported, UploadWhole,
             SslTypes, XferType, FlagsType
    <2> QED
      BY <2>2, <2>3, <2>4, <2>5, <2>6, <2>7 DEF Kept
  <1>5. CASE Answer.val # "data"
    <2>1. at' = "dispose" /\ flags' = flags
      BY <1>5 DEF GotChunk
    <2>2. PICK end \in {"failed", "whole"} \cup (IF StrictReadEof THEN {} ELSE {"cut"}) :
             xfer' = [xfer EXCEPT !.end = end]
      BY <1>2, <1>5 DEF GotChunk
    <2>3. Exchange'
      BY <1>1, <1>2, <2>1, AsksNot DEF Awaits
    <2>4. SslTypes'
      BY <1>1, <1>3, <2>1, <2>2 DEF SslIInv, Kept, Encrypted, vars, SslTypes, AtPlaces,
             Commands, XferType
    <2>5. Begun'
      BY <1>1, <1>3, <2>1, <2>2 DEF SslIInv, Kept, Encrypted, vars, Begun
    <2>6. SlaveHas'
      BY <1>1, <1>3, <2>1, <2>2 DEF SslIInv, Kept, Encrypted, vars, SlaveHas, Clean,
             Active, Half, Commands, SslTypes
    <2>7. SessionHas'
      BY <1>1, <1>3, <2>1, <2>2 DEF SslIInv, Kept, Encrypted, vars, SessionHas,
             Commands, SslTypes
    <2>8. Reported'
      BY <1>1, <1>3, <2>1, <2>2 DEF SslIInv, Kept, Encrypted, vars, Reported,
             UploadWhole, SslTypes, XferType, FlagsType
    <2> QED
      BY <2>3, <2>4, <2>5, <2>6, <2>7, <2>8 DEF Kept
  <1> QED
    BY <1>4, <1>5

LEMMA DisposeKeeps ==
    ASSUME SslIInv, Dispose
    PROVE  Kept'
  <1>1. /\ Encrypted /\ at = "dispose"
        /\ UNCHANGED <<vars, after, ans, work, slave_data, data_fd, flags, xfer, used>>
    BY DEF Dispose
  <1>2. Nothing
    BY <1>1, AtRest DEF Waiting, Awaits
  <1>3. CASE data_use_ssl
    <2>1. Exchange' /\ at' = "closing" /\ alarm' = "data" /\ ans' = <<>>
      BY <1>1, <1>2, <1>3, Asks DEF Dispose, Nothing, Awaits
    <2>2. SslTypes'
      BY <1>1, <1>3, <2>1 DEF SslIInv, Kept, Encrypted, vars, SslTypes, AtPlaces,
             Commands
    <2>3. Begun'
      BY <1>1, <1>3, <2>1 DEF SslIInv, Kept, Encrypted, vars, Begun
    <2>4. SlaveHas'
      BY <1>1, <1>3, <2>1 DEF SslIInv, Kept, Encrypted, vars, SlaveHas, Clean, Active,
             Half, Commands, SslTypes
    <2>5. SessionHas'
      BY <1>1, <1>3, <2>1 DEF SslIInv, Kept, Encrypted, vars, SessionHas, Commands,
             SslTypes
    <2>6. Reported'
      BY <1>1, <1>3, <2>1 DEF SslIInv, Kept, Encrypted, vars, Reported, UploadWhole,
             SslTypes, XferType, FlagsType
    <2> QED
      BY <2>1, <2>2, <2>3, <2>4, <2>5, <2>6 DEF Kept
  <1>4. CASE ~data_use_ssl
    <2>1. Exchange' /\ at' = "closed" /\ alarm' \in {alarm, "data"}
      BY <1>1, <1>2, <1>4, AsksNot DEF Dispose, Linger, Nothing, Awaits
    <2>2. SslTypes'
      BY <1>1, <1>4, <2>1 DEF SslIInv, Kept, Encrypted, vars, SslTypes, AtPlaces,
             Commands
    <2>3. Begun'
      BY <1>1, <1>4, <2>1 DEF SslIInv, Kept, Encrypted, vars, Begun
    <2>4. SlaveHas'
      BY <1>1, <1>4, <2>1 DEF SslIInv, Kept, Encrypted, vars, SlaveHas, Clean, Active,
             Half, Commands, SslTypes
    <2>5. SessionHas'
      BY <1>1, <1>4, <2>1 DEF SslIInv, Kept, Encrypted, vars, SessionHas, Commands,
             SslTypes
    <2>6. Reported'
      BY <1>1, <1>4, <2>1 DEF SslIInv, Kept, Encrypted, vars, Reported, UploadWhole,
             SslTypes, XferType, FlagsType
    <2> QED
      BY <2>1, <2>2, <2>3, <2>4, <2>5, <2>6 DEF Kept
  <1> QED
    BY <1>3, <1>4

LEMMA GotCloseKeeps ==
    ASSUME SslIInv, GotClose
    PROVE  Kept'
  <1>1. /\ Encrypted /\ at = "closing" /\ ans # <<>> /\ ans' = Tail(ans) /\ at' = "closed"
        /\ xfer' \in {xfer, [xfer EXCEPT !.end = "failed"]}
        /\ alarm' \in {alarm, "data"}
        /\ UNCHANGED <<vars, after, req, work, slave_data, data_fd, flags, used>>
    BY DEF GotClose, Linger, Answered
  <1>2. req = <<>> /\ work = None /\ Tail(ans) = <<>>
    BY <1>1, AnswerRead
  <1>3. Clean
    BY <1>1 DEF SslIInv, Kept, SlaveHas
  <1>4. Exchange'
    BY <1>1, <1>2, AsksNot DEF Awaits
  <1>5. SslTypes'
    BY <1>1, <1>3 DEF SslIInv, Kept, Encrypted, vars, SslTypes, AtPlaces, Commands,
           XferType
  <1>6. Begun'
    BY <1>1, <1>3 DEF SslIInv, Kept, Encrypted, vars, Begun
  <1>7. SlaveHas'
    BY <1>1, <1>3 DEF SslIInv, Kept, Encrypted, vars, SlaveHas, Clean, Active, Half,
           Commands, SslTypes
  <1>8. SessionHas'
    BY <1>1, <1>3 DEF SslIInv, Kept, Encrypted, vars, SessionHas, Commands, SslTypes
  <1>9. Reported'
    BY <1>1, <1>3 DEF SslIInv, Kept, Encrypted, vars, Reported, UploadWhole, SslTypes,
           XferType, FlagsType
  <1> QED
    BY <1>4, <1>5, <1>6, <1>7, <1>8, <1>9 DEF Kept

LEMMA FinishTransferKeeps ==
    ASSUME SslIInv, FinishTransfer
    PROVE  Kept'
  <1>1. /\ Encrypted /\ at = "closed" /\ data_fd' = None /\ alarm' \in {"none", "late"}
        /\ UNCHANGED <<vars, ans, work, slave_data, flags, used>>
    BY DEF FinishTransfer
  <1>2. Nothing
    BY <1>1, AtRest DEF Waiting, Awaits
  <1>4. CASE flags.data_timeout \/ xfer.end = "refused"
    <2>1. at' = "top" /\ UNCHANGED <<after, req, xfer>>
      BY <1>4 DEF FinishTransfer
    <2>2. Exchange'
      BY <1>1, <1>2, <2>1, AsksNot DEF Nothing, Awaits
    <2>3. SslTypes'
      BY <1>1, <1>4, <2>1 DEF SslIInv, Kept, Encrypted, vars, SslTypes, AtPlaces,
             Commands
    <2>4. Begun'
      BY <1>1, <1>4, <2>1 DEF SslIInv, Kept, Encrypted, vars, Begun
    <2>5. SlaveHas'
      BY <1>1, <1>4, <2>1 DEF SslIInv, Kept, Encrypted, vars, SlaveHas, Clean, Active,
             Half, Commands, SslTypes
    <2>6. SessionHas'
      BY <1>1, <1>4, <2>1 DEF SslIInv, Kept, Encrypted, vars, SessionHas, Commands,
             SslTypes
    <2>7. Reported'
      BY <1>1, <1>4, <2>1 DEF SslIInv, Kept, Encrypted, vars, Reported, UploadWhole,
             SslTypes, XferType, FlagsType
    <2> QED
      BY <2>2, <2>3, <2>4, <2>5, <2>6, <2>7 DEF Kept
  <1>5. CASE ~flags.data_timeout /\ xfer.end # "refused"
    <2>1. Exchange' /\ at' = "reply" /\ after' = "top"
      BY <1>1, <1>2, <1>5, Replies DEF FinishTransfer, Nothing
    <2>2. xfer' = [xfer EXCEPT !.told = IF xfer.end \in Whole THEN "226" ELSE "426"]
      BY <1>5 DEF FinishTransfer
    <2>3. SslTypes'
      BY <1>1, <1>5, <2>1, <2>2 DEF SslIInv, Kept, Encrypted, vars, Whole, SslTypes,
             AtPlaces, Commands, XferType
    <2>4. Begun'
      BY <1>1, <1>5, <2>1, <2>2 DEF SslIInv, Kept, Encrypted, vars, Whole, Begun
    <2>5. SlaveHas'
      BY <1>1, <1>5, <2>1, <2>2 DEF SslIInv, Kept, Encrypted, vars, Whole, SlaveHas,
             Clean, Active, Half, Commands, SslTypes
    <2>6. SessionHas'
      BY <1>1, <1>5, <2>1, <2>2 DEF SslIInv, Kept, Encrypted, vars, Whole, SessionHas,
             Commands, SslTypes
    <2>7. Reported'
      BY <1>1, <1>5, <2>1, <2>2 DEF SslIInv, Kept, Encrypted, vars, Whole, Reported,
             UploadWhole, SslTypes, XferType, FlagsType
    <2> QED
      BY <2>1, <2>3, <2>4, <2>5, <2>6, <2>7 DEF Kept
  <1> QED
    BY <1>4, <1>5

-----------------------------------------------------------------------------
(* The alarm, urgent data, and the steps of the slave.                     *)

LEMMA AlarmKeeps ==
    ASSUME SslIInv, Alarm
    PROVE  Kept'
  <1>1. /\ Encrypted /\ alarm # "none"
        /\ Waiting \/ at = "move"
        /\ UNCHANGED <<pc, data_use_ssl, at, after, req, ans, work, slave_data, used>>
    BY DEF Alarm, Interruptible
  <1>2. /\ flags' \in FlagsType /\ alarm' \in {"none", "data"}
        /\ flags.data_timeout => flags'.data_timeout
    BY DEF Alarm, SslIInv, Kept, SslTypes, FlagsType
  <1>3. \/ data_fd' = data_fd /\ xfer' = xfer
        \/ /\ data_fd # None /\ data_fd' = "shut" /\ flags'.data_timeout
           /\ xfer' = [xfer EXCEPT !.shut = TRUE] /\ xfer.told = "none"
    <2> DEFINE shuts == alarm # "idle" /\ ~flags.data_progress /\ data_fd # None
    <2>1. xfer' = [xfer EXCEPT !.shut = @ \/ shuts] /\ xfer \in XferType
      BY DEF Alarm, SslIInv, Kept, SslTypes
    <2>2. CASE shuts
      <3>1. data_fd' = "shut" /\ flags'.data_timeout
        BY <2>2 DEF Alarm, SslIInv, Kept, SslTypes, FlagsType
      <3>2. xfer.told = "none"
        BY <2>2 DEF SslIInv, Kept, Reported
      <3>3. xfer' = [xfer EXCEPT !.shut = TRUE]
        BY <2>1, <2>2
      <3> QED
        BY <2>2, <3>1, <3>2, <3>3
    <2>3. CASE ~shuts
      <3>1. data_fd' = data_fd
        BY <2>3 DEF Alarm
      <3>2. xfer' = [xfer EXCEPT !.shut = @]
        BY <2>1, <2>3 DEF XferType
      <3>3. xfer' = xfer
        BY <2>1, <3>2 DEF XferType
      <3> QED
        BY <3>1, <3>3
    <2> QED
      BY <2>2, <2>3
  <1>4. Exchange'
    BY <1>1 DEF SslIInv, Kept, Exchange, Waiting, UnderWay, Sent, Taken, AnsweredWith, Nothing
  <1>5. None # "shut"
    BY SslConstants
  <1>6. SslTypes'
    <2>1. xfer' \in XferType
      BY <1>3 DEF SslIInv, Kept, SslTypes, XferType
    <2>2. data_fd' \in {None, "open", "shut"}
      BY <1>3 DEF SslIInv, Kept, SslTypes
    <2> QED
      BY <1>1, <1>2, <2>1, <2>2 DEF SslIInv, Kept, SslTypes
  <1>7. Begun'
    BY <1>1 DEF SslIInv, Kept, Begun
  <1>8. SlaveHas'
    BY <1>1 DEF SslIInv, Kept, SlaveHas, Clean, Active, Half, Commands, SslTypes, Answer
  <1>9. SessionHas'
    BY <1>1, <1>3, <1>5 DEF SslIInv, Kept, SessionHas, Commands, SslTypes
  <1>10. Reported'
    BY <1>1, <1>2, <1>3 DEF SslIInv, Kept, Reported, UploadWhole, SslTypes, XferType,
           FlagsType
  <1> QED
    BY <1>4, <1>6, <1>7, <1>8, <1>9, <1>10 DEF Kept

(* Urgent data starts nothing in a session that is encrypted.              *)
LEMMA UrgentKeeps ==
    ASSUME SslIInv, Urgent
    PROVE  Kept'
  <1>1. ~SigurgInstalled
    <2>1. auth # None /\ auth.ssl
      BY DEF Urgent, Encrypted, SslIInv, LoginIInv, Channel, GrantedTo
    <2>2. control_use_ssl
      BY <2>1 DEF SslIInv, LoginIInv, Found
    <2> QED
      BY <2>2 DEF SigurgInstalled
  <1>2. /\ used' = [used EXCEPT !.urgent = TRUE]
        /\ UNCHANGED <<vars, at, after, req, ans, work, slave_data, data_fd, alarm, flags, xfer>>
    BY <1>1 DEF Urgent
  <1>3. Exchange'
    BY <1>2 DEF SslIInv, Kept, Exchange, Waiting, UnderWay, Sent, Taken, AnsweredWith,
                Nothing, vars
  <1>4. SslTypes'
    BY <1>2 DEF SslIInv, Kept, vars, SslTypes, AtPlaces, Commands, UsedType
  <1>5. Begun'
    BY <1>2 DEF SslIInv, Kept, vars, Begun
  <1>6. SlaveHas'
    BY <1>2 DEF SslIInv, Kept, vars, SlaveHas, Clean, Active, Half, Commands, SslTypes,
           Answer
  <1>7. SessionHas'
    BY <1>2 DEF SslIInv, Kept, vars, SessionHas, Commands, SslTypes
  <1>8. Reported'
    BY <1>2 DEF SslIInv, Kept, vars, Reported, UploadWhole, SslTypes, XferType,
           FlagsType
  <1> QED
    BY <1>3, <1>4, <1>5, <1>6, <1>7, <1>8 DEF Kept

LEMMA SlaveTakesKeeps ==
    ASSUME SslIInv, SlaveTakes
    PROVE  Kept'
  <1>1. /\ Waiting /\ req = <<Awaits[at]>> /\ ans = <<>> /\ work = None
        /\ Head(req) = Awaits[at] /\ Tail(req) = <<>>
    BY SlaveAsked DEF SlaveTakes
  <1>2. Acceptable(Head(req))
    BY RequestsAcceptable DEF SlaveTakes
  <1>3. /\ req' = <<>> /\ work' = Awaits[at]
        /\ slave_data' = IF Awaits[at] = "DO_SSL_HANDSHAKE"
                         THEN [slave_data EXCEPT !.data_fd = TRUE] ELSE slave_data
        /\ UNCHANGED <<vars, at, after, ans, data_fd, alarm, flags, xfer, used>>
    BY <1>1, <1>2 DEF SlaveTakes
  <1>4. at \in {"getcmd", "reply", "shake", "reading", "writing", "closing"}
    BY <1>1 DEF Waiting, Awaits
  <1>5. Awaits[at] = "DO_SSL_HANDSHAKE" <=> at = "shake"
    BY <1>4 DEF Awaits
  <1>6. Exchange'
    BY <1>1, <1>3 DEF Exchange, Waiting, UnderWay, Taken
  <1>7. SslTypes'
    BY <1>1, <1>3, <1>4, <1>5 DEF SslIInv, Kept, vars, SslTypes, AtPlaces, Commands
  <1>8. Begun'
    BY <1>1, <1>3, <1>4, <1>5 DEF SslIInv, Kept, vars, Begun
  <1>9. SlaveHas'
    BY <1>1, <1>3, <1>4, <1>5, OneInSequence DEF SslIInv, Kept, vars, SlaveHas, Clean,
           Active, Half, Commands, SslTypes
  <1>10. SessionHas'
    BY <1>1, <1>3, <1>4, <1>5 DEF SslIInv, Kept, vars, SessionHas, Commands, SslTypes
  <1>11. Reported'
    BY <1>1, <1>3, <1>4, <1>5 DEF SslIInv, Kept, vars, Reported, UploadWhole, SslTypes,
           XferType, FlagsType
  <1> QED
    BY <1>6, <1>7, <1>8, <1>9, <1>10, <1>11 DEF Kept

(* The slave has answered.                                                 *)
LEMMA SlaveAnswers ==
    ASSUME SslIInv, work # None, NEW v \in Values(work), Answers(v),
           UNCHANGED <<at, req>>
    PROVE  /\ Exchange' /\ Waiting /\ work = Awaits[at] /\ req' = <<>>
           /\ ans = <<>> /\ work' = None /\ ans' # <<>> /\ Answer'.val = v
  <1>1. Waiting /\ work = Awaits[at] /\ req = <<>> /\ ans = <<>>
    BY SlaveBusy
  <1>2. work' = None /\ ans' = <<[kind |-> work, val |-> v]>>
    BY <1>1, OneInSequence DEF Answers
  <1>3. ans' # <<>> /\ Answer' = [kind |-> work, val |-> v]
    BY <1>2, OneInSequence DEF Answer
  <1>4. Exchange'
    BY <1>1, <1>2 DEF Exchange, Waiting, UnderWay, AnsweredWith
  <1> QED
    BY <1>1, <1>2, <1>3, <1>4

(* Which place a request comes from.                                       *)
LEMMA PlaceOf ==
    ASSUME Waiting
    PROVE  /\ Awaits[at] = "GET_USER_CMD" => at = "getcmd"
           /\ Awaits[at] = "WRITE_USER_RESP" => at = "reply"
           /\ Awaits[at] = "DO_SSL_HANDSHAKE" => at = "shake"
           /\ Awaits[at] \in {"DO_SSL_READ", "DO_SSL_WRITE"} => at \in {"reading", "writing"}
           /\ Awaits[at] = "DO_SSL_CLOSE" => at = "closing"
  <1>1. at \in {"getcmd", "reply", "shake", "reading", "writing", "closing"}
    BY DEF Waiting, Awaits
  <1> QED
    BY <1>1 DEF Awaits

LEMMA NoneIsNoRequest ==
    None \notin {"GET_USER_CMD", "WRITE_USER_RESP", "DO_SSL_HANDSHAKE", "DO_SSL_READ",
                 "DO_SSL_WRITE", "DO_SSL_CLOSE"}
  <1>1. \A p \in DOMAIN Awaits : None # Awaits[p]
    BY SslConstants
  <1>2. /\ Awaits["getcmd"] = "GET_USER_CMD" /\ Awaits["reply"] = "WRITE_USER_RESP"
        /\ Awaits["shake"] = "DO_SSL_HANDSHAKE" /\ Awaits["reading"] = "DO_SSL_READ"
        /\ Awaits["writing"] = "DO_SSL_WRITE" /\ Awaits["closing"] = "DO_SSL_CLOSE"
        /\ {"getcmd", "reply", "shake", "reading", "writing", "closing"} \subseteq DOMAIN Awaits
    BY DEF Awaits
  <1> QED
    BY <1>1, <1>2

LEMMA SlaveTalksKeeps ==
    ASSUME SslIInv,
           \/ \E line \in Commands : SlaveLine(line)
           \/ SlaveLineEof
           \/ \E val \in {"ok", "bad"} : SlaveReply(val)
    PROVE  Kept'
  <1>1. /\ work \in {"GET_USER_CMD", "WRITE_USER_RESP"}
        /\ UNCHANGED <<vars, at, after, req, slave_data, data_fd, alarm, flags, xfer>>
    BY DEF SlaveLine, SlaveLineEof, SlaveReply
  <1>2. PICK v \in Values(work) : Answers(v)
    BY DEF SlaveLine, SlaveLineEof, SlaveReply, Values
  <1>3. used' \in UsedType
    BY DEF SlaveLine, SlaveLineEof, SlaveReply, SslIInv, Kept, SslTypes, UsedType
  <1>4. Exchange' /\ Waiting /\ work = Awaits[at]
    BY <1>1, <1>2, SlaveAnswers, NoneIsNoRequest
  <1>5. at \in {"getcmd", "reply"}
    BY <1>1, <1>4, PlaceOf
  <1>6. SslTypes'
    BY <1>1, <1>3, <1>5 DEF SslIInv, Kept, vars, SslTypes, AtPlaces, Commands
  <1>7. Begun'
    BY <1>1, <1>3, <1>5 DEF SslIInv, Kept, vars, Begun
  <1>8. SlaveHas'
    BY <1>1, <1>3, <1>5 DEF SslIInv, Kept, vars, SlaveHas, Clean, Active, Half,
           Commands, SslTypes
  <1>9. SessionHas'
    BY <1>1, <1>3, <1>5 DEF SslIInv, Kept, vars, SessionHas, Commands, SslTypes
  <1>10. Reported'
    BY <1>1, <1>3, <1>5 DEF SslIInv, Kept, vars, Reported, UploadWhole, SslTypes,
           XferType, FlagsType
  <1> QED
    BY <1>4, <1>6, <1>7, <1>8, <1>9, <1>10 DEF Kept

LEMMA SlaveAcceptKeeps ==
    ASSUME SslIInv, NEW val \in {"ok", "bad"}, SlaveAccept(val)
    PROVE  Kept'
  <1>1. /\ work = "DO_SSL_HANDSHAKE" /\ Answers(val)
        /\ slave_data' = IF val = "ok" THEN [data_fd |-> TRUE, p_data_ssl |-> TRUE] ELSE NoData
        /\ UNCHANGED <<vars, at, after, req, data_fd, alarm, flags, xfer, used>>
    BY DEF SlaveAccept
  <1>2. val \in Values(work)
    BY <1>1 DEF Values
  <1>3. /\ Exchange' /\ Waiting /\ work = Awaits[at] /\ req' = <<>> /\ work' = None
        /\ Answer'.val = val
    BY <1>1, <1>2, SlaveAnswers, NoneIsNoRequest
  <1>4. at = "shake" /\ data_use_ssl
    <2>1. at = "shake"
      BY <1>1, <1>3, PlaceOf
    <2> QED
      BY <2>1 DEF SslIInv, Kept, SlaveHas
  <1>5. SslTypes'
    BY <1>1, <1>3, <1>4 DEF SslIInv, Kept, vars, NoData, SslTypes, AtPlaces, Commands
  <1>6. Begun'
    BY <1>1, <1>3, <1>4 DEF SslIInv, Kept, vars, NoData, Begun
  <1>7. SlaveHas'
    BY <1>1, <1>3, <1>4 DEF SslIInv, Kept, vars, NoData, SlaveHas, Clean, Active, Half,
           Commands, SslTypes
  <1>8. SessionHas'
    BY <1>1, <1>3, <1>4 DEF SslIInv, Kept, vars, NoData, SessionHas, Commands, SslTypes
  <1>9. Reported'
    BY <1>1, <1>3, <1>4 DEF SslIInv, Kept, vars, NoData, Reported, UploadWhole,
           SslTypes, XferType, FlagsType
  <1> QED
    BY <1>3, <1>5, <1>6, <1>7, <1>8, <1>9 DEF Kept

LEMMA SlaveMovesKeeps ==
    ASSUME SslIInv, NEW how \in {"data", "whole", "cut", "error"}, SlaveMoves(how)
    PROVE  Kept'
  <1>1. /\ work \in {"DO_SSL_READ", "DO_SSL_WRITE"} /\ Answers(ReadResult(how))
        /\ UNCHANGED <<vars, at, after, req, slave_data, data_fd, alarm, flags, xfer>>
    BY DEF SlaveMoves
  <1>2. ReadResult(how) \in Values(work)
    BY <1>1 DEF Values, ReadResult
  <1>3. used' \in UsedType
    BY DEF SlaveMoves, SslIInv, Kept, SslTypes, UsedType
  <1>4. Exchange' /\ Waiting /\ work = Awaits[at]
    BY <1>1, <1>2, SlaveAnswers, NoneIsNoRequest
  <1>5. at \in {"reading", "writing"}
    BY <1>1, <1>4, PlaceOf
  <1>6. SslTypes'
    BY <1>1, <1>3, <1>5 DEF SslIInv, Kept, vars, SslTypes, AtPlaces, Commands
  <1>7. Begun'
    BY <1>1, <1>3, <1>5 DEF SslIInv, Kept, vars, Begun
  <1>8. SlaveHas'
    BY <1>1, <1>3, <1>5 DEF SslIInv, Kept, vars, SlaveHas, Clean, Active, Half,
           Commands, SslTypes
  <1>9. SessionHas'
    BY <1>1, <1>3, <1>5 DEF SslIInv, Kept, vars, SessionHas, Commands, SslTypes
  <1>10. Reported'
    BY <1>1, <1>3, <1>5 DEF SslIInv, Kept, vars, Reported, UploadWhole, SslTypes,
           XferType, FlagsType
  <1> QED
    BY <1>4, <1>6, <1>7, <1>8, <1>9, <1>10 DEF Kept

LEMMA SlaveClosesKeeps ==
    ASSUME SslIInv, NEW clean \in BOOLEAN, SlaveCloses(clean)
    PROVE  Kept'
  <1>1. /\ work = "DO_SSL_CLOSE" /\ slave_data' = NoData
        /\ UNCHANGED <<vars, at, after, req, data_fd, alarm, flags, xfer, used>>
    BY DEF SlaveCloses
  <1>2. PICK v \in Values(work) : Answers(v)
    BY <1>1 DEF SlaveCloses, Values
  <1>3. Exchange' /\ Waiting /\ work = Awaits[at]
    BY <1>1, <1>2, SlaveAnswers, NoneIsNoRequest
  <1>4. at = "closing" /\ data_use_ssl
    <2>1. at = "closing"
      BY <1>1, <1>3, PlaceOf
    <2> QED
      BY <2>1 DEF SslIInv, Kept, SlaveHas
  <1>5. SslTypes'
    BY <1>1, <1>4 DEF SslIInv, Kept, vars, NoData, SslTypes, AtPlaces, Commands
  <1>6. Begun'
    BY <1>1, <1>4 DEF SslIInv, Kept, vars, NoData, Begun
  <1>7. SlaveHas'
    BY <1>1, <1>4 DEF SslIInv, Kept, vars, NoData, SlaveHas, Clean, Active, Half,
           Commands, SslTypes
  <1>8. SessionHas'
    BY <1>1, <1>4 DEF SslIInv, Kept, vars, NoData, SessionHas, Commands, SslTypes
  <1>9. Reported'
    BY <1>1, <1>4 DEF SslIInv, Kept, vars, NoData, Reported, UploadWhole, SslTypes,
           XferType, FlagsType
  <1> QED
    BY <1>3, <1>5, <1>6, <1>7, <1>8, <1>9 DEF Kept

(* What leaves the session and the slave as they are: Login's steps, and   *)
(* the end of a process.                                                   *)
LEMMA ElsewhereKeeps ==
    ASSUME SslIInv, UNCHANGED sslvars,
           pc["session"] \in {"serve", "gone"} =>
              pc'["session"] \in {pc["session"], "gone"} /\ data_use_ssl' = data_use_ssl
    PROVE  Kept'
  <1>1. UNCHANGED <<at, after, req, ans, work, slave_data, data_fd, alarm, flags, xfer, used>>
    BY DEF sslvars
  <1>2. at # "top" => /\ pc["session"] \in {"serve", "gone"}
                      /\ pc'["session"] \in {pc["session"], "gone"}
                      /\ data_use_ssl' = data_use_ssl
    BY DEF SslIInv, Kept, Begun
  <1>3. Exchange'
    BY <1>1, <1>2 DEF SslIInv, Kept, Exchange, Waiting, Awaits, UnderWay, Sent, Taken,
                      AnsweredWith, Nothing
  <1>4. SslTypes'
    BY <1>1, <1>2, ZenonT(40) DEF SslIInv, Kept, SslTypes, AtPlaces, Commands
  <1>5. Begun'
    BY <1>1, <1>2 DEF SslIInv, Kept, Begun
  <1>6. SlaveHas'
    BY <1>1, <1>2 DEF SslIInv, Kept, SlaveHas, Clean, Active, Half, Commands, SslTypes,
           Answer
  <1>7. SessionHas'
    BY <1>1, <1>2 DEF SslIInv, Kept, SessionHas, Commands, SslTypes
  <1>8. Reported'
    BY <1>1, <1>2 DEF SslIInv, Kept, Reported, UploadWhole, SslTypes, XferType,
           FlagsType
  <1> QED
    BY <1>3, <1>4, <1>5, <1>6, <1>7, <1>8 DEF Kept

LEMMA ExitElsewhere ==
    ASSUME SslIInv, NEW p \in Procs, Exit(p)
    PROVE  pc'["session"] \in {pc["session"], "gone"} /\ data_use_ssl' = data_use_ssl
  BY DEF Exit, Stop, SslIInv, LoginIInv, TypeOK, Procs

LEMMA OthersKeep ==
    ASSUME SslIInv, PlainStep \/ LostPartner \/ NoConsumer \/ Quits \/ SlaveDies
    PROVE  Kept'
  <1>1. UNCHANGED sslvars
    BY DEF PlainStep, LostPartner, NoConsumer, Quits, SlaveDies
  <1>2. CASE PlainStep
    BY <1>1, <1>2, LoginKeepsSession, ElsewhereKeeps DEF PlainStep, SslIInv
  <1>3. CASE LostPartner \/ NoConsumer \/ Quits \/ SlaveDies
    <2>1. PICK p \in Procs : Exit(p)
      BY <1>3 DEF LostPartner, ServiceEnds, Serving, NoConsumer, SlaveEof, Quits, SlaveDies,
                  Procs
    <2> QED
      BY <1>1, <2>1, ExitElsewhere, ElsewhereKeeps
  <1> QED
    BY <1>2, <1>3

-----------------------------------------------------------------------------
LEMMA SslInitInv == SslInit => SslIInv
  <1> SUFFICES ASSUME SslInit PROVE SslIInv
    OBVIOUS
  <1>1. LoginIInv
    BY LoginInitInv DEF SslInit
  <1>2. SslTypes
    BY DEF SslInit, SslTypes, AtPlaces, FlagsType, XferType, UsedType, NoXfer
  <1>3. Exchange /\ Begun
    BY DEF SslInit, Exchange, Waiting, Awaits, Nothing, Begun
  <1>4. SlaveHas /\ SessionHas
    BY DEF SslInit, SlaveHas, Clean, SessionHas
  <1>5. Reported
    BY DEF SslInit, NoXfer, Reported, UploadWhole
  <1> QED
    BY <1>1, <1>2, <1>3, <1>4, <1>5 DEF SslIInv, Kept

LEMMA SslStepInv ==
    ASSUME SslIInv, [SslNext]_allvars
    PROVE  SslIInv'
  <1>1. LoginIInv'
    BY SslImplements, LoginStepInv DEF SslIInv
  <1>2. Kept'
    <2>1. CASE SessionStep
      BY <2>1, AskLineKeeps, TimedOutKeeps, GotLineKeeps, NoopKeeps, StartTransferKeeps, ReplyWrittenKeeps,
         PostMarkKeeps, GotHandshakeKeeps, MoveChunkKeeps, GotChunkKeeps, DisposeKeeps,
         GotCloseKeeps, FinishTransferKeeps DEF SessionStep
    <2>2. CASE TransferEnds
      BY <2>2, MoveEndsKeeps DEF TransferEnds
    <2>3. CASE SlaveStep
      BY <2>3, SlaveTakesKeeps, SlaveTalksKeeps DEF SlaveStep
    <2>4. CASE SlaveClient
      BY <2>4, SlaveTalksKeeps, SlaveAcceptKeeps, SlaveMovesKeeps, SlaveClosesKeeps
         DEF SlaveClient
    <2>5. CASE UNCHANGED allvars
      BY <2>5, ElsewhereKeeps DEF allvars, vars
    <2> QED
      BY <2>1, <2>2, <2>3, <2>4, <2>5, OthersKeep, AlarmKeeps, UrgentKeeps DEF SslNext
  <1> QED
    BY <1>1, <1>2 DEF SslIInv

LEMMA SslInvariant == SslSpec => []SslIInv
  <1>1. SslInit => SslIInv
    BY SslInitInv
  <1>2. SslIInv /\ [SslNext]_allvars => SslIInv'
    BY SslStepInv
  <1> QED
    BY <1>1, <1>2, PTL DEF SslSpec

(* The encrypted session and its slave implement Login: whatever they ask  *)
(* each other, and whichever of them dies, no descriptor, credential or    *)
(* answer of the login protocol changes in a way Login does not allow.     *)
THEOREM SslRefinesLogin == SslSpec => LoginSpec
  <1>1. SslInit => Init
    BY DEF SslInit
  <1>2. SslIInv /\ [SslNext]_allvars => [Next]_vars
    BY SslImplements
  <1> QED
    BY <1>1, <1>2, SslInvariant, PTL DEF SslSpec, LoginSpec, Spec

(* So every process keeps to its privileges, is the account that was       *)
(* authenticated and speaks alone in an encrypted session, too.            *)
THEOREM SslKeepsLoginSafe ==
    SslSpec => [](LeastPrivilege /\ ServedAsAuthenticated /\ RequestsGuarded /\ OneSpeaker)
  <1>1. SslSpec => Spec
    BY SslRefinesLogin DEF LoginSpec
  <1> QED
    BY <1>1, PrivilegesAreLeast, SessionIsAuthenticated, LoginsAreGuarded,
       OneProcessSpeaks, PTL

(* Nor does any process meet a failed check of its own, the slave's checks *)
(* of its requests included (sslslave.c), on the servers LoginMeetsNoBug   *)
(* is about.                                                               *)
THEOREM SslMeetsNoBug ==
    ASSUME \A c \in Configs : ~(c["run_as_launching_user"] /\ c["local_enable"])
    PROVE  SslSpec => []NoBug
  <1>1. SslSpec => Spec
    BY SslRefinesLogin DEF LoginSpec
  <1>2. Spec => []NoBug
    BY LoginMeetsNoBug
  <1> QED
    BY <1>1, <1>2, PTL

(* Every variable of the session and of the slave stays in its type.       *)
THEOREM SslTypesHold == SslSpec => []SslTypeOK
  <1>1. SslIInv => SslTypeOK
    <2> SUFFICES ASSUME SslIInv PROVE SslTypeOK
      OBVIOUS
    <2>1. TypeOK
      BY DEF SslIInv, LoginIInv
    <2>2. at \in DOMAIN Awaits \cup {"top", "mark", "move", "dispose", "closed"} \cup Commands
      BY DEF SslIInv, Kept, SslTypes, AtPlaces, Awaits
    <2>3. work \in {None} \cup {Awaits[p] : p \in DOMAIN Awaits}
      BY SlaveBusy DEF Waiting
    <2> QED
      BY <2>1, <2>2, <2>3 DEF SslIInv, Kept, SslTypes, SslTypeOK
  <1> QED
    BY <1>1, SslInvariant, PTL

(* Session and slave stay in step: at most one request is under way, and   *)
(* the answer the session reads is to the request it made, although the    *)
(* answers carry no tags (readwrite.c, sslslave.c).                        *)
THEOREM SslStaysInStep == SslSpec => []InStep
  <1>1. SslIInv => InStep
    <2> SUFFICES ASSUME SslIInv PROVE InStep
      OBVIOUS
    <2>1. ASSUME ans # <<>>
          PROVE  Waiting /\ Head(ans).kind = Awaits[at]
      BY <2>1, AnswerRead DEF Answer
    <2>2. Len(req) + (IF work = None THEN 0 ELSE 1) + Len(ans) <= 1
      <3>1. CASE ans # <<>>
        <4>1. req = <<>> /\ work = None
          BY <3>1, AnswerRead
        <4>2. PICK v : ans = <<v>>
          BY <3>1 DEF SslIInv, Kept, Exchange, Nothing, UnderWay, Sent, Taken, AnsweredWith
        <4> QED
          BY <4>1, <4>2, OneInSequence
      <3>2. CASE ans = <<>> /\ work # None
        <4>1. req = <<>>
          BY <3>2, SlaveBusy
        <4> QED
          BY <3>2, <4>1
      <3>3. CASE ans = <<>> /\ work = None /\ req # <<>>
        <4>1. req = <<Awaits[at]>>
          BY <3>3, SlaveAsked
        <4> QED
          BY <3>3, <4>1, OneInSequence
      <3>4. CASE ans = <<>> /\ work = None /\ req = <<>>
        BY <3>4
      <3> QED
        BY <3>1, <3>2, <3>3, <3>4
    <2> QED
      BY <2>1, <2>2 DEF InStep
  <1> QED
    BY <1>1, SslInvariant, PTL

(* Between commands the slave holds nothing of a transfer, however that    *)
(* ended, so the next handshake does not meet bug("state not clean").      *)
THEOREM SlaveIsReleased == SslSpec => []SlaveReleases
  <1>1. SslIInv => SlaveReleases
    BY DEF SslIInv, Kept, SlaveHas, SessionHas, SlaveReleases
  <1> QED
    BY <1>1, SslInvariant, PTL

(* The slave never has to refuse a request: the checks of ssl_slave on the *)
(* state it is in when a request arrives hold.                             *)
THEOREM SlaveNeverRefuses == SslSpec => [](req # <<>> => Acceptable(Head(req)))
  <1>1. SslIInv => (req # <<>> => Acceptable(Head(req)))
    BY RequestsAcceptable
  <1> QED
    BY <1>1, SslInvariant, PTL

(* An upload that is reported complete was: it ended with TLS's own end of *)
(* data where strict_ssl_read_eof asks for it, and the alarm had not shut  *)
(* its connection down (dispose's look at data_timeout, ftpdataio.c:95).   *)
THEOREM UploadsAreWhole == SslSpec => []UploadWhole
  <1>1. SslIInv => UploadWhole
    BY DEF SslIInv, Kept, Reported
  <1> QED
    BY <1>1, SslInvariant, PTL

=============================================================================
