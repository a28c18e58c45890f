---------------------------- MODULE SessionProofs ---------------------------
(***************************************************************************)
(* Proofs about Session, for every setting of the timeouts and of          *)
(* async_abor_enable, any client and any number of lines and chunks.       *)
(***************************************************************************)
EXTENDS Session, TLAPS

(* Where the loop is, whether or not it is in handle_sigurg; a reply being *)
(* written counts as what follows it.                                      *)
Loc == IF back = None THEN After(pc) ELSE After(back)

Awaiting == {"top"} \cup Getting

(* check_pending_actions runs only after a system call that may block.     *)
Pausing == at # "run" => pc \notin {"top", "run", "close", "report", "exit"}

(* handle_sigurg runs only where check_pending_actions does, with a data   *)
(* connection open; one is open from init_data_sock_params to dispose.     *)
Shape ==
    /\ pc \in {"say_unknown", "unknown"} => back # None
    /\ back # None => pc \in Getting \cup {"say_unknown", "unknown"}
    /\ data_fd # None <=> Loc \in Moving
    /\ pc = "got" => inbox # <<>>
    /\ pc = "parse" => line # None
    /\ Loc \in {"run", "connect", "report", "abor", "end"} \cup Moving
          => cmd # None
    /\ Loc \in {"connect", "report"} \cup Moving => cmd \in Transfers
    /\ Loc = "abor" => cmd \in Transfers \cup {"stat"}

(* Log entries: one is open exactly during a transfer that is logged.      *)
Logging ==
    /\ Loc \in {"connect", "report"} \cup Moving => (log_type <=> cmd # "list")
    /\ Loc \in Awaiting \cup {"run"} => ~log_type
    /\ Loc \in {"run", "connect", "report"} \cup Moving => logged = None /\ ~ok
    /\ ok => ~log_type
    /\ Loc \in {"abor", "end"} \cup Awaiting /\ cmd \in Uploads \cup Downloads
          => (logged = "ok" <=> ok)

Extra == IF abors > 1 THEN abors - 1 ELSE 0

(* How many replies are due where.                                         *)
Counting ==
    /\ Loc = "run" => /\ answered = 0 /\ abors = 0
                      /\ consumed = IF cmd = "blank" THEN 0 ELSE 1
    /\ Loc = "connect" => answered = 0 /\ abors = 0 /\ consumed = 1
    /\ Loc \in {"report"} \cup Moving => consumed = answered + 1 + abors
    /\ Loc = "abor" => data_timeout \/ consumed = answered + abors
    /\ Loc = "end" => data_timeout \/ consumed = answered + Extra
    /\ Loc \in Awaiting => consumed = answered + Extra
    /\ Loc \in {"run", "connect", "report", "abor"} \cup Moving
          => (abor_received <=> abors > 0)
    /\ Loc \in {"end"} \cup Awaiting => ~abor_received

(* A connection that was cut is known to dispose by its flags.             *)
Cutting ==
    /\ Loc \in {"run", "connect"} => ~cut
    /\ Loc \in Moving => (cut => abor_received \/ data_timeout)
    /\ Loc = "report" => (ret = 0 => ~cut)

Unread(s) == \E i \in DOMAIN s : s[i] \in Urgent
UnreadBehind(s) == \E i \in DOMAIN s : i > 1 /\ s[i] \in Urgent

(* A pending SIGURG belongs to a line not read yet; in handle_sigurg, to   *)
(* one behind the line it is about to read.                                *)
Urgency ==
    /\ urg => \/ partial # None
              \/ Unread(inbox)
              \/ pc = "parse" /\ at # "run" /\ back = None
    /\ back # None /\ pc \in {"peek", "got"} =>
          /\ inbox # <<>> \/ partial # None
          /\ urg => \/ partial # None /\ inbox # <<>>
                    \/ UnreadBehind(inbox)

(* What bounds every wait.                                                 *)
Guarding ==
    IdleTimeout /\ DataTimeout =>
        /\ \/ Loc \in Getting \cup {"run"}
           \/ Loc \in {"abor", "end"} /\ cmd \notin Transfers
           => timer # "off" \/ alrm \/ ctl_shut
        /\ Loc \in {"move", "dispose"} =>
              /\ handler = "data"
              /\ \/ timer # "off"
                 \/ alrm
                 \/ data_fd = "shut" /\ ctl_shut

Live == Shape /\ Logging /\ Counting /\ Cutting /\ Urgency /\ Guarding

IInv ==
    /\ TypeOK
    /\ NoBug
    /\ Pausing
    /\ SuccessIsWhole
    /\ pc # "exit" => Live

-----------------------------------------------------------------------------
(* Queues of lines.                                                        *)

(* What Append does to the urgent lines of a queue.                        *)
LEMMA UnreadAppend ==
    ASSUME NEW s \in Seq(Lines), NEW l \in Lines
    PROVE  /\ Append(s, l) # <<>>
           /\ Unread(s) \/ l \in Urgent => Unread(Append(s, l))
           /\ UnreadBehind(s) => UnreadBehind(Append(s, l))
           /\ s # <<>> /\ l \in Urgent => UnreadBehind(Append(s, l))
  <1> DEFINE t == Append(s, l)
  <1>1. /\ t \in Seq(Lines) /\ Len(t) = Len(s) + 1 /\ Len(s) \in Nat
        /\ t[Len(s) + 1] = l
        /\ \A i \in 1 .. Len(s) : t[i] = s[i]
    OBVIOUS
  <1>2. t # <<>>
    BY <1>1
  <1>3. DOMAIN s = 1 .. Len(s) /\ DOMAIN t = 1 .. Len(t)
    BY <1>1
  <1>4. s # <<>> => Len(s) > 0
    OBVIOUS
  <1> HIDE DEF t
  <1>5. Unread(s) \/ l \in Urgent => Unread(t)
    BY <1>1, <1>3 DEF Unread
  <1>6. UnreadBehind(s) => UnreadBehind(t)
    BY <1>1, <1>3 DEF UnreadBehind
  <1>7. s # <<>> /\ l \in Urgent => UnreadBehind(t)
    BY <1>1, <1>3, <1>4 DEF UnreadBehind
  <1> QED
    BY <1>2, <1>5, <1>6, <1>7 DEF t

(* Reading the head leaves the urgent lines behind it.                     *)
LEMMA UnreadTail ==
    ASSUME NEW s \in Seq(Lines), s # <<>>, UnreadBehind(s)
    PROVE  Unread(Tail(s))
  <1>1. PICK i \in DOMAIN s : i > 1 /\ s[i] \in Urgent
    BY DEF UnreadBehind
  <1>2. /\ Tail(s) \in Seq(Lines) /\ Len(Tail(s)) = Len(s) - 1 /\ Len(s) \in Nat
        /\ \A j \in 1 .. Len(s) - 1 : Tail(s)[j] = s[j + 1]
    OBVIOUS
  <1>3. i \in 1 .. Len(s) /\ i - 1 \in 1 .. Len(s) - 1
    BY <1>1, <1>2
  <1>4. Tail(s)[i - 1] = s[i] /\ i - 1 \in DOMAIN Tail(s)
    BY <1>2, <1>3
  <1> QED
    BY <1>1, <1>4 DEF Unread

-----------------------------------------------------------------------------
(* Every action preserves IInv; client and kernel first.  Each lemma first *)
(* says where the step leads, then takes the conjuncts of IInv in turn,    *)
(* those whose variables the action leaves alone together.                 *)

(* ClientSends preserves IInv.                                             *)
LEMMA ClientSendsStep ==
    ASSUME IInv, NEW l \in ClientLines, ClientSends(l)
    PROVE  IInv'
  <1>1. /\ Loc' = Loc
        /\ pc' = pc
        /\ back' = back
    BY DEF ClientSends, IInv, Loc, After
  <1>2. TypeSignal' /\ TypeFlags' /\ TypeData' /\ TypePast'
    BY DEF ClientSends, IInv, TypeOK, TypeSignal, TypeFlags, TypeData,
       TypePast, signal, flags, data, past
  <1>3. TypeControl'
    BY <1>1, SessionAssumption DEF ClientSends, IInv, TypeOK, TypeControl
  <1>4. TypeClient'
    <2>1. sent' = sent + 1 /\ sent \in Nat
      BY DEF ClientSends, IInv, TypeOK, TypeClient
    <2>2. sent' \in Nat
      BY <2>1
    <2> QED
      BY <2>2 DEF ClientSends, IInv, TypeOK, TypeClient
  <1>5. NoBug' /\ Pausing' /\ SuccessIsWhole'
    BY <1>1 DEF ClientSends, IInv, Pausing, SuccessIsWhole, NoBug, past
  <1>6. pc' # "exit" => Logging' /\ Counting' /\ Cutting' /\ Guarding'
    BY DEF ClientSends, IInv, Live, Logging, Counting, Cutting, Guarding,
       Extra, Loc, After, signal, flags, data, past
  <1>7. pc' # "exit" => Shape'
    BY <1>1 DEF ClientSends, IInv, Live, Shape, data
  <1>8. pc' # "exit" => Urgency'
    BY <1>1 DEF ClientSends, IInv, Live, Urgency, Unread, UnreadBehind,
       signal
  <1> QED BY <1>1, <1>2, <1>3, <1>4, <1>5, <1>6, <1>7, <1>8 DEF IInv, TypeOK,
     Live

(* ClientUrgent preserves IInv.                                            *)
LEMMA ClientUrgentStep ==
    ASSUME IInv, NEW l \in ClientLines, ClientUrgent(l)
    PROVE  IInv'
  <1>1. /\ Loc' = Loc
        /\ pc' = pc
        /\ back' = back
    BY DEF ClientUrgent, IInv, Loc, After
  <1>2. TypeControl' /\ TypeFlags' /\ TypeData' /\ TypePast'
    BY DEF ClientUrgent, IInv, TypeOK, TypeControl, TypeFlags, TypeData,
       TypePast, flags, data, past
  <1>3. TypeClient'
    <2>1. sent' = sent + 1 /\ sent \in Nat
      BY DEF ClientUrgent, IInv, TypeOK, TypeClient
    <2>2. sent' \in Nat
      BY <2>1
    <2> QED
      BY <2>2 DEF ClientUrgent, IInv, TypeOK, TypeClient, Urgent
  <1>4. TypeSignal'
    BY SessionAssumption DEF ClientUrgent, IInv, TypeOK, TypeSignal, Urgent
  <1>5. NoBug' /\ Pausing' /\ SuccessIsWhole'
    BY <1>1 DEF ClientUrgent, IInv, Pausing, SuccessIsWhole, NoBug, past
  <1>6. pc' # "exit" =>
         /\ Shape' /\ Logging' /\ Counting'
         /\ Cutting' /\ Guarding'
    BY DEF ClientUrgent, IInv, Live, Shape, Logging, Counting, Cutting,
       Guarding, Extra, Loc, After, flags, data, past
  <1>7. pc' # "exit" => Urgency'
    BY <1>1 DEF ClientUrgent, IInv, Live, Urgency, UnreadBehind, Urgent, None
  <1> QED BY <1>1, <1>2, <1>3, <1>4, <1>5, <1>6, <1>7 DEF IInv, TypeOK, Live

(* ClientCompletes preserves IInv.                                         *)
LEMMA ClientCompletesStep ==
    ASSUME IInv, ClientCompletes
    PROVE  IInv'
  <1>1. /\ Loc' = Loc
        /\ pc' = pc
        /\ back' = back
    BY DEF ClientCompletes, IInv, Loc, After
  <1>2. TypeSignal' /\ TypeFlags' /\ TypeData' /\ TypePast'
    BY DEF ClientCompletes, IInv, TypeOK, TypeSignal, TypeFlags, TypeData,
       TypePast, signal, flags, data, past
  <1>3. TypeControl'
    BY <1>1 DEF ClientCompletes, IInv, TypeOK, TypeControl, TypeClient, Lines
  <1>4. TypeClient'
    BY DEF ClientCompletes, IInv, TypeOK, TypeClient, Urgent
  <1>5. NoBug' /\ Pausing' /\ SuccessIsWhole'
    BY <1>1 DEF ClientCompletes, IInv, Pausing, SuccessIsWhole, NoBug, past
  <1>6. pc' # "exit" => Logging' /\ Counting' /\ Cutting' /\ Guarding'
    BY DEF ClientCompletes, IInv, Live, Logging, Counting, Cutting, Guarding,
       Extra, Loc, After, signal, flags, data, past
  <1>7. pc' # "exit" => Shape'
    BY <1>1 DEF ClientCompletes, IInv, Live, Shape, data
  <1>8. pc' # "exit" => Urgency'
    <2>1. inbox' = Append(inbox, partial) /\ inbox \in Seq(Lines)
      BY DEF ClientCompletes, IInv, TypeOK, TypeControl
    <2>2. partial \in Urgent /\ partial \in Lines
      BY DEF ClientCompletes, IInv, TypeOK, TypeClient, Lines
    <2>3. /\ inbox' # <<>> /\ Unread(inbox')
          /\ inbox # <<>> => UnreadBehind(inbox')
          /\ UnreadBehind(inbox) => UnreadBehind(inbox')
      BY <2>1, <2>2, UnreadAppend
    <2> QED
      BY <1>1, <2>3 DEF ClientCompletes, IInv, Live, Urgency, signal
  <1> QED BY <1>1, <1>2, <1>3, <1>4, <1>5, <1>6, <1>7, <1>8 DEF IInv, TypeOK,
     Live

(* ClientHangsUp preserves IInv.                                           *)
LEMMA ClientHangsUpStep ==
    ASSUME IInv, ClientHangsUp
    PROVE  IInv'
  <1>1. /\ Loc' = Loc
        /\ pc' = pc
        /\ back' = back
    BY DEF ClientHangsUp, IInv, Loc, After
  <1>2. TypeControl' /\ TypeSignal' /\ TypeFlags' /\ TypeData' /\ TypePast'
    BY DEF ClientHangsUp, IInv, TypeOK, TypeControl, TypeSignal, TypeFlags,
       TypeData, TypePast, signal, flags, data, past
  <1>3. TypeClient'
    BY DEF ClientHangsUp, IInv, TypeOK, TypeClient, Urgent
  <1>4. NoBug' /\ Pausing' /\ SuccessIsWhole'
    BY <1>1 DEF ClientHangsUp, IInv, Pausing, SuccessIsWhole, NoBug, past
  <1>5. pc' # "exit" =>
         /\ Shape' /\ Logging' /\ Counting' /\ Cutting'
         /\ Urgency' /\ Guarding'
    BY DEF ClientHangsUp, IInv, Live, Shape, Logging, Counting, Cutting,
       Urgency, Guarding, Extra, Loc, After, signal, flags, data, past
  <1> QED BY <1>1, <1>2, <1>3, <1>4, <1>5 DEF IInv, TypeOK, Live

(* Expire preserves IInv.                                                  *)
LEMMA ExpireStep ==
    ASSUME IInv, Expire
    PROVE  IInv'
  <1>1. /\ Loc' = Loc
        /\ pc' = pc
        /\ back' = back
    BY DEF Expire, IInv, Loc, After
  <1>2. TypeControl' /\ TypeClient' /\ TypeFlags' /\ TypeData' /\ TypePast'
    BY DEF Expire, IInv, TypeOK, TypeControl, TypeClient, TypeFlags,
       TypeData, TypePast, client, flags, data, past
  <1>3. TypeSignal'
    BY DEF Expire, IInv, TypeOK, TypeSignal
  <1>4. NoBug' /\ Pausing' /\ SuccessIsWhole'
    BY <1>1 DEF Expire, IInv, Pausing, SuccessIsWhole, NoBug, past
  <1>5. pc' # "exit" => Shape' /\ Logging' /\ Counting' /\ Cutting' /\ Urgency'
    BY DEF Expire, IInv, Live, Shape, Logging, Counting, Cutting, Urgency,
       Extra, Loc, After, client, flags, data, past
  <1>6. pc' # "exit" => Guarding'
    BY <1>1 DEF Expire, IInv, Live, Guarding, Getting, signal, flags, data
  <1> QED BY <1>1, <1>2, <1>3, <1>4, <1>5, <1>6 DEF IInv, TypeOK, Live

(* Interrupted preserves IInv.                                             *)
LEMMA InterruptedStep ==
    ASSUME IInv, Interrupted
    PROVE  IInv'
  <1>1. /\ Loc' = Loc
        /\ pc' = pc
        /\ back' = back
    BY DEF Interrupted, IInv, Loc, After
  <1>2. TypeClient' /\ TypeSignal' /\ TypeFlags' /\ TypeData' /\ TypePast'
    BY DEF Interrupted, IInv, TypeOK, TypeClient, TypeSignal, TypeFlags,
       TypeData, TypePast, client, signal, flags, data, past
  <1>3. TypeControl'
    BY <1>1 DEF Interrupted, IInv, TypeOK, TypeControl
  <1>4. NoBug' /\ Pausing' /\ SuccessIsWhole'
    BY <1>1 DEF Interrupted, IInv, Pausing, SuccessIsWhole, NoBug,
       Saying, past
  <1>5. pc' # "exit" =>
         /\ Shape' /\ Logging' /\ Counting'
         /\ Cutting' /\ Guarding'
    BY DEF Interrupted, IInv, Live, Shape, Logging, Counting, Cutting,
       Guarding, Extra, Loc, After, signal, flags, data, past
  <1>6. pc' # "exit" => Urgency'
    BY <1>1 DEF Interrupted, IInv, Live, Urgency, UnreadBehind, client,
       signal
  <1> QED BY <1>1, <1>2, <1>3, <1>4, <1>5, <1>6 DEF IInv, TypeOK, Live

(* NoAlarm preserves IInv.                                                 *)
LEMMA NoAlarmStep ==
    ASSUME IInv, NoAlarm
    PROVE  IInv'
  <1>1. /\ Loc' = Loc
        /\ pc' = pc
        /\ back' = back
    BY DEF NoAlarm, IInv, Loc, After
  <1>2. TypeClient' /\ TypeSignal' /\ TypeFlags' /\ TypeData' /\ TypePast'
    BY DEF NoAlarm, IInv, TypeOK, TypeClient, TypeSignal, TypeFlags,
       TypeData, TypePast, client, signal, flags, data, past
  <1>3. TypeControl'
    BY <1>1 DEF NoAlarm, IInv, TypeOK, TypeControl
  <1>4. NoBug' /\ Pausing' /\ SuccessIsWhole'
    BY <1>1 DEF NoAlarm, IInv, Pausing, SuccessIsWhole, NoBug, past
  <1>5. pc' # "exit" =>
         /\ Shape' /\ Logging' /\ Counting'
         /\ Cutting' /\ Guarding'
    BY DEF NoAlarm, IInv, Live, Shape, Logging, Counting, Cutting, Guarding,
       Extra, Loc, After, signal, flags, data, past
  <1>6. pc' # "exit" => Urgency'
    BY <1>1 DEF NoAlarm, IInv, Live, Urgency, UnreadBehind, client, signal
  <1> QED BY <1>1, <1>2, <1>3, <1>4, <1>5, <1>6 DEF IInv, TypeOK, Live

(* HandleIdleAlarm preserves IInv.                                         *)
LEMMA HandleIdleAlarmStep ==
    ASSUME IInv, HandleIdleAlarm
    PROVE  IInv'
  <1>1. /\ Loc' = Loc
        /\ pc' = pc
        /\ back' = back
    BY DEF HandleIdleAlarm, IInv, Loc, After
  <1>2. TypeClient' /\ TypeData' /\ TypePast'
    BY DEF HandleIdleAlarm, IInv, TypeOK, TypeClient, TypeData, TypePast,
       client, data, past
  <1>3. TypeControl'
    BY <1>1 DEF HandleIdleAlarm, IInv, TypeOK, TypeControl
  <1>4. TypeSignal'
    BY DEF HandleIdleAlarm, IInv, TypeOK, TypeSignal
  <1>5. TypeFlags'
    BY DEF HandleIdleAlarm, IInv, TypeOK, TypeFlags
  <1>6. NoBug' /\ Pausing' /\ SuccessIsWhole'
    BY <1>1 DEF HandleIdleAlarm, IInv, Pausing, SuccessIsWhole, NoBug, past
  <1>7. pc' # "exit" => Shape' /\ Logging' /\ Counting' /\ Cutting'
    BY DEF HandleIdleAlarm, IInv, Live, Shape, Logging, Counting, Cutting,
       Extra, Loc, After, data, past
  <1>8. pc' # "exit" => Urgency'
    BY <1>1 DEF HandleIdleAlarm, IInv, Live, Urgency, UnreadBehind, client
  <1>9. pc' # "exit" => Guarding'
    BY <1>1 DEF HandleIdleAlarm, IInv, Live, Guarding, Getting, signal,
       flags, data
  <1> QED BY <1>1, <1>2, <1>3, <1>4, <1>5, <1>6, <1>7, <1>8, <1>9 DEF IInv,
     TypeOK, Live

(* DataAlarmStalled preserves IInv.                                        *)
LEMMA DataAlarmStalledStep ==
    ASSUME IInv, DataAlarmStalled
    PROVE  IInv'
  <1>1. /\ Loc' = Loc
        /\ pc' = pc
        /\ back' = back
    BY DEF DataAlarmStalled, Shut, IInv, Loc, After
  <1>2. TypeClient'
    BY DEF DataAlarmStalled, Shut, IInv, TypeOK, TypeClient, client
  <1>3. TypeControl'
    BY <1>1 DEF DataAlarmStalled, Shut, IInv, TypeOK, TypeControl
  <1>4. TypeSignal'
    BY DEF DataAlarmStalled, Shut, IInv, TypeOK, TypeSignal
  <1>5. TypeFlags'
    BY DEF DataAlarmStalled, Shut, IInv, TypeOK, TypeFlags
  <1>6. TypeData'
    BY DEF DataAlarmStalled, Shut, IInv, TypeOK, TypeData
  <1>7. TypePast'
    BY DEF DataAlarmStalled, Shut, IInv, TypeOK, TypePast
  <1>8. NoBug' /\ Pausing' /\ SuccessIsWhole'
    BY <1>1 DEF DataAlarmStalled, Shut, IInv, Pausing, SuccessIsWhole, NoBug,
       Live, Shape, Logging
  <1>9. pc' # "exit" => Logging'
    BY DEF DataAlarmStalled, Shut, IInv, Live, Logging, Loc, After
  <1>10. pc' # "exit" => Shape'
    BY <1>1 DEF DataAlarmStalled, Shut, IInv, Live, Shape, None
  <1>11. pc' # "exit" => Counting'
    BY <1>1 DEF DataAlarmStalled, Shut, IInv, Live, Counting, Extra
  <1>12. pc' # "exit" => Cutting'
    BY <1>1 DEF DataAlarmStalled, Shut, IInv, Live, Shape, Cutting, Moving
  <1>13. pc' # "exit" => Urgency'
    BY <1>1 DEF DataAlarmStalled, Shut, IInv, Live, Urgency, UnreadBehind,
       client
  <1>14. pc' # "exit" => Guarding'
    BY <1>1 DEF DataAlarmStalled, Shut, IInv, Live, Shape, Guarding, Moving,
       Getting, signal, flags, data
  <1> QED BY <1>1, <1>2, <1>3, <1>4, <1>5, <1>6, <1>7, <1>8, <1>9, <1>10,
         <1>11, <1>12, <1>13, <1>14 DEF IInv, TypeOK, Live

(* DataAlarmProgress preserves IInv.                                       *)
LEMMA DataAlarmProgressStep ==
    ASSUME IInv, DataAlarmProgress
    PROVE  IInv'
  <1>1. /\ Loc' = Loc
        /\ pc' = pc
        /\ back' = back
    BY DEF DataAlarmProgress, IInv, Loc, After
  <1>2. TypeClient' /\ TypeData' /\ TypePast'
    BY DEF DataAlarmProgress, IInv, TypeOK, TypeClient, TypeData, TypePast,
       client, data, past
  <1>3. TypeControl'
    BY <1>1 DEF DataAlarmProgress, IInv, TypeOK, TypeControl
  <1>4. TypeSignal'
    BY DEF DataAlarmProgress, IInv, TypeOK, TypeSignal
  <1>5. TypeFlags'
    BY DEF DataAlarmProgress, IInv, TypeOK, TypeFlags
  <1>6. NoBug' /\ Pausing' /\ SuccessIsWhole'
    BY <1>1 DEF DataAlarmProgress, IInv, Pausing, SuccessIsWhole, NoBug, past
  <1>7. pc' # "exit" => Shape' /\ Logging' /\ Counting' /\ Cutting'
    BY DEF DataAlarmProgress, IInv, Live, Shape, Logging, Counting, Cutting,
       Extra, Loc, After, data, past
  <1>8. pc' # "exit" => Urgency'
    BY <1>1 DEF DataAlarmProgress, IInv, Live, Urgency, UnreadBehind, client
  <1>9. pc' # "exit" => Guarding'
    BY <1>1 DEF DataAlarmProgress, IInv, Guarding, Live, Getting, signal,
       flags, data
  <1> QED BY <1>1, <1>2, <1>3, <1>4, <1>5, <1>6, <1>7, <1>8, <1>9 DEF IInv,
     TypeOK, Live

(* NoUrgent preserves IInv.                                                *)
LEMMA NoUrgentStep ==
    ASSUME IInv, NoUrgent
    PROVE  IInv'
  <1>1. /\ Loc' = Loc
        /\ pc' = pc
        /\ back' = back
    BY DEF NoUrgent, IInv, Loc, After
  <1>2. TypeClient' /\ TypeSignal' /\ TypeFlags' /\ TypeData' /\ TypePast'
    BY DEF NoUrgent, IInv, TypeOK, TypeClient, TypeSignal, TypeFlags,
       TypeData, TypePast, client, signal, flags, data, past
  <1>3. TypeControl'
    BY <1>1 DEF NoUrgent, IInv, TypeOK, TypeControl
  <1>4. NoBug' /\ Pausing' /\ SuccessIsWhole'
    BY <1>1 DEF NoUrgent, IInv, Pausing, SuccessIsWhole, NoBug, past
  <1>5. pc' # "exit" =>
         /\ Shape' /\ Logging' /\ Counting'
         /\ Cutting' /\ Guarding'
    BY DEF NoUrgent, IInv, Live, Shape, Logging, Counting, Cutting, Guarding,
       Extra, Loc, After, signal, flags, data, past
  <1>6. pc' # "exit" => Urgency'
    BY <1>1 DEF NoUrgent, IInv, Live, Urgency, UnreadBehind, client, signal
  <1> QED BY <1>1, <1>2, <1>3, <1>4, <1>5, <1>6 DEF IInv, TypeOK, Live

(* UrgentIgnored preserves IInv.                                           *)
LEMMA UrgentIgnoredStep ==
    ASSUME IInv, UrgentIgnored
    PROVE  IInv'
  <1>1. /\ Loc' = Loc
        /\ pc' = pc
        /\ back' = back
    BY DEF UrgentIgnored, IInv, Loc, After
  <1>2. TypeClient' /\ TypeFlags' /\ TypeData' /\ TypePast'
    BY DEF UrgentIgnored, IInv, TypeOK, TypeClient, TypeFlags, TypeData,
       TypePast, client, flags, data, past
  <1>3. TypeControl'
    BY <1>1 DEF UrgentIgnored, IInv, TypeOK, TypeControl
  <1>4. TypeSignal'
    BY DEF UrgentIgnored, IInv, TypeOK, TypeSignal
  <1>5. NoBug' /\ Pausing' /\ SuccessIsWhole'
    BY <1>1 DEF UrgentIgnored, IInv, Pausing, SuccessIsWhole, NoBug, past
  <1>6. pc' # "exit" =>
         /\ Shape' /\ Logging' /\ Counting'
         /\ Cutting' /\ Guarding'
    BY DEF UrgentIgnored, IInv, Live, Shape, Logging, Counting, Cutting,
       Guarding, Extra, Loc, After, flags, data, past
  <1>7. pc' # "exit" => Urgency'
    BY <1>1 DEF UrgentIgnored, IInv, Urgency, UnreadBehind
  <1> QED BY <1>1, <1>2, <1>3, <1>4, <1>5, <1>6, <1>7 DEF IInv, TypeOK, Live

(* HandleUrgent preserves IInv.                                            *)
LEMMA HandleUrgentStep ==
    ASSUME IInv, HandleUrgent
    PROVE  IInv'
  <1>1. /\ Loc' = Loc
        /\ Loc \in {"move", "dispose"}
        /\ pc' = "peek"
        /\ back' = pc
        /\ back = None
        /\ pc \in {"say_move", "move", "dispose"}
    BY DEF HandleUrgent, IInv, TypeOK, TypeControl, Locations, Live,
       Pausing, Shape, Loc, After, None, Moving, Saying
  <1>2. TypeClient' /\ TypeFlags' /\ TypeData' /\ TypePast'
    BY DEF HandleUrgent, IInv, TypeOK, TypeClient, TypeFlags, TypeData,
       TypePast, client, flags, data, past
  <1>3. TypeControl'
    BY <1>1 DEF HandleUrgent, IInv, TypeOK, TypeControl, Locations, Saying, Getting
  <1>4. TypeSignal'
    BY DEF HandleUrgent, IInv, TypeOK, TypeSignal
  <1>5. NoBug' /\ Pausing' /\ SuccessIsWhole'
    BY <1>1 DEF HandleUrgent, IInv, Pausing, SuccessIsWhole, NoBug, past
  <1>6. pc' # "exit" => Shape'
    BY <1>1 DEF HandleUrgent, IInv, Live, Shape, Getting, data
  <1>7. pc' # "exit" => Logging'
    BY <1>1 DEF HandleUrgent, IInv, Live, Logging, past
  <1>8. pc' # "exit" => Counting'
    BY <1>1 DEF HandleUrgent, IInv, Live, Counting, Extra, flags, past
  <1>9. pc' # "exit" => Cutting'
    BY <1>1 DEF HandleUrgent, IInv, Live, Cutting, flags, past
  <1>10. pc' # "exit" => Urgency'
    BY <1>1 DEF HandleUrgent, IInv, Live, Urgency, Unread, UnreadBehind,
       client
  <1>11. pc' # "exit" => Guarding'
    BY <1>1 DEF HandleUrgent, IInv, Live, Guarding, flags, data, Getting,
       signal
  <1> QED BY <1>1, <1>2, <1>3, <1>4, <1>5, <1>6, <1>7, <1>8, <1>9, <1>10,
         <1>11 DEF IInv, TypeOK, Live

(* SetAlarm preserves IInv.                                                *)
LEMMA SetAlarmStep ==
    ASSUME IInv, SetAlarm
    PROVE  IInv'
  <1>1. /\ Loc = "top"
        /\ pc = "top"
        /\ back = None
        /\ Loc' = "peek"
        /\ pc' = "peek"
        /\ back' = None
    BY DEF SetAlarm, IInv, Live, Shape, Loc, After, Getting
  <1>2. TypeClient' /\ TypeFlags' /\ TypeData' /\ TypePast'
    BY DEF SetAlarm, IInv, TypeOK, TypeClient, TypeFlags, TypeData, TypePast,
       client, flags, data, past
  <1>3. TypeControl'
    BY <1>1, SessionAssumption DEF SetAlarm, IInv, TypeOK, TypeControl,
       Locations, Saying, Getting
  <1>4. TypeSignal'
    BY SessionAssumption DEF SetAlarm, IInv, TypeOK, TypeSignal
  <1>5. NoBug' /\ Pausing' /\ SuccessIsWhole'
    BY <1>1 DEF SetAlarm, IInv, Pausing, SuccessIsWhole, NoBug, past
  <1>6. pc' # "exit" => Shape'
    BY <1>1 DEF SetAlarm, IInv, Live, Shape, Moving, data
  <1>7. pc' # "exit" => Logging'
    BY <1>1 DEF SetAlarm, IInv, Live, Logging, Moving, Awaiting, past
  <1>8. pc' # "exit" => Counting'
    BY <1>1 DEF SetAlarm, IInv, Live, Counting, Extra, Moving, Awaiting,
       flags, past
  <1>9. pc' # "exit" => Cutting'
    BY <1>1 DEF SetAlarm, IInv, Cutting, Moving
  <1>10. pc' # "exit" => Urgency'
    BY <1>1 DEF SetAlarm, IInv, Live, Urgency, UnreadBehind, client
  <1>11. pc' # "exit" => Guarding'
    BY <1>1 DEF SetAlarm, IInv, Guarding, Live, Getting, signal, flags, data
  <1> QED BY <1>1, <1>2, <1>3, <1>4, <1>5, <1>6, <1>7, <1>8, <1>9, <1>10,
         <1>11 DEF IInv, TypeOK, Live

(* Peek preserves IInv.                                                    *)
LEMMA PeekStep ==
    ASSUME IInv, Peek
    PROVE  IInv'
  <1>1. /\ pc = "peek"
        /\ pc' = "got"
        /\ back' = back
        /\ Loc' = IF back = None THEN "got" ELSE Loc
        /\ back = None => Loc = "peek"
    <2>1. pc = "peek" /\ pc' = "got" /\ back' = back
      BY DEF Peek, Check
    <2>2. back = None => Loc = pc /\ Loc' = pc'
      BY <2>1 DEF Loc, After
    <2>3. back # None => Loc' = Loc
      BY <2>1 DEF Loc, After
    <2> QED BY <2>1, <2>2, <2>3
  <1>2. TypeClient' /\ TypeSignal' /\ TypeFlags' /\ TypeData' /\ TypePast'
    BY DEF Peek, IInv, TypeOK, TypeClient, TypeSignal, TypeFlags, TypeData,
       TypePast, client, signal, flags, data, past
  <1>3. TypeControl'
    BY <1>1 DEF Peek, Check, IInv, TypeOK, TypeControl, Locations, Saying, Getting
  <1>4. NoBug' /\ Pausing' /\ SuccessIsWhole'
    BY <1>1 DEF Peek, IInv, Pausing, SuccessIsWhole, NoBug, past
  <1>5. pc' # "exit" => Shape'
    BY <1>1 DEF Peek, IInv, Live, Shape, Getting, Moving, data
  <1>6. pc' # "exit" => Logging'
    BY <1>1 DEF Peek, IInv, Live, Logging, Getting, Moving, Awaiting, past
  <1>7. pc' # "exit" => Counting'
    BY <1>1 DEF Peek, IInv, Live, Counting, Extra, Getting, Moving, Awaiting,
       flags, past
  <1>8. pc' # "exit" => Cutting'
    BY <1>1 DEF Peek, IInv, Live, Cutting, Moving, flags, data, past
  <1>9. pc' # "exit" => Urgency'
    BY <1>1 DEF Peek, IInv, Live, Urgency, UnreadBehind, client, signal
  <1>10. pc' # "exit" => Guarding'
    BY <1>1 DEF Peek, IInv, Live, Guarding, signal, flags, data, Getting
  <1> QED BY <1>1, <1>2, <1>3, <1>4, <1>5, <1>6, <1>7, <1>8, <1>9, <1>10 DEF
     IInv, TypeOK, Live

(* PeekEof preserves IInv.                                                 *)
LEMMA PeekEofStep ==
    ASSUME IInv, PeekEof
    PROVE  IInv'
  <1>1. /\ pc = "peek"
        /\ pc' = "eof"
        /\ back' = back
        /\ Loc' = IF back = None THEN "eof" ELSE Loc
        /\ back = None => Loc = "peek"
    <2>1. pc = "peek" /\ pc' = "eof" /\ back' = back
      BY DEF PeekEof, Check
    <2>2. back = None => Loc = pc /\ Loc' = pc'
      BY <2>1 DEF Loc, After
    <2>3. back # None => Loc' = Loc
      BY <2>1 DEF Loc, After
    <2> QED BY <2>1, <2>2, <2>3
  <1>2. TypeClient' /\ TypeSignal' /\ TypeFlags' /\ TypeData' /\ TypePast'
    BY DEF PeekEof, IInv, TypeOK, TypeClient, TypeSignal, TypeFlags,
       TypeData, TypePast, client, signal, flags, data, past
  <1>3. TypeControl'
    BY <1>1 DEF PeekEof, Check, IInv, TypeOK, TypeControl, Locations, Saying, Getting
  <1>4. NoBug' /\ Pausing' /\ SuccessIsWhole'
    BY <1>1 DEF PeekEof, IInv, Pausing, SuccessIsWhole, NoBug, past
  <1>5. pc' # "exit" => Shape'
    BY <1>1 DEF PeekEof, IInv, Live, Shape, Getting, Moving, data
  <1>6. pc' # "exit" => Logging'
    BY <1>1 DEF PeekEof, IInv, Live, Logging, Getting, Moving, Awaiting, past
  <1>7. pc' # "exit" => Counting'
    BY <1>1 DEF PeekEof, IInv, Live, Counting, Extra, Getting, Moving,
       Awaiting, flags, past
  <1>8. pc' # "exit" => Cutting'
    BY <1>1 DEF PeekEof, IInv, Live, Cutting, Moving, flags, data, past
  <1>9. pc' # "exit" => Urgency'
    BY <1>1 DEF PeekEof, IInv, Live, Urgency, UnreadBehind, client, signal
  <1>10. pc' # "exit" => Guarding'
    BY <1>1 DEF PeekEof, IInv, Live, Guarding, signal, flags, data, Getting
  <1> QED BY <1>1, <1>2, <1>3, <1>4, <1>5, <1>6, <1>7, <1>8, <1>9, <1>10 DEF
     IInv, TypeOK, Live

(* ReadLine preserves IInv.                                                *)
LEMMA ReadLineStep ==
    ASSUME IInv, ReadLine
    PROVE  IInv'
  <1>1. /\ pc = "got"
        /\ pc' = "parse"
        /\ back' = back
        /\ Loc' = IF back = None THEN "parse" ELSE Loc
        /\ back = None => Loc = "got"
    <2>1. pc = "got" /\ pc' = "parse" /\ back' = back
      BY DEF ReadLine, Check
    <2>2. back = None => Loc = pc /\ Loc' = pc'
      BY <2>1 DEF Loc, After
    <2>3. back # None => Loc' = Loc
      BY <2>1 DEF Loc, After
    <2> QED BY <2>1, <2>2, <2>3
  <1>2. TypeClient' /\ TypeSignal' /\ TypeFlags' /\ TypeData' /\ TypePast'
    BY DEF ReadLine, IInv, TypeOK, TypeClient, TypeSignal, TypeFlags,
       TypeData, TypePast, client, signal, flags, data, past
  <1>3. TypeControl'
    <2>1. inbox # <<>> /\ inbox \in Seq(Lines)
      BY DEF ReadLine, IInv, Live, Shape, TypeOK, TypeControl
    <2>2. Head(inbox) \in Lines /\ Tail(inbox) \in Seq(Lines)
      BY <2>1
    <2> QED
      BY <1>1, <2>2 DEF ReadLine, Check, IInv, TypeOK, TypeControl,
         Locations, Saying, Getting
  <1>4. NoBug' /\ Pausing' /\ SuccessIsWhole'
    BY <1>1 DEF ReadLine, IInv, Pausing, SuccessIsWhole, NoBug, past
  <1>5. pc' # "exit" => Shape'
    <2>1. inbox # <<>> /\ inbox \in Seq(Lines) /\ line' = Head(inbox)
      BY DEF ReadLine, IInv, Live, Shape, TypeOK, TypeControl
    <2>2. line' \in Lines
      BY <2>1
    <2>3. line' # None
      BY <2>2 DEF Lines, Uploads, Downloads, Transfers, Urgent, None
    <2> QED
      BY <1>1, <2>3 DEF ReadLine, IInv, Live, Shape, Getting, Moving, data
  <1>6. pc' # "exit" => Logging'
    BY <1>1 DEF ReadLine, IInv, Live, Logging, Getting, Moving, Awaiting,
       past
  <1>7. pc' # "exit" => Counting'
    BY <1>1 DEF ReadLine, IInv, Live, Counting, Extra, Getting, Moving,
       Awaiting, flags, past
  <1>8. pc' # "exit" => Cutting'
    BY <1>1 DEF ReadLine, IInv, Live, Cutting, Moving, flags, data, past
  <1>9. pc' # "exit" => Urgency'
    <2>1. CASE back = None
      BY <1>1, <2>1 DEF ReadLine, Check, Urgency
    <2>2. CASE back # None
      <3>1. urg => partial # None \/ UnreadBehind(inbox)
        BY <1>1, <2>2 DEF IInv, Live, Urgency
      <3>2. inbox # <<>> /\ inbox \in Seq(Lines)
        BY <1>1 DEF IInv, Live, Shape, TypeOK, TypeControl
      <3>3. urg => partial # None \/ Unread(inbox')
        BY <3>1, <3>2, UnreadTail DEF ReadLine
      <3> QED
        BY <1>1, <3>3 DEF ReadLine, Urgency, client, signal
    <2> QED BY <2>1, <2>2
  <1>10. pc' # "exit" => Guarding'
    BY <1>1 DEF ReadLine, IInv, Live, Guarding, signal, flags, data, Getting
  <1> QED BY <1>1, <1>2, <1>3, <1>4, <1>5, <1>6, <1>7, <1>8, <1>9, <1>10 DEF
     IInv, TypeOK, Live

(* IdleExit preserves IInv.                                                *)
LEMMA IdleExitStep ==
    ASSUME IInv, IdleExit
    PROVE  IInv'
  <1>1. /\ pc' = "exit"
    BY DEF IdleExit, IInv
  <1>2. TypeClient' /\ TypeSignal' /\ TypeFlags' /\ TypeData' /\ TypePast'
    BY DEF IdleExit, IInv, TypeOK, TypeClient, TypeSignal, TypeFlags,
       TypeData, TypePast, client, signal, flags, data, past
  <1>3. TypeControl'
    BY <1>1 DEF IdleExit, IInv, TypeOK, TypeControl, Locations, Saying
  <1>4. NoBug' /\ Pausing' /\ SuccessIsWhole'
    BY <1>1 DEF IdleExit, IInv, Pausing, SuccessIsWhole, NoBug, past
  <1> QED BY <1>1, <1>2, <1>3, <1>4 DEF IInv, TypeOK

(* EofExit preserves IInv.                                                 *)
LEMMA EofExitStep ==
    ASSUME IInv, EofExit
    PROVE  IInv'
  <1>1. /\ pc' = "exit"
    BY DEF EofExit, IInv
  <1>2. TypeClient' /\ TypeSignal' /\ TypeFlags' /\ TypeData' /\ TypePast'
    BY DEF EofExit, IInv, TypeOK, TypeClient, TypeSignal, TypeFlags,
       TypeData, TypePast, client, signal, flags, data, past
  <1>3. TypeControl'
    BY <1>1 DEF EofExit, IInv, TypeOK, TypeControl, Locations, Saying
  <1>4. NoBug' /\ Pausing' /\ SuccessIsWhole'
    BY <1>1 DEF EofExit, IInv, Pausing, SuccessIsWhole, NoBug, past
  <1> QED BY <1>1, <1>2, <1>3, <1>4 DEF IInv, TypeOK

(* Dispatch preserves IInv.                                                *)
LEMMA DispatchStep ==
    ASSUME IInv, Dispatch
    PROVE  IInv'
  <1>1. /\ Loc = "parse"
        /\ pc = "parse"
        /\ back = None
        /\ Loc' = "run"
        /\ pc' = "run"
        /\ back' = None
    BY DEF Dispatch, IInv, Loc, After
  <1>2. TypeClient' /\ TypeSignal' /\ TypeFlags' /\ TypeData'
    BY DEF Dispatch, IInv, TypeOK, TypeClient, TypeSignal, TypeFlags,
       TypeData, client, signal, flags, data
  <1>3. TypeControl'
    BY <1>1 DEF Dispatch, IInv, TypeOK, TypeControl, Locations, Saying
  <1>4. TypePast'
    BY DEF Dispatch, IInv, TypePast
  <1>5. NoBug' /\ Pausing' /\ SuccessIsWhole'
    BY <1>1 DEF Dispatch, IInv, Pausing, SuccessIsWhole, NoBug
  <1>6. pc' # "exit" => Shape'
    BY <1>1 DEF Dispatch, IInv, Live, Shape, Moving, data
  <1>7. pc' # "exit" => Logging'
    BY <1>1 DEF Dispatch, IInv, Live, Logging, Getting, Moving, Awaiting
  <1>8. pc' # "exit" => Counting'
    BY <1>1 DEF Dispatch, IInv, Live, Counting, Getting, Moving, Awaiting,
       flags
  <1>9. pc' # "exit" => Cutting'
    BY <1>1 DEF Dispatch, IInv, Cutting
  <1>10. pc' # "exit" => Urgency'
    BY <1>1 DEF Dispatch, IInv, Live, Urgency, UnreadBehind, client, signal
  <1>11. pc' # "exit" => Guarding'
    BY <1>1 DEF Dispatch, IInv, Guarding, Live, Getting, signal, flags, data
  <1> QED BY <1>1, <1>2, <1>3, <1>4, <1>5, <1>6, <1>7, <1>8, <1>9, <1>10,
         <1>11 DEF IInv, TypeOK, Live

(* SigurgAbor preserves IInv.                                              *)
LEMMA SigurgAborStep ==
    ASSUME IInv, SigurgAbor
    PROVE  IInv'
  <1>1. /\ Loc' = Loc
        /\ Loc \in {"move", "dispose"}
        /\ pc' = back
        /\ back' = None
        /\ back \in {"say_move", "move", "dispose"}
        /\ pc = "parse"
    BY DEF SigurgAbor, Shut, IInv, TypeOK, TypeControl, Loc, After, None
  <1>2. TypeClient' /\ TypeSignal'
    BY DEF SigurgAbor, Shut, IInv, TypeOK, TypeClient, TypeSignal, client,
       signal
  <1>3. TypeControl'
    BY <1>1 DEF SigurgAbor, Shut, IInv, TypeOK, TypeControl, Locations, Saying,
       Moving
  <1>4. TypeFlags'
    BY DEF SigurgAbor, Shut, IInv, TypeOK, TypeFlags
  <1>5. TypeData'
    BY DEF SigurgAbor, Shut, IInv, TypeOK, TypeData
  <1>6. TypePast'
    <2>1. /\ consumed' = consumed + 1 /\ abors' = abors + 1 /\ answered' = answered
          /\ consumed \in Nat /\ answered \in Nat /\ abors \in Nat
      BY DEF SigurgAbor, IInv, TypeOK, TypePast
    <2>2. consumed' \in Nat /\ answered' \in Nat /\ abors' \in Nat
      BY <2>1
    <2> QED
      BY <2>2 DEF SigurgAbor, Shut, IInv, TypeOK, TypePast
  <1>7. NoBug' /\ Pausing' /\ SuccessIsWhole'
    BY <1>1 DEF SigurgAbor, Shut, IInv, Pausing, SuccessIsWhole, NoBug, Live,
       Logging, Moving
  <1>8. pc' # "exit" => Shape'
    BY <1>1 DEF SigurgAbor, Shut, IInv, Live, Shape, None
  <1>9. pc' # "exit" => Logging'
    BY <1>1 DEF SigurgAbor, Shut, IInv, Live, Logging
  <1>10. pc' # "exit" => Counting'
    <2>1. consumed = answered + 1 + abors /\ (abor_received <=> abors > 0)
      BY <1>1 DEF IInv, Live, Counting, Moving
    <2>2. /\ consumed' = consumed + 1 /\ abors' = abors + 1 /\ answered' = answered
          /\ consumed \in Nat /\ answered \in Nat /\ abors \in Nat
      BY DEF SigurgAbor, IInv, TypeOK, TypePast
    <2>3. consumed' = answered' + 1 + abors'
      BY <2>1, <2>2
    <2>4. abor_received' <=> abors' > 0
      <3>1. abor_received'
        BY DEF SigurgAbor
      <3> QED BY <2>1, <2>2, <3>1
    <2> QED
      BY <1>1, <2>3, <2>4 DEF Counting, Awaiting, Getting
  <1>11. pc' # "exit" => Cutting'
    BY <1>1 DEF SigurgAbor, Shut, IInv, Cutting
  <1>12. pc' # "exit" => Urgency'
    BY <1>1 DEF SigurgAbor, Shut, IInv, Live, Urgency, UnreadBehind, client,
       signal
  <1>13. pc' # "exit" => Guarding'
    BY <1>1 DEF SigurgAbor, Shut, IInv, Live, Guarding, signal, Getting,
       flags, data
  <1> QED BY <1>1, <1>2, <1>3, <1>4, <1>5, <1>6, <1>7, <1>8, <1>9, <1>10,
         <1>11, <1>12, <1>13 DEF IInv, TypeOK, Live

(* SigurgUnknown preserves IInv.                                           *)
LEMMA SigurgUnknownStep ==
    ASSUME IInv, SigurgUnknown
    PROVE  IInv'
  <1>1. /\ Loc' = Loc
        /\ Loc \in {"move", "dispose"}
        /\ pc = "parse"
        /\ pc' = "say_unknown"
        /\ back' = back
        /\ back \in {"say_move", "move", "dispose"}
    BY DEF SigurgUnknown, Check, IInv, TypeOK, TypeControl, Loc, After
  <1>2. TypeClient' /\ TypeSignal' /\ TypeFlags' /\ TypeData'
    <2>1. UNCHANGED <<client, signal, flags, data>>
      BY DEF SigurgUnknown
    <2> QED
      BY <2>1 DEF IInv, TypeOK, TypeClient, TypeSignal, TypeFlags, TypeData,
         client, signal, flags, data
  <1>3. TypeControl'
    BY <1>1 DEF SigurgUnknown, Check, IInv, TypeOK, TypeControl, Locations, Saying
  <1>4. TypePast'
    <2>1. /\ consumed' = consumed + 1 /\ abors' = abors /\ answered' = answered + 1
          /\ consumed \in Nat /\ answered \in Nat /\ abors \in Nat
      BY DEF SigurgUnknown, IInv, TypeOK, TypePast
    <2>2. consumed' \in Nat /\ answered' \in Nat /\ abors' \in Nat
      BY <2>1
    <2> QED
      BY <2>2 DEF SigurgUnknown, IInv, TypeOK, TypePast
  <1>5. NoBug' /\ Pausing' /\ SuccessIsWhole'
    BY <1>1 DEF SigurgUnknown, IInv, Pausing, SuccessIsWhole, NoBug
  <1>6. pc' # "exit" => Shape'
    BY <1>1 DEF SigurgUnknown, IInv, Live, Shape, data
  <1>7. pc' # "exit" => Logging'
    BY <1>1 DEF SigurgUnknown, IInv, Live, Logging
  <1>8. pc' # "exit" => Counting'
    <2>1. consumed = answered + 1 + abors /\ (abor_received <=> abors > 0)
      BY <1>1 DEF IInv, Live, Counting, Moving
    <2>2. /\ consumed' = consumed + 1 /\ abors' = abors /\ answered' = answered + 1
          /\ consumed \in Nat /\ answered \in Nat /\ abors \in Nat
      BY DEF SigurgUnknown, IInv, TypeOK, TypePast
    <2>3. consumed' = answered' + 1 + abors'
      BY <2>1, <2>2
    <2>4. abor_received' <=> abors' > 0
      <3>1. (abor_received' <=> abor_received)
        BY DEF SigurgUnknown, flags
      <3> QED BY <2>1, <2>2, <3>1
    <2> QED
      BY <1>1, <2>3, <2>4 DEF Counting, Awaiting, Getting
  <1>9. pc' # "exit" => Cutting'
    BY <1>1 DEF SigurgUnknown, IInv, Live, Cutting, flags
  <1>10. pc' # "exit" => Urgency'
    BY <1>1 DEF SigurgUnknown, IInv, Live, Urgency, UnreadBehind, client,
       signal
  <1>11. pc' # "exit" => Guarding'
    BY <1>1 DEF SigurgUnknown, IInv, Live, Guarding, signal, flags, data,
       Getting
  <1> QED BY <1>1, <1>2, <1>3, <1>4, <1>5, <1>6, <1>7, <1>8, <1>9, <1>10,
         <1>11 DEF IInv, TypeOK, Live

(* SigurgReturns preserves IInv.                                           *)
LEMMA SigurgReturnsStep ==
    ASSUME IInv, SigurgReturns
    PROVE  IInv'
  <1>1. /\ Loc' = Loc
        /\ Loc \in {"move", "dispose"}
        /\ pc' = back
        /\ back' = None
        /\ back \in {"say_move", "move", "dispose"}
        /\ pc = "unknown"
    BY DEF SigurgReturns, IInv, Live, TypeOK, TypeControl, Shape, Loc, After, None
  <1>2. TypeClient' /\ TypeSignal' /\ TypeFlags' /\ TypeData' /\ TypePast'
    BY DEF SigurgReturns, IInv, TypeOK, TypeClient, TypeSignal, TypeFlags,
       TypeData, TypePast, client, signal, flags, data, past
  <1>3. TypeControl'
    BY <1>1 DEF SigurgReturns, IInv, TypeOK, TypeControl, Locations, Saying, Moving
  <1>4. NoBug' /\ Pausing' /\ SuccessIsWhole'
    BY <1>1 DEF SigurgReturns, IInv, Pausing, SuccessIsWhole, NoBug, past
  <1>5. pc' # "exit" => Shape'
    BY <1>1 DEF SigurgReturns, IInv, Live, Shape, data
  <1>6. pc' # "exit" => Logging'
    BY <1>1 DEF SigurgReturns, IInv, Live, Logging, past
  <1>7. pc' # "exit" => Counting'
    BY <1>1 DEF SigurgReturns, IInv, Live, Counting, Extra, flags, past
  <1>8. pc' # "exit" => Cutting'
    BY <1>1 DEF SigurgReturns, IInv, Live, Cutting, flags, past
  <1>9. pc' # "exit" => Urgency'
    BY <1>1 DEF SigurgReturns, IInv, Live, Urgency, UnreadBehind, client,
       signal
  <1>10. pc' # "exit" => Guarding'
    BY <1>1 DEF SigurgReturns, IInv, Live, Guarding, signal, flags, data,
       Getting
  <1> QED BY <1>1, <1>2, <1>3, <1>4, <1>5, <1>6, <1>7, <1>8, <1>9, <1>10 DEF
     IInv, TypeOK, Live

(* WriteFails preserves IInv.                                              *)
LEMMA WriteFailsStep ==
    ASSUME IInv, WriteFails
    PROVE  IInv'
  <1>1. /\ pc' = "exit"
    BY DEF WriteFails, IInv
  <1>2. TypeClient' /\ TypeSignal' /\ TypeFlags' /\ TypeData' /\ TypePast'
    BY DEF WriteFails, IInv, TypeOK, TypeClient, TypeSignal, TypeFlags,
       TypeData, TypePast, client, signal, flags, data, past
  <1>3. TypeControl'
    BY <1>1 DEF WriteFails, IInv, TypeOK, TypeControl, Locations, Saying
  <1>4. NoBug' /\ Pausing' /\ SuccessIsWhole'
    BY <1>1 DEF WriteFails, IInv, Pausing, SuccessIsWhole, NoBug, past
  <1> QED BY <1>1, <1>2, <1>3, <1>4 DEF IInv, TypeOK

(* Written preserves IInv.                                                 *)
LEMMA WrittenStep ==
    ASSUME IInv, Written
    PROVE  IInv'
  <1>1. /\ Loc' = Loc
        /\ pc \in Saying
        /\ pc' \in {"move", "abor", "end", "unknown"}
        /\ back' = back
    BY DEF Written, Check, IInv, TypeOK, TypeControl, Saying, Loc, After
  <1>2. TypeClient' /\ TypeSignal' /\ TypeFlags' /\ TypeData' /\ TypePast'
    BY DEF Written, IInv, TypeOK, TypeClient, TypeSignal, TypeFlags,
       TypeData, TypePast, client, signal, flags, data, past
  <1>3. TypeControl'
    BY <1>1 DEF Written, Check, IInv, TypeOK, TypeControl, Locations, Moving
  <1>4. NoBug' /\ Pausing' /\ SuccessIsWhole'
    BY <1>1 DEF Written, IInv, Pausing, SuccessIsWhole, NoBug, past
  <1>5. pc # "exit" /\ pc # "unknown" /\ pc \notin Getting
    BY <1>1 DEF Saying, Getting
  <1>6. Shape'
    <2>1. pc' = "unknown" => back' # None
      BY <1>1, <1>5 DEF Written, Check, After, Saying, IInv, Live, Shape
    <2>2. back' # None => pc' = "unknown"
      BY <1>1, <1>5 DEF Written, Check, After, Saying, IInv, Live, Shape
    <2> QED
      BY <1>1, <1>5, <2>1, <2>2 DEF Written, IInv, Live, Shape, data
  <1>7. Logging'
    BY <1>1, <1>5 DEF Written, IInv, Live, Logging, past
  <1>8. Counting'
    BY <1>1, <1>5 DEF Written, IInv, Live, Counting, Extra, flags, past
  <1>9. Cutting'
    BY <1>1, <1>5 DEF Written, IInv, Live, Cutting, flags, data, past
  <1>10. Urgency'
    BY <1>1, <1>5 DEF Written, IInv, Live, Urgency, UnreadBehind, client,
       signal
  <1>11. Guarding'
    BY <1>1, <1>5 DEF Written, IInv, Live, Guarding, signal, flags, data
  <1> QED BY <1>1, <1>2, <1>3, <1>4, <1>6, <1>7, <1>8, <1>9, <1>10, <1>11
       DEF IInv, TypeOK, Live

(* Plain preserves IInv.                                                   *)
LEMMA PlainStep ==
    ASSUME IInv, Plain
    PROVE  IInv'
  <1>1. /\ Loc = "run"
        /\ pc = "run"
        /\ back = None
        /\ Loc' = "end"
        /\ pc' = "say_end"
        /\ back' = None
        /\ cmd # "blank"
    <2>1. pc = "run" /\ pc' = "say_end" /\ back' = back /\ cmd # "blank"
      BY DEF Plain, Running, Reply, Check, Urgent
    <2>2. back = None
      BY <2>1 DEF IInv, Live, Shape, Getting
    <2> QED BY <2>1, <2>2 DEF Loc, After
  <1>2. TypeClient' /\ TypeSignal' /\ TypeFlags' /\ TypeData'
    BY DEF Plain, Running, IInv, TypeOK, TypeClient, TypeSignal, TypeFlags,
       TypeData, client, signal, flags, data
  <1>3. TypeControl'
    BY <1>1 DEF Plain, Running, Reply, Check, IInv, TypeOK, TypeControl,
       Locations, Saying
  <1>4. TypePast'
    BY DEF Plain, Running, Reply, IInv, TypeOK, TypePast
  <1>5. NoBug' /\ Pausing' /\ SuccessIsWhole'
    BY <1>1 DEF Plain, Running, IInv, Pausing, SuccessIsWhole, NoBug
  <1>6. pc' # "exit" => Shape'
    BY <1>1 DEF Plain, Running, IInv, Live, Shape, Moving, data
  <1>7. pc' # "exit" => Logging'
    BY <1>1 DEF Plain, Running, IInv, Live, Logging, Uploads, Downloads,
       Moving, Urgent
  <1>8. pc' # "exit" => Counting'
    BY <1>1 DEF Plain, Running, Reply, IInv, Live, Counting, Extra, Moving,
       flags
  <1>9. pc' # "exit" => Cutting'
    BY <1>1 DEF Plain, Running, IInv, Live, Cutting
  <1>10. pc' # "exit" => Urgency'
    BY <1>1 DEF Plain, Running, IInv, Live, Urgency, UnreadBehind, client,
       signal
  <1>11. pc' # "exit" => Guarding'
    BY <1>1 DEF Plain, Running, IInv, Guarding, Live, Getting, signal,
       flags, data
  <1> QED BY <1>1, <1>2, <1>3, <1>4, <1>5, <1>6, <1>7, <1>8, <1>9, <1>10,
         <1>11 DEF IInv, TypeOK, Live

(* PlainFails preserves IInv.                                              *)
LEMMA PlainFailsStep ==
    ASSUME IInv, PlainFails
    PROVE  IInv'
  <1>1. /\ Loc = "run"
        /\ pc = "run"
        /\ back = None
        /\ Loc' = "end"
        /\ pc' = "say_end"
        /\ back' = None
        /\ cmd = "plain"
        /\ ~log_type
    <2>1. pc = "run" /\ cmd = "plain"
      BY DEF PlainFails, Running
    <2>2. back = None /\ Loc = "run"
      BY <2>1 DEF IInv, Live, Shape, Loc, After, Getting
    <2>3. ~log_type
      BY <2>1, <2>2 DEF IInv, Live, Logging
    <2>4. pc' = "say_end" /\ back' = back
      BY <2>3 DEF PlainFails, Running, Reply, Check, StartEntry
    <2> QED
      BY <2>1, <2>2, <2>3, <2>4 DEF Loc, After
  <1>2. TypeClient' /\ TypeSignal' /\ TypeFlags' /\ TypeData'
    BY <1>1 DEF PlainFails, Running, StartEntry, IInv, TypeOK, TypeClient,
       TypeSignal, TypeFlags, TypeData, client, signal, flags, data
  <1>3. TypeControl'
    BY <1>1 DEF PlainFails, Running, Reply, Check, StartEntry, IInv, TypeOK,
       TypeControl, Locations, Saying
  <1>4. TypePast'
    BY <1>1 DEF PlainFails, Running, Reply, StartEntry, IInv, TypeOK, TypePast
  <1>5. NoBug' /\ Pausing' /\ SuccessIsWhole'
    BY <1>1 DEF PlainFails, Running, StartEntry, IInv, Pausing,
       SuccessIsWhole, NoBug
  <1>6. pc' # "exit" => Shape'
    BY <1>1 DEF PlainFails, Running, StartEntry, IInv, Live, Shape, Moving,
       data
  <1>7. pc' # "exit" => Logging'
    BY <1>1 DEF PlainFails, Running, StartEntry, IInv, Live, Logging,
       Uploads, Downloads, Getting, Awaiting
  <1>8. pc' # "exit" => Counting'
    BY <1>1 DEF PlainFails, Running, Reply, StartEntry, IInv, Live, Counting,
       Extra, Moving, flags
  <1>9. pc' # "exit" => Cutting'
    BY <1>1 DEF PlainFails, Running, StartEntry, IInv, Live, Cutting
  <1>10. pc' # "exit" => Urgency'
    BY <1>1 DEF PlainFails, Running, StartEntry, IInv, Live, Urgency,
       UnreadBehind, client, signal
  <1>11. pc' # "exit" => Guarding'
    BY <1>1 DEF PlainFails, Running, StartEntry, IInv, Guarding, Live,
       Getting, signal, flags, data
  <1> QED BY <1>1, <1>2, <1>3, <1>4, <1>5, <1>6, <1>7, <1>8, <1>9, <1>10,
         <1>11 DEF IInv, TypeOK, Live

(* Blank preserves IInv.                                                   *)
LEMMA BlankStep ==
    ASSUME IInv, Blank
    PROVE  IInv'
  <1>1. /\ Loc = "run"
        /\ pc = "run"
        /\ back = None
        /\ Loc' = "end"
        /\ pc' = "end"
        /\ back' = None
    BY DEF Blank, Running, IInv, Live, Shape, Loc, After, Getting
  <1>2. TypeClient' /\ TypeSignal' /\ TypeFlags' /\ TypeData' /\ TypePast'
    BY DEF Blank, Running, IInv, TypeOK, TypeClient, TypeSignal, TypeFlags,
       TypeData, TypePast, client, signal, flags, data, past
  <1>3. TypeControl'
    BY <1>1 DEF Blank, Running, IInv, TypeOK, TypeControl, Locations, Saying
  <1>4. NoBug' /\ Pausing' /\ SuccessIsWhole'
    BY <1>1 DEF Blank, Running, IInv, Pausing, SuccessIsWhole, NoBug, past
  <1>5. pc' # "exit" => Shape'
    BY <1>1 DEF Blank, Running, IInv, Live, Shape, Moving, data
  <1>6. pc' # "exit" => Logging'
    BY <1>1 DEF Blank, Running, IInv, Live, Logging, Uploads, Downloads,
       Moving
  <1>7. pc' # "exit" => Counting'
    BY <1>1 DEF Blank, Running, IInv, Live, Counting, Extra, Moving, flags,
       past
  <1>8. pc' # "exit" => Cutting'
    BY <1>1 DEF Blank, Running, IInv, Cutting, Moving
  <1>9. pc' # "exit" => Urgency'
    BY <1>1 DEF Blank, Running, IInv, Live, Urgency, UnreadBehind, client,
       signal
  <1>10. pc' # "exit" => Guarding'
    BY <1>1 DEF Blank, Running, IInv, Guarding, Live, Getting, signal,
       flags, data
  <1> QED BY <1>1, <1>2, <1>3, <1>4, <1>5, <1>6, <1>7, <1>8, <1>9, <1>10 DEF
     IInv, TypeOK, Live

(* Quit preserves IInv.                                                    *)
LEMMA QuitStep ==
    ASSUME IInv, Quit
    PROVE  IInv'
  <1>1. /\ pc' = "exit"
    BY DEF Quit, Running, IInv
  <1>2. TypeClient' /\ TypeSignal' /\ TypeFlags' /\ TypeData'
    BY DEF Quit, Running, IInv, TypeOK, TypeClient, TypeSignal, TypeFlags,
       TypeData, client, signal, flags, data
  <1>3. TypeControl'
    BY <1>1 DEF Quit, Running, IInv, TypeOK, TypeControl, Locations, Saying
  <1>4. TypePast'
    BY DEF Quit, Running, IInv, TypeOK, TypePast
  <1>5. NoBug' /\ Pausing' /\ SuccessIsWhole'
    BY <1>1 DEF Quit, Running, IInv, Pausing, SuccessIsWhole, NoBug
  <1> QED BY <1>1, <1>2, <1>3, <1>4, <1>5 DEF IInv, TypeOK

(* SetUp preserves IInv.                                                   *)
LEMMA SetUpStep ==
    ASSUME IInv, SetUp
    PROVE  IInv'
  <1>1. /\ Loc = "run"
        /\ pc = "run"
        /\ back = None
        /\ Loc' = "end"
        /\ pc' = "say_end"
        /\ back' = None
    BY DEF SetUp, Running, Reply, Check, IInv, Live, Shape, Loc, After, Getting
  <1>2. TypeClient' /\ TypeSignal' /\ TypeFlags'
    BY DEF SetUp, Running, IInv, TypeOK, TypeClient, TypeSignal, TypeFlags,
       client, signal, flags
  <1>3. TypeControl'
    BY <1>1 DEF SetUp, Running, Reply, Check, IInv, TypeOK, TypeControl,
       Locations, Saying
  <1>4. TypeData'
    BY DEF SetUp, Running, IInv, TypeOK, TypeData
  <1>5. TypePast'
    BY DEF SetUp, Running, Reply, IInv, TypeOK, TypePast
  <1>6. NoBug' /\ Pausing' /\ SuccessIsWhole'
    BY <1>1 DEF SetUp, Running, IInv, Pausing, SuccessIsWhole, NoBug
  <1>7. pc' # "exit" => Shape'
    BY <1>1 DEF SetUp, Running, IInv, Live, Shape, Moving
  <1>8. pc' # "exit" => Logging'
    BY <1>1 DEF SetUp, Running, IInv, Live, Logging, Uploads, Downloads,
       Moving
  <1>9. pc' # "exit" => Counting'
    BY <1>1 DEF SetUp, Running, Reply, IInv, Live, Counting, Extra, Moving,
       flags
  <1>10. pc' # "exit" => Cutting'
    BY <1>1 DEF SetUp, Running, IInv, Live, Cutting
  <1>11. pc' # "exit" => Urgency'
    BY <1>1 DEF SetUp, Running, IInv, Live, Urgency, UnreadBehind, client,
       signal
  <1>12. pc' # "exit" => Guarding'
    BY <1>1 DEF SetUp, Running, IInv, Guarding, Live, Getting, signal,
       flags, data
  <1> QED BY <1>1, <1>2, <1>3, <1>4, <1>5, <1>6, <1>7, <1>8, <1>9, <1>10,
         <1>11, <1>12 DEF IInv, TypeOK, Live

(* StatFile preserves IInv.                                                *)
LEMMA StatFileStep ==
    ASSUME IInv, NEW l \in {"say_end", "say_abor"}, StatFile(l)
    PROVE  IInv'
  <1>1. /\ Loc = "run"
        /\ pc = "run"
        /\ back = None
        /\ Loc' \in {"end", "abor"}
        /\ cmd = "stat"
        /\ pc' = l
        /\ back' = None
    BY DEF StatFile, Running, Reply, IInv, Live, Shape, Loc, After, Getting
  <1>2. TypeClient' /\ TypeSignal' /\ TypeFlags' /\ TypeData'
    BY DEF StatFile, Running, IInv, TypeOK, TypeClient, TypeSignal,
       TypeFlags, TypeData, client, signal, flags, data
  <1>3. TypeControl'
    BY <1>1 DEF StatFile, Running, Reply, Check, IInv, TypeOK, TypeControl,
       Locations, Saying
  <1>4. TypePast'
    BY DEF StatFile, Running, Reply, IInv, TypeOK, TypePast
  <1>5. NoBug' /\ Pausing' /\ SuccessIsWhole'
    BY <1>1 DEF StatFile, Running, IInv, Pausing, SuccessIsWhole, NoBug
  <1>6. pc' # "exit" => Shape'
    BY <1>1 DEF StatFile, Running, IInv, Live, Shape, Moving, Transfers, Uploads,
       Downloads, data
  <1>7. pc' # "exit" => Logging'
    BY <1>1 DEF StatFile, Running, IInv, Live, Logging, Uploads, Downloads,
       Moving
  <1>8. pc' # "exit" => Counting'
    BY <1>1 DEF StatFile, Running, Reply, IInv, Live, Counting, Extra,
       Moving, flags
  <1>9. pc' # "exit" => Cutting'
    BY <1>1 DEF StatFile, Running, IInv, Live, Cutting
  <1>10. pc' # "exit" => Urgency'
    BY <1>1 DEF StatFile, Running, IInv, Live, Urgency, UnreadBehind, client,
       signal
  <1>11. pc' # "exit" => Guarding'
    BY <1>1 DEF StatFile, Running, IInv, Guarding, Live, Getting, signal,
       flags, data
  <1> QED BY <1>1, <1>2, <1>3, <1>4, <1>5, <1>6, <1>7, <1>8, <1>9, <1>10,
         <1>11 DEF IInv, TypeOK, Live

(* Refuse preserves IInv.                                                  *)
LEMMA RefuseStep ==
    ASSUME IInv, NEW logs \in BOOLEAN, Refuse(logs)
    PROVE  IInv'
  <1>1. /\ Loc = "run"
        /\ pc = "run"
        /\ back = None
        /\ Loc' = "end"
        /\ pc' = "say_end"
        /\ back' = None
        /\ cmd \in Transfers
    BY DEF Refuse, Running, Reply, Check, StartEntry, IInv, Live, Shape, Loc, After,
       Getting
  <1>2. TypeClient' /\ TypeSignal' /\ TypeFlags' /\ TypeData'
    BY DEF Refuse, Running, StartEntry, IInv, TypeOK, TypeClient, TypeSignal,
       TypeFlags, TypeData, client, signal, flags, data
  <1>3. TypeControl'
    BY <1>1 DEF Refuse, Running, Reply, Check, StartEntry, IInv, TypeOK,
       TypeControl, Locations, Saying
  <1>4. TypePast'
    BY DEF Refuse, Running, Reply, StartEntry, IInv, TypeOK, TypePast
  <1>5. NoBug' /\ Pausing' /\ SuccessIsWhole'
    BY <1>1 DEF Refuse, Running, StartEntry, IInv, Pausing, SuccessIsWhole,
       NoBug
  <1>6. pc' # "exit" => Shape'
    BY <1>1 DEF Refuse, Running, StartEntry, IInv, Live, Shape, Moving, data
  <1>7. pc' # "exit" => Logging'
    BY <1>1 DEF Refuse, Running, StartEntry, IInv, Live, Logging, None,
       Getting, Moving, Awaiting
  <1>8. pc' # "exit" => Counting'
    BY <1>1 DEF Refuse, Running, Reply, StartEntry, IInv, Live, Counting,
       Extra, Moving, flags, Transfers, Uploads, Downloads
  <1>9. pc' # "exit" => Cutting'
    BY <1>1 DEF Refuse, Running, StartEntry, IInv, Live, Cutting
  <1>10. pc' # "exit" => Urgency'
    BY <1>1 DEF Refuse, Running, StartEntry, IInv, Live, Urgency,
       UnreadBehind, client, signal
  <1>11. pc' # "exit" => Guarding'
    BY <1>1 DEF Refuse, Running, StartEntry, IInv, Guarding, Live, Getting,
       signal, flags, data
  <1> QED BY <1>1, <1>2, <1>3, <1>4, <1>5, <1>6, <1>7, <1>8, <1>9, <1>10,
         <1>11 DEF IInv, TypeOK, Live

(* GetRemoteTransferFd preserves IInv.                                     *)
LEMMA GetRemoteTransferFdStep ==
    ASSUME IInv, GetRemoteTransferFd
    PROVE  IInv'
  <1>1. /\ Loc = "run"
        /\ pc = "run"
        /\ back = None
        /\ Loc' = "connect"
        /\ pc' = "connect"
        /\ back' = None
        /\ cmd \in Transfers
        /\ ~log_type
    <2>1. pc = "run" /\ cmd \in Transfers
      BY DEF GetRemoteTransferFd, Running
    <2>2. back = None /\ Loc = "run"
      BY <2>1 DEF IInv, Live, Shape, Loc, After, Getting
    <2>3. ~log_type
      BY <2>1, <2>2 DEF IInv, Live, Logging
    <2>4. pc' = "connect" /\ back' = back
      BY <2>3 DEF GetRemoteTransferFd, Running, StartEntry
    <2> QED
      BY <2>1, <2>2, <2>3, <2>4 DEF Loc, After
  <1>2. TypeClient' /\ TypeSignal' /\ TypeData' /\ TypePast'
    BY <1>1 DEF GetRemoteTransferFd, Running, StartEntry, IInv, TypeOK,
       TypeClient, TypeSignal, TypeData, TypePast, client, signal, data, past
  <1>3. TypeControl'
    BY <1>1 DEF GetRemoteTransferFd, Running, StartEntry, IInv, TypeOK,
       TypeControl, Locations, Saying
  <1>4. TypeFlags'
    BY <1>1 DEF GetRemoteTransferFd, Running, StartEntry, IInv, TypeOK, TypeFlags
  <1>5. NoBug' /\ Pausing' /\ SuccessIsWhole'
    BY <1>1 DEF GetRemoteTransferFd, Running, StartEntry, IInv, Pausing,
       SuccessIsWhole, NoBug, past
  <1>6. pc' # "exit" => Shape'
    BY <1>1 DEF GetRemoteTransferFd, Running, StartEntry, IInv, Live, Shape,
       Moving, data
  <1>7. pc' # "exit" => Logging'
    BY <1>1 DEF GetRemoteTransferFd, Running, StartEntry, IInv, Live,
       Logging, Getting, Awaiting, past
  <1>8. pc' # "exit" => Counting'
    BY <1>1 DEF GetRemoteTransferFd, Running, StartEntry, IInv, Live,
       Counting, Getting, Awaiting, past, Transfers, Uploads, Downloads
  <1>9. pc' # "exit" => Cutting'
    BY <1>1 DEF GetRemoteTransferFd, Running, StartEntry, IInv, Live,
       Cutting, past
  <1>10. pc' # "exit" => Urgency'
    BY <1>1 DEF GetRemoteTransferFd, Running, StartEntry, IInv, Live,
       Urgency, UnreadBehind, client, signal
  <1>11. pc' # "exit" => Guarding'
    BY <1>1 DEF GetRemoteTransferFd, Running, StartEntry, IInv, Guarding,
       Live, Getting, signal, flags, data
  <1> QED BY <1>1, <1>2, <1>3, <1>4, <1>5, <1>6, <1>7, <1>8, <1>9, <1>10,
         <1>11 DEF IInv, TypeOK, Live

(* ConnectFails preserves IInv.                                            *)
LEMMA ConnectFailsStep ==
    ASSUME IInv, ConnectFails
    PROVE  IInv'
  <1>1. /\ Loc = "connect"
        /\ pc = "connect"
        /\ back = None
        /\ Loc' = "end"
        /\ pc' = "say_end"
        /\ back' = None
    BY DEF ConnectFails, Reply, Check, IInv, Live, Shape, Loc, After, Getting
  <1>2. TypeClient' /\ TypeSignal' /\ TypeFlags'
    BY DEF ConnectFails, IInv, TypeOK, TypeClient, TypeSignal, TypeFlags,
       client, signal, flags
  <1>3. TypeControl'
    BY <1>1 DEF ConnectFails, Reply, Check, IInv, TypeOK, TypeControl,
       Locations, Saying
  <1>4. TypeData'
    BY DEF ConnectFails, IInv, TypeOK, TypeData
  <1>5. TypePast'
    BY DEF ConnectFails, Reply, IInv, TypeOK, TypePast
  <1>6. NoBug' /\ Pausing' /\ SuccessIsWhole'
    BY <1>1 DEF ConnectFails, IInv, Pausing, SuccessIsWhole, NoBug
  <1>7. pc' # "exit" => Shape'
    BY <1>1 DEF ConnectFails, IInv, Live, Shape, Moving
  <1>8. pc' # "exit" => Logging'
    BY <1>1 DEF ConnectFails, IInv, Live, Logging, None, Getting, Awaiting
  <1>9. pc' # "exit" => Counting'
    BY <1>1 DEF ConnectFails, Reply, IInv, Live, Counting, Extra, Moving,
       flags
  <1>10. pc' # "exit" => Cutting'
    BY <1>1 DEF ConnectFails, IInv, Live, Cutting
  <1>11. pc' # "exit" => Urgency'
    BY <1>1 DEF ConnectFails, IInv, Live, Urgency, UnreadBehind, client,
       signal
  <1>12. pc' # "exit" => Guarding'
    BY <1>1 DEF ConnectFails, IInv, Guarding, Shape, Live, Getting, signal, flags,
       data
  <1> QED BY <1>1, <1>2, <1>3, <1>4, <1>5, <1>6, <1>7, <1>8, <1>9, <1>10,
         <1>11, <1>12 DEF IInv, TypeOK, Live

(* Connected preserves IInv.                                               *)
LEMMA ConnectedStep ==
    ASSUME IInv, Connected
    PROVE  IInv'
  <1>1. /\ Loc = "connect"
        /\ pc = "connect"
        /\ back = None
        /\ Loc' = "move"
        /\ pc' = "say_move"
        /\ back' = None
    BY DEF Connected, Bug, Check, StartDataAlarm, IInv, Live, Shape, Loc, After,
       Getting, Moving
  <1>2. TypeClient' /\ TypePast'
    BY DEF Connected, Bug, StartDataAlarm, IInv, TypeOK, TypeClient,
       TypePast, client, past
  <1>3. TypeControl'
    BY <1>1 DEF Connected, Bug, Check, StartDataAlarm, IInv, TypeOK,
       TypeControl, Locations, Saying, Moving
  <1>4. TypeSignal'
    BY DEF Connected, Bug, StartDataAlarm, IInv, TypeOK, TypeSignal, signal
  <1>5. TypeFlags'
    BY DEF Connected, Bug, StartDataAlarm, IInv, TypeOK, TypeFlags, flags
  <1>6. TypeData'
    BY DEF Connected, Bug, StartDataAlarm, IInv, TypeOK, TypeData, data
  <1>7. NoBug' /\ Pausing' /\ SuccessIsWhole'
    BY <1>1 DEF Connected, Bug, StartDataAlarm, IInv, Pausing,
       SuccessIsWhole, NoBug, past
  <1>8. pc' # "exit" => Shape'
    BY <1>1 DEF Connected, Bug, StartDataAlarm, IInv, Live, Shape, None,
       Moving
  <1>9. pc' # "exit" => Logging'
    BY <1>1 DEF Connected, Bug, StartDataAlarm, IInv, Live, Logging, Getting,
       Awaiting, past
  <1>10. pc' # "exit" => Counting'
    BY <1>1 DEF Connected, Bug, StartDataAlarm, IInv, Live, Counting,
       Getting, Awaiting, past
  <1>11. pc' # "exit" => Cutting'
    BY <1>1 DEF Connected, Bug, StartDataAlarm, IInv, Live, Cutting, past
  <1>12. pc' # "exit" => Urgency'
    BY <1>1 DEF Connected, Bug, StartDataAlarm, IInv, Live, Urgency,
       UnreadBehind, client
  <1>13. pc' # "exit" => Guarding'
    BY <1>1 DEF Connected, Bug, StartDataAlarm, IInv, Guarding, Moving, Live,
       Getting, signal, flags, data
  <1> QED BY <1>1, <1>2, <1>3, <1>4, <1>5, <1>6, <1>7, <1>8, <1>9, <1>10,
         <1>11, <1>12, <1>13 DEF IInv, TypeOK, Live

(* MoveChunk preserves IInv.                                               *)
LEMMA MoveChunkStep ==
    ASSUME IInv, MoveChunk
    PROVE  IInv'
  <1>1. /\ Loc = "move"
        /\ pc = "move"
        /\ back = None
        /\ Loc' = "move"
        /\ pc' = "move"
        /\ back' = None
    BY DEF MoveChunk, Check, IInv, Live, Shape, Loc, After, Getting
  <1>2. TypeClient' /\ TypeSignal' /\ TypePast'
    BY DEF MoveChunk, IInv, TypeOK, TypeClient, TypeSignal, TypePast, client,
       signal, past
  <1>3. TypeControl'
    BY <1>1 DEF MoveChunk, Check, IInv, TypeOK, TypeControl
  <1>4. TypeFlags'
    BY DEF MoveChunk, IInv, TypeOK, TypeFlags
  <1>5. TypeData'
    BY DEF MoveChunk, IInv, TypeOK, TypeData
  <1>6. NoBug' /\ Pausing' /\ SuccessIsWhole'
    BY <1>1 DEF MoveChunk, IInv, Pausing, SuccessIsWhole, NoBug, past
  <1>7. pc' # "exit" => Shape'
    BY <1>1 DEF MoveChunk, IInv, Live, Shape
  <1>8. pc' # "exit" => Logging'
    BY <1>1 DEF MoveChunk, IInv, Live, Logging, past
  <1>9. pc' # "exit" => Counting'
    BY <1>1 DEF MoveChunk, IInv, Live, Counting, Extra, past
  <1>10. pc' # "exit" => Cutting'
    BY <1>1 DEF MoveChunk, IInv, Live, Cutting, past
  <1>11. pc' # "exit" => Urgency'
    BY <1>1 DEF MoveChunk, IInv, Live, Urgency, UnreadBehind, client, signal
  <1>12. pc' # "exit" => Guarding'
    BY <1>1 DEF MoveChunk, IInv, Live, Guarding, signal, Getting, flags,
       data
  <1> QED BY <1>1, <1>2, <1>3, <1>4, <1>5, <1>6, <1>7, <1>8, <1>9, <1>10,
         <1>11, <1>12 DEF IInv, TypeOK, Live

(* MoveEnds preserves IInv.                                                *)
LEMMA MoveEndsStep ==
    ASSUME IInv, NEW r \in {0, -1, -2}, MoveEnds(r)
    PROVE  IInv'
  <1>1. /\ Loc = "move"
        /\ pc = "move"
        /\ back = None
        /\ Loc' = "dispose"
        /\ pc' = "dispose"
        /\ back' = None
    BY DEF MoveEnds, Check, IInv, Live, Shape, Loc, After, Getting
  <1>2. TypeClient' /\ TypeSignal' /\ TypeFlags' /\ TypePast'
    BY DEF MoveEnds, IInv, TypeOK, TypeClient, TypeSignal, TypeFlags,
       TypePast, client, signal, flags, past
  <1>3. TypeControl'
    BY <1>1 DEF MoveEnds, Check, IInv, TypeOK, TypeControl, Locations, Saying, Moving
  <1>4. TypeData'
    BY DEF MoveEnds, IInv, TypeOK, TypeData
  <1>5. NoBug' /\ Pausing' /\ SuccessIsWhole'
    BY <1>1 DEF MoveEnds, IInv, Pausing, SuccessIsWhole, NoBug, past
  <1>6. pc' # "exit" => Shape'
    BY <1>1 DEF MoveEnds, IInv, Live, Shape, Moving
  <1>7. pc' # "exit" => Logging'
    BY <1>1 DEF MoveEnds, IInv, Live, Logging, Getting, Moving, Awaiting,
       past
  <1>8. pc' # "exit" => Counting'
    BY <1>1 DEF MoveEnds, IInv, Live, Counting, Getting, Moving, Awaiting,
       flags, past
  <1>9. pc' # "exit" => Cutting'
    BY <1>1 DEF MoveEnds, IInv, Live, Cutting, Moving, flags, past
  <1>10. pc' # "exit" => Urgency'
    BY <1>1 DEF MoveEnds, IInv, Live, Urgency, UnreadBehind, client, signal
  <1>11. pc' # "exit" => Guarding'
    BY <1>1 DEF MoveEnds, IInv, Live, Guarding, signal, flags, Getting, data
  <1> QED BY <1>1, <1>2, <1>3, <1>4, <1>5, <1>6, <1>7, <1>8, <1>9, <1>10,
         <1>11 DEF IInv, TypeOK, Live

(* Dispose preserves IInv.                                                 *)
LEMMA DisposeStep ==
    ASSUME IInv, Dispose
    PROVE  IInv'
  <1>1. /\ Loc = "dispose"
        /\ pc = "dispose"
        /\ back = None
        /\ Loc' = "close"
        /\ pc' = "close"
        /\ back' = None
    BY DEF Dispose, Bug, StartDataAlarm, IInv, Live, Shape, Loc, After, Getting,
       Moving
  <1>2. TypeClient' /\ TypeFlags' /\ TypeData' /\ TypePast'
    BY DEF Dispose, Bug, StartDataAlarm, IInv, TypeOK, TypeClient, TypeFlags,
       TypeData, TypePast, client, flags, data, past
  <1>3. TypeControl'
    BY <1>1 DEF Dispose, Bug, StartDataAlarm, IInv, TypeOK, TypeControl,
       Locations, Saying, Moving
  <1>4. TypeSignal'
    BY DEF Dispose, Bug, StartDataAlarm, IInv, TypeOK, TypeSignal, signal
  <1>5. NoBug' /\ Pausing' /\ SuccessIsWhole'
    BY <1>1 DEF Dispose, Bug, StartDataAlarm, IInv, Pausing, SuccessIsWhole,
       NoBug, past
  <1>6. pc' # "exit" => Shape'
    BY <1>1 DEF Dispose, Bug, StartDataAlarm, IInv, Live, Shape, Moving, data
  <1>7. pc' # "exit" => Logging'
    BY <1>1 DEF Dispose, Bug, StartDataAlarm, IInv, Live, Logging, Getting,
       Moving, Awaiting, past
  <1>8. pc' # "exit" => Counting'
    BY <1>1 DEF Dispose, Bug, StartDataAlarm, IInv, Live, Counting, Getting,
       Moving, Awaiting, flags, past
  <1>9. pc' # "exit" => Cutting'
    BY <1>1 DEF Dispose, Bug, StartDataAlarm, IInv, Live, Cutting, Moving,
       flags, past
  <1>10. pc' # "exit" => Urgency'
    BY <1>1 DEF Dispose, Bug, StartDataAlarm, IInv, Live, Urgency,
       UnreadBehind, client
  <1>11. pc' # "exit" => Guarding'
    BY <1>1 DEF Dispose, Bug, StartDataAlarm, IInv, Guarding, Live, Getting,
       signal, flags, data
  <1> QED BY <1>1, <1>2, <1>3, <1>4, <1>5, <1>6, <1>7, <1>8, <1>9, <1>10,
         <1>11 DEF IInv, TypeOK, Live

(* Close preserves IInv.                                                   *)
LEMMA CloseStep ==
    ASSUME IInv, Close
    PROVE  IInv'
  <1>1. /\ Loc = "close"
        /\ pc = "close"
        /\ back = None
        /\ Loc' = "report"
        /\ pc' = "report"
        /\ back' = None
    BY DEF Close, IInv, Live, Shape, Loc, After, Getting
  <1>2. TypeClient' /\ TypeFlags' /\ TypePast'
    BY DEF Close, IInv, TypeOK, TypeClient, TypeFlags, TypePast, client,
       flags, past
  <1>3. TypeControl'
    BY <1>1 DEF Close, IInv, TypeOK, TypeControl, Locations, Saying
  <1>4. TypeSignal'
    BY DEF Close, IInv, TypeOK, TypeSignal
  <1>5. TypeData'
    BY DEF Close, IInv, TypeOK, TypeData
  <1>6. NoBug' /\ Pausing' /\ SuccessIsWhole'
    BY <1>1 DEF Close, IInv, Pausing, SuccessIsWhole, NoBug, past
  <1>7. pc' # "exit" => Shape'
    BY <1>1 DEF Close, IInv, Live, Shape, Moving
  <1>8. pc' # "exit" => Logging'
    BY <1>1 DEF Close, IInv, Live, Logging, Getting, Moving, Awaiting, past
  <1>9. pc' # "exit" => Counting'
    BY <1>1 DEF Close, IInv, Live, Counting, Getting, Moving, Awaiting,
       flags, past
  <1>10. pc' # "exit" => Cutting'
    BY <1>1 DEF Close, IInv, Live, Cutting, Moving, past
  <1>11. pc' # "exit" => Urgency'
    BY <1>1 DEF Close, IInv, Live, Urgency, UnreadBehind, client
  <1>12. pc' # "exit" => Guarding'
    BY <1>1 DEF Close, IInv, Guarding, Live, Getting, signal, flags, data
  <1> QED BY <1>1, <1>2, <1>3, <1>4, <1>5, <1>6, <1>7, <1>8, <1>9, <1>10,
         <1>11, <1>12 DEF IInv, TypeOK, Live

(* ReportOk preserves IInv.                                                *)
LEMMA ReportOkStep ==
    ASSUME IInv, ReportOk
    PROVE  IInv'
  <1>1. /\ Loc = "report"
        /\ pc = "report"
        /\ back = None
        /\ Loc' = "abor"
        /\ pc' = "say_abor"
        /\ back' = None
    BY DEF ReportOk, Reply, Check, IInv, Live, Shape, Loc, After, Getting
  <1>2. TypeClient' /\ TypeSignal' /\ TypeFlags' /\ TypeData'
    BY DEF ReportOk, IInv, TypeOK, TypeClient, TypeSignal, TypeFlags,
       TypeData, client, signal, flags, data
  <1>3. TypeControl'
    BY <1>1 DEF ReportOk, Reply, Check, IInv, TypeOK, TypeControl, Locations, Saying
  <1>4. TypePast'
    BY DEF ReportOk, Reply, IInv, TypeOK, TypePast
  <1>5. NoBug' /\ Pausing' /\ SuccessIsWhole'
    BY <1>1 DEF ReportOk, IInv, Pausing, SuccessIsWhole, NoBug, Live, Cutting
  <1>6. pc' # "exit" => Shape'
    BY <1>1 DEF ReportOk, IInv, Live, Shape, Moving, data
  <1>7. pc' # "exit" => Logging'
    BY <1>1 DEF ReportOk, IInv, Live, Logging, Uploads, Downloads, Moving
  <1>8. pc' # "exit" => Counting'
    BY <1>1 DEF ReportOk, Reply, IInv, Live, Counting, Getting, Moving,
       Awaiting, flags
  <1>9. pc' # "exit" => Cutting'
    BY <1>1 DEF ReportOk, IInv, Live, Cutting
  <1>10. pc' # "exit" => Urgency'
    BY <1>1 DEF ReportOk, IInv, Live, Urgency, UnreadBehind, client, signal
  <1>11. pc' # "exit" => Guarding'
    BY <1>1 DEF ReportOk, IInv, Guarding, Shape, Live, Getting, signal, flags, data
  <1> QED BY <1>1, <1>2, <1>3, <1>4, <1>5, <1>6, <1>7, <1>8, <1>9, <1>10,
         <1>11 DEF IInv, TypeOK, Live

(* ReportFailure preserves IInv.                                           *)
LEMMA ReportFailureStep ==
    ASSUME IInv, ReportFailure
    PROVE  IInv'
  <1>1. /\ Loc = "report"
        /\ pc = "report"
        /\ back = None
        /\ Loc' = "abor"
        /\ pc' \in {"abor", "say_abor"}
        /\ back' = None
    BY DEF ReportFailure, Reply, Check, IInv, Live, Shape, Loc, After, Getting
  <1>2. TypeClient' /\ TypeSignal' /\ TypeFlags' /\ TypeData'
    BY DEF ReportFailure, IInv, TypeOK, TypeClient, TypeSignal, TypeFlags,
       TypeData, client, signal, flags, data
  <1>3. TypeControl'
    BY <1>1 DEF ReportFailure, Reply, Check, IInv, TypeOK, TypeControl,
       Locations, Saying
  <1>4. TypePast'
    BY DEF ReportFailure, Reply, IInv, TypeOK, TypePast
  <1>5. NoBug' /\ Pausing' /\ SuccessIsWhole'
    BY <1>1 DEF ReportFailure, IInv, Pausing, SuccessIsWhole, NoBug
  <1>6. pc' # "exit" => Shape'
    BY <1>1 DEF ReportFailure, IInv, Live, Shape, Moving, data
  <1>7. pc' # "exit" => Logging'
    BY <1>1 DEF ReportFailure, IInv, Live, Logging, None, Getting, Awaiting
  <1>8. pc' # "exit" => Counting'
    BY <1>1 DEF ReportFailure, Reply, IInv, Live, Counting, Getting, Moving,
       Awaiting, flags
  <1>9. pc' # "exit" => Cutting'
    BY <1>1 DEF ReportFailure, IInv, Cutting, Moving
  <1>10. pc' # "exit" => Urgency'
    BY <1>1 DEF ReportFailure, IInv, Live, Urgency, UnreadBehind, client,
       signal
  <1>11. pc' # "exit" => Guarding'
    BY <1>1 DEF ReportFailure, IInv, Guarding, Shape, Live, Getting, signal, flags,
       data
  <1> QED BY <1>1, <1>2, <1>3, <1>4, <1>5, <1>6, <1>7, <1>8, <1>9, <1>10,
         <1>11 DEF IInv, TypeOK, Live

(* CheckAbor preserves IInv.                                               *)
LEMMA CheckAborStep ==
    ASSUME IInv, CheckAbor
    PROVE  IInv'
  <1>1. /\ Loc = "abor"
        /\ pc = "abor"
        /\ back = None
        /\ Loc' = "end"
        /\ pc' \in {"end", "say_end"}
        /\ back' = None
    BY DEF CheckAbor, Reply, Check, IInv, Live, Shape, Loc, After, Getting
  <1>2. TypeClient' /\ TypeSignal'
    BY DEF CheckAbor, IInv, TypeOK, TypeClient, TypeSignal, client, signal
  <1>3. TypeControl'
    BY <1>1 DEF CheckAbor, Reply, Check, IInv, TypeOK, TypeControl, Locations, Saying
  <1>4. TypeFlags'
    BY DEF CheckAbor, IInv, TypeOK, TypeFlags
  <1>5. TypeData'
    BY DEF CheckAbor, IInv, TypeOK, TypeData
  <1>6. TypePast'
    BY DEF CheckAbor, Reply, IInv, TypeOK, TypePast
  <1>7. NoBug' /\ Pausing' /\ SuccessIsWhole'
    BY <1>1 DEF CheckAbor, IInv, Pausing, SuccessIsWhole, NoBug
  <1>8. pc' # "exit" => Shape'
    BY <1>1 DEF CheckAbor, IInv, Live, Shape, Moving
  <1>9. pc' # "exit" => Logging'
    BY <1>1 DEF CheckAbor, IInv, Live, Logging, Getting, Moving, Awaiting
  <1>10. pc' # "exit" => Counting'
    BY <1>1 DEF CheckAbor, Reply, IInv, Live, TypeOK, TypePast, Counting,
       Extra, Getting, Moving, Awaiting
  <1>11. pc' # "exit" => Cutting'
    BY <1>1 DEF CheckAbor, IInv, Cutting, Moving
  <1>12. pc' # "exit" => Urgency'
    BY <1>1 DEF CheckAbor, IInv, Live, Urgency, UnreadBehind, client, signal
  <1>13. pc' # "exit" => Guarding'
    BY <1>1 DEF CheckAbor, IInv, Guarding, Live, Getting, signal, flags,
       data
  <1> QED BY <1>1, <1>2, <1>3, <1>4, <1>5, <1>6, <1>7, <1>8, <1>9, <1>10,
         <1>11, <1>12, <1>13 DEF IInv, TypeOK, Live

(* LogFailed preserves IInv.                                               *)
LEMMA LogFailedStep ==
    ASSUME IInv, LogFailed
    PROVE  IInv'
  <1>1. /\ Loc = "end"
        /\ pc = "end"
        /\ back = None
        /\ Loc' = "end"
        /\ pc' = "end"
        /\ back' = None
    BY DEF LogFailed, Check, IInv, Live, Shape, Loc, After, Getting
  <1>2. TypeClient' /\ TypeSignal' /\ TypeFlags' /\ TypeData'
    BY DEF LogFailed, IInv, TypeOK, TypeClient, TypeSignal, TypeFlags,
       TypeData, client, signal, flags, data
  <1>3. TypeControl'
    BY <1>1 DEF LogFailed, Check, IInv, TypeOK, TypeControl
  <1>4. TypePast'
    BY DEF LogFailed, IInv, TypeOK, TypePast
  <1>5. NoBug' /\ Pausing' /\ SuccessIsWhole'
    BY <1>1 DEF LogFailed, IInv, Pausing, SuccessIsWhole, NoBug
  <1>6. pc' # "exit" => Shape'
    BY <1>1 DEF LogFailed, IInv, Live, Shape, data
  <1>7. pc' # "exit" => Logging'
    BY <1>1 DEF LogFailed, IInv, Live, Logging, Moving
  <1>8. pc' # "exit" => Counting'
    BY <1>1 DEF LogFailed, IInv, Live, Counting, Extra, flags
  <1>9. pc' # "exit" => Cutting'
    BY <1>1 DEF LogFailed, IInv, Cutting, Moving
  <1>10. pc' # "exit" => Urgency'
    BY <1>1 DEF LogFailed, IInv, Live, Urgency, UnreadBehind, client, signal
  <1>11. pc' # "exit" => Guarding'
    BY <1>1 DEF LogFailed, IInv, Guarding, Live, Getting, signal, flags,
       data
  <1> QED BY <1>1, <1>2, <1>3, <1>4, <1>5, <1>6, <1>7, <1>8, <1>9, <1>10,
         <1>11 DEF IInv, TypeOK, Live

(* EndCommand preserves IInv.                                              *)
LEMMA EndCommandStep ==
    ASSUME IInv, EndCommand
    PROVE  IInv'
  <1>1. /\ Loc = "end"
        /\ pc = "end"
        /\ back = None
        /\ Loc' \in {"top", "exit"}
        /\ pc' = Loc'
        /\ back' = None
    BY DEF EndCommand, IInv, Live, Shape, Loc, After, Getting
  <1>2. TypeClient' /\ TypeSignal' /\ TypeFlags' /\ TypeData' /\ TypePast'
    BY DEF EndCommand, IInv, TypeOK, TypeClient, TypeSignal, TypeFlags,
       TypeData, TypePast, client, signal, flags, data, past
  <1>3. TypeControl'
    BY <1>1 DEF EndCommand, IInv, TypeOK, TypeControl, Locations, Saying
  <1>4. NoBug' /\ Pausing' /\ SuccessIsWhole'
    BY <1>1 DEF EndCommand, IInv, Pausing, SuccessIsWhole, NoBug, past
  <1>5. pc' # "exit" => Shape'
    BY <1>1 DEF EndCommand, IInv, Live, Shape, Moving, data
  <1>6. pc' # "exit" => Logging'
    BY <1>1 DEF EndCommand, IInv, Live, Logging, Moving, past
  <1>7. pc' # "exit" => Counting'
    BY <1>1 DEF EndCommand, IInv, Live, Counting, Extra, Moving, flags, past
  <1>8. pc' # "exit" => Cutting'
    BY <1>1 DEF EndCommand, IInv, Cutting, Moving
  <1>9. pc' # "exit" => Urgency'
    BY <1>1 DEF EndCommand, IInv, Live, Urgency, UnreadBehind, client, signal
  <1>10. pc' # "exit" => Guarding'
    BY <1>1 DEF EndCommand, IInv, Guarding, Live, Getting, signal, flags,
       data
  <1> QED BY <1>1, <1>2, <1>3, <1>4, <1>5, <1>6, <1>7, <1>8, <1>9, <1>10 DEF
     IInv, TypeOK, Live

(* LineTooLong preserves IInv.                                             *)
LEMMA LineTooLongStep ==
    ASSUME IInv, LineTooLong
    PROVE  IInv'
  <1>1. /\ pc' = "exit"
    BY DEF LineTooLong, IInv
  <1>2. TypeClient' /\ TypeSignal' /\ TypeFlags' /\ TypeData' /\ TypePast'
    BY DEF LineTooLong, IInv, TypeOK, TypeClient, TypeSignal, TypeFlags,
       TypeData, TypePast, client, signal, flags, data, past
  <1>3. TypeControl'
    BY <1>1 DEF LineTooLong, IInv, TypeOK, TypeControl, Locations, Saying
  <1>4. NoBug' /\ Pausing' /\ SuccessIsWhole'
    BY <1>1 DEF LineTooLong, IInv, Pausing, SuccessIsWhole, NoBug, past
  <1> QED BY <1>1, <1>2, <1>3, <1>4 DEF IInv, TypeOK

-----------------------------------------------------------------------------
(* The theorems.                                                           *)

(* A session starts with nothing pending and nothing to answer.            *)
LEMMA InitIInv == Init => IInv
  <1> SUFFICES ASSUME Init PROVE IInv
    OBVIOUS
  <1>1. TypeOK
    <2>1. TypeControl /\ TypeClient
      <3>1. inbox \in Seq(Lines)
        BY DEF Init
      <3> QED BY <3>1 DEF Init, TypeControl, TypeClient, Locations, Saying
    <2>2. TypeSignal /\ TypeFlags /\ TypeData /\ TypePast
      BY DEF Init, TypeSignal, TypeFlags, TypeData, TypePast
    <2> QED BY <2>1, <2>2 DEF TypeOK
  <1>2. NoBug /\ Pausing /\ SuccessIsWhole
    BY DEF Init, NoBug, Pausing, SuccessIsWhole
  <1>3. Loc = "top"
    BY DEF Init, Loc, After
  <1>4. Shape /\ Logging /\ Counting
    BY <1>3 DEF Init, Shape, Logging, Counting, Extra, Moving, Uploads,
       Downloads
  <1>5. Cutting /\ Urgency /\ Guarding
    BY <1>3 DEF Init, Cutting, Urgency, Guarding, Getting
  <1> QED
    BY <1>1, <1>2, <1>4, <1>5 DEF IInv, Live

(* No step of the client, the kernel or the session breaks IInv.           *)
LEMMA NextIInv == IInv /\ [Next]_vars => IInv'
  <1> SUFFICES ASSUME IInv, [Next]_vars PROVE IInv'
    OBVIOUS
  <1>1. CASE Client
    BY <1>1, ClientSendsStep, ClientUrgentStep, ClientCompletesStep,
       ClientHangsUpStep DEF Client
  <1>2. CASE Expire \/ Interrupted \/ Written \/ WriteFails
    BY <1>2, ExpireStep, InterruptedStep, WrittenStep, WriteFailsStep
  <1>3. CASE Pending
    BY <1>3, NoAlarmStep, HandleIdleAlarmStep, DataAlarmStalledStep,
       DataAlarmProgressStep, NoUrgentStep, UrgentIgnoredStep,
       HandleUrgentStep DEF Pending
  <1>4. CASE GetCommand
    BY <1>4, SetAlarmStep, PeekStep, PeekEofStep, ReadLineStep,
       LineTooLongStep, IdleExitStep, EofExitStep, DispatchStep,
       SigurgAborStep, SigurgUnknownStep, SigurgReturnsStep DEF GetCommand
  <1>5. CASE Command
    BY <1>5, PlainStep, PlainFailsStep, BlankStep, QuitStep, SetUpStep,
       StatFileStep, RefuseStep, GetRemoteTransferFdStep,
       ConnectFailsStep, ConnectedStep, DisposeStep, CloseStep, ReportOkStep,
       ReportFailureStep, CheckAborStep, LogFailedStep, EndCommandStep DEF
       Command
  <1>6. CASE Move
    BY <1>6, MoveChunkStep, MoveEndsStep DEF Move
  <1>7. CASE UNCHANGED vars
    <2>1. UNCHANGED <<pc, back, at, inbox, client, line, cmd, signal, flags, data,
                      log_type, past>>
      BY <1>7 DEF vars
    <2>2. TypeOK'
      BY <2>1 DEF IInv, TypeOK, TypeControl, TypeClient, TypeSignal,
         TypeFlags, TypeData, TypePast, client, signal, flags, data, past
    <2>3. NoBug' /\ Pausing' /\ SuccessIsWhole'
      BY <2>1 DEF IInv, NoBug, Pausing, SuccessIsWhole, past
    <2>4. Live => Shape' /\ Logging'
      BY <2>1 DEF Live, Shape, Logging, Loc, After, data, past
    <2>5. Live => Counting' /\ Cutting'
      BY <2>1 DEF Live, Counting, Cutting, Loc, After, Extra, flags, data, past
    <2>6. Live => Urgency' /\ Guarding'
      BY <2>1 DEF Live, Urgency, Guarding, Loc, After, client, signal, flags, data
    <2> QED
      BY <2>1, <2>2, <2>3, <2>4, <2>5, <2>6 DEF IInv, Live
  <1> QED
    BY <1>1, <1>2, <1>3, <1>4, <1>5, <1>6, <1>7 DEF Next

(* IInv holds in every state of every session.                             *)
THEOREM Invariance == Spec => []IInv
  BY InitIInv, NextIInv, PTL DEF Spec

(* Every variable of the session keeps its type.                           *)
THEOREM Typing == Spec => []TypeOK
  <1>1. IInv => TypeOK
    BY DEF IInv
  <1> QED BY <1>1, Invariance, PTL

(* No bug() of postlogin.c, ftpdataio.c or logging.c is reached, whenever  *)
(* alarms and urgent data arrive.                                          *)
THEOREM NoBugs == Spec => []NoBug
  <1>1. IInv => NoBug
    BY DEF IInv
  <1> QED BY <1>1, Invariance, PTL

(* Every line that was read is answered when the next is awaited; the      *)
(* ABORs of one transfer share check_abor's reply.                         *)
THEOREM Replies == Spec => []Answered
  <1>1. IInv => Answered
    <2> SUFFICES ASSUME IInv, pc = "top"
                 PROVE  consumed = answered + (IF abors > 1 THEN abors - 1 ELSE 0)
      BY DEF Answered
    <2>1. Loc = "top"
      BY DEF IInv, Live, Shape, Loc, After, Getting
    <2> QED
      BY <2>1 DEF IInv, Live, Counting, Awaiting, Extra
  <1> QED BY <1>1, Invariance, PTL

(* No transfer whose connection a handler shut is reported complete.       *)
THEOREM Success == Spec => []SuccessIsWhole
  <1>1. IInv => SuccessIsWhole
    BY DEF IInv
  <1> QED BY <1>1, Invariance, PTL

(* The log of a transfer agrees with the reply the client got.             *)
THEOREM Log == Spec => []LogTruthful
  <1>1. IInv => LogTruthful
    <2> SUFFICES ASSUME IInv, pc = "top", cmd \in Uploads \cup Downloads
                 PROVE  logged = "ok" <=> ok
      BY DEF LogTruthful
    <2>1. Loc = "top"
      BY DEF IInv, Live, Shape, Loc, After, Getting
    <2> QED
      BY <2>1 DEF IInv, Live, Logging, Awaiting
  <1> QED BY <1>1, Invariance, PTL

(* handle_sigurg waits only for a line that the client has begun to send.  *)
THEOREM UrgentLines == Spec => []SigurgHasLine
  <1>1. IInv => SigurgHasLine
    BY DEF IInv, Live, Urgency, SigurgHasLine
  <1> QED BY <1>1, Invariance, PTL

(* With both timeouts on, no wait for a line, for data or for a reply to   *)
(* be taken is without an alarm, but for the replies after a transfer.     *)
THEOREM Guards == Spec => []NeverUnguarded
  <1>1. IInv => NeverUnguarded
    <2> SUFFICES ASSUME IInv, IdleTimeout, DataTimeout
                 PROVE  /\ pc = "peek" => timer # "off" \/ alrm \/ ctl_shut
                        /\ pc = "move" => timer # "off" \/ alrm \/ data_fd = "shut"
                        /\ \/ pc \in {"say_move", "say_unknown"}
                           \/ pc \in Saying /\ cmd \notin Transfers
                           => timer # "off" \/ alrm \/ ctl_shut
      BY DEF NeverUnguarded
    <2>1. pc \in {"move", "say_move"} => Loc = "move"
      BY DEF IInv, Live, Shape, Loc, After, Getting
    <2>2. back # None => Loc \in {"move", "dispose"}
      BY DEF IInv, TypeOK, TypeControl, Loc, After
    <2>3. pc \in {"peek", "say_unknown"} => Loc \in {"peek", "move", "dispose"}
      BY <2>2 DEF IInv, Live, Shape, Loc, After
    <2>4. pc \in {"say_abor", "say_end"} => Loc \in {"abor", "end"}
      BY DEF IInv, Live, Shape, Loc, After, Getting
    <2>5. pc # "exit" => Guarding
      BY DEF IInv, Live
    <2>6. pc \in Saying =>
             pc \in {"say_move", "say_unknown"} \cup {"say_abor", "say_end"}
      BY DEF Saying
    <2> QED
      BY <2>1, <2>3, <2>4, <2>5, <2>6 DEF Guarding, Getting
  <1> QED BY <1>1, Invariance, PTL

=============================================================================
