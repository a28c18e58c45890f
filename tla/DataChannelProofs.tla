-------------------------- MODULE DataChannelProofs -------------------------
(***************************************************************************)
(* Proofs about DataChannel, for every setting of the tunables: the calls  *)
(* stay in step, no check of either process fails, and the two processes   *)
(* implement DataPath.                                                     *)
(***************************************************************************)
EXTENDS DataChannel, SequenceTheorems, TLAPS

-----------------------------------------------------------------------------
(* Facts about the streams and the names.                                  *)

(* The record CallOf, spelled out.                                         *)
LEMMA Calls ==
    /\ Waiting = {"port1", "pasv1", "end", "pasv2", "check1", "check2", "get1",
                  "get2", "get3", "chown", "accept", "connect"}
    /\ \A l \in {"port1", "pasv1", "end"} : CallOf[l] = "PASV_CLEANUP"
    /\ \A l \in AskingActive : CallOf[l] = "PASV_ACTIVE"
    /\ CallOf["pasv2"] = "PASV_LISTEN"
    /\ CallOf["chown"] = "CHOWN"
    /\ CallOf["accept"] = "PASV_ACCEPT"
    /\ CallOf["connect"] = "GET_DATA_SOCK"
  BY DEF CallOf, Waiting, AskingActive

LEMMA AppendSecond ==
    ASSUME NEW x, NEW y
    PROVE  Append(<<x>>, y) = <<x, y>>
  <1> DEFINE S == {x, y}
  <1>1. <<x>> \in Seq(S) /\ <<x, y>> \in Seq(S) /\ y \in S
    OBVIOUS
  <1>2. /\ Append(<<x>>, y) \in Seq(S)
        /\ Len(Append(<<x>>, y)) = 2
        /\ Append(<<x>>, y)[1] = x
        /\ Append(<<x>>, y)[2] = y
    BY <1>1, AppendProperties
  <1>3. /\ Len(<<x, y>>) = 2
        /\ <<x, y>>[1] = x
        /\ <<x, y>>[2] = y
    OBVIOUS
  <1>4. \A k \in 1 .. 2 : Append(<<x>>, y)[k] = <<x, y>>[k]
    BY <1>2, <1>3
  <1> HIDE DEF S
  <1> QED
    BY <1>1, <1>2, <1>3, <1>4, SeqEqual

LEMMA ReadOne ==
    ASSUME NEW a, NEW b, up = <<a>>, Read(b)
    PROVE  a = b /\ up' = <<>>
  BY DEF Read

LEMMA ReadTwo ==
    ASSUME NEW a, NEW b, NEW c, up = <<a, b>>, Read(c)
    PROVE  a = c /\ up' = <<b>>
  BY DEF Read

LEMMA Distinct ==
    /\ Result("OK") # Result("BAD")
    /\ \A n \in Int, r \in STRING : Number(n) # Result(r)
    /\ \A p, r \in STRING : Fd(p) # Result(r)
    /\ \A n \in Int, p \in STRING : Fd(p) # Number(n)
    /\ \A p, q : Fd(p) = Fd(q) => p = q
    /\ \A p, q : Number(p) = Number(q) => p = q
  BY DEF Result, Number, Fd

(* A call keeps the streams typed, and so does a read.                     *)
LEMMA TypedCall ==
    ASSUME TypeOK, NEW l \in Waiting, NEW q \in Addresses \cup {None}
    PROVE  Append(down, [cmd |-> CallOf[l], port |-> q]) \in Seq(Requests)
  <1>1. [cmd |-> CallOf[l], port |-> q] \in Requests
    BY DEF Requests
  <1> QED
    BY <1>1 DEF TypeOK

LEMMA TypedRead ==
    ASSUME TypeOK, NEW a, Read(a)
    PROVE  up' \in Seq(Answers)
  BY DEF TypeOK, Read

-----------------------------------------------------------------------------
(* The beginning.                                                          *)

LEMMA InitIInv == Init => IInv
  <1> SUFFICES ASSUME Init PROVE IInv
    OBVIOUS
  <1>1. pc = "idle" /\ pc \in Running
    BY DEF Init, Running
  <1>2. TypeOK
    <2>1. down \in Seq(Requests) /\ up \in Seq(Answers)
      BY DEF Init
    <2>2. /\ arg \in PortArgs \cup {None}
          /\ port_sockaddr \in Addresses \cup {None}
          /\ data_fd \in Peers \cup {None}
          /\ epsv_all \in BOOLEAN
      BY DEF Init
    <2>3. /\ ppc \in ParentLocations
          /\ listen_fd \in BOOLEAN
          /\ sock \in Peers \cup {None}
      BY DEF Init, ParentLocations
    <2> QED
      BY <1>1, <2>1, <2>2, <2>3 DEF TypeOK
  <1>3. Streams
    BY <1>1 DEF Init, Streams, AskingActive
  <1>4. SetUps /\ Descriptors /\ ChildNoBug /\ ParentNoOops /\ NeverBoth
    BY <1>1 DEF Init, SetUps, Descriptors, ChildNoBug, ParentNoOops, NeverBoth,
       None
  <1> QED
    BY <1>2, <1>3, <1>4 DEF IInv

-----------------------------------------------------------------------------
(* What a step of the child may rely on.                                   *)

(* While the child runs, the streams are empty and the parent is not in    *)
(* the middle of an answer.                                                *)
LEMMA WhileRunning ==
    ASSUME IInv, pc \in Running
    PROVE  down = <<>> /\ up = <<>> /\ ppc \in {"wait", "close", "gone"}
  BY DEF IInv, Streams

(* Reading the result of a clean-up.                                       *)
LEMMA CleanupRead ==
    ASSUME IInv, pc \in {"port1", "pasv1", "end"}, Read(Result("OK"))
    PROVE  down = <<>> /\ up' = <<>> /\ ppc \in {"wait", "gone"} /\ ~listen_fd
  <1>1. Answered(Result("OK")) /\ ~listen_fd
    BY DEF IInv, Streams, Read, Asking
  <1> QED
    BY <1>1, ReadOne DEF Answered

(* Reading the answer to pasv_active.                                      *)
LEMMA ActiveRead ==
    ASSUME IInv, pc \in AskingActive, NEW n \in {0, 1}, Read(Number(n))
    PROVE  /\ down = <<>> /\ up' = <<>> /\ ppc \in {"wait", "gone"}
           /\ n = 1 => port_sockaddr = None /\ (listen_fd \/ ppc = "gone")
           /\ n = 0 => ~listen_fd /\ (pc # "check1" => port_sockaddr # None)
  <1>1. \/ /\ Answered(Number(1))
           /\ port_sockaddr = None
           /\ listen_fd \/ ppc = "gone"
        \/ /\ Answered(Number(0))
           /\ ~listen_fd
           /\ pc # "check1" => port_sockaddr # None
    BY DEF IInv, Streams, Read, Asking
  <1>2. CASE Answered(Number(1))
    <2>1. n = 1 /\ up' = <<>>
      BY <1>2, ReadOne, Distinct DEF Answered
    <2> QED
      BY <1>1, <1>2, <2>1, Distinct DEF Answered
  <1>3. CASE Answered(Number(0))
    <2>1. n = 0 /\ up' = <<>>
      BY <1>3, ReadOne, Distinct DEF Answered
    <2> QED
      BY <1>1, <1>3, <2>1, Distinct DEF Answered
  <1> QED
    BY <1>1, <1>2, <1>3

(* Making a call with empty streams.                                       *)
LEMMA CallMade ==
    ASSUME IInv, NEW l \in Waiting \ {"connect"}, Call(l),
           down = <<>>, up' = <<>>, ppc \in {"wait", "close", "gone"},
           UNCHANGED parent
    PROVE  /\ Asking'
           /\ down' \in Seq(Requests)
           /\ up' \in Seq(Answers)
           /\ pc' = l
  <1>1. down' = <<[cmd |-> CallOf[l], port |-> None]>> /\ pc' = l
    BY DEF Call
  <1>2. Asking'
    BY <1>1 DEF Asking, parent
  <1>3. down' \in Seq(Requests)
    BY TypedCall DEF IInv, Call
  <1>4. up' \in Seq(Answers)
    OBVIOUS
  <1> QED
    BY <1>1, <1>2, <1>3, <1>4

(* Going on without a call, with empty streams.                            *)
LEMMA RunningOn ==
    ASSUME IInv, pc' \in Running, down' = <<>>, up' = <<>>,
           ppc \in {"wait", "close", "gone"}, UNCHANGED parent
    PROVE  /\ Streams'
           /\ down' \in Seq(Requests)
           /\ up' \in Seq(Answers)
  BY DEF Streams, Running, AskingActive, parent

-----------------------------------------------------------------------------
(* PASV, EPSV, PORT and EPRT.                                              *)

LEMMA EpsvAllStep ==
    ASSUME IInv, EpsvAll
    PROVE  IInv'
  <1>1. pc = "idle" /\ pc' = "idle" /\ pc' \in Running
        /\ UNCHANGED <<arg, port_sockaddr, data_fd, ppc, listen_fd, sock, down, up>>
    BY DEF EpsvAll, Running, parent
  <1>2. Streams' /\ down' \in Seq(Requests) /\ up' \in Seq(Answers)
    BY <1>1, WhileRunning, RunningOn DEF EpsvAll
  <1>3. TypeOK'
    BY <1>1, <1>2 DEF EpsvAll, IInv, TypeOK
  <1>4. (ChildNoBug /\ ParentNoOops /\ NeverBoth /\ SetUps /\ Descriptors)'
    BY <1>1 DEF IInv, ChildNoBug, ParentNoOops, NeverBoth, SetUps, Descriptors,
       MayServe
  <1> QED
    BY <1>2, <1>3, <1>4 DEF IInv

LEMMA StartPasvStep ==
    ASSUME IInv, NEW epsv \in BOOLEAN, StartPasv(epsv)
    PROVE  IInv'
  <1>1. Asking' /\ down' \in Seq(Requests) /\ up' \in Seq(Answers) /\ pc' = "pasv1"
    BY WhileRunning, CallMade, Calls DEF StartPasv, Running
  <1>2. TypeOK'
    BY <1>1, Calls DEF StartPasv, IInv, TypeOK, child, parent
  <1>3. Streams'
    BY <1>1 DEF Streams, Running, AskingActive
  <1>4. (ChildNoBug /\ ParentNoOops /\ NeverBoth /\ SetUps /\ Descriptors)'
    BY <1>1 DEF StartPasv, IInv, ChildNoBug, ParentNoOops, NeverBoth, SetUps,
       Descriptors, MayServe, child, parent
  <1> QED
    BY <1>2, <1>3, <1>4 DEF IInv

LEMMA PasvListenStep ==
    ASSUME IInv, PasvListen
    PROVE  IInv'
  <1>1. down = <<>> /\ up' = <<>> /\ ppc \in {"wait", "gone"} /\ ~listen_fd
    BY CleanupRead DEF PasvListen
  <1>2. Asking' /\ down' \in Seq(Requests) /\ up' \in Seq(Answers) /\ pc' = "pasv2"
    BY <1>1, CallMade, Calls DEF PasvListen
  <1>3. TypeOK'
    BY <1>2, Calls DEF PasvListen, IInv, TypeOK, parent
  <1>4. Streams'
    BY <1>1, <1>2 DEF PasvListen, Streams, Running, AskingActive, parent
  <1>5. (ChildNoBug /\ ParentNoOops /\ NeverBoth /\ SetUps /\ Descriptors)'
    BY <1>1, <1>2 DEF PasvListen, IInv, ChildNoBug, ParentNoOops, NeverBoth,
       SetUps, Descriptors, MayServe, parent
  <1> QED
    BY <1>3, <1>4, <1>5 DEF IInv

LEMMA PasvDoneStep ==
    ASSUME IInv, PasvDone
    PROVE  IInv'
  <1>1. pc = "pasv2" /\ pc' = "idle" /\ pc' \in Running
    BY DEF PasvDone, Running
  <1>2. Answered(Number(1))
    BY DEF PasvDone, IInv, Streams, Read, Asking
  <1>3. down = <<>> /\ up' = <<>> /\ ppc \in {"wait", "gone"}
    BY <1>2, ReadOne DEF PasvDone, Answered
  <1>4. Streams' /\ down' \in Seq(Requests) /\ up' \in Seq(Answers)
    BY <1>1, <1>3, RunningOn DEF PasvDone
  <1>5. TypeOK'
    BY <1>1, <1>4 DEF PasvDone, IInv, TypeOK, child, parent
  <1>6. (ChildNoBug /\ ParentNoOops /\ NeverBoth /\ SetUps /\ Descriptors)'
    BY <1>1 DEF PasvDone, IInv, ChildNoBug, ParentNoOops, NeverBoth, SetUps,
       Descriptors, MayServe, child, parent
  <1> QED
    BY <1>4, <1>5, <1>6 DEF IInv

LEMMA StartPortStep ==
    ASSUME IInv, NEW a \in PortArgs, NEW eprt \in BOOLEAN, StartPort(a, eprt)
    PROVE  IInv'
  <1>1. Asking' /\ down' \in Seq(Requests) /\ up' \in Seq(Answers) /\ pc' = "port1"
    BY WhileRunning, CallMade, Calls DEF StartPort, Running
  <1>2. TypeOK'
    BY <1>1, Calls DEF StartPort, IInv, TypeOK, parent
  <1>3. Streams'
    BY <1>1 DEF Streams, Running, AskingActive
  <1>4. (ChildNoBug /\ ParentNoOops /\ NeverBoth /\ SetUps /\ Descriptors)'
    <2>1. /\ port_sockaddr' \in {None, port_sockaddr}
          /\ arg' \in PortArgs
          /\ UNCHANGED <<ppc, listen_fd, sock, data_fd>>
          /\ data_fd = None
          /\ ppc # "fd"
      BY DEF StartPort, IInv, Descriptors, Streams, Running, parent
    <2> QED
      BY <1>1, <2>1 DEF IInv, ChildNoBug, ParentNoOops, NeverBoth, SetUps,
         Descriptors, None
  <1> QED
    BY <1>2, <1>3, <1>4 DEF IInv

LEMMA PortDoneStep ==
    ASSUME IInv, PortDone
    PROVE  IInv'
  <1>1. down = <<>> /\ up' = <<>> /\ ppc \in {"wait", "gone"} /\ ~listen_fd
    BY CleanupRead DEF PortDone
  <1>2. pc = "port1" /\ pc' = "idle" /\ pc' \in Running
    BY DEF PortDone, Running
  <1>3. Streams' /\ down' \in Seq(Requests) /\ up' \in Seq(Answers)
    BY <1>1, <1>2, RunningOn DEF PortDone
  <1>4. /\ port_sockaddr' \in Addresses \cup {None}
        /\ ~PortPromiscuous => port_sockaddr' \in {None, "usable"}
    BY <1>2 DEF PortDone, PortAccepted, IInv, SetUps, PortArgs, Addresses
  <1>5. TypeOK'
    BY <1>2, <1>3, <1>4 DEF PortDone, IInv, TypeOK, parent
  <1>6. (ChildNoBug /\ ParentNoOops /\ NeverBoth /\ SetUps /\ Descriptors)'
    BY <1>1, <1>2, <1>4 DEF PortDone, IInv, ChildNoBug, ParentNoOops, NeverBoth,
       SetUps, Descriptors, None, parent
  <1> QED
    BY <1>3, <1>5, <1>6 DEF IInv

-----------------------------------------------------------------------------
(* RETR, LIST, NLST, STOR, APPE and STOU up to the data connection.        *)

LEMMA StartTransferStep ==
    ASSUME IInv, StartTransfer
    PROVE  IInv'
  <1>1. Asking' /\ down' \in Seq(Requests) /\ up' \in Seq(Answers) /\ pc' = "check1"
    BY WhileRunning, CallMade, Calls DEF StartTransfer, Running
  <1>2. TypeOK'
    BY <1>1, Calls DEF StartTransfer, IInv, TypeOK, child, parent
  <1>3. Streams'
    BY <1>1 DEF Streams, Running, AskingActive
  <1>4. (ChildNoBug /\ ParentNoOops /\ NeverBoth /\ SetUps /\ Descriptors)'
    BY <1>1 DEF StartTransfer, IInv, ChildNoBug, ParentNoOops, NeverBoth, SetUps,
       Descriptors, MayServe, child, parent
  <1> QED
    BY <1>2, <1>3, <1>4 DEF IInv

(* An answer to pasv_active leads the child to another call that asks for  *)
(* the same, with a set-up in place.                                       *)
LEMMA AskAgain ==
    ASSUME IInv, pc \in AskingActive, NEW l \in {"check2", "get2", "get3"},
           down = <<>>, up' = <<>>, ppc \in {"wait", "gone"}, Call(l),
           \/ port_sockaddr # None
           \/ l = "get3" /\ (listen_fd \/ ppc = "gone"),
           UNCHANGED <<child, parent>>
    PROVE  IInv'
  <1>1. Asking' /\ down' \in Seq(Requests) /\ up' \in Seq(Answers) /\ pc' = l
    BY CallMade, Calls
  <1>2. TypeOK'
    BY <1>1, Calls DEF IInv, TypeOK, child, parent
  <1>3. Streams'
    BY <1>1 DEF Streams, Running, AskingActive
  <1>4. (ChildNoBug /\ ParentNoOops /\ NeverBoth /\ SetUps /\ Descriptors)'
    BY <1>1 DEF IInv, ChildNoBug, ParentNoOops, NeverBoth, SetUps, Descriptors,
       MayServe, AskingActive, child, parent
  <1> QED
    BY <1>2, <1>3, <1>4 DEF IInv

(* An answer to pasv_active lets the child run on.                         *)
LEMMA AskNoMore ==
    ASSUME IInv, pc \in AskingActive, NEW l \in {"idle", "file", "direct"},
           down = <<>>, up' = <<>>, ppc \in {"wait", "gone"}, Goto(l),
           l = "file" => port_sockaddr # None \/ listen_fd \/ ppc = "gone",
           l = "direct" => port_sockaddr # None,
           UNCHANGED <<child, parent>>
    PROVE  IInv'
  <1>1. pc' = l /\ pc' \in Running /\ down' = <<>>
    BY DEF Goto, Running
  <1>2. Streams' /\ down' \in Seq(Requests) /\ up' \in Seq(Answers)
    BY <1>1, RunningOn
  <1>3. TypeOK'
    BY <1>1, <1>2 DEF IInv, TypeOK, child, parent
  <1>4. (ChildNoBug /\ ParentNoOops /\ NeverBoth /\ SetUps /\ Descriptors)'
    BY <1>1 DEF IInv, ChildNoBug, ParentNoOops, NeverBoth, SetUps, Descriptors,
       MayServe, AskingActive, child, parent
  <1> QED
    BY <1>2, <1>3, <1>4 DEF IInv

LEMMA CheckTransferStep ==
    ASSUME IInv, CheckTransfer
    PROVE  IInv'
  <1>1. CASE ActiveYes("check1", Goto("file"))
    <2>1. /\ pc \in AskingActive
          /\ down = <<>> /\ up' = <<>> /\ ppc \in {"wait", "gone"}
          /\ port_sockaddr = None /\ (listen_fd \/ ppc = "gone")
      BY <1>1, ActiveRead DEF ActiveYes, AskingActive
    <2> QED
      BY <1>1, <2>1, AskNoMore DEF ActiveYes
  <1>2. CASE ActiveNo("check1", Call("check2"), Goto("idle"))
    <2>1. /\ pc \in AskingActive
          /\ down = <<>> /\ up' = <<>> /\ ppc \in {"wait", "gone"}
      BY <1>2, ActiveRead DEF ActiveNo, AskingActive
    <2> QED
      BY <1>2, <2>1, AskNoMore, AskAgain DEF ActiveNo
  <1>3. CASE PortActive("check2", Goto("file"))
    <2>1. pc \in AskingActive /\ port_sockaddr # None
      BY <1>3 DEF PortActive, AskingActive, IInv, SetUps
    <2>2. ~Read(Number(1))
      BY <2>1, ActiveRead
    <2>3. /\ Read(Number(0)) /\ Goto("file")
          /\ down = <<>> /\ up' = <<>> /\ ppc \in {"wait", "gone"}
      BY <1>3, <2>1, <2>2, ActiveRead DEF PortActive
    <2> QED
      BY <1>3, <2>1, <2>3, AskNoMore DEF PortActive
  <1> QED
    BY <1>1, <1>2, <1>3 DEF CheckTransfer

LEMMA GetRemoteTransferFdStep ==
    ASSUME IInv, GetRemoteTransferFd
    PROVE  IInv'
  <1>1. CASE ActiveYes("get1", Call("get3"))
    <2>1. /\ pc \in AskingActive
          /\ down = <<>> /\ up' = <<>> /\ ppc \in {"wait", "gone"}
          /\ port_sockaddr = None /\ (listen_fd \/ ppc = "gone")
      BY <1>1, ActiveRead DEF ActiveYes, AskingActive
    <2> QED
      BY <1>1, <2>1, AskAgain DEF ActiveYes
  <1>2. CASE ActiveNo("get1", Call("get2"), Goto("bug"))
    <2>1. /\ pc \in AskingActive
          /\ down = <<>> /\ up' = <<>> /\ ppc \in {"wait", "gone"}
          /\ port_sockaddr # None
      BY <1>2, ActiveRead DEF ActiveNo, AskingActive
    <2> QED
      BY <1>2, <2>1, AskAgain DEF ActiveNo
  <1>3. CASE PortActive("get2", Call("get3"))
    <2>1. pc \in AskingActive /\ port_sockaddr # None
      BY <1>3 DEF PortActive, AskingActive, IInv, SetUps
    <2>2. ~Read(Number(1))
      BY <2>1, ActiveRead
    <2>3. /\ Read(Number(0)) /\ Call("get3")
          /\ down = <<>> /\ up' = <<>> /\ ppc \in {"wait", "gone"}
      BY <1>3, <2>1, <2>2, ActiveRead DEF PortActive
    <2> QED
      BY <1>3, <2>1, <2>3, AskAgain DEF PortActive
  <1> QED
    BY <1>1, <1>2, <1>3 DEF GetRemoteTransferFd

LEMMA FileFailsStep ==
    ASSUME IInv, FileFails
    PROVE  IInv'
  <1>1. pc = "file" /\ pc' = "idle" /\ {pc, pc'} \subseteq Running
    BY DEF FileFails, Running
  <1>2. Streams' /\ down' \in Seq(Requests) /\ up' \in Seq(Answers)
    BY <1>1, WhileRunning, RunningOn DEF FileFails
  <1>3. TypeOK'
    BY <1>1, <1>2 DEF FileFails, IInv, TypeOK, child, parent
  <1>4. (ChildNoBug /\ ParentNoOops /\ NeverBoth /\ SetUps /\ Descriptors)'
    BY <1>1 DEF FileFails, IInv, ChildNoBug, ParentNoOops, NeverBoth, SetUps,
       Descriptors, MayServe, child, parent
  <1> QED
    BY <1>2, <1>3, <1>4 DEF IInv

LEMMA FileOpenedStep ==
    ASSUME IInv, FileOpened
    PROVE  IInv'
  <1>1. PICK l \in {"get1", "chown"} : Call(l) /\ (l = "chown" => ChownUploads)
    BY DEF FileOpened
  <1>2. Asking' /\ down' \in Seq(Requests) /\ up' \in Seq(Answers) /\ pc' = l
    BY <1>1, WhileRunning, CallMade, Calls DEF FileOpened, Running
  <1>3. TypeOK'
    BY <1>2, Calls DEF FileOpened, IInv, TypeOK, child, parent
  <1>4. Streams'
    BY <1>2 DEF Streams, Running, AskingActive
  <1>5. (ChildNoBug /\ ParentNoOops /\ NeverBoth /\ SetUps /\ Descriptors)'
    BY <1>1, <1>2 DEF FileOpened, IInv, ChildNoBug, ParentNoOops, NeverBoth,
       SetUps, Descriptors, MayServe, child, parent
  <1> QED
    BY <1>3, <1>4, <1>5 DEF IInv

LEMMA ChownDoneStep ==
    ASSUME IInv, ChownDone
    PROVE  IInv'
  <1>1. Answered(Result("OK")) /\ pc = "chown"
    BY DEF ChownDone, IInv, Streams, Read, Asking
  <1>2. down = <<>> /\ up' = <<>> /\ ppc \in {"wait", "gone"}
    BY <1>1, ReadOne DEF ChownDone, Answered
  <1>3. Asking' /\ down' \in Seq(Requests) /\ up' \in Seq(Answers) /\ pc' = "get1"
    BY <1>2, CallMade, Calls DEF ChownDone
  <1>4. TypeOK'
    BY <1>3, Calls DEF ChownDone, IInv, TypeOK, child, parent
  <1>5. Streams'
    BY <1>3 DEF Streams, Running, AskingActive
  <1>6. (ChildNoBug /\ ParentNoOops /\ NeverBoth /\ SetUps /\ Descriptors)'
    BY <1>1, <1>3 DEF ChownDone, IInv, ChildNoBug, ParentNoOops, NeverBoth,
       SetUps, Descriptors, MayServe, child, parent
  <1> QED
    BY <1>4, <1>5, <1>6 DEF IInv

LEMMA GetPasvFdStep ==
    ASSUME IInv, GetPasvFd
    PROVE  IInv'
  <1>1. /\ pc = "get3"
        /\ down = <<>> /\ up' = <<>> /\ ppc \in {"wait", "gone"}
        /\ port_sockaddr = None /\ (listen_fd \/ ppc = "gone")
    BY ActiveRead DEF GetPasvFd, ActiveYes, AskingActive
  <1>2. Asking' /\ down' \in Seq(Requests) /\ up' \in Seq(Answers) /\ pc' = "accept"
    BY <1>1, CallMade, Calls DEF GetPasvFd, ActiveYes
  <1>3. TypeOK'
    BY <1>2, Calls DEF GetPasvFd, ActiveYes, IInv, TypeOK, child, parent
  <1>4. Streams'
    BY <1>2 DEF Streams, Running, AskingActive
  <1>5. (ChildNoBug /\ ParentNoOops /\ NeverBoth /\ SetUps /\ Descriptors)'
    BY <1>1, <1>2 DEF GetPasvFd, ActiveYes, IInv, ChildNoBug, ParentNoOops,
       NeverBoth, SetUps, Descriptors, MayServe, child, parent
  <1> QED
    BY <1>3, <1>4, <1>5 DEF IInv

LEMMA GetPortFdStep ==
    ASSUME IInv, GetPortFd
    PROVE  IInv'
  <1>1. /\ pc = "get3" /\ pc \in AskingActive
        /\ down = <<>> /\ up' = <<>> /\ ppc \in {"wait", "gone"}
        /\ ~listen_fd /\ port_sockaddr # None
    BY ActiveRead DEF GetPortFd, AskingActive
  <1>2. CASE PortPromiscuous
    BY <1>1, <1>2, AskNoMore DEF GetPortFd
  <1>3. CASE ~PortPromiscuous
    <2>1. pc' = "connect" /\ UNCHANGED <<child, parent>>
      BY <1>3 DEF GetPortFd
    <2>2. down' = <<[cmd |-> "GET_DATA_SOCK", port |-> port_sockaddr]>>
      BY <1>1, <1>3 DEF GetPortFd
    <2>3. Asking'
      BY <1>1, <2>1, <2>2, Calls DEF Asking, child, parent
    <2>4. down' \in Seq(Requests) /\ up' \in Seq(Answers)
      <3>1. [cmd |-> CallOf["connect"], port |-> port_sockaddr] \in Requests
        BY Calls DEF Requests, IInv, TypeOK
      <3> QED
        BY <1>1, <2>2, <3>1, Calls
    <2>5. TypeOK'
      BY <2>1, <2>4, Calls DEF IInv, TypeOK, child, parent
    <2>6. Streams'
      BY <2>1, <2>3 DEF Streams, Running, AskingActive
    <2>7. (ChildNoBug /\ ParentNoOops /\ NeverBoth /\ SetUps /\ Descriptors)'
      BY <1>1, <1>3, <2>1 DEF IInv, ChildNoBug, ParentNoOops, NeverBoth, SetUps,
         Descriptors, MayServe, child, parent
    <2> QED
      BY <2>5, <2>6, <2>7 DEF IInv
  <1> QED
    BY <1>2, <1>3

-----------------------------------------------------------------------------
(* The data connection arrives, is used and is closed.                     *)

LEMMA AcceptResultStep ==
    ASSUME IInv, AcceptResult
    PROVE  IInv'
  <1>1. pc = "accept" /\ up # <<>> /\ UNCHANGED <<child, parent, down>>
    BY DEF AcceptResult, Read
  <1>2. FdFollows \/ ErrFollows
    BY <1>1 DEF IInv, Streams, Asking
  <1>3. CASE Read(Result("OK")) /\ pc' = "accept_fd"
    <2>1. FdDue'
      <3>1. ~ErrFollows
        BY <1>3, Distinct, ReadOne, ReadTwo DEF ErrFollows
      <3>2. CASE up = <<Result("OK")>> /\ ppc \in {"fd", "gone"}
        BY <1>1, <1>2, <1>3, <3>1, <3>2, ReadOne DEF FdFollows, FdDue, parent
      <3>3. CASE \E p \in Peers : /\ MayServe(p)
                                  /\ up = <<Result("OK"), Fd(p)>>
                                  /\ ppc \in {"close", "wait", "gone"}
        BY <1>1, <1>2, <1>3, <3>1, <3>3, ReadTwo
           DEF FdFollows, FdDue, MayServe, child, parent
      <3> QED
        BY <1>2, <3>1, <3>2, <3>3 DEF FdFollows
    <2>2. TypeOK'
      BY <1>1, <1>3, TypedRead DEF IInv, TypeOK, Second, child, parent
    <2>3. Streams'
      BY <1>3, <2>1 DEF Streams, Running, AskingActive
    <2>4. (ChildNoBug /\ ParentNoOops /\ NeverBoth /\ SetUps /\ Descriptors)'
      BY <1>1, <1>3 DEF IInv, ChildNoBug, ParentNoOops, NeverBoth, SetUps,
         Descriptors, MayServe, child, parent
    <2> QED
      BY <2>2, <2>3, <2>4 DEF IInv
  <1>4. CASE Read(Result("BAD")) /\ pc' = "accept_err"
    <2>1. ErrDue'
      <3>1. ~FdFollows
        BY <1>4, Distinct, ReadOne, ReadTwo DEF FdFollows
      <3>2. CASE up = <<Result("BAD")>> /\ ppc \in {"err", "gone"}
        BY <1>1, <1>2, <1>4, <3>1, <3>2, ReadOne DEF ErrFollows, ErrDue, parent
      <3>3. CASE \E n \in {-1, -2} : /\ up = <<Result("BAD"), Number(n)>>
                                     /\ ppc \in {"wait", "gone"}
        BY <1>1, <1>2, <1>4, <3>1, <3>3, ReadTwo DEF ErrFollows, ErrDue, parent
      <3> QED
        BY <1>2, <3>1, <3>2, <3>3 DEF ErrFollows
    <2>2. TypeOK'
      BY <1>1, <1>4, TypedRead DEF IInv, TypeOK, Second, child, parent
    <2>3. Streams'
      BY <1>4, <2>1 DEF Streams, Running, AskingActive
    <2>4. (ChildNoBug /\ ParentNoOops /\ NeverBoth /\ SetUps /\ Descriptors)'
      BY <1>1, <1>4 DEF IInv, ChildNoBug, ParentNoOops, NeverBoth, SetUps,
         Descriptors, MayServe, child, parent
    <2> QED
      BY <2>2, <2>3, <2>4 DEF IInv
  <1> QED
    BY <1>3, <1>4 DEF AcceptResult

LEMMA AcceptFailsStep ==
    ASSUME IInv, AcceptFails
    PROVE  IInv'
  <1>1. pc = "accept_err" /\ up # <<>> /\ UNCHANGED <<child, parent, down>>
        /\ pc' = "cleanup" /\ pc' \in Running
    BY DEF AcceptFails, Read, Running
  <1>2. PICK n \in {-1, -2} : up = <<Number(n)>> /\ ppc \in {"wait", "gone"}
    BY <1>1 DEF IInv, Streams, ErrDue
  <1>3. down = <<>> /\ up' = <<>>
    BY <1>1, <1>2, ReadOne DEF AcceptFails, IInv, Streams, ErrDue
  <1>4. Streams' /\ down' \in Seq(Requests) /\ up' \in Seq(Answers)
    BY <1>1, <1>2, <1>3, RunningOn
  <1>5. TypeOK'
    BY <1>1, <1>4 DEF IInv, TypeOK, child, parent
  <1>6. (ChildNoBug /\ ParentNoOops /\ NeverBoth /\ SetUps /\ Descriptors)'
    BY <1>1 DEF IInv, ChildNoBug, ParentNoOops, NeverBoth, SetUps, Descriptors,
       MayServe, child, parent
  <1> QED
    BY <1>4, <1>5, <1>6 DEF IInv

LEMMA ConnectResultStep ==
    ASSUME IInv, ConnectResult
    PROVE  IInv'
  <1>1. pc = "connect" /\ up # <<>> /\ UNCHANGED <<child, parent, down>>
    BY DEF ConnectResult, Read
  <1>2. FdFollows \/ Answered(Result("BAD"))
    BY <1>1 DEF IInv, Streams, Asking
  <1>3. CASE Read(Result("OK")) /\ pc' = "connect_fd"
    <2>1. FdDue'
      <3>1. ~Answered(Result("BAD"))
        BY <1>3, Distinct, ReadOne DEF Answered
      <3>2. CASE up = <<Result("OK")>> /\ ppc \in {"fd", "gone"}
        BY <1>1, <1>2, <1>3, <3>1, <3>2, ReadOne DEF FdFollows, FdDue, parent
      <3>3. CASE \E p \in Peers : /\ MayServe(p)
                                  /\ up = <<Result("OK"), Fd(p)>>
                                  /\ ppc \in {"close", "wait", "gone"}
        BY <1>1, <1>2, <1>3, <3>1, <3>3, ReadTwo
           DEF FdFollows, FdDue, MayServe, child, parent
      <3> QED
        BY <1>2, <3>1, <3>2, <3>3 DEF FdFollows
    <2>2. TypeOK'
      BY <1>1, <1>3, TypedRead DEF IInv, TypeOK, Second, child, parent
    <2>3. Streams'
      BY <1>3, <2>1 DEF Streams, Running, AskingActive
    <2>4. (ChildNoBug /\ ParentNoOops /\ NeverBoth /\ SetUps /\ Descriptors)'
      BY <1>1, <1>3 DEF IInv, ChildNoBug, ParentNoOops, NeverBoth, SetUps,
         Descriptors, MayServe, child, parent
    <2> QED
      BY <2>2, <2>3, <2>4 DEF IInv
  <1>4. CASE Read(Result("BAD")) /\ pc' = "cleanup"
    <2>1. Answered(Result("BAD"))
      BY <1>2, <1>4, Distinct, ReadOne, ReadTwo DEF FdFollows
    <2>2. down = <<>> /\ up' = <<>> /\ ppc \in {"wait", "gone"}
          /\ pc' \in Running
      BY <1>4, <2>1, ReadOne DEF Answered, Running
    <2>3. Streams' /\ down' \in Seq(Requests) /\ up' \in Seq(Answers)
      BY <1>1, <2>2, RunningOn
    <2>4. TypeOK'
      BY <1>1, <2>2, <2>3 DEF IInv, TypeOK, child, parent
    <2>5. (ChildNoBug /\ ParentNoOops /\ NeverBoth /\ SetUps /\ Descriptors)'
      BY <1>1, <1>4 DEF IInv, ChildNoBug, ParentNoOops, NeverBoth, SetUps,
         Descriptors, MayServe, child, parent
    <2> QED
      BY <2>3, <2>4, <2>5 DEF IInv
  <1> QED
    BY <1>3, <1>4 DEF ConnectResult

LEMMA ReceiveFdStep ==
    ASSUME IInv, ReceiveFd
    PROVE  IInv'
  <1>1. /\ pc \in {"accept_fd", "connect_fd"} /\ up # <<>>
        /\ UNCHANGED <<arg, port_sockaddr, epsv_all, parent, down>>
    BY DEF ReceiveFd, Read
  <1>2. PICK p \in Peers : Read(Fd(p)) /\ InitDataSock(p)
    BY DEF ReceiveFd
  <1>3. PICK q \in Peers : /\ MayServe(q)
                           /\ up = <<Fd(q)>>
                           /\ ppc \in {"close", "wait", "gone"}
    BY <1>1 DEF IInv, Streams, FdDue
  <1>4. p = q /\ up' = <<>> /\ down = <<>>
    BY <1>1, <1>2, <1>3, ReadOne, Distinct DEF IInv, Streams, FdDue
  <1>5. data_fd = None
    BY <1>1 DEF IInv, Descriptors
  <1>6. data_fd' = p /\ pc' = "mark" /\ pc' \in Running
    BY <1>2, <1>5 DEF InitDataSock, Running
  <1>7. Streams' /\ down' \in Seq(Requests) /\ up' \in Seq(Answers)
    BY <1>1, <1>3, <1>4, <1>6, RunningOn
  <1>8. TypeOK'
    BY <1>1, <1>6, <1>7 DEF IInv, TypeOK, parent
  <1>9. data_fd' # None
    BY <1>6 DEF Peers, None
  <1>10. (ChildNoBug /\ ParentNoOops /\ NeverBoth /\ SetUps /\ Descriptors)'
    BY <1>1, <1>3, <1>4, <1>6, <1>9 DEF IInv, ChildNoBug, ParentNoOops, NeverBoth,
       SetUps, Descriptors, MayServe, parent
  <1> QED
    BY <1>7, <1>8, <1>10 DEF IInv

LEMMA ConnectDirectStep ==
    ASSUME IInv, ConnectDirect
    PROVE  IInv'
  <1>1. /\ pc = "direct" /\ UNCHANGED <<arg, epsv_all, parent, down, up>>
        /\ data_fd = None /\ port_sockaddr # None
    BY DEF ConnectDirect, IInv, Descriptors, SetUps
  <1>2. down = <<>> /\ up = <<>> /\ ppc \in {"wait", "close", "gone"}
    BY <1>1, WhileRunning DEF Running
  <1>3. CASE port_sockaddr = "reserved"
    <2>1. pc' = "gone" /\ data_fd' = None /\ port_sockaddr' = None
      BY <1>1, <1>3 DEF ConnectDirect
    <2>2. TypeOK'
      BY <1>1, <2>1 DEF IInv, TypeOK, Stopped, parent
    <2>3. Streams'
      BY <2>1 DEF Streams, Running, AskingActive
    <2>4. (ChildNoBug /\ ParentNoOops /\ NeverBoth /\ SetUps /\ Descriptors)'
      BY <1>1, <1>2, <2>1 DEF IInv, ChildNoBug, ParentNoOops, NeverBoth, SetUps,
         Descriptors, None, parent
    <2> QED
      BY <2>2, <2>3, <2>4 DEF IInv
  <1>4. CASE port_sockaddr # "reserved"
    <2>1. PICK p \in Peers :
             /\ \/ InitDataSock(p)
                \/ pc' = "cleanup" /\ data_fd' = data_fd
             /\ p = "other" => port_sockaddr = "foreign"
      BY <1>4 DEF ConnectDirect, Peers
    <2>2. /\ \/ pc' = "mark" /\ data_fd' = p
             \/ pc' = "cleanup" /\ data_fd' = None
          /\ pc' \in Running
      BY <1>1, <2>1 DEF InitDataSock, Running
    <2>3. port_sockaddr' = port_sockaddr
      BY <2>2 DEF ConnectDirect
    <2>4. Streams' /\ down' \in Seq(Requests) /\ up' \in Seq(Answers)
      BY <1>1, <1>2, <2>2, RunningOn
    <2>5. TypeOK'
      BY <1>1, <2>2, <2>3, <2>4 DEF IInv, TypeOK, parent
    <2>6. p # None /\ (p = "other" => PortPromiscuous)
      BY <2>1 DEF Peers, None, IInv, SetUps
    <2>7. (ChildNoBug /\ ParentNoOops /\ NeverBoth /\ SetUps /\ Descriptors)'
      BY <1>1, <1>2, <2>2, <2>3, <2>6 DEF IInv, ChildNoBug, ParentNoOops,
         NeverBoth, SetUps, Descriptors, None, parent
    <2> QED
      BY <2>4, <2>5, <2>7 DEF IInv
  <1> QED
    BY <1>3, <1>4

(* The hand-shake and the end of the transfer.                             *)
LEMMA MarkOrEndStep ==
    ASSUME IInv, MarkConnect \/ EndTransfer
    PROVE  IInv'
  <1>1. /\ pc \in {"mark", "transfer"} /\ pc \in Running
        /\ data_fd # None
        /\ UNCHANGED <<arg, port_sockaddr, epsv_all, parent, down, up>>
    BY DEF MarkConnect, EndTransfer, Running, IInv, Descriptors
  <1>2. down = <<>> /\ up = <<>> /\ ppc \in {"wait", "close", "gone"}
    BY <1>1, WhileRunning
  <1>3. /\ \/ pc' = "transfer" /\ data_fd' = data_fd
           \/ pc' = "cleanup" /\ data_fd' = None
        /\ pc' \in Running
    BY <1>1 DEF MarkConnect, EndTransfer, Dispose, Running
  <1>4. Streams' /\ down' \in Seq(Requests) /\ up' \in Seq(Answers)
    BY <1>1, <1>2, <1>3, RunningOn
  <1>5. TypeOK'
    BY <1>1, <1>3, <1>4 DEF IInv, TypeOK, parent
  <1>6. (ChildNoBug /\ ParentNoOops /\ NeverBoth /\ SetUps /\ Descriptors)'
    BY <1>1, <1>2, <1>3 DEF IInv, ChildNoBug, ParentNoOops, NeverBoth, SetUps,
       Descriptors, None, parent
  <1> QED
    BY <1>4, <1>5, <1>6 DEF IInv

LEMMA CleanupStep ==
    ASSUME IInv, Cleanup
    PROVE  IInv'
  <1>1. pc = "cleanup" /\ port_sockaddr' = None
        /\ UNCHANGED <<arg, data_fd, epsv_all, parent, up>>
    BY DEF Cleanup
  <1>2. down = <<>> /\ up = <<>> /\ ppc \in {"wait", "close", "gone"}
    BY <1>1, WhileRunning DEF Running
  <1>3. Asking' /\ down' \in Seq(Requests) /\ up' \in Seq(Answers) /\ pc' = "end"
    BY <1>1, <1>2, CallMade, Calls DEF Cleanup
  <1>4. TypeOK'
    BY <1>1, <1>3, Calls DEF IInv, TypeOK, parent
  <1>5. Streams'
    BY <1>3 DEF Streams, Running, AskingActive
  <1>6. (ChildNoBug /\ ParentNoOops /\ NeverBoth /\ SetUps /\ Descriptors)'
    BY <1>1, <1>2, <1>3 DEF IInv, ChildNoBug, ParentNoOops, NeverBoth, SetUps,
       Descriptors, None, parent
  <1> QED
    BY <1>4, <1>5, <1>6 DEF IInv

LEMMA CommandDoneStep ==
    ASSUME IInv, CommandDone
    PROVE  IInv'
  <1>1. pc = "end" /\ pc' = "idle" /\ pc' \in Running
        /\ UNCHANGED <<child, parent, down>>
    BY DEF CommandDone, Running
  <1>2. down = <<>> /\ up' = <<>> /\ ppc \in {"wait", "gone"} /\ ~listen_fd
    BY CleanupRead DEF CommandDone
  <1>3. Streams' /\ down' \in Seq(Requests) /\ up' \in Seq(Answers)
    BY <1>1, <1>2, RunningOn
  <1>4. TypeOK'
    BY <1>1, <1>3 DEF IInv, TypeOK, child, parent
  <1>5. (ChildNoBug /\ ParentNoOops /\ NeverBoth /\ SetUps /\ Descriptors)'
    BY <1>1, <1>2 DEF IInv, ChildNoBug, ParentNoOops, NeverBoth, SetUps,
       Descriptors, MayServe, child, parent
  <1> QED
    BY <1>3, <1>4, <1>5 DEF IInv

-----------------------------------------------------------------------------
(* The parent.                                                             *)

(* A request is there only when the child waits for the answer to it.      *)
LEMMA ServeAsked ==
    ASSUME IInv, NEW cmd, Serve(cmd)
    PROVE  /\ pc \in Waiting /\ CallOf[pc] = cmd
           /\ down' = <<>> /\ up = <<>> /\ ppc = "wait"
           /\ Head(down).port = IF pc = "connect" THEN port_sockaddr ELSE None
  <1>1. /\ pc \in Waiting \cup Second \cup Running
        /\ down # <<>> /\ ppc = "wait"
    BY DEF Serve, Alive, IInv, TypeOK
  <1>2. Asking /\ pc \in Waiting
    BY <1>1, Calls DEF IInv, Streams, Answered, FdFollows, ErrFollows, FdDue,
       ErrDue, Second, AskingActive
  <1> QED
    BY <1>1, <1>2 DEF Asking, Serve

LEMMA TypedAnswers ==
    /\ Result("OK") \in Answers /\ Result("BAD") \in Answers
    /\ \A n \in -2 .. 1 : Number(n) \in Answers
    /\ \A p \in Peers : Fd(p) \in Answers
  BY DEF Answers

LEMMA OneAnswer ==
    /\ <<Result("OK")>> \in Seq(Answers)
    /\ <<Result("BAD")>> \in Seq(Answers)
    /\ <<>> \in Seq(Requests)
  <1>1. \A a \in Answers : <<a>> \in Seq(Answers)
    OBVIOUS
  <1> QED
    BY <1>1, TypedAnswers

LEMMA ServeCleanupStep ==
    ASSUME IInv, ServeCleanup
    PROVE  IInv'
  <1>1. /\ pc \in Waiting /\ CallOf[pc] = "PASV_CLEANUP"
        /\ down' = <<>> /\ up = <<>> /\ ppc = "wait"
    BY ServeAsked DEF ServeCleanup
  <1>2. pc \in {"port1", "pasv1", "end"}
    BY <1>1, Calls DEF AskingActive
  <1>3. /\ up' = <<Result("OK")>> /\ listen_fd' = FALSE
        /\ UNCHANGED <<pc, child, ppc, sock>>
    BY <1>1 DEF ServeCleanup, Answer
  <1>4. TypeOK'
    BY <1>1, <1>3, OneAnswer DEF IInv, TypeOK, child
  <1>5. Streams'
    BY <1>1, <1>2, <1>3 DEF Streams, Answered, Running, AskingActive
  <1>6. (ChildNoBug /\ ParentNoOops /\ NeverBoth /\ SetUps /\ Descriptors)'
    BY <1>1, <1>2, <1>3 DEF IInv, ChildNoBug, ParentNoOops, NeverBoth, SetUps,
       Descriptors, MayServe, child
  <1> QED
    BY <1>4, <1>5, <1>6 DEF IInv

LEMMA ServeActiveStep ==
    ASSUME IInv, ServeActive
    PROVE  IInv'
  <1>1. /\ pc \in Waiting /\ CallOf[pc] = "PASV_ACTIVE"
        /\ down' = <<>> /\ up = <<>> /\ ppc = "wait"
    BY ServeAsked DEF ServeActive
  <1>2. pc \in AskingActive
    BY <1>1, Calls DEF AskingActive
  <1>3. PICK n \in {0, 1} : /\ up' = <<Number(n)>>
                            /\ n = IF listen_fd THEN 1 ELSE 0
    BY <1>1 DEF ServeActive, Answer
  <1>4. UNCHANGED <<pc, arg, port_sockaddr, data_fd, epsv_all, ppc, listen_fd, sock>>
    BY DEF ServeActive, child, parent
  <1>5. TypeOK'
    <2>1. up' \in Seq(Answers) /\ down' \in Seq(Requests)
      BY <1>1, <1>3, TypedAnswers
    <2> QED
      BY <1>4, <2>1 DEF IInv, TypeOK
  <1>6. /\ n = 1 => port_sockaddr = None /\ listen_fd
        /\ n = 0 => ~listen_fd /\ (pc # "check1" => port_sockaddr # None)
    BY <1>1, <1>2, <1>3 DEF IInv, NeverBoth, SetUps, AskingActive
  <1>7. /\ n = 1 => Answered(Number(1))'
        /\ n = 0 => Answered(Number(0))'
    BY <1>1, <1>3, <1>4 DEF Answered, Number
  <1>8. Streams'
    BY <1>1, <1>2, <1>4, <1>6, <1>7 DEF Streams, Running, AskingActive
  <1>9. (ChildNoBug /\ ParentNoOops /\ NeverBoth /\ SetUps /\ Descriptors)'
    BY <1>4 DEF IInv, ChildNoBug, ParentNoOops, NeverBoth, SetUps, Descriptors,
       MayServe
  <1> QED
    BY <1>5, <1>8, <1>9 DEF IInv

LEMMA ServeListenStep ==
    ASSUME IInv, ServeListen
    PROVE  IInv'
  <1>1. /\ pc \in Waiting /\ CallOf[pc] = "PASV_LISTEN"
        /\ down' = <<>> /\ up = <<>> /\ ppc = "wait"
    BY ServeAsked DEF ServeListen
  <1>2. pc = "pasv2"
    BY <1>1, Calls DEF AskingActive
  <1>3. ~listen_fd /\ port_sockaddr = None
    BY <1>1, <1>2 DEF ServeListen, Serve, IInv, Streams, Answered, SetUps
  <1>4. /\ up' = <<Number(1)>> /\ listen_fd' = TRUE
        /\ UNCHANGED <<pc, child, ppc, sock>>
    BY <1>1, <1>3 DEF ServeListen, Answer
  <1>5. TypeOK'
    BY <1>1, <1>4, TypedAnswers DEF IInv, TypeOK, child
  <1>6. Streams'
    BY <1>1, <1>2, <1>4 DEF Streams, Answered, Running, AskingActive
  <1>7. (ChildNoBug /\ ParentNoOops /\ NeverBoth /\ SetUps /\ Descriptors)'
    BY <1>1, <1>2, <1>3, <1>4 DEF IInv, ChildNoBug, ParentNoOops, NeverBoth,
       SetUps, Descriptors, MayServe, child
  <1> QED
    BY <1>5, <1>6, <1>7 DEF IInv

LEMMA ServeAcceptStep ==
    ASSUME IInv, ServeAccept
    PROVE  IInv'
  <1>1. /\ pc \in Waiting /\ CallOf[pc] = "PASV_ACCEPT"
        /\ down' = <<>> /\ up = <<>> /\ ppc = "wait"
    BY ServeAsked DEF ServeAccept
  <1>2. pc = "accept"
    BY <1>1, Calls DEF AskingActive
  <1>3. listen_fd /\ port_sockaddr = None
    BY <1>1, <1>2 DEF IInv, SetUps
  <1>4. PICK p \in Peers \cup {None} : AcceptPasv(p)
    BY <1>3 DEF ServeAccept
  <1>5. UNCHANGED <<pc, arg, port_sockaddr, data_fd, epsv_all, listen_fd>>
    BY <1>3 DEF ServeAccept, child
  <1>6. CASE p = "client" \/ (p = "other" /\ PasvPromiscuous)
    <2>1. ppc' = "fd" /\ sock' = p /\ up' = <<Result("OK")>>
      BY <1>1, <1>4, <1>6 DEF AcceptPasv, Answer
    <2>2. TypeOK'
      BY <1>1, <1>5, <2>1, TypedAnswers DEF IInv, TypeOK, ParentLocations
    <2>3. Streams'
      BY <1>1, <1>2, <1>5, <2>1 DEF Streams, FdFollows, Running, AskingActive
    <2>4. (ChildNoBug /\ ParentNoOops /\ NeverBoth /\ SetUps /\ Descriptors)'
      BY <1>2, <1>3, <1>5, <1>6, <2>1 DEF IInv, ChildNoBug, ParentNoOops,
         NeverBoth, SetUps, Descriptors, MayServe, None
    <2> QED
      BY <2>2, <2>3, <2>4 DEF IInv
  <1>7. CASE ~(p = "client" \/ (p = "other" /\ PasvPromiscuous))
    <2>1. ppc' = "err" /\ sock' = None /\ up' = <<Result("BAD")>>
      BY <1>1, <1>4, <1>7 DEF AcceptPasv, Answer
    <2>2. TypeOK'
      BY <1>1, <1>5, <2>1, TypedAnswers DEF IInv, TypeOK, ParentLocations
    <2>3. Streams'
      BY <1>1, <1>2, <1>5, <2>1 DEF Streams, ErrFollows, Running, AskingActive
    <2>4. (ChildNoBug /\ ParentNoOops /\ NeverBoth /\ SetUps /\ Descriptors)'
      BY <1>2, <1>3, <1>5, <2>1 DEF IInv, ChildNoBug, ParentNoOops,
         NeverBoth, SetUps, Descriptors, None
    <2> QED
      BY <2>2, <2>3, <2>4 DEF IInv
  <1> QED
    BY <1>6, <1>7

LEMMA ServeDataSockStep ==
    ASSUME IInv, ServeDataSock
    PROVE  IInv'
  <1>1. /\ pc \in Waiting /\ CallOf[pc] = "GET_DATA_SOCK"
        /\ down' = <<>> /\ up = <<>> /\ ppc = "wait"
        /\ Head(down).port = IF pc = "connect" THEN port_sockaddr ELSE None
    BY ServeAsked DEF ServeDataSock
  <1>2. pc = "connect"
    BY <1>1, Calls DEF AskingActive
  <1>3. ~listen_fd /\ port_sockaddr = "usable" /\ Head(down).port # "reserved"
    BY <1>1, <1>2 DEF IInv, SetUps, NeverBoth
  <1>4. /\ UNCHANGED <<pc, arg, port_sockaddr, data_fd, epsv_all, listen_fd>>
        /\ \/ ppc' = "fd" /\ sock' = "client" /\ up' = <<Result("OK")>>
           \/ UNCHANGED <<ppc, sock>> /\ up' = <<Result("BAD")>>
    BY <1>1, <1>3 DEF ServeDataSock, Answer, child
  <1>5. TypeOK'
    <2>1. up' \in Seq(Answers) /\ down' \in Seq(Requests)
      BY <1>1, <1>4, OneAnswer
    <2>2. ppc' \in ParentLocations /\ sock' \in Peers \cup {None}
      BY <1>4 DEF IInv, TypeOK, ParentLocations, Peers
    <2> QED
      BY <1>4, <2>1, <2>2 DEF IInv, TypeOK
  <1>6. Streams'
    BY <1>1, <1>2, <1>4 DEF Streams, FdFollows, Answered, Running, AskingActive
  <1>7. (ChildNoBug /\ ParentNoOops /\ NeverBoth /\ SetUps /\ Descriptors)'
    BY <1>1, <1>2, <1>3, <1>4 DEF IInv, ChildNoBug, ParentNoOops, NeverBoth,
       SetUps, Descriptors, MayServe, None
  <1> QED
    BY <1>5, <1>6, <1>7 DEF IInv

LEMMA ServeChownStep ==
    ASSUME IInv, ServeChown
    PROVE  IInv'
  <1>1. /\ pc \in Waiting /\ CallOf[pc] = "CHOWN"
        /\ down' = <<>> /\ up = <<>> /\ ppc = "wait"
    BY ServeAsked DEF ServeChown
  <1>2. pc = "chown"
    BY <1>1, Calls DEF AskingActive
  <1>3. ChownUploads
    BY <1>2 DEF IInv, SetUps
  <1>4. up' = <<Result("OK")>>
        /\ UNCHANGED <<pc, arg, port_sockaddr, data_fd, epsv_all, ppc, listen_fd,
                       sock>>
    BY <1>1, <1>3 DEF ServeChown, Answer, child
  <1>5. TypeOK'
    BY <1>1, <1>4, TypedAnswers DEF IInv, TypeOK
  <1>6. Streams'
    BY <1>1, <1>2, <1>4 DEF Streams, Answered, Running, AskingActive
  <1>7. (ChildNoBug /\ ParentNoOops /\ NeverBoth /\ SetUps /\ Descriptors)'
    BY <1>4 DEF IInv, ChildNoBug, ParentNoOops, NeverBoth, SetUps, Descriptors,
       MayServe
  <1> QED
    BY <1>5, <1>6, <1>7 DEF IInv

(* Between the two writes of an answer the child waits for one of them.    *)
LEMMA SendFdStep ==
    ASSUME IInv, SendFd
    PROVE  IInv'
  <1>1. /\ ppc = "fd" /\ ppc' = "close"
        /\ UNCHANGED <<pc, arg, port_sockaddr, data_fd, epsv_all, listen_fd, sock,
                       down>>
        /\ up' = Append(up, Fd(sock))
    BY DEF SendFd, Answer, child
  <1>2. /\ pc \in {"accept", "connect", "accept_fd", "connect_fd"}
        /\ down = <<>>
        /\ up = IF pc \in {"accept", "connect"} THEN <<Result("OK")>> ELSE <<>>
    BY <1>1, Calls DEF SendFd, Alive, IInv, TypeOK, Streams, Asking, Answered,
       FdFollows, ErrFollows, FdDue, ErrDue, Second, AskingActive
  <1>3. sock \in Peers /\ MayServe(sock)
    BY <1>1, <1>2 DEF IInv, TypeOK, Descriptors
  <1>4. MayServe(sock)'
    BY <1>1, <1>3 DEF MayServe
  <1>5. up' = IF pc \in {"accept", "connect"} THEN <<Result("OK"), Fd(sock)>>
                                              ELSE <<Fd(sock)>>
    BY <1>1, <1>2, AppendSecond
  <1>6. TypeOK'
    <2>1. up' \in Seq(Answers)
      BY <1>1, <1>3, TypedAnswers DEF IInv, TypeOK
    <2> QED
      BY <1>1, <2>1 DEF IInv, TypeOK, ParentLocations
  <1>7. Streams'
    <2>1. CASE pc \in {"accept", "connect"}
      <3>1. FdFollows'
        BY <1>1, <1>2, <1>3, <1>4, <1>5, <2>1 DEF FdFollows, MayServe
      <3> QED
        BY <1>1, <2>1, <3>1 DEF Streams, Running, AskingActive
    <2>2. CASE pc \in {"accept_fd", "connect_fd"}
      <3>1. FdDue'
        BY <1>1, <1>2, <1>3, <1>4, <1>5, <2>2 DEF FdDue, MayServe
      <3> QED
        BY <1>1, <2>2, <3>1 DEF Streams, Running, AskingActive
    <2> QED
      BY <1>2, <2>1, <2>2
  <1>8. (ChildNoBug /\ ParentNoOops /\ NeverBoth /\ SetUps /\ Descriptors)'
    BY <1>1, <1>2 DEF IInv, ChildNoBug, ParentNoOops, NeverBoth, SetUps,
       Descriptors, MayServe
  <1> QED
    BY <1>6, <1>7, <1>8 DEF IInv

LEMMA SendErrStep ==
    ASSUME IInv, SendErr
    PROVE  IInv'
  <1>1. /\ ppc = "err" /\ ppc' = "wait"
        /\ UNCHANGED <<pc, arg, port_sockaddr, data_fd, epsv_all, listen_fd, sock,
                       down>>
    BY DEF SendErr, child
  <1>2. PICK n \in {-1, -2} : up' = Append(up, Number(n))
    BY DEF SendErr, Answer
  <1>3. /\ pc \in {"accept", "accept_err"}
        /\ down = <<>>
        /\ up = IF pc = "accept" THEN <<Result("BAD")>> ELSE <<>>
    BY <1>1, Calls DEF SendErr, Alive, IInv, TypeOK, Streams, Asking, Answered,
       FdFollows, ErrFollows, FdDue, ErrDue, Second, AskingActive
  <1>4. up' = IF pc = "accept" THEN <<Result("BAD"), Number(n)>>
                               ELSE <<Number(n)>>
    BY <1>2, <1>3, AppendSecond
  <1>5. TypeOK'
    <2>1. up' \in Seq(Answers)
      BY <1>2, TypedAnswers DEF IInv, TypeOK
    <2> QED
      BY <1>1, <2>1 DEF IInv, TypeOK, ParentLocations
  <1>6. Streams'
    <2>1. CASE pc = "accept"
      <3>1. ErrFollows'
        BY <1>1, <1>3, <1>4, <2>1 DEF ErrFollows
      <3> QED
        BY <1>1, <2>1, <3>1 DEF Streams, Running, AskingActive
    <2>2. CASE pc = "accept_err"
      <3>1. ErrDue'
        BY <1>1, <1>3, <1>4, <2>2 DEF ErrDue
      <3> QED
        BY <1>1, <2>2, <3>1 DEF Streams, Running, AskingActive
    <2> QED
      BY <1>3, <2>1, <2>2
  <1>7. (ChildNoBug /\ ParentNoOops /\ NeverBoth /\ SetUps /\ Descriptors)'
    BY <1>1, <1>3 DEF IInv, ChildNoBug, ParentNoOops, NeverBoth, SetUps,
       Descriptors, MayServe
  <1> QED
    BY <1>5, <1>6, <1>7 DEF IInv

LEMMA CloseCopyStep ==
    ASSUME IInv, CloseCopy
    PROVE  IInv'
  <1>1. /\ ppc = "close" /\ ppc' = "wait" /\ sock' = None
        /\ UNCHANGED <<pc, arg, port_sockaddr, data_fd, epsv_all, listen_fd, down,
                       up>>
    BY DEF CloseCopy, child
  <1>2. TypeOK'
    BY <1>1 DEF IInv, TypeOK, ParentLocations
  <1>3. Streams'
    <2>1. /\ Asking => Asking'
          /\ FdFollows => FdFollows'
          /\ FdDue => FdDue'
      BY <1>1 DEF Asking, FdFollows, FdDue, MayServe
    <2>2. ~ErrFollows /\ ~ErrDue /\ \A a : ~Answered(a)
      BY <1>1 DEF ErrFollows, ErrDue, Answered
    <2> QED
      BY <1>1, <2>1, <2>2 DEF IInv, Streams
  <1>4. (ChildNoBug /\ ParentNoOops /\ NeverBoth /\ SetUps /\ Descriptors)'
    BY <1>1 DEF IInv, ChildNoBug, ParentNoOops, NeverBoth, SetUps, Descriptors,
       MayServe, None
  <1> QED
    BY <1>2, <1>3, <1>4 DEF IInv

-----------------------------------------------------------------------------
(* The ends of the two processes.                                          *)

LEMMA ParentGoneStep ==
    ASSUME IInv, ParentGone
    PROVE  IInv'
  <1>1. /\ ppc' = "gone" /\ listen_fd' = FALSE /\ sock' = None
        /\ UNCHANGED <<pc, arg, port_sockaddr, data_fd, epsv_all, down, up>>
    BY DEF ParentGone, child
  <1>2. TypeOK'
    BY <1>1 DEF IInv, TypeOK, ParentLocations
  <1>3. Streams'
    <2>1. /\ Asking => Asking'
          /\ FdFollows => FdFollows'
          /\ FdDue => FdDue'
          /\ ErrFollows => ErrFollows'
          /\ ErrDue => ErrDue'
      BY <1>1 DEF Asking, FdFollows, FdDue, ErrFollows, ErrDue, MayServe
    <2>2. /\ Answered(Result("OK")) => Answered(Result("OK"))'
          /\ Answered(Result("BAD")) => Answered(Result("BAD"))'
          /\ Answered(Number(0)) => Answered(Number(0))'
          /\ Answered(Number(1)) => Answered(Number(1))'
      BY <1>1 DEF Answered, Result, Number
    <2> QED
      BY <1>1, <2>1, <2>2 DEF IInv, Streams
  <1>4. (ChildNoBug /\ ParentNoOops /\ NeverBoth /\ SetUps /\ Descriptors)'
    BY <1>1 DEF IInv, ChildNoBug, ParentNoOops, NeverBoth, SetUps, Descriptors,
       MayServe, None
  <1> QED
    BY <1>2, <1>3, <1>4 DEF IInv

LEMMA ChildGoneStep ==
    ASSUME IInv, ChildExit \/ ChildEof
    PROVE  IInv'
  <1>1. /\ pc' = "gone" /\ port_sockaddr' = None /\ data_fd' = None
        /\ UNCHANGED <<arg, epsv_all, ppc, listen_fd, sock, down, up>>
    BY DEF ChildExit, ChildEof, parent
  <1>2. TypeOK'
    BY <1>1 DEF IInv, TypeOK, Stopped
  <1>3. Streams'
    BY <1>1 DEF Streams, Running, AskingActive
  <1>4. (ChildNoBug /\ ParentNoOops /\ NeverBoth /\ SetUps /\ Descriptors)'
    BY <1>1 DEF IInv, ChildNoBug, ParentNoOops, NeverBoth, SetUps, Descriptors,
       None
  <1> QED
    BY <1>2, <1>3, <1>4 DEF IInv

-----------------------------------------------------------------------------
(* All steps together.                                                     *)

LEMMA StutterStep ==
    ASSUME IInv, UNCHANGED vars
    PROVE  IInv'
  <1>1. UNCHANGED <<pc, arg, port_sockaddr, data_fd, epsv_all, ppc, listen_fd,
                    sock, down, up>>
    BY DEF vars
  <1>2. TypeOK'
    BY <1>1 DEF IInv, TypeOK
  <1>3. Streams'
    <2>1. /\ Asking => Asking'
          /\ FdFollows => FdFollows'
          /\ FdDue => FdDue'
          /\ ErrFollows => ErrFollows'
          /\ ErrDue => ErrDue'
      BY <1>1 DEF Asking, FdFollows, FdDue, ErrFollows, ErrDue, MayServe
    <2>2. /\ Answered(Result("OK")) => Answered(Result("OK"))'
          /\ Answered(Result("BAD")) => Answered(Result("BAD"))'
          /\ Answered(Number(0)) => Answered(Number(0))'
          /\ Answered(Number(1)) => Answered(Number(1))'
      BY <1>1 DEF Answered, Result, Number
    <2> QED
      BY <1>1, <2>1, <2>2 DEF IInv, Streams
  <1>4. (ChildNoBug /\ ParentNoOops /\ NeverBoth /\ SetUps /\ Descriptors)'
    BY <1>1 DEF IInv, ChildNoBug, ParentNoOops, NeverBoth, SetUps, Descriptors,
       MayServe
  <1> QED
    BY <1>2, <1>3, <1>4 DEF IInv

LEMMA NextIInv == IInv /\ [Next]_vars => IInv'
  <1> SUFFICES ASSUME IInv, [Next]_vars
               PROVE  IInv'
    OBVIOUS
  <1>1. CASE ClientCommand
    BY <1>1, EpsvAllStep, StartPasvStep, StartPortStep, StartTransferStep
       DEF ClientCommand
  <1>2. CASE ChildStep
    BY <1>2, PasvListenStep, PasvDoneStep, PortDoneStep, CheckTransferStep,
       FileFailsStep, FileOpenedStep, ChownDoneStep, GetRemoteTransferFdStep,
       GetPasvFdStep, GetPortFdStep, AcceptResultStep, AcceptFailsStep,
       ConnectResultStep, ReceiveFdStep, ConnectDirectStep, MarkOrEndStep,
       CleanupStep, CommandDoneStep, ChildGoneStep
       DEF ChildStep
  <1>3. CASE ParentStep
    BY <1>3, ServeCleanupStep, ServeActiveStep, ServeListenStep, ServeAcceptStep,
       ServeDataSockStep, ServeChownStep, SendFdStep, SendErrStep, CloseCopyStep,
       ParentGoneStep
       DEF ParentStep, ParentReap
  <1>4. CASE ChildExit \/ ParentExit
    BY <1>4, ChildGoneStep, ParentGoneStep DEF ParentExit
  <1>5. CASE UNCHANGED vars
    BY <1>5, StutterStep
  <1> QED
    BY <1>1, <1>2, <1>3, <1>4, <1>5 DEF Next

(* The inductive invariant holds throughout.                               *)
THEOREM Inductive == Spec => []IInv
  BY InitIInv, NextIInv, PTL DEF Spec

(* Every variable keeps its type, for every setting of the tunables.       *)
THEOREM Typing == Spec => []TypeOK
  <1>1. IInv => TypeOK
    BY DEF IInv
  <1> QED
    BY <1>1, Inductive, PTL

(* No bug() check of the child and no die() check of the parent ever fails, *)
(* whatever the client sends and whenever either process dies; PORT in the  *)
(* child and PASV in the parent exclude each other.                         *)
THEOREM NoCheckFails == Spec => []ChecksHold
  <1>1. IInv => ChecksHold
    BY DEF IInv, ChecksHold
  <1> QED
    BY <1>1, Inductive, PTL

(* No handler leaves an answer or a request behind.                        *)
THEOREM InStep == Spec => []CallsInStep
  <1>1. IInv => CallsInStep
    BY WhileRunning DEF CallsInStep
  <1> QED
    BY <1>1, Inductive, PTL

(* Data connections are closed in both processes, and lead to the client   *)
(* unless a tunable says otherwise.                                        *)
THEOREM Connections == Spec => [](ConnectionsClosed /\ DataPeerIsClient)
  <1>1. IInv => ConnectionsClosed /\ DataPeerIsClient
    BY DEF IInv, Descriptors, ConnectionsClosed, DataPeerIsClient
  <1> QED
    BY <1>1, Inductive, PTL

-----------------------------------------------------------------------------
(* Refinement of DataPath: which of its steps, if any, each action is.     *)

LEMMA PathInit == Init => Path!Init
  BY DEF Init, Path!Init, SetUpNow, UsesPasv, UsedNow, Over, Alive, Stopped, None

(* Where the set-up is just what the variables say and is not in use.      *)
Plain == {"idle", "port1", "pasv1", "pasv2", "check1", "check2", "get1", "get2",
          "get3", "chown", "file", "direct", "connect", "connect_fd"}

LEMMA PlainNow ==
    ASSUME pc \in Plain
    PROVE  /\ SetUpNow = IF port_sockaddr # None THEN "port"
                         ELSE IF listen_fd THEN "pasv" ELSE "none"
           /\ UsedNow = FALSE /\ Over = FALSE
  BY DEF Plain, SetUpNow, UsesPasv, UsedNow, Over, Alive, Stopped

LEMMA PlainNext ==
    ASSUME pc' \in Plain
    PROVE  /\ SetUpNow' = IF port_sockaddr' # None THEN "port"
                          ELSE IF listen_fd' THEN "pasv" ELSE "none"
           /\ UsedNow' = FALSE /\ Over' = FALSE
  BY DEF Plain, SetUpNow, UsesPasv, UsedNow, Over, Alive, Stopped

(* Steps between such places that touch neither set-up nor connection.     *)
LEMMA QuietChild ==
    ASSUME IInv, IInv',
           \/ EpsvAll \/ (\E epsv \in BOOLEAN : StartPasv(epsv)) \/ PasvDone
           \/ StartTransfer \/ CheckTransfer \/ FileFails \/ FileOpened
           \/ ChownDone \/ GetRemoteTransferFd \/ GetPortFd
    PROVE  UNCHANGED Path!dvars
  <1>1. UNCHANGED <<port_sockaddr, listen_fd, data_fd>>
    BY DEF EpsvAll, StartPasv, PasvDone, StartTransfer, CheckTransfer, FileFails,
       FileOpened, ChownDone, GetRemoteTransferFd, GetPortFd, ActiveYes, ActiveNo,
       PortActive, child, parent
  <1>2. pc # "bug" /\ pc' # "bug"
    BY DEF IInv, ChildNoBug
  <1>3. pc \in Plain /\ pc' \in Plain
    BY <1>2 DEF EpsvAll, StartPasv, PasvDone, StartTransfer, CheckTransfer,
       FileFails, FileOpened, ChownDone, GetRemoteTransferFd, GetPortFd,
       ActiveYes, ActiveNo, PortActive, Goto, Call, Plain
  <1> QED
    BY <1>1, <1>3, PlainNow, PlainNext DEF Path!dvars

(* Steps of the parent that leave the listening socket alone.              *)
LEMMA QuietParent ==
    ASSUME \/ ServeActive \/ ServeAccept \/ ServeDataSock \/ ServeChown
           \/ SendFd \/ SendErr \/ CloseCopy \/ UNCHANGED vars
    PROVE  UNCHANGED Path!dvars
  <1>1. UNCHANGED <<pc, port_sockaddr, listen_fd, data_fd>>
    BY DEF ServeActive, ServeAccept, ServeDataSock, ServeChown, SendFd, SendErr,
       CloseCopy, Oops, child, parent, vars
  <1> QED
    BY <1>1 DEF Path!dvars, SetUpNow, UsesPasv, UsedNow, Over, Alive

(* A set-up is made, replaced or dropped.                                  *)
LEMMA SetUpSteps ==
    ASSUME IInv,
           \/ PasvListen \/ PortDone
           \/ \E a \in PortArgs, eprt \in BOOLEAN : StartPort(a, eprt)
    PROVE  [Path!Next]_(Path!dvars)
  <1>1. pc \in Plain /\ pc' \in Plain /\ UNCHANGED <<listen_fd, data_fd>>
    BY DEF PasvListen, PortDone, StartPort, Call, Plain, parent
  <1>2. data_fd = None
    BY <1>1 DEF IInv, Descriptors, Plain
  <1>3. /\ port_sockaddr # None => ~listen_fd
        /\ port_sockaddr' # None => ~listen_fd
    <2>1. PortDone => ~listen_fd
      BY CleanupRead DEF PortDone
    <2>2. port_sockaddr # None => ~listen_fd
      BY DEF IInv, NeverBoth
    <2> QED
      BY <2>1, <2>2 DEF PasvListen, StartPort
  <1>4. CASE SetUpNow' = SetUpNow
    BY <1>1, <1>4, PlainNow, PlainNext DEF Path!dvars
  <1>5. CASE SetUpNow' # SetUpNow /\ port_sockaddr' = None
    <2>1. Path!Drop
      BY <1>1, <1>2, <1>3, <1>5, PlainNow, PlainNext DEF Path!Drop
    <2> QED
      BY <2>1 DEF Path!Next
  <1>6. CASE SetUpNow' # SetUpNow /\ port_sockaddr' # None
    <2>1. Path!SetUp("port")
      BY <1>1, <1>2, <1>3, <1>6, PlainNow, PlainNext DEF Path!SetUp
    <2> QED
      BY <2>1 DEF Path!Next
  <1> QED
    BY <1>4, <1>5, <1>6

(* The parent starts to listen.                                            *)
LEMMA ListenPath ==
    ASSUME IInv, IInv', ServeListen
    PROVE  [Path!Next]_(Path!dvars)
  <1>1. /\ pc \in Waiting /\ CallOf[pc] = "PASV_LISTEN" /\ ppc = "wait"
        /\ up = <<>>
    BY ServeAsked DEF ServeListen
  <1>2. pc = "pasv2"
    BY <1>1, Calls DEF AskingActive
  <1>3. /\ UNCHANGED <<pc, port_sockaddr, data_fd>>
        /\ pc \in Plain /\ pc' \in Plain
        /\ ~listen_fd /\ listen_fd'
    BY <1>1, <1>2 DEF ServeListen, Serve, child, IInv, Streams, Answered, Plain
  <1>4. port_sockaddr = None /\ data_fd = None
    BY <1>2 DEF IInv, SetUps, Descriptors
  <1>5. Path!SetUp("pasv")
    BY <1>3, <1>4, PlainNow, PlainNext DEF Path!SetUp
  <1> QED
    BY <1>5 DEF Path!Next

(* An attempt begins with the call to accept; if the parent has died since *)
(* it answered that it listens, the set-up reappears for the attempt.      *)
LEMMA AskAcceptPath ==
    ASSUME IInv, GetPasvFd
    PROVE  [Path!Next]_(Path!dvars)
  <1>1. pc = "get3" /\ port_sockaddr = None
    BY ActiveRead DEF GetPasvFd, ActiveYes, AskingActive
  <1>2. pc' = "accept" /\ UNCHANGED <<port_sockaddr, listen_fd, data_fd>>
    BY <1>1 DEF GetPasvFd, ActiveYes, Call, child, parent
  <1>3. SetUpNow' = "pasv" /\ UsedNow' = FALSE /\ Over' = FALSE
    BY <1>1, <1>2 DEF SetUpNow, UsesPasv, UsedNow, Over, Alive, Stopped
  <1>4. /\ SetUpNow = IF listen_fd THEN "pasv" ELSE "none"
        /\ UsedNow = FALSE /\ Over = FALSE
    BY <1>1, PlainNow DEF Plain
  <1>5. data_fd = None
    BY <1>1 DEF IInv, Descriptors
  <1>6. CASE listen_fd
    BY <1>2, <1>3, <1>4, <1>6 DEF Path!dvars
  <1>7. CASE ~listen_fd
    <2>1. Path!SetUp("pasv")
      BY <1>2, <1>3, <1>4, <1>5, <1>7 DEF Path!SetUp
    <2> QED
      BY <2>1 DEF Path!Next
  <1> QED
    BY <1>6, <1>7

(* An attempt fails, or its answer is not complete yet.                    *)
LEMMA AttemptPath ==
    ASSUME IInv, AcceptResult \/ AcceptFails \/ ConnectResult
    PROVE  [Path!Next]_(Path!dvars)
  <1>1. UNCHANGED <<port_sockaddr, listen_fd, data_fd>>
    BY DEF AcceptResult, AcceptFails, ConnectResult, child, parent
  <1>2. CASE AcceptResult \/ AcceptFails
    <2>1. /\ pc \in {"accept", "accept_err"} /\ port_sockaddr = None
          /\ pc' \in {"accept_fd", "accept_err", "cleanup"}
          /\ pc = "accept_err" => pc' = "cleanup"
      BY <1>2 DEF AcceptResult, AcceptFails, IInv, SetUps
    <2>2. /\ SetUpNow = "pasv" /\ SetUpNow' = "pasv"
          /\ Over = FALSE /\ Over' = FALSE
      BY <1>1, <2>1 DEF SetUpNow, UsesPasv, Over, Alive, Stopped
    <2>3. CASE pc = "accept" /\ pc' # "accept_fd"
      <3>1. UsedNow = FALSE /\ UsedNow' = TRUE
        BY <2>1, <2>3 DEF UsedNow
      <3>2. Path!ConnectFails
        BY <1>1, <2>2, <3>1 DEF Path!ConnectFails
      <3> QED
        BY <3>2 DEF Path!Next
    <2>4. CASE pc = "accept_err" \/ pc' = "accept_fd"
      <3>1. UsedNow' = UsedNow
        BY <2>1, <2>4 DEF UsedNow
      <3> QED
        BY <1>1, <2>2, <3>1 DEF Path!dvars
    <2> QED
      BY <2>1, <2>3, <2>4
  <1>3. CASE ConnectResult
    <2>1. /\ pc = "connect" /\ port_sockaddr # None
          /\ pc' \in {"connect_fd", "cleanup"}
      BY <1>3 DEF ConnectResult, IInv, SetUps
    <2>2. /\ SetUpNow = "port" /\ SetUpNow' = "port"
          /\ Over = FALSE /\ Over' = FALSE
          /\ UsedNow = FALSE /\ UsedNow' = (pc' = "cleanup")
      BY <1>1, <2>1 DEF SetUpNow, UsesPasv, UsedNow, Over, Alive, Stopped
    <2>3. CASE pc' = "connect_fd"
      BY <1>1, <2>2, <2>3 DEF Path!dvars
    <2>4. CASE pc' = "cleanup"
      <3>1. Path!ConnectFails
        BY <1>1, <2>2, <2>4 DEF Path!ConnectFails
      <3> QED
        BY <3>1 DEF Path!Next
    <2> QED
      BY <2>1, <2>3, <2>4
  <1> QED
    BY <1>2, <1>3

(* The connection arrives from the parent, or the child makes it itself.   *)
LEMMA ConnectPath ==
    ASSUME IInv, IInv', ReceiveFd \/ ConnectDirect
    PROVE  [Path!Next]_(Path!dvars)
  <1>1. /\ pc \in {"accept_fd", "connect_fd", "direct"}
        /\ UNCHANGED listen_fd
        /\ data_fd = None
        /\ pc \in {"connect_fd", "direct"} => port_sockaddr # None
        /\ pc = "accept_fd" => port_sockaddr = None
    BY DEF ReceiveFd, ConnectDirect, parent, IInv, SetUps, Descriptors
  <1>2. /\ SetUpNow = IF pc = "accept_fd" THEN "pasv" ELSE "port"
        /\ UsedNow = FALSE /\ Over = FALSE
    BY <1>1 DEF SetUpNow, UsesPasv, UsedNow, Over, Alive, Stopped
  <1>3. pc' \in {"mark", "cleanup", "gone"}
    BY <1>1 DEF ReceiveFd, ConnectDirect, InitDataSock
  <1>4. CASE pc' = "gone"
    <2>1. port_sockaddr' = None /\ data_fd' = None
      BY <1>4 DEF IInv, SetUps, Descriptors
    <2>2. /\ SetUpNow' \in {SetUpNow, "none"} /\ UsedNow' = FALSE
          /\ Over' = TRUE
      BY <1>1, <1>2, <1>4, <2>1
         DEF SetUpNow, UsesPasv, UsedNow, Over, Alive, Stopped, IInv, NeverBoth,
             ReceiveFd, InitDataSock
    <2>3. Path!End
      BY <2>1, <2>2 DEF Path!End
    <2> QED
      BY <2>3 DEF Path!Next
  <1>5. CASE pc' # "gone"
    <2>1. UNCHANGED port_sockaddr
      BY <1>5 DEF ReceiveFd, ConnectDirect
    <2>2. /\ SetUpNow' = SetUpNow /\ UsedNow' = TRUE /\ Over' = FALSE
      BY <1>1, <1>2, <1>3, <1>5, <2>1
         DEF SetUpNow, UsesPasv, UsedNow, Over, Alive, Stopped
    <2>3. CASE pc' = "cleanup"
      <3>1. data_fd' = None
        BY <2>3 DEF IInv, Descriptors
      <3>2. Path!ConnectFails
        BY <1>1, <1>2, <2>2, <3>1 DEF Path!ConnectFails
      <3> QED
        BY <3>2 DEF Path!Next
    <2>4. CASE pc' = "mark"
      <3>1. /\ data_fd' \in Peers
            /\ data_fd' = "other" => IF port_sockaddr = None
                                     THEN PasvPromiscuous ELSE PortPromiscuous
        BY <2>1, <2>4 DEF IInv, TypeOK, Descriptors
      <3>2. /\ [port |-> PortPromiscuous, pasv |-> PasvPromiscuous]["port"]
                  = PortPromiscuous
            /\ [port |-> PortPromiscuous, pasv |-> PasvPromiscuous]["pasv"]
                  = PasvPromiscuous
        OBVIOUS
      <3>3. \/ data_fd' = "client"
            \/ [port |-> PortPromiscuous, pasv |-> PasvPromiscuous][SetUpNow]
        BY <1>1, <1>2, <3>1, <3>2 DEF Peers
      <3>4. Path!Connect(data_fd')
        BY <1>1, <1>2, <2>2, <3>3 DEF Path!Connect
      <3> QED
        BY <3>1, <3>4 DEF Path!Next
    <2> QED
      BY <1>3, <1>5, <2>3, <2>4
  <1> QED
    BY <1>4, <1>5

(* The connection is closed.                                               *)
LEMMA DisconnectPath ==
    ASSUME IInv, IInv', MarkConnect \/ EndTransfer
    PROVE  [Path!Next]_(Path!dvars)
  <1>1. /\ pc \in {"mark", "transfer"} /\ data_fd # None
        /\ UNCHANGED <<port_sockaddr, listen_fd>>
        /\ \/ pc' = "transfer" /\ data_fd' = data_fd
           \/ pc' = "cleanup" /\ data_fd' = None
    BY DEF MarkConnect, EndTransfer, Dispose, IInv, Descriptors, parent
  <1>2. UNCHANGED <<SetUpNow, UsedNow, Over>>
    BY <1>1 DEF SetUpNow, UsesPasv, UsedNow, Over, Alive, Stopped
  <1>3. Path!Disconnect \/ UNCHANGED Path!dvars
    BY <1>1, <1>2 DEF Path!Disconnect, Path!dvars
  <1> QED
    BY <1>3 DEF Path!Next

(* The set-up is cleaned up after the attempt, half by each process.       *)
LEMMA CleanupPath ==
    ASSUME IInv, IInv', Cleanup \/ CommandDone \/ ServeCleanup
    PROVE  [Path!Next]_(Path!dvars)
  <1>1. CASE Cleanup
    <2>1. /\ pc = "cleanup" /\ pc' = "end" /\ port_sockaddr' = None
          /\ UNCHANGED <<listen_fd, data_fd>> /\ data_fd = None
      BY <1>1 DEF Cleanup, Call, parent, IInv, Descriptors
    <2>2. /\ SetUpNow = IF port_sockaddr # None THEN "port" ELSE "pasv"
          /\ SetUpNow' = IF listen_fd THEN "pasv" ELSE "none"
          /\ UsedNow = TRUE /\ UsedNow' = listen_fd
          /\ Over = FALSE /\ Over' = FALSE
      BY <2>1 DEF SetUpNow, UsesPasv, UsedNow, Over, Alive, Stopped, IInv, TypeOK
    <2>3. listen_fd => port_sockaddr = None
      BY DEF IInv, NeverBoth
    <2>4. Path!Drop \/ UNCHANGED Path!dvars
      BY <2>1, <2>2, <2>3 DEF Path!Drop, Path!dvars, IInv, TypeOK
    <2> QED
      BY <2>4 DEF Path!Next
  <1>2. CASE CommandDone
    <2>1. ~listen_fd
      BY <1>2, CleanupRead DEF CommandDone
    <2>2. /\ pc = "end" /\ pc' = "idle"
          /\ UNCHANGED <<port_sockaddr, listen_fd, data_fd>>
      BY <1>2 DEF CommandDone, child, parent
    <2>3. UNCHANGED Path!dvars
      BY <2>1, <2>2 DEF Path!dvars, SetUpNow, UsesPasv, UsedNow, Over, Alive,
         Stopped
    <2> QED
      BY <2>3
  <1>3. CASE ServeCleanup
    <2>1. pc \in {"port1", "pasv1", "end"}
      <3>1. pc \in Waiting /\ CallOf[pc] = "PASV_CLEANUP"
        BY <1>3, ServeAsked DEF ServeCleanup
      <3> QED
        BY <3>1, Calls DEF AskingActive
    <2>2. /\ UNCHANGED <<pc, port_sockaddr, data_fd>>
          /\ listen_fd' = FALSE /\ data_fd = None
      BY <1>3, <2>1 DEF ServeCleanup, child, IInv, Descriptors
    <2>3. listen_fd => port_sockaddr = None
      BY DEF IInv, NeverBoth
    <2>4. /\ SetUpNow' = IF port_sockaddr # None THEN "port" ELSE "none"
          /\ UsedNow' = FALSE /\ Over = FALSE /\ Over' = FALSE
          /\ listen_fd => SetUpNow = "pasv"
          /\ ~listen_fd => SetUpNow = SetUpNow' /\ UsedNow = FALSE
      BY <2>1, <2>2, <2>3
         DEF SetUpNow, UsesPasv, UsedNow, Over, Alive, Stopped
    <2>5. Path!Drop \/ UNCHANGED Path!dvars
      BY <2>2, <2>3, <2>4 DEF Path!Drop, Path!dvars, IInv, TypeOK
    <2> QED
      BY <2>5 DEF Path!Next
  <1> QED
    BY <1>1, <1>2, <1>3

(* A process ends.                                                         *)
LEMMA EndPath ==
    ASSUME IInv, IInv', ChildExit \/ ChildEof \/ ParentGone
    PROVE  [Path!Next]_(Path!dvars)
  <1>1. CASE ChildExit \/ ChildEof
    <2>1. /\ pc' = "gone" /\ port_sockaddr' = None /\ data_fd' = None
          /\ UNCHANGED listen_fd
      BY <1>1 DEF ChildExit, ChildEof, parent
    <2>2. port_sockaddr # None => ~listen_fd
      BY DEF IInv, NeverBoth
    <2>3. /\ SetUpNow' \in {SetUpNow, "none"}
          /\ UsedNow' = FALSE /\ Over' = TRUE
      BY <2>1, <2>2 DEF SetUpNow, UsesPasv, UsedNow, Over, Alive, Stopped
    <2>4. Path!End
      BY <2>1, <2>3 DEF Path!End
    <2> QED
      BY <2>4 DEF Path!Next
  <1>2. CASE ParentGone
    <2>1. listen_fd' = FALSE /\ UNCHANGED <<pc, port_sockaddr, data_fd>>
      BY <1>2 DEF ParentGone, child
    <2>2. Over' = Over /\ UsesPasv' = UsesPasv
      BY <2>1 DEF Over, Alive, UsesPasv
    <2>3. CASE port_sockaddr # None \/ UsesPasv \/ ~listen_fd
      <3>1. listen_fd => port_sockaddr = None
        BY DEF IInv, NeverBoth
      <3>2. SetUpNow' = SetUpNow
        BY <2>1, <2>2, <2>3 DEF SetUpNow
      <3>3. UsedNow' = UsedNow
        BY <2>1, <2>3, <3>1 DEF UsedNow, UsesPasv
      <3> QED
        BY <2>1, <2>2, <3>2, <3>3 DEF Path!dvars
    <2>4. CASE ~(port_sockaddr # None \/ UsesPasv \/ ~listen_fd)
      <3>1. SetUpNow' = "none" /\ UsedNow' = FALSE /\ data_fd = None
        BY <2>1, <2>2, <2>4 DEF SetUpNow, UsedNow, UsesPasv, IInv, Descriptors
      <3>2. Path!Drop
        BY <2>1, <2>2, <3>1 DEF Path!Drop
      <3> QED
        BY <3>2 DEF Path!Next
    <2> QED
      BY <2>3, <2>4
  <1> QED
    BY <1>1, <1>2

LEMMA PathNext == IInv /\ IInv' /\ [Next]_vars => [Path!Next]_(Path!dvars)
  <1> SUFFICES ASSUME IInv, IInv', [Next]_vars
               PROVE  [Path!Next]_(Path!dvars)
    OBVIOUS
  <1>1. CASE ClientCommand
    BY <1>1, QuietChild, SetUpSteps DEF ClientCommand
  <1>2. CASE ChildStep
    BY <1>2, QuietChild, SetUpSteps, AskAcceptPath, AttemptPath, ConnectPath,
       DisconnectPath, CleanupPath, EndPath DEF ChildStep
  <1>3. CASE ParentStep
    BY <1>3, QuietParent, ListenPath, CleanupPath, EndPath
       DEF ParentStep, ParentReap
  <1>4. CASE ChildExit \/ ParentExit
    BY <1>4, EndPath DEF ParentExit
  <1>5. CASE UNCHANGED vars
    BY <1>5, QuietParent
  <1> QED
    BY <1>1, <1>2, <1>3, <1>4, <1>5 DEF Next

(* The two processes and the streams between them implement DataPath: each *)
(* set-up serves for one attempt, an attempt yields at most one connection *)
(* to an allowed peer, and nothing is set up while one is open.            *)
THEOREM Refinement == Spec => ImplementsDataPath
  BY Inductive, PathInit, PathNext, PTL DEF Spec, Path!Spec, ImplementsDataPath

=============================================================================
