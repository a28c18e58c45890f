-------------------------- MODULE StandaloneProofs --------------------------
(***************************************************************************)
(* Proofs about the standalone listener, for any number of processes,      *)
(* addresses and configurations: the accounting of Standalone is exact and *)
(* its limits hold.  The inductive invariant is IInv of that module.       *)
(***************************************************************************)
EXTENDS Standalone, FiniteSetTheorems, TLAPS

(* The sets of children the invariants count are finite, and their         *)
(* cardinalities are natural numbers.                                      *)
LEMMA FiniteSubset ==
    ASSUME NEW S \in SUBSET Pids
    PROVE  IsFiniteSet(S) /\ Cardinality(S) \in Nat
  BY StandaloneAssumption, FS_Subset, FS_CardinalityType

(* Cardinality after adding a new element, for a set of processes.         *)
LEMMA AddOne ==
    ASSUME NEW S \in SUBSET Pids, NEW p \in Pids, p \notin S
    PROVE  Cardinality(S \cup {p}) = Cardinality(S) + 1
  BY FiniteSubset, FS_AddElement

(* Cardinality after removing an element, for a set of processes.          *)
LEMMA RemoveOne ==
    ASSUME NEW S \in SUBSET Pids, NEW p \in S
    PROVE  Cardinality(S \ {p}) = Cardinality(S) - 1
  BY FiniteSubset, FS_RemoveElement

(* A smaller set of processes has at most the same cardinality.            *)
LEMMA SmallerSet ==
    ASSUME NEW S \in SUBSET Pids, NEW T \in SUBSET S
    PROVE  Cardinality(T) <= Cardinality(S)
  BY FiniteSubset, FS_Subset

(* The listener starts with no child, nothing counted and empty tables.    *)
LEMMA InitIInv == Init => IInv
  <1> SUFFICES ASSUME Init PROVE IInv
    OBVIOUS
  <1>1. TypeOK
    BY StandaloneAssumption
       DEF Init, TypeOK, Locations, Signals, ProcStates, NoLaunch, Launch
  <1>2. /\ Unreaped = {}
        /\ \A a \in Addrs : UnreapedFrom(a) = {}
        /\ Serving = {}
        /\ ~Uncovered
    BY DEF Init, Unreaped, UnreapedFrom, Serving, Uncovered
  <1>3. NoBug /\ PidsRecorded
    BY DEF Init, NoBug, PidsRecorded
  <1>4. ChildrenCounted /\ IpCounted
    BY <1>2, FS_EmptySet DEF Init, ChildrenCounted, IpCounted
  <1>5. LaunchConsistent
    BY StandaloneAssumption DEF Init, LaunchConsistent
  <1>6. GrantsBounded
    <2> SUFFICES ASSUME NEW c \in Configs
                 PROVE  /\ Cardinality({}) <= c.max_clients
                        /\ Cardinality({}) <= c.max_per_ip
      BY <1>2 DEF GrantsBounded
    <2>1. c.max_clients \in Nat /\ c.max_per_ip \in Nat
      BY StandaloneAssumption DEF Limits
    <2> QED
      BY <2>1, FS_EmptySet
  <1>7. ServingWithinLimits
    BY <1>2 DEF ServingWithinLimits
  <1> QED
    BY <1>1, <1>3, <1>4, <1>5, <1>6, <1>7 DEF IInv

-----------------------------------------------------------------------------

(* The limits of a configuration are natural numbers.                      *)
LEMMA LimitsAreNat ==
    ASSUME NEW c \in Configs
    PROVE  c.max_clients \in Nat /\ c.max_per_ip \in Nat
  BY StandaloneAssumption DEF Limits

(* A step that leaves the tables and the children alone, and neither       *)
(* enters nor leaves the part of the loop where a client is counted but    *)
(* has no process, preserves the invariant.                                *)
LEMMA QuietStep ==
    ASSUME IInv, TypeOK', pc' # "bug",
           UNCHANGED <<tables, children, newpid>>,
           (pc' = "record") <=> (pc = "record"),
           (pc' \in {"fork", "undo"}) <=> (pc \in {"fork", "undo"}),
           pc \in {"fork", "undo", "record"} => conn' = conn,
           pc' \in {"count", "fork", "undo", "record"} => conn' \in Addrs
    PROVE  IInv'
  <1> USE DEF IInv, tables, children
  <1>1. /\ Unreaped' = Unreaped
        /\ Serving' = Serving
        /\ Uncovered' = Uncovered
        /\ \A a \in Addrs : UnreapedFrom(a)' = UnreapedFrom(a)
    BY DEF Unreaped, Serving, Uncovered, UnreapedFrom
  <1>2. NoBug'
    BY DEF NoBug
  <1>3. ChildrenCounted'
    BY <1>1 DEF ChildrenCounted
  <1>4. IpCounted'
    BY <1>1 DEF IpCounted, Uncovered
  <1>5. PidsRecorded'
    BY DEF PidsRecorded
  <1>6. LaunchConsistent'
    BY DEF LaunchConsistent
  <1>7. GrantsBounded'
    BY <1>1 DEF GrantsBounded
  <1>8. ServingWithinLimits'
    BY <1>1 DEF ServingWithinLimits, WithinLimits
  <1> QED
    BY <1>2, <1>3, <1>4, <1>5, <1>6, <1>7, <1>8

(* The steps of the signal framework, of accept() and of a failing fork()  *)
(* are quiet.                                                              *)
LEMMA SignalSteps ==
    ASSUME IInv,
           \/ AlarmFires \/ TestPending \/ CancelAlarm \/ HandleSighup
           \/ StartSigchld \/ ReapDone \/ Block \/ ForkFails \/ SendSighup
           \/ \E a \in Addrs \cup {NoAddr} : Accept(a)
    PROVE  IInv'
  <1> USE DEF IInv, TypeOK, signals, tables, children, Locations, Signals
  <1>1. CASE AlarmFires
    BY <1>1, QuietStep DEF AlarmFires
  <1>2. CASE TestPending
    BY <1>2, QuietStep DEF TestPending, NextSignal
  <1>3. CASE CancelAlarm
    BY <1>3, QuietStep DEF CancelAlarm
  <1>4. CASE HandleSighup
    BY <1>4, QuietStep DEF HandleSighup, NextSignal
  <1>5. CASE StartSigchld
    BY <1>5, QuietStep DEF StartSigchld
  <1>6. CASE ReapDone
    BY <1>6, QuietStep DEF ReapDone, NextSignal
  <1>7. CASE Block
    BY <1>7, QuietStep DEF Block
  <1>8. CASE ForkFails
    BY <1>8, QuietStep DEF ForkFails, LaunchConsistent
  <1>9. CASE SendSighup
    BY <1>9, QuietStep DEF SendSighup, Deliver, LaunchConsistent
  <1>10. CASE \E a \in Addrs \cup {NoAddr} : Accept(a)
    BY <1>10, QuietStep DEF Accept
  <1> QED
    BY <1>1, <1>2, <1>3, <1>4, <1>5, <1>6, <1>7, <1>8, <1>9, <1>10

(* A step of a child that keeps its peer, its launch numbers and its place *)
(* in the process table, and wakes the listener at most.                   *)
LEMMA ChildSteps ==
    ASSUME IInv, NEW p \in Pids,
           ChildExit(p) \/ \E c \in Configs : CheckLimits(p, c)
    PROVE  IInv'
  <1> USE DEF IInv
  <1>1. TypeOK'
    <2>1. CASE ChildExit(p)
      BY <2>1 DEF TypeOK, ChildExit, Deliver, tables, Locations, Signals,
                  ProcStates
    <2>2. CASE \E c \in Configs : CheckLimits(p, c)
      <3> PICK c \in Configs : CheckLimits(p, c)
        BY <2>2
      <3> DEFINE l == [launch[p] EXCEPT !.max_clients = c.max_clients,
                                        !.max_per_ip = c.max_per_ip]
      <3>1. l \in Launch
        BY StandaloneAssumption DEF TypeOK, Launch, Limits
      <3>2. launch' = [launch EXCEPT ![p] = l]
        BY DEF CheckLimits
      <3> HIDE DEF l
      <3>3. launch' \in [Pids -> Launch]
        BY <3>1, <3>2 DEF TypeOK
      <3> QED
        BY <3>3 DEF TypeOK, CheckLimits, signals, tables, ProcStates
    <2> QED
      BY <2>1, <2>2
  <1>2. /\ UNCHANGED <<tables, peer, conn, newpid>>
        /\ pc' \in {pc, "test"}
        /\ pc' # pc => pc = "blocked"
    BY DEF CheckLimits, ChildExit, Deliver, tables
  <1>3. \A q \in Pids : (procs'[q] = "free") <=> (procs[q] = "free")
    BY DEF CheckLimits, ChildExit, TypeOK
  <1>4. \A q \in Pids : /\ launch'[q].num_children = launch[q].num_children
                        /\ launch'[q].num_this_ip = launch[q].num_this_ip
    <2>1. CASE ChildExit(p)
      BY <2>1 DEF ChildExit
    <2>2. CASE \E c \in Configs : CheckLimits(p, c)
      <3> PICK c \in Configs : CheckLimits(p, c)
        BY <2>2
      <3> DEFINE l == [launch[p] EXCEPT !.max_clients = c.max_clients,
                                        !.max_per_ip = c.max_per_ip]
      <3>1. l.num_children = launch[p].num_children
            /\ l.num_this_ip = launch[p].num_this_ip
        BY DEF TypeOK, Launch
      <3>2. launch' = [launch EXCEPT ![p] = l]
        BY DEF CheckLimits
      <3> HIDE DEF l
      <3> QED
        BY <3>1, <3>2 DEF TypeOK
    <2> QED
      BY <2>1, <2>2
  <1>5. /\ Unreaped' = Unreaped
        /\ Uncovered' = Uncovered
        /\ \A a \in Addrs : UnreapedFrom(a)' = UnreapedFrom(a)
    BY <1>2, <1>3 DEF Unreaped, Uncovered, UnreapedFrom
  <1>6. NoBug'
    BY <1>2 DEF NoBug
  <1>7. ChildrenCounted'
    BY <1>2, <1>5 DEF ChildrenCounted, tables
  <1>8. IpCounted'
    BY <1>2, <1>5 DEF IpCounted, Uncovered, tables
  <1>9. PidsRecorded'
    BY <1>2, <1>3 DEF PidsRecorded, tables
  <1>10. LaunchConsistent'
    BY <1>2, <1>3 DEF LaunchConsistent
  <1>11. GrantsBounded'
    <2>1. \A c \in Configs :
              {q \in Unreaped' : launch'[q].num_children <= c.max_clients}
              = {q \in Unreaped : launch[q].num_children <= c.max_clients}
      BY <1>4, <1>5 DEF Unreaped
    <2>2. \A c \in Configs, a \in Addrs :
              {q \in UnreapedFrom(a)' : launch'[q].num_this_ip <= c.max_per_ip}
              = {q \in UnreapedFrom(a) : launch[q].num_this_ip <= c.max_per_ip}
      BY <1>4, <1>5 DEF Unreaped, UnreapedFrom
    <2> QED
      BY <2>1, <2>2, Zenon DEF GrantsBounded
  <1>12. ServingWithinLimits'
    BY DEF ServingWithinLimits, Serving, WithinLimits, CheckLimits, ChildExit,
           TypeOK
  <1> QED
    BY <1>1, <1>6, <1>7, <1>8, <1>9, <1>10, <1>11, <1>12

(* ++s_children and handle_ip_count for the client just accepted.          *)
LEMMA CountStep ==
    ASSUME IInv, CountClient
    PROVE  IInv'
  <1> USE DEF IInv, CountClient, HandleIpCount, signals, children
  <1>1. TypeOK'
    BY DEF TypeOK, Locations, LaunchConsistent
  <1>2. /\ Unreaped' = Unreaped
        /\ Serving' = Serving
        /\ ~Uncovered /\ Uncovered'
        /\ \A a \in Addrs : UnreapedFrom(a)' = UnreapedFrom(a)
    BY DEF Unreaped, Serving, Uncovered, UnreapedFrom
  <1>3. ChildrenCounted'
    BY <1>2, FiniteSubset DEF ChildrenCounted, Unreaped
  <1>4. IpCounted'
    <2>1. conn \in Addrs /\ (conn \in ip_keys \/ ip_count[conn] = 0)
      BY DEF LaunchConsistent, IpCounted, TypeOK
    <2>2. \A a \in Addrs : Cardinality(UnreapedFrom(a)) \in Nat
      BY FiniteSubset DEF Unreaped, UnreapedFrom
    <2>3. \A a \in Addrs : ip_count'[a] = Cardinality(UnreapedFrom(a))
                                          + (IF conn = a THEN 1 ELSE 0)
      BY <1>2, <2>1, <2>2 DEF IpCounted, TypeOK
    <2>4. ip_keys' = {a \in Addrs : ip_count'[a] > 0}
      BY <2>1 DEF IpCounted, TypeOK
    <2> QED
      BY <1>2, <2>3, <2>4 DEF IpCounted
  <1>5. NoBug' /\ PidsRecorded' /\ LaunchConsistent'
    BY DEF NoBug, PidsRecorded, LaunchConsistent, TypeOK
  <1>6. GrantsBounded'
    BY <1>2 DEF GrantsBounded
  <1>7. ServingWithinLimits'
    BY <1>2 DEF ServingWithinLimits, WithinLimits
  <1> QED
    BY <1>1, <1>3, <1>4, <1>5, <1>6, <1>7

(* --s_children and drop_ip_count after a failed fork().                   *)
LEMMA UndoStep ==
    ASSUME IInv, UndoCount
    PROVE  IInv'
  <1> USE DEF IInv, UndoCount, DropIpCount, DropOK, signals, children
  <1>1. conn \in Addrs /\ Uncovered /\ Cardinality(Unreaped) \in Nat
    BY FiniteSubset DEF LaunchConsistent, Uncovered, Unreaped
  <1>2. \A a \in Addrs : Cardinality(UnreapedFrom(a)) \in Nat
    BY FiniteSubset DEF Unreaped, UnreapedFrom
  <1>3. DropOK(conn)
    BY <1>1, <1>2 DEF IpCounted, TypeOK
  <1>4. TypeOK'
    BY <1>1, <1>3 DEF TypeOK, Locations, ChildrenCounted
  <1>5. /\ Unreaped' = Unreaped
        /\ Serving' = Serving
        /\ ~Uncovered'
        /\ \A a \in Addrs : UnreapedFrom(a)' = UnreapedFrom(a)
    BY <1>3 DEF Unreaped, Serving, Uncovered, UnreapedFrom
  <1>6. ChildrenCounted'
    BY <1>1, <1>5 DEF ChildrenCounted
  <1>7. IpCounted'
    <2>1. \A a \in Addrs : ip_count'[a] = Cardinality(UnreapedFrom(a))
      BY <1>1, <1>2, <1>3 DEF IpCounted, TypeOK
    <2>2. ip_keys' = {a \in Addrs : ip_count'[a] > 0}
      BY <1>1, <1>2, <1>3 DEF IpCounted, TypeOK
    <2> QED
      BY <1>2, <1>5, <2>1, <2>2 DEF IpCounted
  <1>8. NoBug' /\ PidsRecorded' /\ LaunchConsistent'
    BY <1>3 DEF NoBug, PidsRecorded, LaunchConsistent, TypeOK
  <1>9. GrantsBounded'
    BY <1>5 DEF GrantsBounded
  <1>10. ServingWithinLimits'
    BY <1>5 DEF ServingWithinLimits, WithinLimits
  <1> QED
    BY <1>4, <1>6, <1>7, <1>8, <1>9, <1>10

(* hash_add_entry of the new child: its key is not there yet.              *)
LEMMA RecordStep ==
    ASSUME IInv, RecordChild
    PROVE  IInv'
  <1> USE DEF IInv, RecordChild, signals, children
  <1>1. /\ newpid \in Pids /\ procs[newpid] # "free"
        /\ peer[newpid] = conn /\ conn \in Addrs
    BY DEF LaunchConsistent
  <1>2. pid_ip[newpid] = NoAddr
    BY <1>1 DEF PidsRecorded
  <1>3. TypeOK'
    BY <1>1, <1>2 DEF TypeOK, Locations
  <1>4. /\ Unreaped' = Unreaped
        /\ Serving' = Serving
        /\ ~Uncovered /\ ~Uncovered'
        /\ \A a \in Addrs : UnreapedFrom(a)' = UnreapedFrom(a)
    BY <1>2 DEF Unreaped, Serving, Uncovered, UnreapedFrom
  <1>5. ChildrenCounted' /\ IpCounted'
    BY <1>2, <1>4 DEF ChildrenCounted, IpCounted
  <1>6. PidsRecorded'
    BY <1>1, <1>2 DEF PidsRecorded, TypeOK
  <1>7. NoBug' /\ LaunchConsistent'
    BY <1>2 DEF NoBug, LaunchConsistent
  <1>8. GrantsBounded'
    BY <1>4 DEF GrantsBounded
  <1>9. ServingWithinLimits'
    BY <1>4 DEF ServingWithinLimits, WithinLimits
  <1> QED
    BY <1>3, <1>5, <1>6, <1>7, <1>8, <1>9

(* fork(): the child gets numbers no smaller than the number of children   *)
(* that count against them, so the bounds on the numbers survive.          *)
LEMMA ForkStep ==
    ASSUME IInv, NEW p \in Pids, Fork(p)
    PROVE  IInv'
  <1> USE DEF IInv, Fork, signals, tables
  <1>1. conn \in Addrs /\ Uncovered /\ ~Uncovered' /\ procs[p] = "free"
    BY DEF LaunchConsistent, Uncovered
  <1>2. TypeOK'
    <2>1. tunables.max_clients \in Nat /\ tunables.max_per_ip \in Nat
      BY LimitsAreNat DEF TypeOK
    <2>2. launch' \in [Pids -> Launch]
      BY <1>1, <2>1 DEF TypeOK, Launch
    <2> QED
      BY <1>1, <2>2 DEF TypeOK, Locations, ProcStates
  <1>3. p \notin Unreaped /\ Unreaped' = Unreaped \cup {p}
    BY DEF Unreaped, TypeOK
  <1>4. \A a \in Addrs : /\ p \notin UnreapedFrom(a)
                         /\ UnreapedFrom(a)' = IF a = conn
                                               THEN UnreapedFrom(a) \cup {p}
                                               ELSE UnreapedFrom(a)
    BY <1>1, <1>3 DEF UnreapedFrom, Unreaped, TypeOK
  <1>5. /\ Cardinality(Unreaped) \in Nat
        /\ Cardinality(Unreaped') = Cardinality(Unreaped) + 1
    BY <1>3, FiniteSubset, AddOne DEF Unreaped
  <1>6. \A a \in Addrs :
            /\ Cardinality(UnreapedFrom(a)) \in Nat
            /\ Cardinality(UnreapedFrom(a)') =
                  Cardinality(UnreapedFrom(a)) + (IF a = conn THEN 1 ELSE 0)
    <2> TAKE a \in Addrs
    <2>1. UnreapedFrom(a) \in SUBSET Pids
      BY DEF UnreapedFrom, Unreaped
    <2> QED
      BY <1>4, <2>1, FiniteSubset, AddOne
  <1>7. ChildrenCounted'
    BY <1>1, <1>5 DEF ChildrenCounted
  <1>8. IpCounted'
    BY <1>1, <1>6 DEF IpCounted, TypeOK
  <1>9. PidsRecorded'
    BY <1>1 DEF PidsRecorded, TypeOK, Uncovered
  <1>10. LaunchConsistent'
    BY <1>1 DEF LaunchConsistent, TypeOK
  <1>11. GrantsBounded'
    <2> SUFFICES ASSUME NEW c \in Configs
                 PROVE
          /\ Cardinality({q \in Unreaped' :
                             launch'[q].num_children <= c.max_clients})
                <= c.max_clients
          /\ \A a \in Addrs :
                Cardinality({q \in UnreapedFrom(a)' :
                                launch'[q].num_this_ip <= c.max_per_ip})
                   <= c.max_per_ip
      BY DEF GrantsBounded
    <2>1. c.max_clients \in Nat /\ c.max_per_ip \in Nat
      BY LimitsAreNat
    <2>2. Cardinality({q \in Unreaped' :
                          launch'[q].num_children <= c.max_clients})
             <= c.max_clients
      <3> DEFINE Old == {q \in Unreaped : launch[q].num_children <= c.max_clients}
                 New == {q \in Unreaped' : launch'[q].num_children <= c.max_clients}
      <3>1. New \in SUBSET Unreaped' /\ Unreaped' \in SUBSET Pids
        BY DEF Unreaped
      <3>2. launch'[p].num_children = Cardinality(Unreaped')
        BY <1>1, <1>5 DEF TypeOK, ChildrenCounted
      <3>3. CASE Cardinality(Unreaped') <= c.max_clients
        <4>1. Cardinality(New) <= Cardinality(Unreaped')
          BY <3>1, SmallerSet
        <4>2. Cardinality(New) \in Nat
          BY <3>1, FiniteSubset
        <4> QED
          BY <1>5, <2>1, <3>3, <4>1, <4>2
      <3>4. CASE ~(Cardinality(Unreaped') <= c.max_clients)
        <4>1. New = Old
          BY <1>3, <3>2, <3>4 DEF TypeOK, Unreaped
        <4> QED
          BY <4>1 DEF GrantsBounded
      <3> QED
        BY <3>3, <3>4
    <2>3. ASSUME NEW a \in Addrs
          PROVE  Cardinality({q \in UnreapedFrom(a)' :
                                 launch'[q].num_this_ip <= c.max_per_ip})
                    <= c.max_per_ip
      <3> DEFINE Old == {q \in UnreapedFrom(a) : launch[q].num_this_ip <= c.max_per_ip}
                 New == {q \in UnreapedFrom(a)' : launch'[q].num_this_ip <= c.max_per_ip}
      <3>1. New \in SUBSET (UnreapedFrom(a)') /\ UnreapedFrom(a)' \in SUBSET Pids
        BY DEF UnreapedFrom, Unreaped
      <3>2. a = conn => launch'[p].num_this_ip = Cardinality(UnreapedFrom(a)')
        BY <1>1, <1>6 DEF TypeOK, IpCounted
      <3>3. CASE a = conn /\ Cardinality(UnreapedFrom(a)') <= c.max_per_ip
        <4>1. Cardinality(New) <= Cardinality(UnreapedFrom(a)')
          BY <3>1, SmallerSet
        <4>2. Cardinality(New) \in Nat
          BY <3>1, FiniteSubset
        <4> QED
          BY <1>6, <2>1, <3>3, <4>1, <4>2
      <3>4. CASE a = conn /\ ~(Cardinality(UnreapedFrom(a)') <= c.max_per_ip)
        <4>1. New = Old
          BY <1>4, <3>2, <3>4, ZenonT(40) DEF TypeOK, Unreaped, UnreapedFrom
        <4> QED
          BY <4>1 DEF GrantsBounded
      <3>5. CASE a # conn
        <4>1. New = Old
          BY <1>4, <3>5 DEF TypeOK, Unreaped, UnreapedFrom
        <4> QED
          BY <4>1 DEF GrantsBounded
      <3> QED
        BY <3>3, <3>4, <3>5
    <2> QED
      BY <2>2, <2>3
  <1>12. NoBug'
    BY DEF NoBug
  <1>13. ServingWithinLimits'
    BY DEF ServingWithinLimits, Serving, WithinLimits, TypeOK
  <1> QED
    BY <1>2, <1>7, <1>8, <1>9, <1>10, <1>11, <1>12, <1>13

(* One turn of the loop of handle_sigchld: the tables know the child.      *)
LEMMA ReapStep ==
    ASSUME IInv, NEW p \in Pids, ReapOne(p)
    PROVE  IInv'
  <1> USE DEF IInv, ReapOne, DropIpCount, DropOK, signals
  <1> DEFINE b == peer[p]
  <1>1. /\ pc = "reap" /\ ~Uncovered /\ procs[p] = "zombie"
        /\ b \in Addrs /\ b # NoAddr /\ pid_ip[p] = b
    BY StandaloneAssumption DEF LaunchConsistent, PidsRecorded, Uncovered
  <1>2. p \in Unreaped /\ p \in UnreapedFrom(b)
    BY <1>1 DEF Unreaped, UnreapedFrom
  <1>3. /\ Unreaped' = Unreaped \ {p}
        /\ \A a \in Addrs : UnreapedFrom(a)' = UnreapedFrom(a) \ {p}
        /\ \A a \in Addrs : a # b => p \notin UnreapedFrom(a)
    BY <1>1 DEF Unreaped, UnreapedFrom, TypeOK
  <1>4. /\ Cardinality(Unreaped) \in Nat
        /\ Cardinality(Unreaped') \in Nat
        /\ Cardinality(Unreaped') = Cardinality(Unreaped) - 1
    BY <1>2, <1>3, FiniteSubset, RemoveOne DEF Unreaped
  <1>5. \A a \in Addrs :
            /\ Cardinality(UnreapedFrom(a)) \in Nat
            /\ Cardinality(UnreapedFrom(a)') \in Nat
            /\ Cardinality(UnreapedFrom(a)') =
                  Cardinality(UnreapedFrom(a)) - (IF a = b THEN 1 ELSE 0)
    <2> TAKE a \in Addrs
    <2>1. UnreapedFrom(a) \in SUBSET Pids /\ UnreapedFrom(a)' \in SUBSET Pids
      BY DEF UnreapedFrom, Unreaped
    <2>2. CASE a = b
      BY <1>2, <1>3, <2>1, <2>2, FiniteSubset, RemoveOne
    <2>3. CASE a # b
      <3>1. UnreapedFrom(a)' = UnreapedFrom(a)
        BY <1>3, <2>3
      <3> QED
        BY <2>1, <2>3, <3>1, FiniteSubset
    <2> QED
      BY <2>2, <2>3
  <1>6. DropOK(b)
    BY <1>1, <1>5 DEF IpCounted, TypeOK
  <1>7. /\ pc' = "reap" /\ ~Uncovered'
        /\ pid_ip' = [pid_ip EXCEPT ![p] = NoAddr]
        /\ ip_count' = [ip_count EXCEPT ![b] = @ - 1]
        /\ ip_keys' = IF ip_count[b] = 1 THEN ip_keys \ {b} ELSE ip_keys
    BY <1>1, <1>6 DEF Uncovered
  <1>8. TypeOK'
    <2>1. s_children' \in Nat
      BY <1>1, <1>4 DEF ChildrenCounted, TypeOK
    <2>2. ip_count' \in [Addrs -> Nat]
      BY <1>1, <1>6, <1>7 DEF TypeOK
    <2>3. launch' \in [Pids -> Launch]
      BY DEF TypeOK, Launch, NoLaunch
    <2> QED
      BY <1>1, <1>7, <2>1, <2>2, <2>3 DEF TypeOK, Locations, ProcStates
  <1>9. ChildrenCounted'
    BY <1>1, <1>4, <1>7 DEF ChildrenCounted
  <1>10. IpCounted'
    <2>1. \A a \in Addrs : ip_count'[a] = Cardinality(UnreapedFrom(a)')
      BY <1>1, <1>5, <1>6, <1>7 DEF IpCounted, TypeOK
    <2>2. ip_keys' = {a \in Addrs : ip_count'[a] > 0}
      BY <1>1, <1>6, <1>7 DEF IpCounted, TypeOK
    <2> QED
      BY <1>5, <1>7, <2>1, <2>2 DEF IpCounted
  <1>11. PidsRecorded' /\ NoBug'
    BY <1>1, <1>7 DEF PidsRecorded, TypeOK, NoBug
  <1>12. LaunchConsistent'
    BY <1>7, StandaloneAssumption DEF LaunchConsistent, TypeOK
  <1>13. GrantsBounded'
    <2> SUFFICES ASSUME NEW c \in Configs
                 PROVE
          /\ Cardinality({q \in Unreaped' :
                             launch'[q].num_children <= c.max_clients})
                <= c.max_clients
          /\ \A a \in Addrs :
                Cardinality({q \in UnreapedFrom(a)' :
                                launch'[q].num_this_ip <= c.max_per_ip})
                   <= c.max_per_ip
      BY DEF GrantsBounded
    <2>1. c.max_clients \in Nat /\ c.max_per_ip \in Nat
      BY LimitsAreNat
    <2>2. ASSUME NEW S \in SUBSET Pids, NEW T \in SUBSET S, NEW n \in Nat,
                 Cardinality(S) <= n
          PROVE  Cardinality(T) <= n
      BY <2>2, SmallerSet, FiniteSubset
    <2>3. Cardinality({q \in Unreaped' :
                          launch'[q].num_children <= c.max_clients})
             <= c.max_clients
      <3> DEFINE Old == {q \in Unreaped : launch[q].num_children <= c.max_clients}
                 New == {q \in Unreaped' : launch'[q].num_children <= c.max_clients}
      <3>1. New \in SUBSET Old /\ Old \in SUBSET Pids
        BY <1>3 DEF Unreaped, TypeOK
      <3>2. Cardinality(Old) <= c.max_clients
        BY DEF GrantsBounded
      <3> HIDE DEF Old, New
      <3>3. Cardinality(New) <= c.max_clients
        BY <2>1, <2>2, <3>1, <3>2
      <3> QED
        BY <3>3 DEF New
    <2>4. ASSUME NEW a \in Addrs
          PROVE  Cardinality({q \in UnreapedFrom(a)' :
                                 launch'[q].num_this_ip <= c.max_per_ip})
                    <= c.max_per_ip
      <3> DEFINE Old == {q \in UnreapedFrom(a) : launch[q].num_this_ip <= c.max_per_ip}
                 New == {q \in UnreapedFrom(a)' : launch'[q].num_this_ip <= c.max_per_ip}
      <3>1. New \in SUBSET Old /\ Old \in SUBSET Pids
        BY <1>3 DEF Unreaped, UnreapedFrom, TypeOK
      <3>2. Cardinality(Old) <= c.max_per_ip
        BY DEF GrantsBounded
      <3> HIDE DEF Old, New
      <3>3. Cardinality(New) <= c.max_per_ip
        BY <2>1, <2>2, <3>1, <3>2
      <3> QED
        BY <3>3 DEF New
    <2> QED
      BY <2>3, <2>4
  <1>14. ServingWithinLimits'
    BY DEF ServingWithinLimits, Serving, WithinLimits, TypeOK
  <1> QED
    BY <1>8, <1>9, <1>10, <1>11, <1>12, <1>13, <1>14

-----------------------------------------------------------------------------

(* Every step of the listener, of a child, or of the kernel preserves the  *)
(* invariant.                                                              *)
LEMMA NextIInv == IInv /\ [Next]_vars => IInv'
  <1> SUFFICES ASSUME IInv, [Next]_vars PROVE IInv'
    OBVIOUS
  <1>1. CASE AlarmFires \/ SendSighup \/ \E a \in Addrs \cup {NoAddr} : Accept(a)
    BY <1>1, SignalSteps
  <1>2. CASE \E p \in Pids : \/ ChildExit(p)
                            \/ \E c \in Configs : CheckLimits(p, c)
    BY <1>2, ChildSteps
  <1>3. CASE ListenerStep
    BY <1>3, SignalSteps, ReapStep, CountStep, ForkStep, UndoStep, RecordStep
       DEF ListenerStep
  <1>4. CASE UNCHANGED vars
    <2>1. /\ UNCHANGED <<tables, children, newpid, pc, conn>>
          /\ TypeOK'
      BY <1>4 DEF vars, tables, children, IInv, TypeOK
    <2> QED
      BY <2>1, QuietStep DEF IInv, NoBug, LaunchConsistent
  <1> QED
    BY <1>1, <1>2, <1>3, <1>4 DEF Next

(* IInv is an invariant of the listener.                                   *)
THEOREM StandaloneInvariant == Spec => []IInv
  BY InitIInv, NextIInv, PTL DEF Spec

(* Every variable keeps its type; the listener's unsigned counters never   *)
(* wrap below zero, whatever the order of forks, failures and exits.       *)
THEOREM StandaloneTyping == Spec => []TypeOK
  <1>1. IInv => TypeOK
    BY DEF IInv
  <1> QED
    BY <1>1, StandaloneInvariant, PTL

(* The listener's books are exact at every moment: the number of children, *)
(* the per-address counts and the pid table all agree with the processes   *)
(* that really exist, and no bug() call in standalone.c or hash.c is       *)
(* reached.                                                                *)
THEOREM AccountingExact ==
    Spec => [](NoBug /\ BooksExact)
  <1>1. IInv => NoBug /\ BooksExact
    BY DEF IInv, BooksExact
  <1> QED
    BY <1>1, StandaloneInvariant, PTL

(* However children end and connections arrive, neither hash table is ever *)
(* asked to add a key it has or to free one it has not, and no launch      *)
(* finds a pid twice: the bug() calls of hash.c and standalone.c are       *)
(* unreachable, for any number of addresses and processes.                 *)
THEOREM NoBugReached ==
    Spec => []NoBug
  <1> QED
    BY AccountingExact, PTL

(* The step from the numbers handed out to the limits: a serving child     *)
(* launched under a limit of at most m holds a number of at most m.        *)
LEMMA LimitsFromGrants == IInv => MaxClientsHolds /\ MaxPerIpHolds
  <1> SUFFICES ASSUME IInv PROVE MaxClientsHolds /\ MaxPerIpHolds
    OBVIOUS
  <1> USE DEF IInv
  <1>1. \A q \in Serving : /\ q \in Unreaped
                           /\ WithinLimits(launch[q])
                           /\ launch[q] \in Launch
    BY DEF Serving, Unreaped, ServingWithinLimits, TypeOK
  <1>2. ASSUME NEW S \in SUBSET Pids, NEW T \in SUBSET S, NEW n \in Nat,
               Cardinality(S) <= n
        PROVE  Cardinality(T) <= n
    BY <1>2, SmallerSet, FiniteSubset
  <1>3. MaxClientsHolds
    <2> SUFFICES ASSUME NEW c \in Configs
                 PROVE  Cardinality({q \in Serving :
                           launch[q].max_clients \in 1..c.max_clients})
                        <= c.max_clients
      BY DEF MaxClientsHolds
    <2> DEFINE A == {q \in Serving : launch[q].max_clients \in 1..c.max_clients}
               G == {q \in Unreaped : launch[q].num_children <= c.max_clients}
    <2>1. c.max_clients \in Nat
      BY LimitsAreNat
    <2>2. A \in SUBSET G /\ G \in SUBSET Pids
      BY <1>1, <2>1 DEF WithinLimits, Launch, Unreaped
    <2>3. Cardinality(G) <= c.max_clients
      BY DEF GrantsBounded
    <2> HIDE DEF A, G
    <2>4. Cardinality(A) <= c.max_clients
      BY <1>2, <2>1, <2>2, <2>3
    <2> QED
      BY <2>4 DEF A
  <1>4. MaxPerIpHolds
    <2> SUFFICES ASSUME NEW c \in Configs, NEW a \in Addrs
                 PROVE  Cardinality({q \in Serving :
                           /\ peer[q] = a
                           /\ launch[q].max_per_ip \in 1..c.max_per_ip})
                        <= c.max_per_ip
      BY DEF MaxPerIpHolds
    <2> DEFINE A == {q \in Serving : /\ peer[q] = a
                                     /\ launch[q].max_per_ip \in 1..c.max_per_ip}
               G == {q \in UnreapedFrom(a) : launch[q].num_this_ip <= c.max_per_ip}
    <2>1. c.max_per_ip \in Nat
      BY LimitsAreNat
    <2>2. A \in SUBSET G /\ G \in SUBSET Pids
      BY <1>1, <2>1 DEF WithinLimits, Launch, Unreaped, UnreapedFrom
    <2>3. Cardinality(G) <= c.max_per_ip
      BY DEF GrantsBounded
    <2> HIDE DEF A, G
    <2>4. Cardinality(A) <= c.max_per_ip
      BY <1>2, <2>1, <2>2, <2>3
    <2> QED
      BY <2>4 DEF A
  <1> QED
    BY <1>3, <1>4

(* max_clients and max_per_ip bound the sessions that get past             *)
(* check_limits, for every number of processes and every sequence of       *)
(* configurations loaded by SIGHUP.                                        *)
THEOREM LimitsHold == Spec => []SessionsWithinLimits
  <1>1. IInv => SessionsWithinLimits
    BY LimitsFromGrants DEF SessionsWithinLimits
  <1> QED
    BY <1>1, StandaloneInvariant, PTL

-----------------------------------------------------------------------------

(* Every child runs under the limits of some configuration.                *)
LEMMA LoadedInvariant == Spec => []LimitsLoaded
  <1>1. Init => LimitsLoaded
    BY DEF Init, LimitsLoaded, Unreaped
  <1>2. IInv /\ LimitsLoaded /\ [Next]_vars => LimitsLoaded'
    <2> SUFFICES ASSUME IInv, LimitsLoaded, [Next]_vars,
                        NEW q \in Unreaped'
                 PROVE  LimitsOf(q)' \in Configs
      BY DEF LimitsLoaded
    <2> USE DEF LimitsLoaded, LimitsOf, Unreaped
    <2>1. CASE \E p \in Pids : Fork(p)
      <3> PICK p \in Pids : Fork(p)
        BY <2>1
      <3>1. CASE q = p
        <4>1. LimitsOf(q)' = [max_clients |-> tunables.max_clients,
                              max_per_ip |-> tunables.max_per_ip]
          BY <3>1 DEF Fork, IInv, TypeOK
        <4>2. LimitsOf(q)' = tunables
          BY <4>1, StandaloneAssumption DEF Limits, IInv, TypeOK
        <4> QED
          BY <4>2 DEF IInv, TypeOK
      <3>2. CASE q # p
        BY <3>2 DEF Fork, IInv, TypeOK
      <3> QED
        BY <3>1, <3>2
    <2>2. CASE \E p \in Pids : ReapOne(p)
      BY <2>2 DEF ReapOne, IInv, TypeOK
    <2>3. CASE \E p \in Pids : ChildExit(p)
      BY <2>3 DEF ChildExit, IInv, TypeOK
    <2>5. CASE \E p \in Pids, c \in Configs : CheckLimits(p, c)
      <3> PICK p \in Pids, c \in Configs : CheckLimits(p, c)
        BY <2>5
      <3>1. CASE q = p
        <4>1. LimitsOf(q)' = [max_clients |-> c.max_clients,
                              max_per_ip |-> c.max_per_ip]
          BY <3>1 DEF CheckLimits, IInv, TypeOK, Launch
        <4>2. LimitsOf(q)' = c
          BY <4>1, StandaloneAssumption DEF Limits
        <4> QED
          BY <4>2
      <3>2. CASE q # p
        BY <3>2 DEF CheckLimits, IInv, TypeOK
      <3> QED
        BY <3>1, <3>2
    <2>4. CASE UNCHANGED children
      BY <2>4 DEF children
    <2> QED
      BY <2>1, <2>2, <2>3, <2>4, <2>5
         DEF Next, ListenerStep, TestPending, CancelAlarm, HandleSighup,
             StartSigchld, ReapDone, Block, CountClient, ForkFails, UndoCount,
             RecordChild, AlarmFires, Accept, SendSighup, vars, children
  <1> QED
    BY <1>1, <1>2, StandaloneInvariant, PTL DEF Spec

(* Admission counts with the same Cardinality.                             *)
LEMMA SameCardinality ==
    ASSUME NEW S
    PROVE  Sessions!Cardinality(S) = Cardinality(S)
  BY Zenon DEF Cardinality, Sessions!Cardinality

(* The limits hold in the vocabulary of Admission.                         *)
LEMMA MappedLimits ==
    ASSUME IInv
    PROVE  Sessions!LimitsRespected
  <1>1. MaxClientsHolds /\ MaxPerIpHolds
    BY LimitsFromGrants
  <1> DEFINE client == [p \in Pids |-> IF p \in Serving THEN peer[p] ELSE NoAddr]
             limit == [p \in Pids |-> IF p \in Serving THEN LimitsOf(p)
                                      ELSE [max_clients |-> 0, max_per_ip |-> 0]]
  <1>2. \A s \in Serving : /\ client[s] = peer[s]
                           /\ limit[s].max_clients = launch[s].max_clients
                           /\ limit[s].max_per_ip = launch[s].max_per_ip
    BY DEF Serving, LimitsOf
  <1> SUFFICES ASSUME NEW c \in Configs
               PROVE
        /\ Cardinality({s \in Serving : limit[s].max_clients \in 1..c.max_clients})
              <= c.max_clients
        /\ \A a \in Addrs :
              Cardinality({s \in Serving :
                              /\ client[s] = a
                              /\ limit[s].max_per_ip \in 1..c.max_per_ip})
                 <= c.max_per_ip
    BY SameCardinality, Zenon DEF Sessions!LimitsRespected
  <1> HIDE DEF client, limit
  <1>3. {s \in Serving : limit[s].max_clients \in 1..c.max_clients}
        = {p \in Serving : launch[p].max_clients \in 1..c.max_clients}
    BY <1>2
  <1>4. ASSUME NEW a \in Addrs
        PROVE  {s \in Serving : /\ client[s] = a
                                /\ limit[s].max_per_ip \in 1..c.max_per_ip}
               = {p \in Serving : /\ peer[p] = a
                                  /\ launch[p].max_per_ip \in 1..c.max_per_ip}
    BY <1>2
  <1>5. Cardinality({p \in Serving : launch[p].max_clients \in 1..c.max_clients})
           <= c.max_clients
    BY <1>1 DEF MaxClientsHolds
  <1>6. ASSUME NEW a \in Addrs
        PROVE  Cardinality({p \in Serving :
                               /\ peer[p] = a
                               /\ launch[p].max_per_ip \in 1..c.max_per_ip})
                  <= c.max_per_ip
    BY <1>1 DEF MaxPerIpHolds
  <1> QED
    BY <1>3, <1>4, <1>5, <1>6

(* The listener implements Admission: whatever it does, the only changes a *)
(* client population sees are one admission within the limits (a child     *)
(* passing check_limits) or one departure (a serving child exiting).       *)
THEOREM RefinesAdmission == Spec => ImplementsAdmission
  <1>1. Init => Sessions!Init
    <2> SUFFICES ASSUME Init PROVE Sessions!Init
      OBVIOUS
    <2>1. Serving = {}
      BY DEF Init, Serving
    <2> QED
      BY <2>1 DEF Sessions!Init, Sessions!NoLimit
  <1>2. IInv /\ IInv' /\ LimitsLoaded /\ [Next]_vars
            => [Sessions!Next]_(Sessions!avars)
    <2> SUFFICES ASSUME IInv, IInv', LimitsLoaded, [Next]_vars
                 PROVE  [Sessions!Next]_(Sessions!avars)
      OBVIOUS
    <2>1. Sessions!LimitsRespected'
      BY MappedLimits, PTL
    <2>2. ASSUME Serving' = Serving,
                 \A q \in Serving : peer'[q] = peer[q] /\ launch'[q] = launch[q]
          PROVE  UNCHANGED Sessions!avars
      BY <2>2 DEF Sessions!avars, LimitsOf
    <2>3. ASSUME NEW p \in Pids, NEW c \in Configs, CheckLimits(p, c)
          PROVE  Sessions!Next
      <3>1. /\ p \notin Serving
            /\ Serving' = Serving \cup {p}
            /\ UNCHANGED peer
            /\ \A q \in Pids \ {p} : launch'[q] = launch[q]
            /\ peer[p] \in Addrs
        BY <2>3 DEF CheckLimits, Serving, IInv, TypeOK, LaunchConsistent
      <3>2. LimitsOf(p)' \in Configs
        <4>1. LimitsOf(p)' = [max_clients |-> c.max_clients,
                              max_per_ip |-> c.max_per_ip]
          BY <2>3 DEF CheckLimits, LimitsOf, IInv, TypeOK, Launch
        <4> QED
          BY <4>1, StandaloneAssumption DEF Limits
      <3>3. Sessions!Admit(p)
        BY <2>1, <3>1, <3>2 DEF Sessions!Admit, LimitsOf
      <3> QED
        BY <3>3 DEF Sessions!Next
    <2>4. ASSUME NEW p \in Pids, ChildExit(p), procs[p] = "serving"
          PROVE  Sessions!Next
      <3>1. /\ p \in Serving
            /\ Serving' = Serving \ {p}
            /\ UNCHANGED <<peer, launch>>
        BY <2>4 DEF ChildExit, Serving, IInv, TypeOK
      <3>2. Sessions!Leave(p)
        BY <3>1 DEF Sessions!Leave, Sessions!NoLimit, LimitsOf
      <3> QED
        BY <3>2 DEF Sessions!Next
    <2>5. ASSUME NEW p \in Pids, ChildExit(p), procs[p] # "serving"
          PROVE  UNCHANGED Sessions!avars
      BY <2>2, <2>5 DEF ChildExit, Serving, IInv, TypeOK
    <2>6. ASSUME NEW p \in Pids, ReapOne(p) \/ Fork(p)
          PROVE  UNCHANGED Sessions!avars
      BY <2>2, <2>6 DEF ReapOne, Fork, Serving, IInv, TypeOK
    <2>7. CASE UNCHANGED children
      BY <2>2, <2>7 DEF children, Serving
    <2> QED
      BY <2>3, <2>4, <2>5, <2>6, <2>7
         DEF Next, ListenerStep, TestPending, CancelAlarm, HandleSighup,
             StartSigchld, ReapDone, Block, CountClient, ForkFails, UndoCount,
             RecordChild, AlarmFires, Accept, SendSighup, vars, children
  <1> QED
    BY <1>1, <1>2, StandaloneInvariant, LoadedInvariant, PTL
       DEF Spec, ImplementsAdmission, Sessions!Spec

=============================================================================
