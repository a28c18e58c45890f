---------------------------- MODULE FilesProofs -----------------------------
(***************************************************************************)
(* Proofs about Files, for any number of sessions, names, files and        *)
(* commands.  FilesIInv is the inductive invariant: beside the checked     *)
(* properties it says who holds which lock, and that the name an upload    *)
(* goes to is that of the file it has open, until somebody takes it away.  *)
(***************************************************************************)
EXTENDS Files, SequenceTheorems, TLAPS

-----------------------------------------------------------------------------
(* The inductive invariant.                                                *)

Blocks == Nat \cup {Zeros}
AtStates ==
    [pc : {"idle", "dead", "retr", "read", "named", "open", "write"}, number : Nat,
     name : FileNames, fd : Inodes \cup {NoFile}, holds : {"no", "read", "write"},
     pos : Nat, expect : Seq(Blocks), got : Seq(Blocks), exclusive : BOOLEAN,
     append : BOOLEAN, do_truncate : BOOLEAN, moved : BOOLEAN]

FilesTypeOK ==
    /\ config \in [lock : BOOLEAN, del : BOOLEAN]
    /\ dir \in [FileNames -> Inodes \cup {NoFile}]
    /\ content \in [Inodes -> Seq(Blocks)]
    /\ made \in [Inodes -> Nat]
    /\ issued \in Nat
    /\ sess \in [Sessions -> [at : AtStates, rnfr : SUBSET FileNames]]
    /\ complete \subseteq FileNames \X Inodes
    /\ harmed \subseteq Inodes

(* What a session at each place has: a number, a descriptor, a lock.       *)
Stands(a, lock) ==
    /\ a.pc \in {"idle", "dead", "named"} => a.fd = NoFile
    /\ a.pc \notin {"idle", "dead", "named"} => a.fd \in Inodes
    /\ a.pc \notin {"idle", "dead"} => a.number # NoCommand
    /\ a.holds = IF lock /\ a.pc = "read" THEN "read"
                 ELSE IF lock /\ a.pc = "write" THEN "write" ELSE "no"
    /\ a.exclusive => a.pc \in {"named", "open", "write"}
    /\ a.pc = "retr" => a.got = <<>> /\ a.pos = 0

(* The locks of two sessions on one file do not conflict.                  *)
Compatible(a, b) ==
    a.fd = b.fd => /\ a.holds = "write" => b.holds = "no"
                   /\ b.holds = "write" => a.holds = "no"

(* The name of an upload leads to the file it has open.                    *)
Named(a) == a.pc \in {"open", "write"} /\ ~a.moved => dir[a.name] = a.fd

(* What TransfersIsolated and GuestsHarmless say of one session.           *)
Isolated(a) ==
    config.lock /\ a.pc \in {"read", "write"} =>
        /\ content[a.fd] = a.expect
        /\ a.pc = "read" => a.got = SubSeq(a.expect, 1, a.pos) /\ a.pos <= Len(a.expect)
Owned(a) == a.exclusive /\ a.fd # NoFile => made[a.fd] = a.number

Sound(a) == Stands(a, config.lock) /\ Named(a) /\ Isolated(a) /\ Owned(a)

LocksExclude ==
    \A s, t \in Sessions : s # t => Compatible(At(s), At(t))

FilesIInv ==
    /\ FilesTypeOK
    /\ \A s \in Sessions : Sound(At(s))
    /\ LocksExclude
    /\ harmed = {}
    /\ CompletedKept

SessStates == [Sessions -> [at : AtStates, rnfr : SUBSET FileNames]]

-----------------------------------------------------------------------------
(* What a step does to the places of the sessions.                         *)

(* A session between commands is one of the states of its type, and sound. *)
LEMMA IdleStands ==
    /\ Idle \in AtStates
    /\ [Idle EXCEPT !.pc = "dead"] \in AtStates
  <1>1. <<>> \in Seq(Blocks)
    OBVIOUS
  <1>2. NoFile \in FileNames
    BY FilesConstants DEF NoFile, FileNames
  <1> QED
    BY <1>1, <1>2 DEF Idle, AtStates, NoCommand

(* The place of a session is in its type.                                  *)
LEMMA AtType ==
    ASSUME FilesTypeOK, NEW s \in Sessions
    PROVE  At(s) \in AtStates /\ Command(s) \in Nat /\ Command(s) = At(s).number
  BY DEF FilesTypeOK, At, Command, AtStates

(* Goes moves one session and no other.                                    *)
LEMMA GoesAt ==
    ASSUME FilesTypeOK, NEW s \in Sessions, NEW to \in AtStates, Goes(s, to)
    PROVE  /\ At(s)' = to
           /\ \A t \in Sessions : t # s => At(t)' = At(t)
           /\ sess' \in SessStates
           /\ issued' = issued
  BY DEF FilesTypeOK, Goes, At, SessStates

(* Starts moves one session, and gives its command a number.               *)
LEMMA StartsAt ==
    ASSUME FilesTypeOK, NEW s \in Sessions, NEW to \in AtStates, Starts(s, to)
    PROVE  /\ At(s)' = [to EXCEPT !.number = issued + 1]
           /\ At(s)' \in AtStates
           /\ \A t \in Sessions : t # s => At(t)' = At(t)
           /\ sess' \in SessStates
           /\ issued' \in Nat
  <1> DEFINE w == [to EXCEPT !.number = issued + 1]
  <1>0. issued + 1 \in Nat /\ issued' \in Nat
    BY DEF FilesTypeOK, Starts, Issued
  <1>1. w \in AtStates
    BY <1>0 DEF AtStates
  <1>2. sess' = [sess EXCEPT ![s].at = w]
    BY DEF Starts
  <1> HIDE DEF w
  <1>3. /\ At(s)' = w
        /\ \A t \in Sessions : t # s => At(t)' = At(t)
        /\ sess' \in SessStates
    BY <1>1, <1>2 DEF FilesTypeOK, At, SessStates
  <1> QED
    BY <1>0, <1>1, <1>3 DEF w

(* MovedFrom marks the sessions whose name is taken away, and no other.    *)
LEMMA MovedAt ==
    ASSUME NEW f \in SessStates, NEW s \in Sessions, NEW names,
           sess' = MovedFrom(f, s, names)
    PROVE  /\ sess' \in SessStates
           /\ \A t \in Sessions :
                 At(t)' = IF t \in Bereaved(s, names) THEN [f[t].at EXCEPT !.moved = TRUE]
                          ELSE f[t].at
  <1>1. ASSUME NEW t \in Sessions
        PROVE  [f[t] EXCEPT !.at.moved = TRUE] \in [at : AtStates, rnfr : SUBSET FileNames]
               /\ [f[t] EXCEPT !.at.moved = TRUE].at = [f[t].at EXCEPT !.moved = TRUE]
    <2>1. f[t] \in [at : AtStates, rnfr : SUBSET FileNames]
      BY DEF SessStates
    <2>2. [f[t].at EXCEPT !.moved = TRUE] \in AtStates
      <3>1. f[t].at \in AtStates
        BY <2>1
      <3> QED
        BY <3>1 DEF AtStates
    <2> QED
      BY <2>1, <2>2
  <1> QED
    BY <1>1 DEF MovedFrom, At, SessStates

-----------------------------------------------------------------------------
(* A step that moves one session keeps the locks apart if the lock of that *)
(* session is compatible with those of the others.                         *)
LEMMA LocksKept ==
    ASSUME LocksExclude, NEW s \in Sessions,
           \A t \in Sessions : t # s => At(t)' = At(t),
           \A t \in Sessions : t # s => Compatible(At(s)', At(t))
    PROVE  LocksExclude'
  <1> SUFFICES ASSUME NEW t \in Sessions, NEW u \in Sessions, t # u
               PROVE  Compatible(At(t)', At(u)')
    BY DEF LocksExclude
  <1>1. CASE t = s
    BY <1>1
  <1>2. CASE u = s
    <2>1. Compatible(At(u)', At(t)')
      BY <1>2
    <2> QED
      BY <2>1 DEF Compatible
  <1>3. CASE t # s /\ u # s
    BY <1>3 DEF LocksExclude
  <1> QED
    BY <1>1, <1>2, <1>3

(* A step that moves one session and leaves the files alone keeps the      *)
(* invariant if that session stays sound and its lock is compatible.       *)
LEMMA OneMoves ==
    ASSUME FilesIInv, NEW s \in Sessions,
           UNCHANGED <<config, dir, content, made, complete, harmed>>,
           sess' \in SessStates, issued' \in Nat,
           \A t \in Sessions : t # s => At(t)' = At(t),
           Sound(At(s))',
           \A t \in Sessions : t # s => Compatible(At(s)', At(t))
    PROVE  FilesIInv'
  <1>1. FilesTypeOK'
    BY DEF FilesIInv, FilesTypeOK, SessStates
  <1>2. ASSUME NEW t \in Sessions PROVE Sound(At(t))'
    <2>1. CASE t = s
      BY <2>1
    <2>2. CASE t # s
      <3>1. Sound(At(t)) /\ At(t)' = At(t)
        BY <2>2 DEF FilesIInv
      <3> QED
        BY <3>1 DEF Sound, Named, Isolated, Owned
    <2> QED
      BY <2>1, <2>2
  <1>3. LocksExclude'
    BY LocksKept DEF FilesIInv
  <1>4. harmed' = {} /\ CompletedKept'
    BY DEF FilesIInv, CompletedKept
  <1> QED
    BY <1>1, <1>2, <1>3, <1>4 DEF FilesIInv

-----------------------------------------------------------------------------
(* Downloads.                                                              *)

(* RETR opens a file that is there, and holds nothing yet.                 *)
LEMMA OpenReadKeeps ==
    ASSUME FilesIInv, NEW s \in Sessions, NEW n \in FileNames, OpenRead(s, n)
    PROVE  FilesIInv'
  <1> DEFINE to == [Idle EXCEPT !.pc = "retr", !.name = n, !.fd = dir[n]]
  <1>1. FilesTypeOK
    BY DEF FilesIInv
  <1>2. dir[n] \in Inodes
    BY <1>1 DEF FilesTypeOK, OpenRead
  <1>3. to \in AtStates
    BY <1>2, IdleStands DEF AtStates
  <1>4. Starts(s, to)
    BY DEF OpenRead
  <1>5. /\ to.pc = "retr" /\ to.fd = dir[n] /\ to.holds = "no" /\ to.exclusive = FALSE
        /\ to.got = <<>> /\ to.pos = 0
    BY DEF Idle
  <1> HIDE DEF to
  <1>6. /\ At(s)' = [to EXCEPT !.number = issued + 1] /\ At(s)' \in AtStates
        /\ \A t \in Sessions : t # s => At(t)' = At(t)
        /\ sess' \in SessStates /\ issued' \in Nat
    BY <1>1, <1>3, <1>4, StartsAt
  <1>7. /\ At(s)'.pc = "retr" /\ At(s)'.fd \in Inodes /\ At(s)'.holds = "no"
        /\ At(s)'.exclusive = FALSE /\ At(s)'.number # 0
        /\ At(s)'.got = <<>> /\ At(s)'.pos = 0
    BY <1>1, <1>2, <1>3, <1>5, <1>6 DEF AtStates, FilesTypeOK
  <1>8. Sound(At(s))'
    BY <1>7 DEF Sound, Stands, Named, Isolated, Owned, NoCommand
  <1>9. UNCHANGED <<config, dir, content, made, complete, harmed>>
    BY DEF OpenRead
  <1> QED
    BY <1>6, <1>7, <1>8, <1>9, OneMoves DEF Compatible

(* A read lock is granted when nobody writes; what will be sent is what    *)
(* the file holds then.                                                    *)
LEMMA LockReadKeeps ==
    ASSUME FilesIInv, NEW s \in Sessions, LockRead(s)
    PROVE  FilesIInv'
  <1> DEFINE held == IF config.lock THEN "read" ELSE "no"
             to == [At(s) EXCEPT !.pc = "read", !.holds = held, !.expect = content[At(s).fd]]
  <1>1. FilesTypeOK /\ Sound(At(s)) /\ At(s) \in AtStates
    BY AtType DEF FilesIInv
  <1>2. At(s).pc = "retr" /\ At(s).fd \in Inodes /\ At(s).exclusive = FALSE
    BY <1>1 DEF Sound, Stands, LockRead, AtStates
  <1>3. content[At(s).fd] \in Seq(Blocks) /\ held \in {"no", "read", "write"}
    BY <1>1, <1>2 DEF FilesTypeOK
  <1>4. to \in AtStates
    BY <1>1, <1>3 DEF AtStates
  <1>5. Goes(s, to)
    BY DEF LockRead
  <1>6. /\ to.pc = "read" /\ to.fd = At(s).fd /\ to.holds = held
        /\ to.expect = content[At(s).fd] /\ to.exclusive = FALSE
        /\ to.got = At(s).got /\ to.pos = At(s).pos /\ to.number = At(s).number
    BY <1>1, <1>2 DEF AtStates
  <1> HIDE DEF to
  <1>7. /\ At(s)' = to
        /\ \A t \in Sessions : t # s => At(t)' = At(t)
        /\ sess' \in SessStates /\ issued' \in Nat
    BY <1>1, <1>4, <1>5, GoesAt DEF FilesTypeOK
  <1>8. UNCHANGED <<config, dir, content, made, complete, harmed>>
    BY DEF LockRead
  <1>9. At(s).got = <<>> /\ At(s).pos = 0
    BY <1>1, <1>2 DEF Sound, Stands
  <1>10. Sound(At(s))'
    <2>1. SubSeq(to.expect, 1, 0) = <<>>
      BY <1>3, <1>6, SubSeqEmpty
    <2>2. 0 <= Len(to.expect)
      BY <1>3, <1>6
    <2> QED
      BY <2>1, <2>2, <1>1, <1>2, <1>6, <1>7, <1>8, <1>9
         DEF Sound, Stands, Named, Isolated, Owned
  <1>11. ASSUME NEW t \in Sessions, t # s
         PROVE  Compatible(At(s)', At(t))
    BY <1>6, <1>7, <1>11 DEF Compatible, LockRead, LockFree
  <1> QED
    BY <1>7, <1>8, <1>10, <1>11, OneMoves

(* A prefix and the element after it are the next prefix.                  *)
LEMMA NextOfSubSeq ==
    ASSUME NEW S, NEW q \in Seq(S), NEW k \in Nat, k < Len(q)
    PROVE  Append(SubSeq(q, 1, k), q[k + 1]) = SubSeq(q, 1, k + 1) /\ k + 1 <= Len(q)
  <1>1. 1 \in 1..Len(q) /\ k + 1 \in 1..Len(q) /\ (k + 1) - 1 = k
    OBVIOUS
  <1>2. SubSeq(q, 1, k + 1) = SubSeq(q, 1, k) \o <<q[k + 1]>>
    BY <1>1, SubSeqRecursiveSecond
  <1>3. SubSeq(q, 1, k) \in Seq(S) /\ q[k + 1] \in S
    BY <1>1
  <1>4. Append(SubSeq(q, 1, k), q[k + 1]) = SubSeq(q, 1, k) \o <<q[k + 1]>>
    BY <1>3, AppendIsConcat
  <1> QED
    BY <1>1, <1>2, <1>4

(* The next block is the next of what the file held at the lock.           *)
LEMMA ReadBlockKeeps ==
    ASSUME FilesIInv, NEW s \in Sessions, ReadBlock(s)
    PROVE  FilesIInv'
  <1> DEFINE a == At(s)
             to == [a EXCEPT !.pos = @ + 1, !.got = Append(@, content[a.fd][a.pos + 1])]
  <1>1. FilesTypeOK /\ Sound(a) /\ a \in AtStates
    BY AtType DEF FilesIInv
  <1>2. a.pc = "read" /\ a.fd \in Inodes /\ a.exclusive = FALSE
    BY <1>1 DEF Sound, Stands, ReadBlock, AtStates
  <1>3. /\ content[a.fd] \in Seq(Blocks) /\ a.pos < Len(content[a.fd])
        /\ a.pos \in Nat /\ a.got \in Seq(Blocks)
    BY <1>1, <1>2 DEF FilesTypeOK, ReadBlock, AtStates
  <1>4. content[a.fd][a.pos + 1] \in Blocks
    BY <1>3
  <1>5. a.pos + 1 \in Nat /\ Append(a.got, content[a.fd][a.pos + 1]) \in Seq(Blocks)
    BY <1>3, <1>4
  <1>6. to \in AtStates
    BY <1>1, <1>5 DEF AtStates
  <1>7. Goes(s, to)
    BY DEF ReadBlock
  <1>8. /\ to.pc = "read" /\ to.fd = a.fd /\ to.holds = a.holds
        /\ to.expect = a.expect /\ to.exclusive = FALSE
        /\ to.got = Append(a.got, content[a.fd][a.pos + 1]) /\ to.pos = a.pos + 1
        /\ to.number = a.number
    BY <1>1, <1>2 DEF AtStates
  <1> HIDE DEF to
  <1>9. /\ At(s)' = to
        /\ \A t \in Sessions : t # s => At(t)' = At(t)
        /\ sess' \in SessStates /\ issued' \in Nat
    BY <1>1, <1>6, <1>7, GoesAt DEF FilesTypeOK
  <1>10. UNCHANGED <<config, dir, content, made, complete, harmed>>
    BY DEF ReadBlock
  <1>11. Sound(At(s))'
    <2>1. config.lock => /\ to.got = SubSeq(to.expect, 1, to.pos)
                         /\ to.pos <= Len(to.expect)
      <3> SUFFICES ASSUME config.lock
                   PROVE  /\ to.got = SubSeq(to.expect, 1, to.pos)
                          /\ to.pos <= Len(to.expect)
        OBVIOUS
      <3>1. a.expect = content[a.fd] /\ a.got = SubSeq(a.expect, 1, a.pos)
        BY <1>1, <1>2 DEF Sound, Isolated
      <3>2. /\ Append(a.got, a.expect[a.pos + 1]) = SubSeq(a.expect, 1, a.pos + 1)
            /\ a.pos + 1 <= Len(a.expect)
        BY <1>3, <3>1, NextOfSubSeq
      <3> QED
        BY <1>8, <3>1, <3>2
    <2> QED
      BY <2>1, <1>1, <1>2, <1>8, <1>9, <1>10 DEF Sound, Stands, Named, Isolated, Owned
  <1>12. ASSUME NEW t \in Sessions, t # s
         PROVE  Compatible(At(s)', At(t))
    BY <1>8, <1>9, <1>12 DEF Compatible, FilesIInv, LocksExclude
  <1> QED
    BY <1>9, <1>10, <1>11, <1>12, OneMoves

(* A command that ends, or a session that dies, lets go of everything.     *)
LEMMA EndsKeeps ==
    ASSUME FilesIInv, NEW s \in Sessions,
           NEW to \in {Idle, [Idle EXCEPT !.pc = "dead"]}, Goes(s, to),
           UNCHANGED <<config, dir, content, made, complete, harmed>>
    PROVE  FilesIInv'
  <1>1. FilesTypeOK /\ to \in AtStates
    BY IdleStands DEF FilesIInv
  <1>2. /\ to.pc \in {"idle", "dead"} /\ to.fd = NoFile /\ to.holds = "no"
        /\ to.exclusive = FALSE
    BY DEF Idle
  <1>3. /\ At(s)' = to
        /\ \A t \in Sessions : t # s => At(t)' = At(t)
        /\ sess' \in SessStates /\ issued' \in Nat
    BY <1>1, GoesAt DEF FilesTypeOK
  <1>4. Sound(At(s))'
    BY <1>2, <1>3 DEF Sound, Stands, Named, Isolated, Owned
  <1> QED
    BY <1>2, <1>3, <1>4, OneMoves DEF Compatible

(* A download that ends.                                                   *)
LEMMA CloseReadKeeps ==
    ASSUME FilesIInv, NEW s \in Sessions, CloseRead(s)
    PROVE  FilesIInv'
  BY EndsKeeps DEF CloseRead

(* A session that dies.                                                    *)
LEMMA SessionDiesKeeps ==
    ASSUME FilesIInv, NEW s \in Sessions, SessionDies(s)
    PROVE  FilesIInv'
  BY EndsKeeps DEF SessionDies

-----------------------------------------------------------------------------
(* Uploads.                                                                *)

(* An upload that has its name has nothing open.                           *)
LEMMA StartsNamed ==
    ASSUME FilesIInv, NEW s \in Sessions, NEW to \in AtStates, Starts(s, to),
           to.pc = "named", to.fd = NoFile, to.holds = "no",
           UNCHANGED <<config, dir, content, made, complete, harmed>>
    PROVE  FilesIInv'
  <1>1. FilesTypeOK
    BY DEF FilesIInv
  <1>2. /\ At(s)' = [to EXCEPT !.number = issued + 1] /\ At(s)' \in AtStates
        /\ \A t \in Sessions : t # s => At(t)' = At(t)
        /\ sess' \in SessStates /\ issued' \in Nat
    BY <1>1, StartsAt
  <1>3. /\ At(s)'.pc = "named" /\ At(s)'.fd = NoFile /\ At(s)'.holds = "no"
        /\ At(s)'.number # 0
    BY <1>1, <1>2 DEF AtStates, FilesTypeOK
  <1>4. Sound(At(s))'
    BY <1>3 DEF Sound, Stands, Named, Isolated, Owned, NoCommand
  <1> QED
    BY <1>2, <1>3, <1>4, OneMoves DEF Compatible

(* STOR, APPE, and STOR after REST.                                        *)
LEMMA StartUploadKeeps ==
    ASSUME FilesIInv, NEW s \in Sessions, NEW n \in FileNames, NEW kind, StartUpload(s, n, kind)
    PROVE  FilesIInv'
  <1> DEFINE to == [Idle EXCEPT !.pc = "named", !.name = n,
                                !.exclusive = s \in Guests,
                                !.append = s \notin Guests /\ kind = "APPE",
                                !.pos = IF s \notin Guests /\ kind = "REST" THEN 1 ELSE 0,
                                !.do_truncate = s \notin Guests /\ kind = "STOR"]
  <1>1. /\ (s \in Guests) \in BOOLEAN
        /\ (s \notin Guests /\ kind = "APPE") \in BOOLEAN
        /\ (s \notin Guests /\ kind = "STOR") \in BOOLEAN
        /\ (IF s \notin Guests /\ kind = "REST" THEN 1 ELSE 0) \in Nat
    OBVIOUS
  <1>2. to \in AtStates
    BY <1>1, IdleStands, ZenonT(40) DEF AtStates
  <1>3. to.pc = "named" /\ to.fd = NoFile /\ to.holds = "no"
    BY DEF Idle
  <1>4. Starts(s, to) /\ UNCHANGED <<config, dir, content, made, complete, harmed>>
    BY DEF StartUpload
  <1> HIDE DEF to
  <1> QED
    BY <1>2, <1>3, <1>4, StartsNamed

(* STOU.                                                                   *)
LEMMA StartUniqueKeeps ==
    ASSUME FilesIInv, NEW s \in Sessions, NEW given \in BOOLEAN, StartUnique(s, given)
    PROVE  FilesIInv'
  <1>1. PICK n \in UniqueName(given) :
           Starts(s, [Idle EXCEPT !.pc = "named", !.name = n, !.exclusive = TRUE])
    BY DEF StartUnique
  <1> DEFINE to == [Idle EXCEPT !.pc = "named", !.name = n, !.exclusive = TRUE]
  <1>2. n \in FileNames
    BY DEF UniqueName
  <1>3. to \in AtStates
    BY <1>2, IdleStands DEF AtStates
  <1>4. to.pc = "named" /\ to.fd = NoFile /\ to.holds = "no"
    BY DEF Idle
  <1>5. Starts(s, to) /\ UNCHANGED <<config, dir, content, made, complete, harmed>>
    BY <1>1 DEF StartUnique
  <1> HIDE DEF to
  <1> QED
    BY <1>3, <1>4, <1>5, StartsNamed

(* The file is opened or made: a new file takes a free name and a number   *)
(* nobody else has.                                                        *)
LEMMA OpenUploadKeeps ==
    ASSUME FilesIInv, NEW s \in Sessions, OpenUpload(s)
    PROVE  FilesIInv'
  <1> DEFINE a == At(s)
             n == a.name
             With(i) == [[a EXCEPT !.pc = "open"] EXCEPT !.fd = i]
  <1>1. FilesTypeOK /\ Sound(a) /\ a \in AtStates
    BY AtType DEF FilesIInv
  <1>2. /\ a.pc = "named" /\ a.number # 0 /\ a.holds = "no" /\ n \in FileNames
        /\ a.number \in Nat /\ Command(s) = a.number
    BY <1>1 DEF Sound, Stands, OpenUpload, AtStates, NoCommand, Command
  <1>3. ASSUME NEW i \in Inodes
        PROVE  /\ With(i) \in AtStates
               /\ With(i).pc = "open" /\ With(i).fd = i /\ With(i).holds = "no"
               /\ With(i).name = n /\ With(i).number = a.number
               /\ With(i).exclusive = a.exclusive
    BY <1>1, <1>2 DEF AtStates
  <1>4. UNCHANGED <<config, content, complete, harmed>>
    BY DEF OpenUpload
  <1>5. CASE dir[n] # NoFile /\ a.exclusive
    BY <1>4, <1>5, EndsKeeps DEF OpenUpload, CreateExclusive
  <1>6. CASE dir[n] # NoFile /\ ~a.exclusive
    <2>1. dir[n] \in Inodes
      BY <1>1, <1>2, <1>6 DEF FilesTypeOK
    <2>2. Goes(s, With(dir[n])) /\ UNCHANGED <<dir, made>>
      BY <1>6 DEF OpenUpload, Create
    <2> DEFINE to == With(dir[n])
    <2>3. /\ to \in AtStates /\ to.pc = "open" /\ to.fd = dir[n] /\ to.holds = "no"
          /\ to.name = n /\ to.number = a.number /\ to.exclusive = a.exclusive
      BY <1>3, <2>1
    <2> HIDE DEF to
    <2>4. /\ At(s)' = to
          /\ \A t \in Sessions : t # s => At(t)' = At(t)
          /\ sess' \in SessStates /\ issued' \in Nat
      BY <1>1, <2>2, <2>3, GoesAt DEF FilesTypeOK, to
    <2>5. Sound(At(s))'
      BY <1>2, <1>4, <1>6, <2>1, <2>2, <2>3, <2>4
         DEF Sound, Stands, Named, Isolated, Owned, NoCommand
    <2> QED
      BY <1>4, <2>2, <2>3, <2>4, <2>5, OneMoves DEF Compatible
  <1>7. CASE dir[n] = NoFile
    <2>1. PICK i \in Inodes :
             /\ made[i] = NoCommand
             /\ made' = [made EXCEPT ![i] = Command(s)]
             /\ dir' = [dir EXCEPT ![n] = i]
             /\ Goes(s, With(i))
      BY <1>7 DEF OpenUpload, Create, CreateExclusive
    <2> DEFINE to == With(i)
    <2>2. /\ to \in AtStates /\ to.pc = "open" /\ to.fd = i /\ to.holds = "no"
          /\ to.name = n /\ to.number = a.number /\ to.exclusive = a.exclusive
      BY <1>3
    <2> HIDE DEF to
    <2>3. /\ At(s)' = to
          /\ \A t \in Sessions : t # s => At(t)' = At(t)
          /\ sess' \in SessStates /\ issued' \in Nat
      BY <1>1, <2>1, <2>2, GoesAt DEF FilesTypeOK, to
    <2>4. /\ dir' \in [FileNames -> Inodes \cup {NoFile}] /\ dir'[n] = i
          /\ made' \in [Inodes -> Nat] /\ made'[i] = a.number
          /\ \A m \in FileNames : m # n => dir'[m] = dir[m]
          /\ \A j \in Inodes : j # i => made'[j] = made[j]
      BY <1>1, <1>2, <2>1 DEF FilesTypeOK
    <2>5. FilesTypeOK'
      BY <1>1, <1>4, <2>3, <2>4 DEF FilesTypeOK, SessStates
    <2>6. ASSUME NEW t \in Sessions PROVE Sound(At(t))'
      <3>1. CASE t = s
        BY <3>1, <1>2, <1>4, <2>2, <2>3, <2>4
           DEF Sound, Stands, Named, Isolated, Owned, NoCommand
      <3>2. CASE t # s
        <4>1. Sound(At(t)) /\ At(t)' = At(t) /\ At(t) \in AtStates
          BY <1>1, <2>3, <3>2, AtType DEF FilesIInv
        <4>2. Stands(At(t), config.lock)' /\ Isolated(At(t))'
          BY <1>4, <4>1 DEF Sound, Isolated
        <4>3. Named(At(t))'
          BY <1>7, <2>4, <4>1 DEF Sound, Stands, Named, AtStates, Inodes, NoFile
        <4>4. Owned(At(t))'
          BY <2>1, <2>4, <4>1 DEF Sound, Stands, Owned, AtStates
        <4> QED
          BY <4>2, <4>3, <4>4 DEF Sound
      <3> QED
        BY <3>1, <3>2
    <2>7. LocksExclude'
      BY <2>2, <2>3, LocksKept DEF FilesIInv, Compatible
    <2>8. CompletedKept'
      <3> SUFFICES ASSUME NEW c \in complete PROVE dir'[c[1]] = c[2]
        BY <1>4 DEF CompletedKept
      <3>1. dir[c[1]] = c[2] /\ c[1] \in FileNames /\ c[2] \in Inodes
        BY <1>1 DEF FilesIInv, CompletedKept, FilesTypeOK
      <3> QED
        BY <3>1, <1>7, <2>4 DEF Inodes, NoFile
    <2> QED
      BY <1>4, <2>5, <2>6, <2>7, <2>8 DEF FilesIInv
  <1> QED
    BY <1>5, <1>6, <1>7

(* Writing a block to a sequence of blocks gives one.                      *)
LEMMA WriteAtType ==
    ASSUME NEW q \in Seq(Blocks), NEW pos \in Nat, NEW b \in Blocks
    PROVE  WriteAt(q, pos, b) \in Seq(Blocks)
  <1> DEFINE n == IF pos + 1 > Len(q) THEN pos + 1 ELSE Len(q)
             w(i) == IF i = pos + 1 THEN b ELSE IF i \in DOMAIN q THEN q[i] ELSE Zeros
  <1>1. n \in Nat
    OBVIOUS
  <1>2. ASSUME NEW i \in 1..n PROVE w(i) \in Blocks
    BY DEF Blocks
  <1>3. WriteAt(q, pos, b) = [i \in 1..n |-> w(i)]
    BY DEF WriteAt
  <1> HIDE DEF n, w
  <1> QED
    BY <1>1, <1>2, <1>3, IsASeq

(* A session that has its file to itself changes what the file holds.      *)
(* Whoever else has it open is neither reading nor writing, if there are   *)
(* locks.                                                                  *)
LEMMA OneWrites ==
    ASSUME FilesIInv, NEW s \in Sessions, NEW f \in Inodes, NEW blocks \in Seq(Blocks),
           content' = [content EXCEPT ![f] = blocks],
           UNCHANGED <<config, dir, made, complete, harmed>>,
           sess' \in SessStates, issued' \in Nat,
           \A t \in Sessions : t # s => At(t)' = At(t),
           Sound(At(s))',
           At(s)'.fd = f,
           At(s)'.holds = IF config.lock THEN "write" ELSE "no",
           \A t \in Sessions : t # s => Compatible(At(s)', At(t))
    PROVE  FilesIInv'
  <1>1. FilesTypeOK'
    BY DEF FilesIInv, FilesTypeOK, SessStates
  <1>2. ASSUME NEW t \in Sessions PROVE Sound(At(t))'
    <2>1. CASE t = s
      BY <2>1
    <2>2. CASE t # s
      <3>1. Sound(At(t)) /\ At(t)' = At(t) /\ At(t) \in AtStates
        BY <2>2, AtType DEF FilesIInv
      <3>2. config.lock /\ At(t).pc \in {"read", "write"} => At(t).fd # f
        BY <2>2, <3>1 DEF Compatible, Sound, Stands
      <3>3. content'[At(t).fd] = content[At(t).fd] \/ At(t).fd = f
        BY DEF FilesIInv, FilesTypeOK
      <3>4. Isolated(At(t))'
        BY <3>1, <3>2, <3>3 DEF Sound, Isolated
      <3> QED
        BY <3>1, <3>4 DEF Sound, Named, Owned
    <2> QED
      BY <2>1, <2>2
  <1>3. LocksExclude'
    BY LocksKept DEF FilesIInv
  <1>4. harmed' = {} /\ CompletedKept'
    BY DEF FilesIInv, CompletedKept
  <1> QED
    BY <1>1, <1>2, <1>3, <1>4 DEF FilesIInv

(* The write lock is granted when nobody else has a lock; the truncation   *)
(* comes after it.                                                         *)
LEMMA LockUploadKeeps ==
    ASSUME FilesIInv, NEW s \in Sessions, LockUpload(s)
    PROVE  FilesIInv'
  <1> DEFINE a == At(s)
             blocks == IF a.do_truncate THEN <<>> ELSE content[a.fd]
             held == IF config.lock THEN UploadLock ELSE "no"
             start == IF a.append THEN Len(blocks) ELSE a.pos
             to == [a EXCEPT !.pc = "write", !.holds = held, !.expect = blocks, !.pos = start]
  <1>1. FilesTypeOK /\ Sound(a) /\ a \in AtStates
    BY AtType DEF FilesIInv
  <1>2. a.pc = "open" /\ a.fd \in Inodes /\ a.pos \in Nat /\ a.number # NoCommand
    BY <1>1 DEF Sound, Stands, LockUpload, AtStates
  <1>3. blocks \in Seq(Blocks) /\ held \in {"no", "read", "write"}
    BY <1>1, <1>2 DEF FilesTypeOK, UploadLock
  <1>4. start \in Nat
    BY <1>2, <1>3
  <1>5. /\ content' = [content EXCEPT ![a.fd] = blocks] /\ Goes(s, to)
        /\ UNCHANGED <<config, dir, made, complete, harmed>>
    BY DEF LockUpload
  <1> HIDE DEF blocks, start
  <1>6. to \in AtStates
    BY <1>1, <1>3, <1>4 DEF AtStates
  <1>7. /\ to.pc = "write" /\ to.fd = a.fd /\ to.holds = held /\ to.expect = blocks
        /\ to.name = a.name /\ to.number = a.number /\ to.exclusive = a.exclusive
        /\ to.moved = a.moved
    BY <1>1 DEF AtStates
  <1> HIDE DEF to
  <1>8. /\ At(s)' = to
        /\ \A t \in Sessions : t # s => At(t)' = At(t)
        /\ sess' \in SessStates /\ issued' \in Nat
    BY <1>1, <1>5, <1>6, GoesAt DEF FilesTypeOK
  <1>9. content'[a.fd] = blocks
    BY <1>1, <1>2, <1>5 DEF FilesTypeOK
  <1>10. Sound(At(s))'
    BY <1>1, <1>2, <1>5, <1>7, <1>8, <1>9
       DEF Sound, Stands, Named, Isolated, Owned, UploadLock
  <1>11. ASSUME NEW t \in Sessions, t # s
         PROVE  Compatible(At(s)', At(t))
    <2>1. At(t).holds \in {"no", "read", "write"}
      BY <1>1, AtType DEF AtStates
    <2> QED
      BY <2>1, <1>7, <1>8, <1>11 DEF Compatible, LockUpload, LockFree, UploadLock
  <1> QED
    BY <1>2, <1>3, <1>5, <1>7, <1>8, <1>10, <1>11, OneWrites DEF UploadLock

(* A block is written; an exclusive upload writes to the file it made.     *)
LEMMA WriteBlockKeeps ==
    ASSUME FilesIInv, NEW s \in Sessions, WriteBlock(s)
    PROVE  FilesIInv'
  <1> DEFINE a == At(s)
             pos == IF a.exclusive THEN Len(content[a.fd]) ELSE a.pos
             blocks == WriteAt(content[a.fd], pos, Command(s))
             wanted == WriteAt(a.expect, pos, Command(s))
             to == [a EXCEPT !.pos = pos + 1, !.expect = wanted]
  <1>1. FilesTypeOK /\ Sound(a) /\ a \in AtStates
    BY AtType DEF FilesIInv
  <1>2. /\ a.pc = "write" /\ a.fd \in Inodes /\ a.pos \in Nat /\ a.number # NoCommand
        /\ a.expect \in Seq(Blocks) /\ content[a.fd] \in Seq(Blocks)
        /\ a.holds = IF config.lock THEN "write" ELSE "no"
    BY <1>1 DEF Sound, Stands, WriteBlock, AtStates, FilesTypeOK
  <1>3. pos \in Nat /\ pos + 1 \in Nat
    BY <1>2
  <1>4. Command(s) \in Blocks /\ Command(s) = a.number
    BY <1>1, AtType DEF Blocks
  <1>5. /\ content' = [content EXCEPT ![a.fd] = blocks] /\ Goes(s, to)
        /\ UNCHANGED <<config, dir, made, complete>>
    BY <1>1, <1>2 DEF WriteBlock, FilesTypeOK, AtStates
  <1>6. UNCHANGED harmed
    BY <1>1, <1>2, <1>4 DEF WriteBlock, Sound, Owned, Inodes, NoFile
  <1> HIDE DEF pos
  <1>7. blocks \in Seq(Blocks) /\ wanted \in Seq(Blocks)
    BY <1>2, <1>3, <1>4, WriteAtType
  <1>8. config.lock => blocks = wanted
    BY <1>1, <1>2 DEF Sound, Isolated
  <1> HIDE DEF blocks, wanted
  <1>9. to \in AtStates
    BY <1>1, <1>3, <1>7 DEF AtStates
  <1>10. /\ to.pc = "write" /\ to.fd = a.fd /\ to.holds = a.holds /\ to.expect = wanted
         /\ to.name = a.name /\ to.number = a.number /\ to.exclusive = a.exclusive
         /\ to.moved = a.moved
    BY <1>1, <1>2 DEF AtStates
  <1> HIDE DEF to
  <1>11. /\ At(s)' = to
         /\ \A t \in Sessions : t # s => At(t)' = At(t)
         /\ sess' \in SessStates /\ issued' \in Nat
    BY <1>1, <1>5, <1>9, GoesAt DEF FilesTypeOK
  <1>12. content'[a.fd] = blocks
    BY <1>1, <1>2, <1>5 DEF FilesTypeOK
  <1>13. Sound(At(s))'
    BY <1>1, <1>2, <1>5, <1>8, <1>10, <1>11, <1>12
       DEF Sound, Stands, Named, Isolated, Owned
  <1>14. ASSUME NEW t \in Sessions, t # s
         PROVE  Compatible(At(s)', At(t))
    BY <1>10, <1>11, <1>14 DEF Compatible, FilesIInv, LocksExclude
  <1> QED
    BY <1>2, <1>5, <1>6, <1>7, <1>10, <1>11, <1>13, <1>14, OneWrites

(* An upload that succeeds is under its name.                              *)
LEMMA EndUploadKeeps ==
    ASSUME FilesIInv, NEW s \in Sessions, EndUpload(s)
    PROVE  FilesIInv'
  <1> DEFINE a == At(s)
  <1>1. FilesTypeOK /\ Sound(a) /\ a \in AtStates
    BY AtType DEF FilesIInv
  <1>2. a.pc = "write" /\ a.fd \in Inodes /\ a.name \in FileNames
    BY <1>1 DEF Sound, Stands, EndUpload, AtStates
  <1>3. /\ At(s)' = Idle
        /\ \A t \in Sessions : t # s => At(t)' = At(t)
        /\ sess' \in SessStates /\ issued' \in Nat
    BY <1>1, IdleStands, GoesAt DEF FilesTypeOK, EndUpload
  <1>4. UNCHANGED <<config, dir, content, made, harmed>>
    BY DEF EndUpload
  <1>5. complete' \subseteq FileNames \X Inodes /\ CompletedKept'
    <2> SUFFICES ASSUME NEW c \in complete'
                 PROVE  c \in FileNames \X Inodes /\ dir[c[1]] = c[2]
      BY <1>4 DEF CompletedKept
    <2>1. CASE c \in complete
      BY <2>1, <1>1 DEF FilesIInv, CompletedKept, FilesTypeOK
    <2>2. CASE c = <<a.name, a.fd>> /\ ~a.moved
      BY <2>2, <1>1, <1>2 DEF Sound, Named
    <2> QED
      BY <2>1, <2>2 DEF EndUpload
  <1>6. FilesTypeOK'
    BY <1>1, <1>3, <1>4, <1>5 DEF FilesTypeOK, SessStates
  <1>7. Idle.pc = "idle" /\ Idle.fd = NoFile /\ Idle.holds = "no" /\ Idle.exclusive = FALSE
    BY DEF Idle
  <1>8. ASSUME NEW t \in Sessions PROVE Sound(At(t))'
    <2>1. CASE t = s
      BY <2>1, <1>3, <1>7 DEF Sound, Stands, Named, Isolated, Owned
    <2>2. CASE t # s
      BY <2>2, <1>3, <1>4 DEF FilesIInv, Sound, Named, Isolated, Owned
    <2> QED
      BY <2>1, <2>2
  <1>9. LocksExclude'
    BY <1>3, <1>7, LocksKept DEF FilesIInv, Compatible
  <1> QED
    BY <1>4, <1>5, <1>6, <1>8, <1>9 DEF FilesIInv

-----------------------------------------------------------------------------
(* Names that are taken away.                                              *)

(* Names change under uploads that are marked for it, and what was         *)
(* complete under these names is not spoken of any more.                   *)
LEMMA NamesTaken ==
    ASSUME FilesIInv, NEW s \in Sessions, NEW names, NEW f \in SessStates,
           sess' = MovedFrom(f, s, names),
           \A t \in Sessions : t # s => f[t].at = At(t),
           f[s].at.pc = "idle", f[s].at.fd = NoFile, f[s].at.holds = "no",
           f[s].at.exclusive = FALSE,
           dir' \in [FileNames -> Inodes \cup {NoFile}],
           \A n \in FileNames : n \notin names => dir'[n] = dir[n],
           complete' = {c \in complete : c[1] \notin names},
           UNCHANGED <<config, content, made, harmed>>, issued' \in Nat
    PROVE  FilesIInv'
  <1>1. FilesTypeOK
    BY DEF FilesIInv
  <1>2. /\ sess' \in SessStates
        /\ \A t \in Sessions :
              At(t)' = IF t \in Bereaved(s, names) THEN [f[t].at EXCEPT !.moved = TRUE]
                       ELSE f[t].at
    BY MovedAt
  <1>3. At(s)' = f[s].at
    BY <1>2 DEF Bereaved
  <1>4. ASSUME NEW t \in Sessions, t # s
        PROVE  /\ At(t)'.pc = At(t).pc /\ At(t)'.number = At(t).number
               /\ At(t)'.name = At(t).name /\ At(t)'.fd = At(t).fd
               /\ At(t)'.holds = At(t).holds /\ At(t)'.pos = At(t).pos
               /\ At(t)'.expect = At(t).expect /\ At(t)'.got = At(t).got
               /\ At(t)'.exclusive = At(t).exclusive
               /\ ~At(t)'.moved => ~At(t).moved /\ t \notin Bereaved(s, names)
    <2>1. At(t) \in AtStates
      BY <1>1, AtType
    <2>2. CASE t \in Bereaved(s, names)
      <3>1. At(t)' = [At(t) EXCEPT !.moved = TRUE]
        BY <1>2, <1>4, <2>2
      <3> QED
        BY <2>1, <3>1 DEF AtStates
    <2>3. CASE t \notin Bereaved(s, names)
      BY <1>2, <1>4, <2>3
    <2> QED
      BY <2>2, <2>3
  <1>5. FilesTypeOK'
    BY <1>1, <1>2 DEF FilesTypeOK, SessStates
  <1>6. ASSUME NEW t \in Sessions PROVE Sound(At(t))'
    <2>1. CASE t = s
      BY <2>1, <1>3 DEF Sound, Stands, Named, Isolated, Owned
    <2>2. CASE t # s
      <3>1. Sound(At(t)) /\ At(t) \in AtStates
        BY <1>1, AtType DEF FilesIInv
      <3>2. Stands(At(t), config.lock)'
        BY <1>4, <2>2, <3>1 DEF Sound, Stands
      <3>3. Isolated(At(t))' /\ Owned(At(t))'
        BY <1>4, <2>2, <3>1 DEF Sound, Isolated, Owned
      <3>4. Named(At(t))'
        <4> SUFFICES ASSUME At(t)'.pc \in {"open", "write"}, ~At(t)'.moved
                     PROVE  dir'[At(t)'.name] = At(t)'.fd
          BY DEF Named
        <4>1. At(t).name \in FileNames /\ At(t).name \notin names
          BY <1>4, <2>2, <3>1 DEF Bereaved, AtStates
        <4>2. dir[At(t).name] = At(t).fd
          BY <1>4, <2>2, <3>1 DEF Sound, Named
        <4> QED
          BY <1>4, <2>2, <4>1, <4>2
      <3> QED
        BY <3>2, <3>3, <3>4 DEF Sound
    <2> QED
      BY <2>1, <2>2
  <1>7. LocksExclude'
    <2> SUFFICES ASSUME NEW t \in Sessions, NEW u \in Sessions, t # u
                 PROVE  Compatible(At(t)', At(u)')
      BY DEF LocksExclude
    <2>1. CASE t = s \/ u = s
      BY <2>1, <1>3 DEF Compatible
    <2>2. CASE t # s /\ u # s
      BY <2>2, <1>4 DEF Compatible, FilesIInv, LocksExclude
    <2> QED
      BY <2>1, <2>2
  <1>8. CompletedKept'
    BY <1>1 DEF FilesIInv, CompletedKept, FilesTypeOK
  <1> QED
    BY <1>5, <1>6, <1>7, <1>8 DEF FilesIInv

(* A failed upload unlinks its name, which leads to its own file unless    *)
(* the name was taken away.                                                *)
LEMMA FailUploadKeeps ==
    ASSUME FilesIInv, NEW s \in Sessions, FailUpload(s)
    PROVE  FilesIInv'
  <1> DEFINE a == At(s)
  <1>1. FilesTypeOK /\ Sound(a) /\ a \in AtStates
    BY AtType DEF FilesIInv
  <1>2. a.pc = "write" /\ a.name \in FileNames
    BY <1>1 DEF FailUpload, AtStates
  <1>3. CASE ~config.del
    BY <1>3, EndsKeeps DEF FailUpload
  <1>4. CASE config.del
    <2>1. PICK f \in SessStates :
             /\ f[s].at = Idle
             /\ \A t \in Sessions : t # s => f[t].at = At(t)
             /\ sess' = MovedFrom(f, s, {a.name})
      <3>1. /\ [sess EXCEPT ![s].at = Idle] \in SessStates
            /\ [sess EXCEPT ![s].at = Idle][s].at = Idle
            /\ \A t \in Sessions : t # s => [sess EXCEPT ![s].at = Idle][t].at = At(t)
        BY <1>1, IdleStands DEF FilesTypeOK, SessStates, At
      <3>2. sess' = MovedFrom([sess EXCEPT ![s].at = Idle], s, {a.name})
        BY <1>4 DEF FailUpload
      <3> QED
        BY <3>1, <3>2
    <2>2. /\ dir' = [dir EXCEPT ![a.name] = NoFile]
          /\ complete' = {c \in complete : c[1] # a.name}
          /\ issued' = issued
          /\ UNCHANGED <<config, content, made>>
      <3>1. ASSUME NEW c \in complete, c[1] = a.name, ~a.moved PROVE c[2] = a.fd
        BY <1>1, <1>2, <3>1 DEF FilesIInv, CompletedKept, Sound, Named
      <3>2. /\ dir' = [dir EXCEPT ![a.name] = NoFile]
            /\ complete' = complete \ {c \in complete : c[1] = a.name /\ (c[2] = a.fd \/ a.moved)}
            /\ issued' = issued
            /\ UNCHANGED <<config, content, made>>
        BY <1>4 DEF FailUpload
      <3>3. a.moved \in BOOLEAN
        BY <1>1 DEF AtStates
      <3> QED
        BY <3>1, <3>2, <3>3
    <2>3. UNCHANGED harmed
      BY <1>1, <1>2, <1>4 DEF FailUpload, Sound, Named
    <2>4. /\ dir' \in [FileNames -> Inodes \cup {NoFile}]
          /\ \A n \in FileNames : n \notin {a.name} => dir'[n] = dir[n]
      BY <1>1, <1>2, <2>2 DEF FilesTypeOK
    <2>5. Idle.pc = "idle" /\ Idle.fd = NoFile /\ Idle.holds = "no" /\ Idle.exclusive = FALSE
      BY DEF Idle
    <2>6. complete' = {c \in complete : c[1] \notin {a.name}} /\ issued' \in Nat
      BY <1>1, <2>2 DEF FilesTypeOK
    <2>7. PICK names : names = {a.name}
      OBVIOUS
    <2>8. /\ sess' = MovedFrom(f, s, names)
          /\ \A n \in FileNames : n \notin names => dir'[n] = dir[n]
          /\ complete' = {c \in complete : c[1] \notin names}
      BY <2>1, <2>4, <2>6, <2>7
    <2>9. /\ f[s].at.pc = "idle" /\ f[s].at.fd = NoFile /\ f[s].at.holds = "no"
          /\ f[s].at.exclusive = FALSE
      BY <2>1, <2>5
    <2>10. \A t \in Sessions : t # s => f[t].at = At(t)
      BY <2>1
    <2>11. /\ UNCHANGED <<config, content, made, harmed>> /\ issued' \in Nat
           /\ dir' \in [FileNames -> Inodes \cup {NoFile}]
      BY <2>2, <2>3, <2>4, <2>6
    <2> QED
      BY <2>8, <2>9, <2>10, <2>11, NamesTaken
  <1> QED
    BY <1>3, <1>4

(* A session between commands holds nothing.                               *)
LEMMA ReadyHolds ==
    ASSUME FilesIInv, NEW s \in Sessions, Ready(s)
    PROVE  /\ FilesTypeOK /\ At(s).pc = "idle" /\ At(s).fd = NoFile /\ At(s).holds = "no"
           /\ At(s).exclusive = FALSE
  BY AtType DEF FilesIInv, Ready, Sound, Stands, AtStates

(* DELE.                                                                   *)
LEMMA DeleKeeps ==
    ASSUME FilesIInv, NEW s \in Sessions, NEW n \in FileNames, Dele(s, n)
    PROVE  FilesIInv'
  <1>1. /\ FilesTypeOK /\ At(s).pc = "idle" /\ At(s).fd = NoFile /\ At(s).holds = "no"
        /\ At(s).exclusive = FALSE
    BY ReadyHolds DEF Dele
  <1>2. /\ sess \in SessStates /\ \A t \in Sessions : sess[t].at = At(t)
        /\ sess' = MovedFrom(sess, s, {n})
    BY <1>1 DEF FilesTypeOK, SessStates, At, Dele
  <1>3. /\ dir' \in [FileNames -> Inodes \cup {NoFile}]
        /\ \A m \in FileNames : m \notin {n} => dir'[m] = dir[m]
    BY <1>1 DEF FilesTypeOK, Dele
  <1>4. complete' = {c \in complete : c[1] \notin {n}} /\ issued' \in Nat
    BY <1>1 DEF FilesTypeOK, Dele, Issued
  <1>5. UNCHANGED <<config, content, made, harmed>>
    BY DEF Dele
  <1> QED
    BY <1>1, <1>2, <1>3, <1>4, <1>5, NamesTaken

(* RNFR remembers a name.                                                  *)
LEMMA RnfrKeeps ==
    ASSUME FilesIInv, NEW s \in Sessions, NEW n \in FileNames, Rnfr(s, n)
    PROVE  FilesIInv'
  <1>1. FilesTypeOK
    BY DEF FilesIInv
  <1>2. /\ sess' \in SessStates /\ issued' \in Nat
        /\ \A t \in Sessions : At(t)' = At(t)
        /\ UNCHANGED <<config, dir, content, made, complete, harmed>>
    BY <1>1 DEF FilesTypeOK, SessStates, At, Rnfr
  <1>3. Sound(At(s))'
    BY <1>2 DEF FilesIInv, Sound, Named, Isolated, Owned
  <1>4. \A t \in Sessions : t # s => Compatible(At(s)', At(t))
    BY <1>2 DEF FilesIInv, LocksExclude
  <1> QED
    BY <1>2, <1>3, <1>4, OneMoves

(* RNTO takes both names away from those who work on them.                 *)
LEMMA RntoKeeps ==
    ASSUME FilesIInv, NEW s \in Sessions, NEW to \in FileNames, Rnto(s, to)
    PROVE  FilesIInv'
  <1>1. /\ FilesTypeOK /\ At(s).pc = "idle" /\ At(s).fd = NoFile /\ At(s).holds = "no"
        /\ At(s).exclusive = FALSE
    BY ReadyHolds DEF Rnto
  <1> DEFINE works(from) == dir[from] # NoFile /\ from # to
  <1>2. PICK f \in SessStates :
           /\ \A t \in Sessions : f[t].at = At(t)
           /\ f = [sess EXCEPT ![s].rnfr = {}]
    BY <1>1 DEF FilesTypeOK, SessStates, At
  <1>3. PICK from \in sess[s].rnfr :
           /\ dir' = IF works(from) THEN [dir EXCEPT ![to] = dir[from], ![from] = NoFile] ELSE dir
           /\ complete' = IF works(from) THEN {c \in complete : c[1] \notin {from, to}}
                          ELSE complete
           /\ sess' = IF works(from) THEN MovedFrom(f, s, {from, to}) ELSE f
    BY <1>2 DEF Rnto
  <1>4. issued' \in Nat /\ UNCHANGED <<config, content, made, harmed>>
    BY <1>1 DEF Rnto, Issued, FilesTypeOK
  <1>5. from \in FileNames
    BY <1>1 DEF FilesTypeOK
  <1>6. CASE works(from)
    <2>1. /\ dir' \in [FileNames -> Inodes \cup {NoFile}]
          /\ \A m \in FileNames : m \notin {from, to} => dir'[m] = dir[m]
      BY <1>1, <1>3, <1>5, <1>6 DEF FilesTypeOK
    <2>2. /\ sess' = MovedFrom(f, s, {from, to})
          /\ complete' = {c \in complete : c[1] \notin {from, to}}
      BY <1>3, <1>6
    <2>3. PICK names : names = {from, to}
      OBVIOUS
    <2>4. /\ sess' = MovedFrom(f, s, names)
          /\ \A m \in FileNames : m \notin names => dir'[m] = dir[m]
          /\ complete' = {c \in complete : c[1] \notin names}
      BY <2>1, <2>2, <2>3
    <2>5. /\ f[s].at.pc = "idle" /\ f[s].at.fd = NoFile /\ f[s].at.holds = "no"
          /\ f[s].at.exclusive = FALSE
      BY <1>1, <1>2
    <2>6. \A t \in Sessions : t # s => f[t].at = At(t)
      BY <1>2
    <2>7. dir' \in [FileNames -> Inodes \cup {NoFile}]
      BY <2>1
    <2> QED
      BY <1>4, <2>4, <2>5, <2>6, <2>7, NamesTaken
  <1>7. CASE ~works(from)
    <2>1. sess' = f /\ UNCHANGED <<config, dir, content, made, complete, harmed>>
      BY <1>3, <1>4, <1>7
    <2>2. sess' \in SessStates /\ \A t \in Sessions : At(t)' = At(t)
      BY <1>2, <2>1 DEF At
    <2>3. Sound(At(s))'
      BY <2>1, <2>2 DEF FilesIInv, Sound, Named, Isolated, Owned
    <2>4. \A t \in Sessions : t # s => Compatible(At(s)', At(t))
      BY <2>2 DEF FilesIInv, LocksExclude
    <2> QED
      BY <1>4, <2>1, <2>2, <2>3, <2>4, OneMoves
  <1> QED
    BY <1>6, <1>7

-----------------------------------------------------------------------------
(* The theorems.                                                           *)

(* At the start nobody has a command and there are no files.               *)
LEMMA InitFiles == FilesInit => FilesIInv
  <1> SUFFICES ASSUME FilesInit PROVE FilesIInv
    OBVIOUS
  <1>1. \A s \in Sessions : At(s) = Idle
    BY DEF FilesInit, At
  <1>2. Idle.pc = "idle" /\ Idle.fd = NoFile /\ Idle.holds = "no" /\ Idle.exclusive = FALSE
    BY DEF Idle
  <1>3. config \in [lock : BOOLEAN, del : BOOLEAN]
    BY FilesConstants DEF FilesInit
  <1>4. sess \in SessStates
    BY IdleStands DEF FilesInit, SessStates
  <1>5. FilesTypeOK
    BY <1>3, <1>4 DEF FilesInit, FilesTypeOK, SessStates, NoCommand
  <1>6. \A s \in Sessions : Sound(At(s))
    BY <1>1, <1>2 DEF Sound, Stands, Named, Isolated, Owned
  <1>7. LocksExclude
    BY <1>1, <1>2 DEF LocksExclude, Compatible
  <1> QED
    BY <1>5, <1>6, <1>7 DEF FilesIInv, FilesInit, CompletedKept

(* Every step keeps the invariant.                                         *)
LEMMA StepFiles == FilesIInv /\ [FilesNext]_fileVars => FilesIInv'
  <1> SUFFICES ASSUME FilesIInv, [FilesNext]_fileVars PROVE FilesIInv'
    OBVIOUS
  <1>1. CASE UNCHANGED fileVars
    BY <1>1 DEF fileVars, FilesIInv, FilesTypeOK, Sound, Stands, Named, Isolated, Owned,
                LocksExclude, Compatible, CompletedKept, At
  <1>2. CASE FilesNext
    <2>1. PICK s \in Sessions :
             \/ \E n \in FileNames :
                   \/ OpenRead(s, n)
                   \/ \E kind \in {"STOR", "APPE", "REST"} : StartUpload(s, n, kind)
                   \/ Dele(s, n) \/ Rnfr(s, n) \/ Rnto(s, n)
             \/ LockRead(s) \/ ReadBlock(s) \/ CloseRead(s)
             \/ \E given \in BOOLEAN : StartUnique(s, given)
             \/ OpenUpload(s) \/ LockUpload(s) \/ WriteBlock(s)
             \/ EndUpload(s) \/ FailUpload(s) \/ SessionDies(s)
      BY <1>2 DEF FilesNext
    <2> QED
      BY <2>1, OpenReadKeeps, StartUploadKeeps, DeleKeeps, RnfrKeeps, RntoKeeps,
         LockReadKeeps, ReadBlockKeeps, CloseReadKeeps, StartUniqueKeeps, OpenUploadKeeps,
         LockUploadKeeps, WriteBlockKeeps, EndUploadKeeps, FailUploadKeeps, SessionDiesKeeps
  <1> QED
    BY <1>1, <1>2

(* The inductive invariant holds in every reachable state.                 *)
THEOREM FilesInvariant == FilesSpec => []FilesIInv
  BY InitFiles, StepFiles, PTL DEF FilesSpec

(* With lock_upload_files, what a download sends and what an upload leaves *)
(* is its own, for any number of sessions on any number of files: the      *)
(* locks of postlogin.c are enough, because the truncation comes after     *)
(* them.                                                                   *)
THEOREM LocksIsolate == FilesSpec => []TransfersIsolated
  <1>1. FilesIInv => TransfersIsolated
    BY DEF FilesIInv, TransfersIsolated, Sound, Isolated
  <1> QED
    BY <1>1, FilesInvariant, PTL

(* Exclusive uploads, those of guests and of STOU, never touch the file of *)
(* another command, whatever happens between the choice of a name and its  *)
(* use.                                                                    *)
THEOREM ExclusiveUploads == FilesSpec => []GuestsHarmless
  <1>1. FilesIInv => GuestsHarmless
    BY AtType DEF FilesIInv, GuestsHarmless, Sound, Owned
  <1> QED
    BY <1>1, FilesInvariant, PTL

(* An upload answered with success stays under its name.                   *)
THEOREM UploadsKept == FilesSpec => []CompletedKept
  <1>1. FilesIInv => CompletedKept
    BY DEF FilesIInv
  <1> QED
    BY <1>1, FilesInvariant, PTL

=============================================================================
