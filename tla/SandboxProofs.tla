---------------------------- MODULE SandboxProofs ---------------------------
(***************************************************************************)
(* Proofs about the two sandboxes.                                         *)
(*                                                                         *)
(* Tracer, for any configuration and any calls the session attempts.       *)
(* TracerIInv is the inductive invariant: it says at which places of the   *)
(* tracer the session may be on which side of the kernel, and that the     *)
(* tracer's count agrees with the kernel at all of them, not only at the   *)
(* stops where the count is used.                                          *)
(*                                                                         *)
(* Seccomp and SandboxNeeds, for any configurations.  The compiled program *)
(* is run in the kernel: by induction over the rules, each block either    *)
(* returns its rule's verdict or leaves the run at the next block, so the  *)
(* program decides every call as the list of rules reads.  Then the lists  *)
(* of the four processes are taken apart into what they grant and refuse,  *)
(* and that is compared with what the code asks for.                       *)
(***************************************************************************)
EXTENDS Tracer, SandboxNeeds, TLAPS, WellFoundedInduction, SequenceTheorems,
        FiniteSetTheorems


-----------------------------------------------------------------------------
(* The inductive invariant.                                                *)

TracerTypeOK ==
    /\ tracer \in {"launch", "attach", "run", "wait", "kill", "done", "failed"}
    /\ pid \in BOOLEAN
    /\ is_exit \in BOOLEAN
    /\ session \in {"none", "starting", "running", "stopped", "dead"}
    /\ kernel \in {"user", "entry", "exit"}

(* Until the first continue nothing has been counted and the session is    *)
(* not in the kernel; only a session that was let go runs.                 *)
BeforeFirstContinue ==
    /\ tracer = "launch" => session = "none" /\ ~pid
    /\ tracer = "attach" => session \in {"starting", "stopped", "dead"}
    /\ tracer = "run" => session \in {"stopped", "dead"}
    /\ tracer \in {"launch", "attach", "run"} => ~is_exit /\ kernel = "user"

(* While the tracer waits its count is right, whatever the session does.   *)
CountInStep ==
    tracer = "wait" =>
        /\ session \in {"running", "stopped", "dead"}
        /\ session # "dead" => (is_exit <=> kernel = "exit")
        /\ session = "stopped" /\ stopsig # "SYSTRAP" => kernel = "user"

(* A session at an entry is stopped there, and one whose call was refused  *)
(* stays there until it is killed.                                         *)
EntryHeld ==
    /\ kernel = "entry" => session = "stopped"
    /\ pending # NoCall => kernel = "entry"
    /\ tracer = "kill" => session \in {"stopped", "dead"}

TracerIInv ==
    TracerTypeOK /\ BeforeFirstContinue /\ CountInStep /\ EntryHeld /\ TracerGuards

-----------------------------------------------------------------------------
(* Every step preserves the invariant.                                     *)

LEMMA TracerInitInv == TracerInit => TracerIInv
  BY DEF TracerInit, TracerIInv, TracerTypeOK, BeforeFirstContinue, CountInStep,
         EntryHeld, TracerGuards

(* One lemma for each action of the tracer, the session and whoever kills it.  *)
LEMMA LaunchInv == TracerIInv /\ LaunchProcess => TracerIInv'
  <1> SUFFICES ASSUME TracerIInv, LaunchProcess PROVE TracerIInv'
    OBVIOUS
  <1> USE DEF LaunchProcess, Histories, TracerIInv, BeforeFirstContinue
  <1>1. TracerTypeOK'
    BY DEF TracerTypeOK
  <1>2. (BeforeFirstContinue /\ CountInStep /\ EntryHeld)'
    BY DEF TracerTypeOK, CountInStep, EntryHeld
  <1>3. TracerGuards'
    BY DEF TracerTypeOK, TracerGuards
  <1> QED
    BY <1>1, <1>2, <1>3

LEMMA AttachInv ==
    TracerIInv /\ (AttachPoint \/ AttachStopped \/ AttachDied) => TracerIInv'
  <1> SUFFICES ASSUME TracerIInv, AttachPoint \/ AttachStopped \/ AttachDied
               PROVE  TracerIInv'
    OBVIOUS
  <1> USE DEF AttachPoint, AttachStopped, AttachDied, Stopped, Histories, TracerIInv,
              BeforeFirstContinue
  <1>1. TracerTypeOK'
    BY DEF TracerTypeOK
  <1>2. (BeforeFirstContinue /\ CountInStep /\ EntryHeld)'
    BY DEF TracerTypeOK, CountInStep, EntryHeld
  <1>3. TracerGuards'
    BY DEF TracerTypeOK, TracerGuards
  <1> QED
    BY <1>1, <1>2, <1>3

(* Outside an entry nothing runs when the session is let go.               *)
LEMMA FirstContinueInv == TracerIInv /\ FirstContinue => TracerIInv'
  BY DEF FirstContinue, Resume, Stopped, TracerIInv, TracerTypeOK,
         BeforeFirstContinue, CountInStep, EntryHeld, TracerGuards

LEMMA HandleSignalInv == TracerIInv /\ HandleSignal => TracerIInv'
  BY DEF HandleSignal, SignalToPass, Resume, Stopped, TracerIInv, TracerTypeOK,
         BeforeFirstContinue, CountInStep, EntryHeld, TracerGuards

LEMMA HandleExitInv == TracerIInv /\ HandleExit => TracerIInv'
  BY DEF HandleExit, Resume, Stopped, TracerIInv, TracerTypeOK,
         BeforeFirstContinue, CountInStep, EntryHeld, TracerGuards

(* The one step that runs a call: the policy has seen it.                  *)
LEMMA HandleEntryInv == TracerIInv /\ HandleEntry => TracerIInv'
  <1> SUFFICES ASSUME TracerIInv, HandleEntry PROVE TracerIInv'
    OBVIOUS
  <1>1. CASE get_action(tunables, pending)
    <2>1. kernel = "entry"
      BY DEF HandleEntry, TracerIInv, EntryHeld
    <2> QED
      BY <1>1, <2>1 DEF HandleEntry, Resume, Stopped, TracerIInv, TracerTypeOK,
         BeforeFirstContinue, CountInStep, EntryHeld, TracerGuards
  <1>2. CASE ~get_action(tunables, pending)
    BY <1>2 DEF HandleEntry, Stopped, Histories, TracerIInv, TracerTypeOK,
       BeforeFirstContinue, CountInStep, EntryHeld, TracerGuards
  <1> QED
    BY <1>1, <1>2

LEMMA KillInv == TracerIInv /\ (KillProcesses \/ HandleDeath) => TracerIInv'
  BY DEF KillProcesses, HandleDeath, Histories, TracerIInv, TracerTypeOK,
         BeforeFirstContinue, CountInStep, EntryHeld, TracerGuards

LEMMA EnterInv ==
    ASSUME NEW c \in TracedCalls
    PROVE  TracerIInv /\ EnterCall(c) => TracerIInv'
  BY DEF EnterCall, Histories, TracerIInv, TracerTypeOK, BeforeFirstContinue,
         CountInStep, EntryHeld, TracerGuards

LEMMA LeaveInv == TracerIInv /\ LeaveCall => TracerIInv'
  BY DEF LeaveCall, Histories, TracerIInv, TracerTypeOK, BeforeFirstContinue,
         CountInStep, EntryHeld, TracerGuards

LEMMA SignalInv ==
    ASSUME NEW sig \in {"SIGALRM", "SIGSTOP"}
    PROVE  TracerIInv /\ TakeSignal(sig) => TracerIInv'
  BY DEF TakeSignal, Histories, TracerIInv, TracerTypeOK, BeforeFirstContinue,
         CountInStep, EntryHeld, TracerGuards

LEMMA RogueKillInv == TracerIInv /\ RogueKill => TracerIInv'
  BY DEF RogueKill, TracerIInv, TracerTypeOK, BeforeFirstContinue, CountInStep,
         EntryHeld, TracerGuards

LEMMA TracerStepInv == TracerIInv /\ [TracerNext]_traceVars => TracerIInv'
  <1>1. TracerIInv /\ UNCHANGED traceVars => TracerIInv'
    BY DEF traceVars, TracerIInv, TracerTypeOK, BeforeFirstContinue, CountInStep,
           EntryHeld, TracerGuards
  <1> QED
    BY <1>1, LaunchInv, AttachInv, FirstContinueInv, HandleSignalInv, HandleExitInv,
       HandleEntryInv, KillInv, EnterInv, LeaveInv, SignalInv, RogueKillInv
       DEF TracerNext

-----------------------------------------------------------------------------
(* The theorems.                                                           *)

LEMMA TracerInvariant == TracerSpec => []TracerIInv
  BY TracerInitInv, TracerStepInv, PTL DEF TracerSpec

(* Whatever calls a session attempts, in whatever order entries, exits,    *)
(* signals and kills happen, the tracer of ptracesandbox.c runs only calls *)
(* that get_action permits, its count of stops agrees with the kernel, and *)
(* it never ends with its session alive.                                   *)
THEOREM TracerIsSound == TracerSpec => []TracerGuards
  <1>1. TracerIInv => TracerGuards
    BY DEF TracerIInv
  <1> QED
    BY <1>1, TracerInvariant, PTL

(* What that keeps a session from: the calls of ftppolicy.c start no       *)
(* process or program and signal nobody, change no directory and cut no    *)
(* file by name or descriptor without write_enable, connect only with      *)
(* port_enable and only to the client, open nothing for writing without    *)
(* write_enable, and ask for SIGURG and SIGIO for the session alone.  That *)
(* is not yet no writing: validate_open_readonly looks at the access mode  *)
(* and lets O_CREAT and O_TRUNC through (ptracesandbox.c:807).             *)
ChangeCalls == {"unlink", "mkdir", "rmdir", "rename", "ftruncate", "ftruncate64"}
ChangePermits == {"unlink", "mkdir", "rmdir", "rename", "ftruncate"}
ProcessCalls == {"fork", "vfork", "clone", "execve", "kill"}
Confined(t, c) ==
    /\ c.cs = "32bit" /\ c.nr \notin ProcessCalls
    /\ c.nr \in ChangeCalls => "write_enable" \in t
    /\ c.nr = "open" /\ c.args[2] \cap {"O_WRONLY", "O_RDWR"} # {} => "write_enable" \in t
    /\ c.nr = "connect" => "port_enable" \in t /\ c.args[2] = {"PF_INET", "client"}
    /\ c.nr \in {"fcntl", "fcntl64"} /\ c.args[2] = {"F_SETOWN"} => c.args[3] = {"pid"}

(* No permission of ptracesandbox.c covers a call that starts a process.   *)
LEMMA NothingPermitsProcesses ==
    ASSUME NEW permits
    PROVE  CallsOf(permits) \cap ProcessCalls = {}
  <1>1. \A p \in DOMAIN PermitBasics : PermitBasics[p] \cap ProcessCalls = {}
    BY DEF PermitBasics, ProcessCalls
  <1>2. \A p \in DOMAIN PermitFiles : PermitFiles[p] \cap ProcessCalls = {}
    BY DEF PermitFiles, ProcessCalls
  <1>3. \A p \in DOMAIN PermitChanges : PermitChanges[p] \cap ProcessCalls = {}
    BY DEF PermitChanges, ProcessCalls
  <1>4. \A p \in DOMAIN PermitRest : PermitRest[p] \cap ProcessCalls = {}
    BY DEF PermitRest, ProcessCalls
  <1> QED
    BY <1>1, <1>2, <1>3, <1>4 DEF CallsOf

(* The permissions that cover changes, and connect.                        *)
LEMMA OnePermission ==
    ASSUME NEW permits, NEW nr, nr \in CallsOf(permits)
    PROVE  /\ nr \in ChangeCalls => permits \cap ChangePermits # {}
           /\ nr = "connect" => "connect" \in permits
  <1>1. \A p \in DOMAIN PermitBasics : PermitBasics[p] \cap (ChangeCalls \cup {"connect"}) = {}
    BY DEF PermitBasics, ChangeCalls
  <1>2. \A p \in DOMAIN PermitFiles : PermitFiles[p] \cap (ChangeCalls \cup {"connect"}) = {}
    BY DEF PermitFiles, ChangeCalls
  <1>3. \A p \in DOMAIN PermitChanges :
           /\ PermitChanges[p] \cap ChangeCalls # {} => p \in ChangePermits
           /\ "connect" \notin PermitChanges[p]
    BY DEF PermitChanges, ChangeCalls, ChangePermits
  <1>4. \A p \in DOMAIN PermitRest :
           /\ PermitRest[p] \cap ChangeCalls # {} => p \in ChangePermits
           /\ "connect" \in PermitRest[p] => p = "connect"
    BY DEF PermitRest, ChangeCalls, ChangePermits
  <1> QED
    BY <1>1, <1>2, <1>3, <1>4 DEF CallsOf

(* They are granted to a server that writes, or that takes PORT.           *)
LEMMA Granted ==
    ASSUME NEW t
    PROVE  /\ policy_setup(t) \cap ChangePermits # {} => "write_enable" \in t
           /\ "connect" \in policy_setup(t) => "port_enable" \in t
  BY DEF policy_setup, ChangePermits

THEOREM PolicyConfines == TracerSpec => [](\A c \in executed : Confined(tunables, c))
  <1>1. ASSUME NEW t, NEW c, get_action(t, c)
        PROVE  Confined(t, c)
    <2>1. c.cs = "32bit" /\ c.nr \in CallsOf(policy_setup(t)) /\ Validated(t, c)
      BY <1>1 DEF get_action
    <2>2. c.nr \notin ProcessCalls
      BY <2>1, NothingPermitsProcesses
    <2>3. /\ c.nr \in ChangeCalls => "write_enable" \in t
          /\ c.nr = "connect" => "port_enable" \in t
      BY <2>1, OnePermission, Granted
    <2>4. c.nr = "connect" => c.args[2] = {"PF_INET", "client"}
      BY <2>1 DEF Validated, connect_validator
    <2>5. c.nr = "open" /\ "write_enable" \notin t
            => c.args[2] \cap {"O_WRONLY", "O_RDWR"} = {}
      BY <2>1 DEF Validated, validate_open_readonly
    <2>6. c.nr \in {"fcntl", "fcntl64"} /\ c.args[2] = {"F_SETOWN"} => c.args[3] = {"pid"}
      BY <2>1 DEF Validated, validate_fcntl
    <2> QED
      BY <2>1, <2>2, <2>3, <2>4, <2>5, <2>6 DEF Confined
  <1>2. TracerGuards => \A c \in executed : Confined(tunables, c)
    BY <1>1 DEF TracerGuards
  <1> QED
    BY <1>2, TracerIsSound, PTL

(* Once a kill from elsewhere has run the call the session was stopped at, *)
(* nothing more runs, neither under the tracer nor by another such kill.   *)
NoRunAfterRace ==
    [][raced # {} => executed' = executed /\ raced' = raced /\ session' = "dead"]_traceVars

(* A session that a kill from elsewhere let past the tracer is dead, and   *)
(* stays so, whatever the tracer and other kills do afterwards.            *)
THEOREM RacedIsLast == TracerSpec => NoRunAfterRace
  <1>1. TracerIInv /\ [TracerNext]_traceVars
          => [raced # {} => executed' = executed /\ raced' = raced /\ session' = "dead"]_traceVars
    <2> SUFFICES ASSUME TracerIInv, TracerNext, raced # {}
                 PROVE  executed' = executed /\ raced' = raced /\ session' = "dead"
      OBVIOUS
    <2>1. session = "dead" /\ tracer # "launch"
      BY DEF TracerIInv, TracerGuards, BeforeFirstContinue
    <2> QED
      BY <2>1 DEF TracerNext, LaunchProcess, AttachPoint, AttachStopped, AttachDied,
         FirstContinue, HandleSignal, HandleExit, HandleEntry, HandleDeath, KillProcesses,
         EnterCall, LeaveCall, TakeSignal, RogueKill, Stopped, Histories
  <1> QED
    BY <1>1, TracerInvariant, PTL DEF TracerSpec, NoRunAfterRace

-----------------------------------------------------------------------------
(* Numbers, sequences and programs.                                        *)

(* Every set of natural numbers has a least element.                       *)
LEMMA LeastNumber ==
    ASSUME NEW T \in SUBSET Nat, T # {}
    PROVE  \E m \in T : \A k \in T : m <= k
<1> DEFINE R == {ss \in Nat \X Nat : ss[1] < ss[2]}
<1>1. IsWellFoundedOn(R, Nat)
    BY NatLessThanWellFounded, Zenon DEF OpToRel
<1>2. \A x, y \in Nat : x < y => <<x, y>> \in R
    OBVIOUS
<1> HIDE DEF R
<1>3. PICK x \in T : \A y \in T : ~ (<<y, x>> \in R)
    BY <1>1, WFMin
<1>4. \A y \in T : ~ (y < x)
    BY <1>2, <1>3
<1> QED BY <1>4

(* Induction: a set that holds 0 and with every number up to a bound its   *)
(* successor holds all numbers up to the bound.                            *)
LEMMA Induction ==
    ASSUME NEW N \in Nat, NEW S,
           0 \in S, \A n \in 0..(N - 1) : n \in S => n + 1 \in S
    PROVE  0..N \subseteq S
<1>1. SUFFICES ASSUME 0..N \ S # {} PROVE FALSE
    OBVIOUS
<1>2. 0..N \ S \in SUBSET Nat
    OBVIOUS
<1>3. PICK m \in 0..N \ S : \A k \in 0..N \ S : m <= k
    BY <1>1, <1>2, LeastNumber
<1>4. m # 0 /\ m - 1 \in 0..(N - 1) /\ m - 1 \notin 0..N \ S
    BY <1>3
<1> QED BY <1>4

(* Sequences of whatever they hold, put together.                          *)
IsSeq(s) == s \in Seq({s[i] : i \in DOMAIN s})

Glue(s, t) == s \o t

(* The members of Seq(S) are sequences, whatever S is.                     *)
LEMMA IsSeqOf ==
    ASSUME NEW V, NEW s \in Seq(V)
    PROVE  IsSeq(s) /\ Len(s) \in Nat /\ DOMAIN s = 1..Len(s)
<1>1. Len(s) \in Nat /\ DOMAIN s = 1..Len(s)
    BY LenProperties
<1> QED BY <1>1 DEF IsSeq

(* A sequence is a function on the numbers from 1 to its length.           *)
LEMMA SeqLength ==
    ASSUME NEW s, IsSeq(s)
    PROVE  Len(s) \in Nat /\ DOMAIN s = 1..Len(s)
  BY LenProperties DEF IsSeq

(* What concatenation does to length and elements.                         *)
LEMMA Glued ==
    ASSUME NEW s, NEW t, IsSeq(s), IsSeq(t)
    PROVE  /\ IsSeq(Glue(s, t))
           /\ Len(Glue(s, t)) = Len(s) + Len(t)
           /\ \A i \in 1..Len(s) : Glue(s, t)[i] = s[i]
           /\ \A i \in 1..Len(t) : Glue(s, t)[Len(s) + i] = t[i]
<1> DEFINE A == {s[i] : i \in DOMAIN s}
           B == {t[i] : i \in DOMAIN t}
           V == A \cup B
           w == s \o t
<1>1. s \in Seq(A) /\ t \in Seq(B)
    BY DEF IsSeq
<1> HIDE DEF A, B
<1>2. s \in Seq(V) /\ t \in Seq(V)
    BY <1>1
<1>3. Len(s) \in Nat /\ Len(t) \in Nat
    BY <1>2, LenProperties
<1> HIDE DEF V
<1>4. /\ w \in Seq(V) /\ Len(w) = Len(s) + Len(t)
      /\ \A i \in 1..(Len(s) + Len(t)) : w[i] = IF i <= Len(s) THEN s[i] ELSE t[i - Len(s)]
    BY <1>2, ConcatProperties
<1> HIDE DEF w
<1>5. IsSeq(w)
    BY <1>4, IsSeqOf
<1>6. ASSUME NEW i \in 1..Len(s) PROVE w[i] = s[i]
    BY <1>3, <1>4
<1>7. ASSUME NEW i \in 1..Len(t) PROVE w[Len(s) + i] = t[i]
  <2>1. Len(s) + i \in 1..(Len(s) + Len(t)) /\ ~(Len(s) + i <= Len(s))
              /\ (Len(s) + i) - Len(s) = i
    BY <1>3
  <2> QED BY <1>4, <2>1
<1> QED BY <1>4, <1>5, <1>6, <1>7 DEF w, Glue

(* The instructions of blk are in prog behind the first at.                *)
Holds(prog, at, blk) == \A k \in 1..Len(blk) : prog[at + k] = blk[k]

(* A program that holds a concatenation at some place holds both parts     *)
(* there, one behind the other.                                            *)
LEMMA HoldsParts ==
    ASSUME NEW prog, NEW at, NEW s, NEW t, at \in Nat, IsSeq(s), IsSeq(t),
           Holds(prog, at, Glue(s, t))
    PROVE  Holds(prog, at, s) /\ Holds(prog, at + Len(s), t)
<1>1. Len(s) \in Nat /\ Len(t) \in Nat
    BY SeqLength
<1>2. /\ Len(Glue(s, t)) = Len(s) + Len(t)
      /\ \A i \in 1..Len(s) : Glue(s, t)[i] = s[i]
      /\ \A i \in 1..Len(t) : Glue(s, t)[Len(s) + i] = t[i]
    BY Glued
<1>3. \A k \in 1..(Len(s) + Len(t)) : prog[at + k] = Glue(s, t)[k]
    BY <1>2 DEF Holds
<1>4. ASSUME NEW k \in 1..Len(s) PROVE prog[at + k] = s[k]
  <2>1. k \in 1..(Len(s) + Len(t))
    BY <1>1
  <2> QED BY <1>2, <1>3, <2>1
<1>5. ASSUME NEW k \in 1..Len(t) PROVE prog[(at + Len(s)) + k] = t[k]
  <2>1. Len(s) + k \in 1..(Len(s) + Len(t)) /\ (at + Len(s)) + k = at + (Len(s) + k)
    BY <1>1
  <2>2. prog[at + (Len(s) + k)] = Glue(s, t)[Len(s) + k]
    BY <1>3, <2>1
  <2> QED BY <1>2, <2>1, <2>2
<1> QED BY <1>4, <1>5 DEF Holds

(* A concatenation holds each of its parts.                                *)
LEMMA HoldsInGlued ==
    ASSUME NEW s, NEW t, NEW at, NEW blk, at \in Nat, IsSeq(s), IsSeq(t), IsSeq(blk),
           at + Len(blk) <= Len(s), Holds(s, at, blk)
    PROVE  Holds(Glue(s, t), at, blk)
<1>1. Len(s) \in Nat /\ Len(blk) \in Nat
    BY SeqLength
<1>2. \A i \in 1..Len(s) : Glue(s, t)[i] = s[i]
    BY Glued
<1>3. ASSUME NEW k \in 1..Len(blk) PROVE Glue(s, t)[at + k] = blk[k]
  <2>1. at + k \in 1..Len(s)
    BY <1>1
  <2>2. s[at + k] = blk[k]
    BY DEF Holds
  <2> QED BY <1>2, <2>1, <2>2
<1> QED BY <1>3 DEF Holds

(* A program holds the one instruction appended to it.                     *)
LEMMA HoldsLast ==
    ASSUME NEW s, NEW t, IsSeq(s), IsSeq(t)
    PROVE  Holds(Glue(s, t), Len(s), t)
  BY Glued DEF Holds

-----------------------------------------------------------------------------
(* The loop over the rules satisfies the equation that defines it.         *)
Wrote(list, v, i) == Glue(v, Block(list[i]))

WrittenAs(list, N, F) ==
    F = [i \in 0..N |-> IF i = 0 THEN Header ELSE Wrote(list, F[i - 1], i)]

(* The recursive function that lays the blocks out exists: by induction on *)
(* the number of rules, for all bounds up to the length of the list.       *)
LEMMA WrittenExists ==
    ASSUME NEW list, NEW N \in Nat
    PROVE  \E F : WrittenAs(list, N, F)
<1> DEFINE S == {n \in Nat : \E F : WrittenAs(list, n, F)}
<1>1. 0 \in S
  <2> DEFINE F == [n \in 0..0 |-> Header]
  <2>1. WrittenAs(list, 0, F)
    BY DEF WrittenAs
  <2> QED BY <2>1
<1>2. ASSUME NEW k \in 0..(N - 1), k \in S PROVE k + 1 \in S
  <2>1. PICK F : WrittenAs(list, k, F)
    BY <1>2
  <2> DEFINE v == Wrote(list, F[k], k + 1)
             G == [n \in 0..(k + 1) |-> IF n = k + 1 THEN v ELSE F[n]]
             H == [n \in 0..(k + 1) |-> IF n = 0 THEN Header ELSE Wrote(list, G[n - 1], n)]
  <2>2. DOMAIN F = 0..k /\ F[0] = Header
    BY <2>1 DEF WrittenAs
  <2>3. ASSUME NEW n \in 0..(k + 1) PROVE G[n] = H[n]
    <3>1. CASE n = 0
      BY <2>2, <3>1
    <3>2. CASE n = k + 1
      <4>1. G[n - 1] = F[k] BY <3>2
      <4>2. G[n] = v BY <3>2
      <4>3. H[n] = Wrote(list, G[n - 1], n) BY <3>2
      <4> QED BY <4>1, <4>2, <4>3, <3>2
    <3>3. CASE n \in 1..k
      <4>1. F[n] = Wrote(list, F[n - 1], n) BY <2>1, <3>3 DEF WrittenAs
      <4>2. G[n] = F[n] /\ G[n - 1] = F[n - 1] BY <3>3
      <4>3. H[n] = Wrote(list, G[n - 1], n) BY <3>3
      <4> QED BY <4>1, <4>2, <4>3
    <3> QED BY <3>1, <3>2, <3>3
  <2>4. G = H
    BY <2>3
  <2>5. WrittenAs(list, k + 1, G)
    BY <2>4 DEF WrittenAs
  <2> QED BY <2>5
<1> HIDE DEF S
<1>3. 0..N \subseteq S
    BY <1>1, <1>2, Induction
<1> QED BY <1>3 DEF S

(* So Written satisfies the equation it is defined by.                     *)
LEMMA WrittenEquation ==
    ASSUME NEW list, Len(list) \in Nat
    PROVE  /\ Written(list)[0] = Header
           /\ \A i \in 1..Len(list) :
                 Written(list)[i] = Glue(Written(list)[i - 1], Block(list[i]))
<1> DEFINE F == Written(list)
<1>1. PICK G : WrittenAs(list, Len(list), G)
    BY WrittenExists
<1>2. WrittenAs(list, Len(list), F)
    BY <1>1 DEF Written, WrittenAs, Wrote, Glue
<1> HIDE DEF F
<1>3. F[0] = Header
    BY <1>2 DEF WrittenAs
<1>4. ASSUME NEW i \in 1..Len(list) PROVE F[i] = Wrote(list, F[i - 1], i)
    BY <1>2 DEF WrittenAs
<1>5. QED
    BY <1>3, <1>4 DEF F, Wrote

(* The execution satisfies the equation that defines it.                   *)
Start == [pc |-> 1, acc |-> "none"]

ExecutionAs(prog, call, N, F) ==
    F = [k \in 0..N |-> IF k = 0 THEN Start ELSE Instruction(prog, call, F[k - 1])]

(* The recursive function that runs the program exists, by induction on    *)
(* the number of instructions run.                                         *)
LEMMA ExecutionExists ==
    ASSUME NEW prog, NEW call, NEW N \in Nat
    PROVE  \E F : ExecutionAs(prog, call, N, F)
<1> DEFINE S == {n \in Nat : \E F : ExecutionAs(prog, call, n, F)}
<1>1. 0 \in S
  <2> DEFINE F == [n \in 0..0 |-> Start]
  <2>1. ExecutionAs(prog, call, 0, F)
    BY DEF ExecutionAs
  <2> QED BY <2>1
<1>2. ASSUME NEW k \in 0..(N - 1), k \in S PROVE k + 1 \in S
  <2>1. PICK F : ExecutionAs(prog, call, k, F)
    BY <1>2
  <2> DEFINE v == Instruction(prog, call, F[k])
             G == [n \in 0..(k + 1) |-> IF n = k + 1 THEN v ELSE F[n]]
             H == [n \in 0..(k + 1) |->
                     IF n = 0 THEN Start ELSE Instruction(prog, call, G[n - 1])]
  <2>2. DOMAIN F = 0..k /\ F[0] = Start
    BY <2>1 DEF ExecutionAs
  <2>3. ASSUME NEW n \in 0..(k + 1) PROVE G[n] = H[n]
    <3>1. CASE n = 0
      BY <2>2, <3>1
    <3>2. CASE n = k + 1
      <4>1. G[n - 1] = F[k] BY <3>2
      <4>2. G[n] = v BY <3>2
      <4>3. H[n] = Instruction(prog, call, G[n - 1]) BY <3>2
      <4> QED BY <4>1, <4>2, <4>3
    <3>3. CASE n \in 1..k
      <4>1. F[n] = Instruction(prog, call, F[n - 1]) BY <2>1, <3>3 DEF ExecutionAs
      <4>2. G[n] = F[n] /\ G[n - 1] = F[n - 1] BY <3>3
      <4>3. H[n] = Instruction(prog, call, G[n - 1]) BY <3>3
      <4> QED BY <4>1, <4>2, <4>3
    <3> QED BY <3>1, <3>2, <3>3
  <2>4. G = H
    BY <2>3
  <2>5. ExecutionAs(prog, call, k + 1, G)
    BY <2>4 DEF ExecutionAs
  <2> QED BY <2>5
<1> HIDE DEF S
<1>3. 0..N \subseteq S
    BY <1>1, <1>2, Induction
<1> QED BY <1>3 DEF S

(* So Execution satisfies the equation it is defined by.                   *)
LEMMA ExecutionEquation ==
    ASSUME NEW prog, NEW call, Len(prog) \in Nat
    PROVE  /\ Execution(prog, call)[0] = Start
           /\ \A k \in 1..Len(prog) :
                 Execution(prog, call)[k] = Instruction(prog, call, Execution(prog,
                       call)[k - 1])
<1> DEFINE F == Execution(prog, call)
<1>1. PICK G : ExecutionAs(prog, call, Len(prog), G)
    BY ExecutionExists
<1>2. ExecutionAs(prog, call, Len(prog), F)
    BY <1>1 DEF Execution, ExecutionAs, Start
<1> HIDE DEF F
<1>3. F[0] = Start
    BY <1>2 DEF ExecutionAs
<1>4. ASSUME NEW k \in 1..Len(prog) PROVE F[k] = Instruction(prog, call, F[k - 1])
    BY <1>2 DEF ExecutionAs
<1>5. QED
    BY <1>3, <1>4 DEF F

-----------------------------------------------------------------------------
(* The kernel gets to instruction pc with acc in the accumulator.  Since   *)
(* it only goes forward, that takes fewer than pc instructions.            *)
At(pc, acc) == [pc |-> pc, acc |-> acc]

Reaches(prog, call, pc, acc) ==
    \E k \in 0..(pc - 1) : Execution(prog, call)[k] = At(pc, acc)

(* Every instruction but a return takes the run one step on.               *)
LEMMA Forward ==
    ASSUME NEW prog, NEW call, NEW pc, NEW acc, NEW to, NEW word,
           Len(prog) \in Nat, pc \in 1..Len(prog), to \in Nat, to > pc,
           Reaches(prog, call, pc, acc),
           Instruction(prog, call, At(pc, acc)) = At(to, word)
    PROVE  Reaches(prog, call, to, word)
<1>1. PICK k \in 0..(pc - 1) : Execution(prog, call)[k] = At(pc, acc)
    BY DEF Reaches
<1>2. k + 1 \in 1..Len(prog) /\ k + 1 \in 0..(to - 1) /\ (k + 1) - 1 = k
    BY <1>1
<1>3. Execution(prog, call)[k + 1] = Instruction(prog, call, Execution(prog, call)[k])
    BY <1>2, ExecutionEquation
<1>4. Execution(prog, call)[k + 1] = At(to, word)
    BY <1>1, <1>3
<1> QED BY <1>2, <1>4 DEF Reaches

(* A load of the number or the architecture.                               *)
LEMMA Loads ==
    ASSUME NEW prog, NEW call, NEW pc, NEW acc, NEW w,
           Len(prog) \in Nat, pc \in 1..Len(prog), Reaches(prog, call, pc, acc),
           prog[pc] = Ld(w)
    PROVE  Reaches(prog, call, pc + 1, call[w])
<1>1. Instruction(prog, call, At(pc, acc)) = At(pc + 1, call[w])
    BY DEF Instruction, At, Ld
<1>2. pc + 1 \in Nat /\ pc + 1 > pc
    OBVIOUS
<1> QED BY <1>1, <1>2, Forward

(* A load of an argument.                                                  *)
LEMMA LoadsArg ==
    ASSUME NEW prog, NEW call, NEW pc, NEW acc, NEW n,
           Len(prog) \in Nat, pc \in 1..Len(prog), Reaches(prog, call, pc, acc),
           prog[pc] = LdArg(n)
    PROVE  Reaches(prog, call, pc + 1, call.args[n])
<1>1. Instruction(prog, call, At(pc, acc)) = At(pc + 1, call.args[n])
    BY DEF Instruction, At, LdArg
<1>2. pc + 1 \in Nat /\ pc + 1 > pc
    OBVIOUS
<1> QED BY <1>1, <1>2, Forward

(* A comparison goes on where the jump says.                               *)
LEMMA JumpsIfEqual ==
    ASSUME NEW prog, NEW call, NEW pc, NEW acc, NEW v, NEW jt, NEW jf,
           Len(prog) \in Nat, pc \in 1..Len(prog), Reaches(prog, call, pc, acc),
           jt \in Nat, jf \in Nat, prog[pc] = Jump("jeq", v, jt, jf)
    PROVE  /\ acc = v => Reaches(prog, call, pc + 1 + jt, acc)
           /\ acc # v => Reaches(prog, call, pc + 1 + jf, acc)
<1>1. acc = v => Instruction(prog, call, At(pc, acc)) = At(pc + 1 + jt, acc)
    BY DEF Instruction, At, Jump
<1>2. acc # v => Instruction(prog, call, At(pc, acc)) = At(pc + 1 + jf, acc)
    BY DEF Instruction, At, Jump
<1>3. /\ pc + 1 + jt \in Nat /\ pc + 1 + jt > pc
      /\ pc + 1 + jf \in Nat /\ pc + 1 + jf > pc
    OBVIOUS
<1> QED BY <1>1, <1>2, <1>3, Forward

(* So does the test for a flag outside a mask.                             *)
LEMMA JumpsIfOutside ==
    ASSUME NEW prog, NEW call, NEW pc, NEW acc, NEW v, NEW jt, NEW jf,
           Len(prog) \in Nat, pc \in 1..Len(prog), Reaches(prog, call, pc, acc),
           jt \in Nat, jf \in Nat, prog[pc] = Jump("jset", v, jt, jf)
    PROVE  /\ ~(acc \subseteq v) => Reaches(prog, call, pc + 1 + jt, acc)
           /\ acc \subseteq v => Reaches(prog, call, pc + 1 + jf, acc)
<1>1. ~(acc \subseteq v) => Instruction(prog, call, At(pc, acc)) = At(pc + 1 + jt, acc)
    BY DEF Instruction, At, Jump
<1>2. acc \subseteq v => Instruction(prog, call, At(pc, acc)) = At(pc + 1 + jf, acc)
    BY DEF Instruction, At, Jump
<1>3. /\ pc + 1 + jt \in Nat /\ pc + 1 + jt > pc
      /\ pc + 1 + jf \in Nat /\ pc + 1 + jf > pc
    OBVIOUS
<1> QED BY <1>1, <1>2, <1>3, Forward

(* What the program returns.                                               *)
Decision(prog, call) == prog[Execution(prog, call)[Len(prog)].pc].k

(* A run that reaches a return stays there, and its value is the verdict.  *)
LEMMA Returns ==
    ASSUME NEW prog, NEW call, NEW pc, NEW acc, NEW v,
           Len(prog) \in Nat, pc \in 1..Len(prog), Reaches(prog, call, pc, acc),
           prog[pc] = Ret(v)
    PROVE  Decision(prog, call) = v
<1> DEFINE E == Execution(prog, call)
           here == At(pc, acc)
           L == Len(prog)
<1>1. PICK k \in 0..(pc - 1) : E[k] = here
    BY DEF Reaches
<1>2. Instruction(prog, call, here) = here
    BY DEF Instruction, At, Ret
<1>3. \A n \in 1..L : E[n] = Instruction(prog, call, E[n - 1])
    BY ExecutionEquation
<1>4. here.pc = pc
    BY DEF At
<1> DEFINE S == {n \in Nat : n >= k => E[n] = here}
<1> HIDE DEF E, here
<1>5. 0 \in S
    BY <1>1
<1>6. ASSUME NEW n \in 0..(L - 1), n \in S PROVE n + 1 \in S
  <2>1. n + 1 \in 1..L /\ (n + 1) - 1 = n
    OBVIOUS
  <2>2. E[n + 1] = Instruction(prog, call, E[n])
    BY <1>3, <2>1
  <2>3. CASE n + 1 = k
    BY <1>1, <2>3
  <2>4. CASE n >= k
    <3>1. E[n] = here
      BY <1>6, <2>4
    <3> QED BY <1>2, <2>2, <3>1
  <2>5. CASE n + 1 < k
    BY <2>5
  <2> QED BY <1>1, <2>3, <2>4, <2>5
<1> HIDE DEF S
<1>7. 0..L \subseteq S
    BY <1>5, <1>6, Induction
<1>8. E[L] = here
  <2>1. L \in 0..L /\ L >= k
    BY <1>1
  <2> QED BY <1>7, <2>1 DEF S
<1>9. prog[pc].k = v
    BY DEF Ret
<1> QED BY <1>4, <1>8, <1>9 DEF Decision, E

-----------------------------------------------------------------------------
(* One comparison.                                                         *)
Gets(prog, call, pc) == \E acc : Reaches(prog, call, pc, acc)

ArgFits(r, n, call) ==
    IF n = 1 /\ r.masked THEN call.args[r.args[n][1]] \subseteq r.args[n][2]
    ELSE call.args[r.args[n][1]] = r.args[n][2]

(* The comparison of one argument goes on behind itself if the argument    *)
(* fits, and over the rest of the block if not.                            *)
LEMMA Compares ==
    ASSUME NEW prog, NEW call, NEW r, NEW n, NEW at, Len(prog) \in Nat, at \in Nat,
           n \in 1..3, Len(r.args) \in Nat, n <= Len(r.args), at + 2 <= Len(prog),
           Holds(prog, at, CompareArg(r, n)), Gets(prog, call, at + 1)
    PROVE  /\ ArgFits(r, n, call) => Gets(prog, call, at + 3)
           /\ ~ArgFits(r, n, call) => Gets(prog, call, at + 2 * n + 2)
<1> DEFINE i == r.args[n][1]
           v == r.args[n][2]
           w == call.args[i]
           x == IF n = 1 /\ r.masked THEN Jump("jset", v, 1, 0) ELSE Jump("jeq", v, 0,
                 ArgFails(n))
           blk == <<LdArg(i), x>>
<1>1. CompareArg(r, n) = blk
    BY DEF CompareArg
<1>2. prog[at + 1] = LdArg(i) /\ prog[at + 2] = x
  <2>1. Holds(prog, at, blk)
    BY <1>1
  <2>2. Len(blk) = 2 /\ blk[1] = LdArg(i) /\ blk[2] = x
    OBVIOUS
  <2> HIDE DEF blk
  <2> QED BY <2>1, <2>2 DEF Holds
<1>3. at + 1 \in 1..Len(prog) /\ at + 2 \in 1..Len(prog) /\ (at + 1) + 1 = at + 2
    OBVIOUS
<1>4. PICK acc : Reaches(prog, call, at + 1, acc)
    BY DEF Gets
<1>5. Reaches(prog, call, (at + 1) + 1, w)
    BY <1>2, <1>3, <1>4, LoadsArg
<1>6. Reaches(prog, call, at + 2, w)
    BY <1>3, <1>5
<1>7. CASE n = 1 /\ r.masked
  <2>1. prog[at + 2] = Jump("jset", v, 1, 0)
    BY <1>2, <1>7
  <2>2. /\ ~(w \subseteq v) => Reaches(prog, call, (at + 2) + 1 + 1, w)
        /\ w \subseteq v => Reaches(prog, call, (at + 2) + 1 + 0, w)
    BY <1>3, <1>6, <2>1, JumpsIfOutside
  <2>3. (at + 2) + 1 + 1 = at + 2 * n + 2 /\ (at + 2) + 1 + 0 = at + 3
    BY <1>7
  <2>4. ArgFits(r, n, call) <=> w \subseteq v
    BY <1>7 DEF ArgFits
  <2> HIDE DEF w, v
  <2> QED BY <2>2, <2>3, <2>4 DEF Gets
<1>8. CASE ~(n = 1 /\ r.masked)
  <2>1. prog[at + 2] = Jump("jeq", v, 0, 2 * n - 1)
    BY <1>2, <1>8 DEF ArgFails
  <2>2. 2 * n - 1 \in Nat
    OBVIOUS
  <2>3. /\ w = v => Reaches(prog, call, (at + 2) + 1 + 0, w)
        /\ w # v => Reaches(prog, call, (at + 2) + 1 + (2 * n - 1), w)
    BY <1>3, <1>6, <2>1, <2>2, JumpsIfEqual
  <2>4. (at + 2) + 1 + (2 * n - 1) = at + 2 * n + 2 /\ (at + 2) + 1 + 0 = at + 3
    OBVIOUS
  <2>5. ArgFits(r, n, call) <=> w = v
    BY <1>8 DEF ArgFits
  <2> HIDE DEF w, v
  <2> QED BY <2>3, <2>4, <2>5 DEF Gets
<1> QED BY <1>7, <1>8

(* What a block is made of, and where its parts are.                       *)
RuleReturns(r) == IF r.errno = NoError THEN "ALLOW" ELSE r.errno

(* A single instruction is a sequence of length one.                       *)
LEMMA OneInstruction ==
    ASSUME NEW x
    PROVE  IsSeq(<<x>>) /\ Len(<<x>>) = 1 /\ <<x>>[1] = x
<1>1. <<x>> \in Seq({x})
    OBVIOUS
<1> QED BY <1>1, IsSeqOf

(* No instruction is the sequence of length zero.                          *)
LEMMA NoInstruction == IsSeq(<< >>) /\ Len(<< >>) = 0
<1>1. << >> \in Seq({})
    OBVIOUS
<1> QED BY <1>1, IsSeqOf

(* A comparison is two instructions, or none if the rule has no such       *)
(* argument.                                                               *)
LEMMA CompareLength ==
    ASSUME NEW r, NEW n, n \in 1..3, Len(r.args) \in 0..3
    PROVE  /\ IsSeq(CompareArg(r, n))
           /\ Len(CompareArg(r, n)) = IF n <= Len(r.args) THEN 2 ELSE 0
<1>1. CASE n > Len(r.args)
  <2>1. CompareArg(r, n) = << >>
    BY <1>1 DEF CompareArg
  <2> QED BY <1>1, <2>1, NoInstruction
<1>2. CASE n <= Len(r.args)
  <2> DEFINE a == LdArg(r.args[n][1])
             b == IF n = 1 /\ r.masked THEN Jump("jset", r.args[n][2], 1, 0)
                  ELSE Jump("jeq", r.args[n][2], 0, ArgFails(n))
  <2>1. CompareArg(r, n) = <<a, b>>
    BY <1>2 DEF CompareArg
  <2> HIDE DEF a, b
  <2>2. <<a, b>> \in Seq({a, b}) /\ Len(<<a, b>>) = 2
    OBVIOUS
  <2> QED BY <1>2, <2>1, <2>2, IsSeqOf
<1> QED BY <1>1, <1>2

BlockHead(r) == <<Jump("jeq", r.nr, 0, BlockSize(r))>>
BlockVerdict(r) == <<Ret(RuleReturns(r))>>
BlockTail(r) == When(Len(r.args) > 0, <<Ld("nr")>>)

(* A block is its parts, one behind the other.                             *)
LEMMA BlockParts ==
    ASSUME NEW r, Len(r.args) \in 0..3
    PROVE  /\ Block(r) = Glue(Glue(Glue(Glue(Glue(BlockHead(r), CompareArg(r, 3)),
                           CompareArg(r, 2)), CompareArg(r, 1)), BlockVerdict(r)), BlockTail(r))
           /\ IsSeq(BlockHead(r)) /\ Len(BlockHead(r)) = 1
           /\ IsSeq(BlockVerdict(r)) /\ Len(BlockVerdict(r)) = 1
           /\ IsSeq(BlockTail(r)) /\ Len(BlockTail(r)) = IF Len(r.args) > 0 THEN 1 ELSE 0
<1>1. /\ IsSeq(BlockTail(r))
      /\ Len(BlockTail(r)) = IF Len(r.args) > 0 THEN 1 ELSE 0
    BY OneInstruction, NoInstruction DEF When, BlockTail
<1>2. /\ IsSeq(BlockHead(r)) /\ Len(BlockHead(r)) = 1
      /\ IsSeq(BlockVerdict(r)) /\ Len(BlockVerdict(r)) = 1
    BY OneInstruction DEF BlockHead, BlockVerdict
<1>3. Block(r) = Glue(Glue(Glue(Glue(Glue(BlockHead(r), CompareArg(r, 3)),
                      CompareArg(r, 2)), CompareArg(r, 1)), BlockVerdict(r)), BlockTail(r))
    BY Zenon DEF Block, Glue, RuleReturns, BlockHead, BlockVerdict, BlockTail
<1> QED BY <1>1, <1>2, <1>3

(* The length of a block; the block that the jump over it assumes.         *)
LEMMA BlockLength ==
    ASSUME NEW r, Len(r.args) \in 0..3
    PROVE  /\ IsSeq(Block(r))
           /\ Len(Block(r)) = IF Len(r.args) = 0 THEN 2 ELSE 2 * Len(r.args) + 3
<1> DEFINE h == BlockHead(r)
           c3 == CompareArg(r, 3)
           c2 == CompareArg(r, 2)
           c1 == CompareArg(r, 1)
           v == BlockVerdict(r)
           t == BlockTail(r)
           g1 == Glue(h, c3)
           g2 == Glue(g1, c2)
           g3 == Glue(g2, c1)
           g4 == Glue(g3, v)
           n == Len(r.args)
<1>1. /\ IsSeq(h) /\ Len(h) = 1 /\ IsSeq(v) /\ Len(v) = 1
      /\ IsSeq(t) /\ Len(t) = IF n > 0 THEN 1 ELSE 0
    BY BlockParts
<1>2. /\ IsSeq(c3) /\ Len(c3) = IF 3 <= n THEN 2 ELSE 0
      /\ IsSeq(c2) /\ Len(c2) = IF 2 <= n THEN 2 ELSE 0
      /\ IsSeq(c1) /\ Len(c1) = IF 1 <= n THEN 2 ELSE 0
    BY CompareLength
<1> HIDE DEF h, c3, c2, c1, v, t
<1>3. IsSeq(g1) /\ Len(g1) = Len(h) + Len(c3)
    BY <1>1, <1>2, Glued
<1> HIDE DEF g1
<1>4. IsSeq(g2) /\ Len(g2) = Len(g1) + Len(c2)
    BY <1>2, <1>3, Glued
<1> HIDE DEF g2
<1>5. IsSeq(g3) /\ Len(g3) = Len(g2) + Len(c1)
    BY <1>2, <1>4, Glued
<1> HIDE DEF g3
<1>6. IsSeq(g4) /\ Len(g4) = Len(g3) + Len(v)
    BY <1>1, <1>5, Glued
<1> HIDE DEF g4
<1>7. IsSeq(Glue(g4, t)) /\ Len(Glue(g4, t)) = Len(g4) + Len(t)
    BY <1>1, <1>6, Glued
<1>8. Block(r) = Glue(g4, t)
    BY BlockParts DEF g4, g3, g2, g1, h, c3, c2, c1, v, t
<1>n. n = 0 \/ n = 1 \/ n = 2 \/ n = 3
    OBVIOUS
<1> HIDE DEF n
<1>9. Len(g4) + Len(t) = IF n = 0 THEN 2 ELSE 2 * n + 3
  <2>1. CASE n = 0 BY <1>1, <1>2, <1>3, <1>4, <1>5, <1>6, <2>1
  <2>2. CASE n = 1 BY <1>1, <1>2, <1>3, <1>4, <1>5, <1>6, <2>2
  <2>3. CASE n = 2 BY <1>1, <1>2, <1>3, <1>4, <1>5, <1>6, <2>3
  <2>4. CASE n = 3 BY <1>1, <1>2, <1>3, <1>4, <1>5, <1>6, <2>4
  <2> QED BY <1>n, <2>1, <2>2, <2>3, <2>4
<1> QED BY <1>7, <1>8, <1>9 DEF n

(* Where in a program the parts of a block stand.                          *)
LEMMA BlockPlaces ==
    ASSUME NEW prog, NEW at, NEW r, at \in Nat, Len(r.args) \in 0..3,
           Holds(prog, at, Block(r))
    PROVE  /\ prog[at + 1] = Jump("jeq", r.nr, 0, BlockSize(r))
           /\ \A m \in 1..3 : m <= Len(r.args) =>
                 Holds(prog, at + 1 + 2 * (Len(r.args) - m), CompareArg(r, m))
           /\ prog[at + 2 * Len(r.args) + 2] = Ret(RuleReturns(r))
           /\ Len(r.args) > 0 => prog[at + 2 * Len(r.args) + 3] = Ld("nr")
<1> DEFINE h == BlockHead(r)
           c3 == CompareArg(r, 3)
           c2 == CompareArg(r, 2)
           c1 == CompareArg(r, 1)
           v == BlockVerdict(r)
           t == BlockTail(r)
           g1 == Glue(h, c3)
           g2 == Glue(g1, c2)
           g3 == Glue(g2, c1)
           g4 == Glue(g3, v)
           n == Len(r.args)
<1>1. /\ IsSeq(h) /\ Len(h) = 1 /\ IsSeq(v) /\ Len(v) = 1
      /\ IsSeq(t) /\ Len(t) = IF n > 0 THEN 1 ELSE 0
    BY BlockParts
<1>2. /\ IsSeq(c3) /\ Len(c3) = IF 3 <= n THEN 2 ELSE 0
      /\ IsSeq(c2) /\ Len(c2) = IF 2 <= n THEN 2 ELSE 0
      /\ IsSeq(c1) /\ Len(c1) = IF 1 <= n THEN 2 ELSE 0
    BY CompareLength
<1>0. Holds(prog, at, Glue(g4, t))
    BY BlockParts
<1> HIDE DEF h, c3, c2, c1, v, t
<1>3. IsSeq(g1) /\ Len(g1) = Len(h) + Len(c3)
    BY <1>1, <1>2, Glued
<1> HIDE DEF g1
<1>4. IsSeq(g2) /\ Len(g2) = Len(g1) + Len(c2)
    BY <1>2, <1>3, Glued
<1> HIDE DEF g2
<1>5. IsSeq(g3) /\ Len(g3) = Len(g2) + Len(c1)
    BY <1>2, <1>4, Glued
<1> HIDE DEF g3
<1>6. IsSeq(g4) /\ Len(g4) = Len(g3) + Len(v)
    BY <1>1, <1>5, Glued
<1> HIDE DEF g4
<1>7. Holds(prog, at, g4) /\ Holds(prog, at + Len(g4), t)
    BY <1>0, <1>1, <1>6, HoldsParts
<1>8. Holds(prog, at, g3) /\ Holds(prog, at + Len(g3), v)
    BY <1>1, <1>5, <1>7, HoldsParts DEF g4
<1>9. Holds(prog, at, g2) /\ Holds(prog, at + Len(g2), c1)
    BY <1>2, <1>4, <1>8, HoldsParts DEF g3
<1>10. Holds(prog, at, g1) /\ Holds(prog, at + Len(g1), c2)
    BY <1>2, <1>3, <1>9, HoldsParts DEF g2
<1>11. Holds(prog, at, h) /\ Holds(prog, at + Len(h), c3)
    BY <1>1, <1>2, <1>10, HoldsParts DEF g1
<1>12. prog[at + 1] = h[1]
    BY <1>1, <1>11 DEF Holds
<1>13. prog[(at + Len(g3)) + 1] = v[1]
    BY <1>1, <1>8 DEF Holds
<1>14. n > 0 => prog[(at + Len(g4)) + 1] = t[1]
    BY <1>1, <1>7 DEF Holds
<1>n. n = 0 \/ n = 1 \/ n = 2 \/ n = 3
    OBVIOUS
<1> HIDE DEF n
<1>15. /\ 3 <= n => Len(h) = 1 + 2 * (n - 3)
       /\ 2 <= n => Len(g1) = 1 + 2 * (n - 2)
       /\ 1 <= n => Len(g2) = 1 + 2 * (n - 1)
       /\ Len(g3) = 1 + 2 * n
       /\ Len(g4) = 2 + 2 * n
  <2>1. CASE n = 0 BY <1>1, <1>2, <1>3, <1>4, <1>5, <1>6, <2>1
  <2>2. CASE n = 1 BY <1>1, <1>2, <1>3, <1>4, <1>5, <1>6, <2>2
  <2>3. CASE n = 2 BY <1>1, <1>2, <1>3, <1>4, <1>5, <1>6, <2>3
  <2>4. CASE n = 3 BY <1>1, <1>2, <1>3, <1>4, <1>5, <1>6, <2>4
  <2> QED BY <1>n, <2>1, <2>2, <2>3, <2>4
<1>16. /\ (at + Len(g3)) + 1 = at + 2 * n + 2
       /\ (at + Len(g4)) + 1 = at + 2 * n + 3
       /\ 3 <= n => at + Len(h) = at + 1 + 2 * (n - 3)
       /\ 2 <= n => at + Len(g1) = at + 1 + 2 * (n - 2)
       /\ 1 <= n => at + Len(g2) = at + 1 + 2 * (n - 1)
  <2>1. n \in Nat
    BY <1>n
  <2> QED BY <1>15, <2>1
<1>17. h[1] = Jump("jeq", r.nr, 0, BlockSize(r)) /\ v[1] = Ret(RuleReturns(r))
    BY OneInstruction DEF h, v, BlockHead, BlockVerdict
<1>18. n > 0 => t[1] = Ld("nr")
    BY OneInstruction DEF n, t, BlockTail, When
<1>19. ASSUME NEW m \in 1..3, m <= n
       PROVE  Holds(prog, at + 1 + 2 * (n - m), CompareArg(r, m))
  <2>1. CASE m = 1
    <3>1. at + Len(g2) = at + 1 + 2 * (n - 1)
      BY <1>16, <1>19, <2>1
    <3> QED BY <1>9, <2>1, <3>1 DEF c1
  <2>2. CASE m = 2
    <3>1. at + Len(g1) = at + 1 + 2 * (n - 2)
      BY <1>16, <1>19, <2>2
    <3> QED BY <1>10, <2>2, <3>1 DEF c2
  <2>3. CASE m = 3
    <3>1. at + Len(h) = at + 1 + 2 * (n - 3)
      BY <1>16, <1>19, <2>3
    <3> QED BY <1>11, <2>3, <3>1 DEF c3
  <2> QED BY <2>1, <2>2, <2>3
<1> QED BY <1>12, <1>13, <1>14, <1>16, <1>17, <1>18, <1>19 DEF n

(* A block on its way: the comparison of argument m is entered, and goes   *)
(* on to the next one or gives up.                                         *)
LEMMA BlockCompares ==
    ASSUME NEW prog, NEW call, NEW r, NEW at, NEW m, Len(prog) \in Nat, at \in Nat,
           Len(r.args) \in 0..3, m \in 1..3, m <= Len(r.args),
           at + 2 * Len(r.args) + 3 <= Len(prog), Holds(prog, at, Block(r)),
           Gets(prog, call, at + 2 + 2 * (Len(r.args) - m))
    PROVE  /\ ArgFits(r, m, call) => Gets(prog, call, at + 2 + 2 * (Len(r.args) - (m - 1)))
           /\ ~ArgFits(r, m, call) => Gets(prog, call, at + 2 * Len(r.args) + 3)
<1> DEFINE n == Len(r.args)
           L == Len(prog)
           b == at + 1 + 2 * (n - m)
<1>1. Holds(prog, b, CompareArg(r, m))
    BY BlockPlaces
<1>2. n \in 0..3 /\ n \in Nat /\ m <= n /\ L \in Nat /\ at + 2 * n + 3 <= L
    OBVIOUS
<1>3. Gets(prog, call, at + 2 + 2 * (n - m))
    OBVIOUS
<1> HIDE DEF n, L
<1>4. /\ b \in Nat /\ b + 1 = at + 2 + 2 * (n - m) /\ b + 2 <= L
      /\ b + 3 = at + 2 + 2 * (n - (m - 1)) /\ b + 2 * m + 2 = at + 2 * n + 3
    BY <1>2
<1> HIDE DEF b
<1>5. Gets(prog, call, b + 1)
    BY <1>3, <1>4
<1>6. /\ ArgFits(r, m, call) => Gets(prog, call, b + 3)
      /\ ~ArgFits(r, m, call) => Gets(prog, call, b + 2 * m + 2)
    BY <1>1, <1>2, <1>4, <1>5, Compares DEF n, L
<1> QED BY <1>4, <1>6 DEF n

(* A block entered with the number of the call loaded returns the verdict  *)
(* of its rule if the rule fits, and reaches its end with the number       *)
(* loaded again if not.                                                    *)
LEMMA BlockDecides ==
    ASSUME NEW prog, NEW call, NEW r, NEW at, Len(prog) \in Nat, at \in Nat,
           Len(r.args) \in 0..3, DOMAIN r.args = 1..Len(r.args),
           at + Len(Block(r)) <= Len(prog), Holds(prog, at, Block(r)),
           call.arch = "X86_64", Reaches(prog, call, at + 1, call.nr)
    PROVE  /\ Fits(r, call) => Decision(prog, call) = RuleReturns(r)
           /\ ~Fits(r, call) => Reaches(prog, call, at + Len(Block(r)) + 1, call.nr)
<1> DEFINE n == Len(r.args)
           L == Len(Block(r))
<1>1. L = IF n = 0 THEN 2 ELSE 2 * n + 3
    BY BlockLength
<1>2. /\ prog[at + 1] = Jump("jeq", r.nr, 0, BlockSize(r))
      /\ prog[at + 2 * n + 2] = Ret(RuleReturns(r))
      /\ n > 0 => prog[at + 2 * n + 3] = Ld("nr")
    BY BlockPlaces
<1>3. Fits(r, call) <=> r.nr = call.nr /\ \A m \in 1..n : ArgFits(r, m, call)
    BY DEF Fits, ArgFits
<1>n. n \in 0..3 /\ (n = 0 \/ n = 1 \/ n = 2 \/ n = 3)
    OBVIOUS
<1>b. BlockSize(r) = IF n = 0 THEN 1 ELSE 2 * n + 2
    BY DEF BlockSize
<1>c. ASSUME NEW m \in 1..3, m <= n, Gets(prog, call, at + 2 + 2 * (n - m))
      PROVE  /\ ArgFits(r, m, call) => Gets(prog, call, at + 2 + 2 * (n - (m - 1)))
             /\ ~ArgFits(r, m, call) => Gets(prog, call, at + 2 * n + 3)
  <2>1. at + 2 * n + 3 <= Len(prog)
    BY <1>1, <1>c
  <2> QED BY <1>c, <2>1, BlockCompares
<1> HIDE DEF n, L
<1>4. L \in Nat /\ L >= 2 /\ L = BlockSize(r) + 1 /\ BlockSize(r) \in Nat
    BY <1>1, <1>b, <1>n
<1>5. at + 1 \in 1..Len(prog)
    BY <1>4 DEF L
<1>6. /\ call.nr = r.nr => Reaches(prog, call, (at + 1) + 1 + 0, call.nr)
      /\ call.nr # r.nr => Reaches(prog, call, (at + 1) + 1 + BlockSize(r), call.nr)
    BY <1>2, <1>4, <1>5, JumpsIfEqual
<1>7. /\ (at + 1) + 1 + 0 = at + 2 /\ (at + 1) + 1 + BlockSize(r) = at + L + 1
  <2> DEFINE z == BlockSize(r)
  <2>1. z \in Nat /\ L \in Nat /\ L = z + 1
    BY <1>4
  <2> HIDE DEF z
  <2>2. (at + 1) + 1 + 0 = at + 2 /\ (at + 1) + 1 + z = at + L + 1
    BY <2>1
  <2> QED BY <2>2 DEF z
<1>8. call.nr = r.nr => Gets(prog, call, at + 2)
    BY <1>6, <1>7 DEF Gets
<1>9. Gets(prog, call, at + 2 * n + 2) => Decision(prog, call) = RuleReturns(r)
  <2>1. at + 2 * n + 2 \in 1..Len(prog)
    BY <1>1, <1>n DEF L
  <2> QED BY <1>2, <2>1, Returns DEF Gets
<1>10. n > 0 /\ Gets(prog, call, at + 2 * n + 3) => Reaches(prog, call, at + L + 1, call.nr)
  <2> SUFFICES ASSUME n > 0, Gets(prog, call, at + 2 * n + 3)
               PROVE  Reaches(prog, call, at + L + 1, call.nr)
    OBVIOUS
  <2>1. at + 2 * n + 3 \in 1..Len(prog) /\ (at + 2 * n + 3) + 1 = at + L + 1
    BY <1>1, <1>n DEF L
  <2>2. prog[at + 2 * n + 3] = Ld("nr")
    BY <1>2
  <2>3. PICK acc : Reaches(prog, call, at + 2 * n + 3, acc)
    BY DEF Gets
  <2>4. Reaches(prog, call, (at + 2 * n + 3) + 1, call["nr"])
    BY <2>1, <2>2, <2>3, Loads
  <2> QED BY <2>1, <2>4
<1>11. CASE call.nr # r.nr
    BY <1>3, <1>6, <1>7, <1>11 DEF L
<1>12. CASE call.nr = r.nr /\ n = 0
  <2>1. at + 2 * n + 2 = at + 2
    BY <1>12
  <2>2. Decision(prog, call) = RuleReturns(r)
    BY <1>8, <1>9, <1>12, <2>1
  <2>3. Fits(r, call)
    BY <1>3, <1>12
  <2> QED BY <2>2, <2>3
<1>13. CASE call.nr = r.nr /\ n > 0
  <2>0. Gets(prog, call, at + 2)
    BY <1>8, <1>13
  <2>1. (\A m \in 1..n : ArgFits(r, m, call)) => Gets(prog, call, at + 2 * n + 2)
    <3> SUFFICES ASSUME \A m \in 1..n : ArgFits(r, m, call)
                 PROVE  Gets(prog, call, at + 2 * n + 2)
      OBVIOUS
    <3>1. ASSUME NEW m \in 1..3, m <= n, Gets(prog, call, at + 2 + 2 * (n - m))
          PROVE  Gets(prog, call, at + 2 + 2 * (n - (m - 1)))
      <4>1. m \in 1..n
        BY <1>n, <3>1
      <4> QED BY <1>c, <3>1, <4>1
    <3>2. CASE n = 1
      <4>1. Gets(prog, call, at + 4)
        BY <2>0, <3>1, <3>2
      <4> QED BY <3>2, <4>1
    <3>3. CASE n = 2
      <4>1. Gets(prog, call, at + 4)
        BY <2>0, <3>1, <3>3
      <4>2. Gets(prog, call, at + 6)
        BY <3>1, <3>3, <4>1
      <4> QED BY <3>3, <4>2
    <3>4. CASE n = 3
      <4>1. Gets(prog, call, at + 4)
        BY <2>0, <3>1, <3>4
      <4>2. Gets(prog, call, at + 6)
        BY <3>1, <3>4, <4>1
      <4>3. Gets(prog, call, at + 8)
        BY <3>1, <3>4, <4>2
      <4> QED BY <3>4, <4>3
    <3> QED BY <1>n, <1>13, <3>2, <3>3, <3>4
  <2>2. ~(\A m \in 1..n : ArgFits(r, m, call)) => Gets(prog, call, at + 2 * n + 3)
    <3>1. ASSUME NEW m \in 1..3, m <= n, Gets(prog, call, at + 2 + 2 * (n - m))
          PROVE  \/ ArgFits(r, m, call) /\ Gets(prog, call, at + 2 + 2 * (n - (m - 1)))
                 \/ Gets(prog, call, at + 2 * n + 3)
      BY <1>c, <3>1
    <3>2. CASE n = 1
      <4>1. ArgFits(r, 1, call) \/ Gets(prog, call, at + 2 * n + 3)
        BY <2>0, <3>1, <3>2
      <4> QED BY <3>2, <4>1
    <3>3. CASE n = 2
      <4>1. \/ ArgFits(r, 2, call) /\ Gets(prog, call, at + 4)
            \/ Gets(prog, call, at + 2 * n + 3)
        BY <2>0, <3>1, <3>3
      <4>2. Gets(prog, call, at + 4) => ArgFits(r, 1, call) \/ Gets(prog, call, at + 2 * n + 3)
        BY <3>1, <3>3
      <4>3. \A m \in 1..n : m = 1 \/ m = 2
        BY <3>3
      <4> QED BY <4>1, <4>2, <4>3
    <3>4. CASE n = 3
      <4>1. \/ ArgFits(r, 3, call) /\ Gets(prog, call, at + 4)
            \/ Gets(prog, call, at + 2 * n + 3)
        BY <2>0, <3>1, <3>4
      <4>2. \/ Gets(prog, call, at + 4) => ArgFits(r, 2, call) /\ Gets(prog, call, at + 6)
            \/ Gets(prog, call, at + 2 * n + 3)
        BY <3>1, <3>4
      <4>3. Gets(prog, call, at + 6) => ArgFits(r, 1, call) \/ Gets(prog, call, at + 2 * n + 3)
        BY <3>1, <3>4
      <4>4. \A m \in 1..n : m = 1 \/ m = 2 \/ m = 3
        BY <3>4
      <4> QED BY <4>1, <4>2, <4>3, <4>4
    <3> QED BY <1>n, <1>13, <3>2, <3>3, <3>4
  <2> QED BY <1>3, <1>9, <1>10, <1>13, <2>1, <2>2 DEF L
<1> QED BY <1>n, <1>11, <1>12, <1>13

-----------------------------------------------------------------------------
(* A list of rules the compiler was made for: at most three arguments.     *)
WellFormed(r) ==
    Len(r.args) \in 0..3 /\ DOMAIN r.args = 1..Len(r.args) /\ r.errno # "ALLOW"

RuleList(list) == IsSeq(list) /\ \A i \in 1..Len(list) : WellFormed(list[i])

(* Behind the header, the first i blocks follow one another.               *)
Laid(list, i) ==
    LET w == Written(list)
    IN  /\ IsSeq(w[i])
        /\ 4 <= Len(w[i])
        /\ Holds(w[i], 0, Header)
        /\ \A j \in 1..i :
              /\ Len(w[j]) <= Len(w[i])
              /\ Len(w[j]) = Len(w[j - 1]) + Len(Block(list[j]))
              /\ Len(w[j - 1]) \in Nat
              /\ Holds(w[i], Len(w[j - 1]), Block(list[j]))

(* The header is four instructions.                                        *)
LEMMA HeaderLength ==
    /\ IsSeq(Header) /\ Len(Header) = 4
    /\ Header[1] = Ld("arch") /\ Header[2] = Jump("jeq", "X86_64", 1, 0)
    /\ Header[3] = Ret("KILL") /\ Header[4] = Ld("nr")
<1>1. Header \in Seq({Ld("arch"), Jump("jeq", "X86_64", 1, 0), Ret("KILL"), Ld("nr")})
    BY DEF Header
<1> QED BY <1>1, IsSeqOf DEF Header

(* The blocks written so far stand one behind the other.                   *)
LEMMA BlocksLaid ==
    ASSUME NEW list, RuleList(list), NEW n \in 0..Len(list)
    PROVE  Laid(list, n)
<1> DEFINE w == Written(list)
           N == Len(list)
           S == {i \in Nat : Laid(list, i)}
<1>1. N \in Nat
    BY SeqLength DEF RuleList
<1>2. /\ w[0] = Header
      /\ \A i \in 1..N : w[i] = Glue(w[i - 1], Block(list[i]))
    BY <1>1, WrittenEquation
<1>3. \A i \in 1..N : Len(list[i].args) \in 0..3
    BY DEF RuleList, WellFormed
<1> HIDE DEF N, w
<1>4. 0 \in S
  <2>1. Holds(Header, 0, Header)
    BY HeaderLength DEF Holds
  <2>2. Laid(list, 0)
    BY <1>2, <2>1, HeaderLength DEF Laid, w
  <2> QED BY <2>2
<1>5. ASSUME NEW i \in 0..(N - 1), i \in S PROVE i + 1 \in S
  <2> DEFINE old == w[i]
             new == w[i + 1]
             b == Block(list[i + 1])
  <2>1. i + 1 \in 1..N /\ (i + 1) - 1 = i /\ i + 1 \in Nat
    BY <1>1
  <2>2. new = Glue(old, b)
    BY <1>2, <2>1
  <2>3. IsSeq(b)
    BY <1>3, <2>1, BlockLength
  <2>4. /\ IsSeq(old) /\ 4 <= Len(old) /\ Holds(old, 0, Header)
        /\ \A j \in 1..i :
              /\ Len(w[j]) <= Len(old)
              /\ Len(w[j]) = Len(w[j - 1]) + Len(Block(list[j]))
              /\ Len(w[j - 1]) \in Nat
              /\ Holds(old, Len(w[j - 1]), Block(list[j]))
    BY <1>5 DEF Laid, w
  <2> HIDE DEF old, new, b
  <2>5. Len(old) \in Nat /\ Len(b) \in Nat
    BY <2>3, <2>4, SeqLength
  <2>6. IsSeq(new) /\ Len(new) = Len(old) + Len(b)
    BY <2>2, <2>3, <2>4, Glued
  <2>7. 4 <= Len(new)
    BY <2>4, <2>5, <2>6
  <2>8. Holds(new, 0, Header)
    <3>1. 0 + Len(Header) <= Len(old)
      BY <2>4, <2>5, HeaderLength
    <3> QED BY <2>2, <2>3, <2>4, <3>1, HeaderLength, HoldsInGlued
  <2>9. ASSUME NEW j \in 1..(i + 1)
        PROVE  /\ Len(w[j]) <= Len(new)
               /\ Len(w[j]) = Len(w[j - 1]) + Len(Block(list[j]))
               /\ Len(w[j - 1]) \in Nat
               /\ Holds(new, Len(w[j - 1]), Block(list[j]))
    <3>1. CASE j = i + 1
      <4>1. w[j] = new /\ w[j - 1] = old /\ Block(list[j]) = b
        BY <2>1, <3>1 DEF new, old, b
      <4>2. Holds(new, Len(old), b)
        BY <2>2, <2>3, <2>4, HoldsLast
      <4> QED BY <2>5, <2>6, <4>1, <4>2
    <3>2. CASE j \in 1..i
      <4>1. /\ Len(w[j]) <= Len(old)
            /\ Len(w[j]) = Len(w[j - 1]) + Len(Block(list[j]))
            /\ Len(w[j - 1]) \in Nat
            /\ Holds(old, Len(w[j - 1]), Block(list[j]))
        BY <2>4, <3>2
      <4>2. IsSeq(Block(list[j])) /\ Len(Block(list[j])) \in Nat
        <5>1. j \in 1..N
          BY <1>1, <3>2
        <5> QED BY <1>3, <5>1, BlockLength, SeqLength
      <4>3. Holds(Glue(old, b), Len(w[j - 1]), Block(list[j]))
        BY <2>3, <2>4, <4>1, <4>2, HoldsInGlued
      <4>4. Len(w[j]) <= Len(new)
        <5> DEFINE x == Len(w[j])
                   y == Len(w[j - 1])
                   z == Len(Block(list[j]))
        <5>1. x = y + z /\ y \in Nat /\ z \in Nat /\ x <= Len(old)
          BY <4>1, <4>2
        <5> HIDE DEF x, y, z
        <5>2. x <= Len(new)
          BY <2>5, <2>6, <5>1
        <5> QED BY <5>2 DEF x
      <4>5. Holds(new, Len(w[j - 1]), Block(list[j]))
        BY <2>2, <4>3
      <4> QED BY <4>1, <4>4, <4>5
    <3>3. j = i + 1 \/ j \in 1..i
      BY <1>1
    <3> QED BY <3>1, <3>2, <3>3
  <2>10. Laid(list, i + 1)
    BY <2>6, <2>7, <2>8, <2>9 DEF Laid, w, new
  <2> QED BY <2>1, <2>10
<1> HIDE DEF S
<1>6. 0..N \subseteq S
    BY <1>1, <1>4, <1>5, Induction
<1>7. n \in S
    BY <1>6 DEF N
<1> QED BY <1>7 DEF S

(* So does the whole program, and ends in the verdict of no rule.          *)
LEMMA ProgramLaid ==
    ASSUME NEW list, RuleList(list)
    PROVE  /\ Len(list) \in Nat
           /\ IsSeq(Program(list)) /\ Len(Program(list)) \in Nat
           /\ Len(Program(list)) = Len(Written(list)[Len(list)]) + 1
           /\ Holds(Program(list), 0, Header) /\ 5 <= Len(Program(list))
           /\ Len(Written(list)[0]) = 4
           /\ Program(list)[Len(Written(list)[Len(list)]) + 1] = Ret("KILL")
           /\ \A j \in 1..Len(list) :
                 /\ Len(Written(list)[j]) < Len(Program(list))
                 /\ Len(Written(list)[j]) = Len(Written(list)[j - 1]) + Len(Block(list[j]))
                 /\ Len(Written(list)[j - 1]) \in Nat
                 /\ Holds(Program(list), Len(Written(list)[j - 1]), Block(list[j]))
<1> DEFINE w == Written(list)
           N == Len(list)
           e == <<Ret("KILL")>>
           old == w[N]
           P == Program(list)
<1>1. N \in Nat
    BY SeqLength DEF RuleList
<1>2. /\ IsSeq(old) /\ 4 <= Len(old) /\ Holds(old, 0, Header)
      /\ \A j \in 1..N :
            /\ Len(w[j]) <= Len(old)
            /\ Len(w[j]) = Len(w[j - 1]) + Len(Block(list[j]))
            /\ Len(w[j - 1]) \in Nat
            /\ Holds(old, Len(w[j - 1]), Block(list[j]))
  <2>1. N \in 0..N
    BY <1>1
  <2>2. Laid(list, N)
    BY <2>1, BlocksLaid
  <2> QED BY <2>2 DEF Laid
<1>3. IsSeq(e) /\ Len(e) = 1 /\ e[1] = Ret("KILL")
    BY OneInstruction
<1>4. P = Glue(old, e)
    BY DEF Program, Glue
<1>5. w[0] = Header
    BY <1>1, WrittenEquation
<1>a. \A i \in 1..N : Len(list[i].args) \in 0..3
    BY DEF RuleList, WellFormed
<1> HIDE DEF w, e, P, old, N
<1>6. Len(old) \in Nat
    BY <1>2, SeqLength
<1>7. IsSeq(P) /\ Len(P) = Len(old) + 1 /\ P[Len(old) + 1] = Ret("KILL")
  <2>1. /\ IsSeq(Glue(old, e)) /\ Len(Glue(old, e)) = Len(old) + Len(e)
        /\ \A i \in 1..Len(e) : Glue(old, e)[Len(old) + i] = e[i]
    <3>1. IsSeq(old) /\ IsSeq(e)
      BY <1>2, <1>3
    <3> QED BY <3>1, Glued
  <2>2. Glue(old, e)[Len(old) + 1] = e[1]
    BY <1>3, <2>1
  <2> QED BY <1>3, <1>4, <2>1, <2>2
<1>8. Len(P) \in Nat /\ 5 <= Len(P)
    BY <1>2, <1>6, <1>7
<1>9. Holds(P, 0, Header)
  <2>1. 0 + Len(Header) <= Len(old)
    BY <1>2, <1>6, HeaderLength
  <2> QED BY <1>2, <1>3, <1>4, <2>1, HeaderLength, HoldsInGlued
<1>10. ASSUME NEW j \in 1..N
       PROVE  /\ Len(w[j]) < Len(P)
              /\ Len(w[j]) = Len(w[j - 1]) + Len(Block(list[j]))
              /\ Len(w[j - 1]) \in Nat
              /\ Holds(P, Len(w[j - 1]), Block(list[j]))
  <2>1. /\ Len(w[j]) <= Len(old)
        /\ Len(w[j]) = Len(w[j - 1]) + Len(Block(list[j]))
        /\ Len(w[j - 1]) \in Nat
        /\ Holds(old, Len(w[j - 1]), Block(list[j]))
    BY <1>2
  <2>2. IsSeq(Block(list[j])) /\ Len(Block(list[j])) \in Nat
    BY <1>a, BlockLength, SeqLength
  <2>3. Holds(Glue(old, e), Len(w[j - 1]), Block(list[j]))
    BY <1>2, <1>3, <2>1, <2>2, HoldsInGlued
  <2>4. Len(w[j]) < Len(P)
    <3> DEFINE x == Len(w[j])
               y == Len(w[j - 1])
               z == Len(Block(list[j]))
    <3>1. x = y + z /\ y \in Nat /\ z \in Nat /\ x <= Len(old)
      BY <2>1, <2>2
    <3> HIDE DEF x, y, z
    <3>2. x < Len(P)
      BY <1>6, <1>7, <3>1
    <3> QED BY <3>2 DEF x
  <2>5. Holds(P, Len(w[j - 1]), Block(list[j]))
    BY <1>4, <2>3
  <2> QED BY <2>1, <2>4, <2>5
<1> QED BY <1>1, <1>5, <1>7, <1>8, <1>9, <1>10, HeaderLength DEF w, P, N, old

-----------------------------------------------------------------------------
(* The header: another architecture is killed, and else the number of the  *)
(* call is loaded.                                                         *)
LEMMA HeaderDecides ==
    ASSUME NEW prog, NEW call, Len(prog) \in Nat, 5 <= Len(prog), Holds(prog, 0, Header)
    PROVE  /\ call.arch = "X86_64" => Reaches(prog, call, 5, call.nr)
           /\ call.arch # "X86_64" => Decision(prog, call) = "KILL"
<1>1. /\ prog[1] = Ld("arch") /\ prog[2] = Jump("jeq", "X86_64", 1, 0)
      /\ prog[3] = Ret("KILL") /\ prog[4] = Ld("nr")
  <2>1. \A k \in 1..4 : prog[0 + k] = Header[k]
    BY HeaderLength DEF Holds
  <2>2. prog[0 + 1] = Header[1] /\ prog[0 + 2] = Header[2]
        /\ prog[0 + 3] = Header[3] /\ prog[0 + 4] = Header[4]
    BY <2>1
  <2> QED BY <2>2, HeaderLength
<1>2. 1 \in 1..Len(prog) /\ 2 \in 1..Len(prog) /\ 3 \in 1..Len(prog) /\ 4 \in 1..Len(prog)
    OBVIOUS
<1>3. Reaches(prog, call, 1, "none")
  <2>1. Execution(prog, call)[0] = At(1, "none")
    BY ExecutionEquation DEF Start, At
  <2>2. 0 \in 0..(1 - 1)
    OBVIOUS
  <2> QED BY <2>1, <2>2 DEF Reaches
<1>4. Reaches(prog, call, 1 + 1, call["arch"])
    BY <1>1, <1>2, <1>3, Loads
<1>5. Reaches(prog, call, 2, call.arch)
    BY <1>4
<1>6. /\ call.arch = "X86_64" => Reaches(prog, call, 2 + 1 + 1, call.arch)
      /\ call.arch # "X86_64" => Reaches(prog, call, 2 + 1 + 0, call.arch)
  <2>1. 0 \in Nat /\ 1 \in Nat
    OBVIOUS
  <2> QED BY <1>1, <1>2, <1>5, <2>1, JumpsIfEqual
<1>7. call.arch # "X86_64" => Decision(prog, call) = "KILL"
  <2>1. 2 + 1 + 0 = 3
    OBVIOUS
  <2> QED BY <1>1, <1>2, <1>6, <2>1, Returns
<1>8. call.arch = "X86_64" => Reaches(prog, call, 5, call.nr)
  <2>1. 2 + 1 + 1 = 4 /\ 4 + 1 = 5
    OBVIOUS
  <2>2. call.arch = "X86_64" => Reaches(prog, call, 4 + 1, call["nr"])
    BY <1>1, <1>2, <1>6, <2>1, Loads
  <2> QED BY <2>1, <2>2
<1> QED BY <1>7, <1>8

(* As long as no rule fits, the program gets to the block of the next one. *)
LEMMA RulesPassed ==
    ASSUME NEW list, RuleList(list), NEW call, call.arch = "X86_64",
           NEW n \in 0..Len(list), \A j \in 1..n : ~Fits(list[j], call)
    PROVE  Reaches(Program(list), call, Len(Written(list)[n]) + 1, call.nr)
<1> DEFINE w == Written(list)
           P == Program(list)
           S == {i \in Nat : i <= n => Reaches(P, call, Len(w[i]) + 1, call.nr)}
<1>1. n \in Nat /\ n \in 0..n
    BY ProgramLaid
<1>2. /\ Len(P) \in Nat /\ 5 <= Len(P) /\ Holds(P, 0, Header) /\ Len(w[0]) = 4
      /\ \A j \in 1..Len(list) :
            /\ Len(w[j]) < Len(P)
            /\ Len(w[j]) = Len(w[j - 1]) + Len(Block(list[j]))
            /\ Len(w[j - 1]) \in Nat
            /\ Holds(P, Len(w[j - 1]), Block(list[j]))
    BY ProgramLaid
<1>3. Len(list) \in Nat /\ \A j \in 1..Len(list) : WellFormed(list[j])
    BY ProgramLaid DEF RuleList
<1> HIDE DEF w, P
<1>4. 0 \in S
  <2>1. Reaches(P, call, 5, call.nr)
    BY <1>2, HeaderDecides
  <2>2. Len(w[0]) + 1 = 5
    BY <1>2
  <2> QED BY <2>1, <2>2
<1>5. ASSUME NEW i \in 0..(n - 1), i \in S PROVE i + 1 \in S
  <2> DEFINE r == list[i + 1]
             at == Len(w[i])
             L == Len(Block(r))
  <2>1. i + 1 \in 1..Len(list) /\ i + 1 \in 1..n /\ (i + 1) - 1 = i /\ i <= n
    BY <1>1, <1>3
  <2>2. Reaches(P, call, at + 1, call.nr)
    BY <1>5, <2>1
  <2>3. /\ Len(w[i + 1]) < Len(P) /\ Len(w[i + 1]) = at + L /\ at \in Nat
        /\ Holds(P, at, Block(r))
    BY <1>2, <2>1
  <2>4. WellFormed(r) /\ ~Fits(r, call)
    BY <1>3, <2>1
  <2>5. Len(r.args) \in 0..3 /\ DOMAIN r.args = 1..Len(r.args)
    BY <2>4 DEF WellFormed
  <2> HIDE DEF r
  <2>6. L \in Nat
    BY <2>5, BlockLength, SeqLength
  <2>7. at + L <= Len(P)
    <3> HIDE DEF at, L
    <3> QED BY <1>2, <2>3, <2>6
  <2> HIDE DEF at
  <2>8. Reaches(P, call, at + Len(Block(r)) + 1, call.nr)
    BY <1>2, <2>2, <2>3, <2>4, <2>5, <2>7, BlockDecides
  <2>9. Reaches(P, call, Len(w[i + 1]) + 1, call.nr)
    BY <2>3, <2>8
  <2>10. i + 1 \in Nat
    BY <1>1
  <2> QED BY <2>9, <2>10
<1> HIDE DEF S
<1>6. 0..n \subseteq S
    BY <1>1, <1>4, <1>5, Induction
<1>7. n \in S
    BY <1>1, <1>6
<1> QED BY <1>1, <1>7 DEF S, w, P

(* The program decides every call as the first rule that fits it, or kills *)
(* the process if none does.                                               *)
LEMMA ProgramDecides ==
    ASSUME NEW list, RuleList(list), NEW call
    PROVE  Decision(Program(list), call) = FirstFit(list, call)
<1> DEFINE w == Written(list)
           P == Program(list)
           N == Len(list)
           fit == {i \in DOMAIN list : Fits(list[i], call)}
           first == CHOOSE i \in fit : \A j \in fit : i <= j
<1>1. N \in Nat /\ DOMAIN list = 1..N
    BY SeqLength DEF RuleList
<1>2. /\ Len(P) \in Nat /\ 5 <= Len(P) /\ Holds(P, 0, Header)
      /\ Len(P) = Len(w[N]) + 1 /\ P[Len(w[N]) + 1] = Ret("KILL")
      /\ \A j \in 1..N :
            /\ Len(w[j]) < Len(P)
            /\ Len(w[j]) = Len(w[j - 1]) + Len(Block(list[j]))
            /\ Len(w[j - 1]) \in Nat
            /\ Holds(P, Len(w[j - 1]), Block(list[j]))
    BY ProgramLaid
<1>3. CASE call.arch # "X86_64"
  <2>1. fit = {}
    BY <1>3 DEF Fits
  <2>2. Decision(P, call) = "KILL"
    BY <1>2, <1>3, HeaderDecides
  <2> QED BY <2>1, <2>2 DEF FirstFit
<1>4. CASE call.arch = "X86_64" /\ fit = {}
  <2>1. \A j \in 1..N : ~Fits(list[j], call)
    BY <1>1, <1>4
  <2>2. N \in 0..N
    BY <1>1
  <2>3. Reaches(P, call, Len(w[N]) + 1, call.nr)
    BY <1>4, <2>1, <2>2, RulesPassed
  <2> HIDE DEF P, w, N
  <2>4. Len(w[N]) + 1 \in 1..Len(P)
    BY <1>2
  <2>5. Decision(P, call) = "KILL"
    BY <1>2, <2>3, <2>4, Returns
  <2> QED BY <1>4, <2>5 DEF FirstFit, P
<1>5. CASE call.arch = "X86_64" /\ fit # {}
  <2>1. fit \in SUBSET Nat
    BY <1>1
  <2>2. \E i \in fit : \A j \in fit : i <= j
    BY <1>5, <2>1, LeastNumber
  <2>3. first \in fit /\ \A j \in fit : first <= j
    BY <2>2
  <2>4. FirstFit(list, call) = RuleReturns(list[first])
    BY <1>5 DEF FirstFit, RuleReturns
  <2> DEFINE i == first
  <2> HIDE DEF first
  <2>5. i \in 1..N /\ Fits(list[i], call) /\ i \in Nat /\ i - 1 \in 0..N
    BY <1>1, <2>3
  <2>6. \A j \in 1..(i - 1) : ~Fits(list[j], call)
    <3> SUFFICES ASSUME NEW j \in 1..(i - 1), Fits(list[j], call) PROVE FALSE
      OBVIOUS
    <3>1. j \in DOMAIN list /\ j \in Nat /\ ~(i <= j)
      BY <1>1, <2>5
    <3>2. j \in fit
      BY <3>1
    <3> QED BY <2>3, <3>1, <3>2
  <2> DEFINE r == list[i]
             at == Len(w[i - 1])
  <2>7. Reaches(P, call, at + 1, call.nr)
    BY <1>5, <2>5, <2>6, RulesPassed
  <2>8. /\ Len(w[i]) < Len(P) /\ Len(w[i]) = at + Len(Block(r)) /\ at \in Nat
        /\ Holds(P, at, Block(r))
    BY <1>2, <2>5
  <2>9. Len(r.args) \in 0..3 /\ DOMAIN r.args = 1..Len(r.args) /\ Fits(r, call)
    BY <2>5 DEF RuleList, WellFormed
  <2> HIDE DEF r
  <2>10. Len(Block(r)) \in Nat
    BY <2>9, BlockLength, SeqLength
  <2> HIDE DEF at, P, w
  <2>11. at + Len(Block(r)) <= Len(P)
    BY <1>2, <2>8, <2>10
  <2>12. Decision(P, call) = RuleReturns(r)
    BY <1>2, <1>5, <2>7, <2>8, <2>9, <2>11, BlockDecides
  <2> QED BY <2>4, <2>12 DEF r, P
<1> QED BY <1>3, <1>4, <1>5

-----------------------------------------------------------------------------
(* The array is as long as the program: how many of the first k rules have *)
(* n arguments, counted rule by rule.                                      *)
Having(list, k, n) == {i \in 1..k : Len(list[i].args) = n}

(* One more rule is one more among those with its number of arguments.     *)
LEMMA CountRule ==
    ASSUME NEW list, NEW k \in Nat, NEW n
    PROVE  /\ Cardinality(Having(list, k, n)) \in Nat
           /\ Cardinality(Having(list, k + 1, n)) =
                 IF Len(list[k + 1].args) = n THEN Cardinality(Having(list, k, n)) + 1
                 ELSE Cardinality(Having(list, k, n))
<1> DEFINE H == Having(list, k, n)
<1>1. IsFiniteSet(H)
  <2>1. IsFiniteSet(1..k)
    BY FS_Interval
  <2>2. H \subseteq 1..k
    BY DEF Having
  <2> QED BY <2>1, <2>2, FS_Subset
<1>2. Cardinality(H) \in Nat
    BY <1>1, FS_CardinalityType
<1>3. k + 1 \notin H
    BY DEF Having
<1>4. CASE Len(list[k + 1].args) = n
  <2>1. Having(list, k + 1, n) = H \cup {k + 1}
    BY <1>4 DEF Having
  <2>2. Cardinality(H \cup {k + 1}) = Cardinality(H) + 1
    BY <1>1, <1>3, FS_AddElement
  <2> QED BY <1>2, <1>4, <2>1, <2>2
<1>5. CASE Len(list[k + 1].args) # n
  <2>1. Having(list, k + 1, n) = H
    BY <1>5 DEF Having
  <2> QED BY <1>2, <1>5, <2>1
<1> QED BY <1>4, <1>5

Counted(list, k) ==
    4 + k * 2 + Cardinality(Having(list, k, 1)) * 3 + Cardinality(Having(list, k, 2)) * 5
      + Cardinality(Having(list, k, 3)) * 7

(* And adds the length of its block to the total.                          *)
LEMMA CountedRule ==
    ASSUME NEW list, NEW k \in Nat, Len(list[k + 1].args) \in 0..3
    PROVE  Counted(list, k) \in Nat
           /\ Counted(list, k + 1) = Counted(list, k) + Len(Block(list[k + 1]))
<1> DEFINE m == Len(list[k + 1].args)
           a == Cardinality(Having(list, k, 1))
           b == Cardinality(Having(list, k, 2))
           c == Cardinality(Having(list, k, 3))
           a1 == Cardinality(Having(list, k + 1, 1))
           b1 == Cardinality(Having(list, k + 1, 2))
           c1 == Cardinality(Having(list, k + 1, 3))
<1>1. a \in Nat /\ a1 = IF m = 1 THEN a + 1 ELSE a
    BY CountRule
<1>2. b \in Nat /\ b1 = IF m = 2 THEN b + 1 ELSE b
    BY CountRule
<1>3. c \in Nat /\ c1 = IF m = 3 THEN c + 1 ELSE c
    BY CountRule
<1>4. Len(Block(list[k + 1])) = IF m = 0 THEN 2 ELSE 2 * m + 3
    BY BlockLength
<1>5. m = 0 \/ m = 1 \/ m = 2 \/ m = 3
    OBVIOUS
<1>6. /\ Counted(list, k) = 4 + k * 2 + a * 3 + b * 5 + c * 7
      /\ Counted(list, k + 1) = 4 + (k + 1) * 2 + a1 * 3 + b1 * 5 + c1 * 7
    BY DEF Counted
<1> HIDE DEF m, a, b, c, a1, b1, c1
<1>7. /\ 4 + k * 2 + a * 3 + b * 5 + c * 7 \in Nat
      /\ 4 + (k + 1) * 2 + a1 * 3 + b1 * 5 + c1 * 7
            = (4 + k * 2 + a * 3 + b * 5 + c * 7) + (IF m = 0 THEN 2 ELSE 2 * m + 3)
  <2>1. CASE m = 0 BY <1>1, <1>2, <1>3, <2>1
  <2>2. CASE m = 1 BY <1>1, <1>2, <1>3, <2>2
  <2>3. CASE m = 2 BY <1>1, <1>2, <1>3, <2>3
  <2>4. CASE m = 3 BY <1>1, <1>2, <1>3, <2>4
  <2> QED BY <1>5, <2>1, <2>2, <2>3, <2>4
<1> QED BY <1>4, <1>6, <1>7

(* The program is exactly as long as the array it is written into.         *)
LEMMA ProgramFits ==
    ASSUME NEW list, RuleList(list)
    PROVE  Len(Program(list)) = ProgramLength(list)
<1> DEFINE w == Written(list)
           N == Len(list)
           S == {k \in Nat : Len(w[k]) = Counted(list, k)}
<1>1. /\ N \in Nat /\ Len(Program(list)) = Len(w[N]) + 1 /\ Len(w[0]) = 4
      /\ \A j \in 1..N : Len(w[j]) = Len(w[j - 1]) + Len(Block(list[j]))
    BY ProgramLaid
<1>2. \A j \in 1..N : Len(list[j].args) \in 0..3
    BY DEF RuleList, WellFormed
<1>3. DOMAIN list = 1..N
    BY SeqLength DEF RuleList
<1> HIDE DEF w, N
<1>4. 0 \in S
  <2>1. \A n : Having(list, 0, n) = {}
    BY DEF Having
  <2>2. Cardinality({}) = 0
    BY FS_EmptySet
  <2>3. \A n : Cardinality(Having(list, 0, n)) = 0
    BY <2>1, <2>2
  <2>4. Counted(list, 0) = 4 + 0 * 2 + 0 * 3 + 0 * 5 + 0 * 7
    BY <2>3 DEF Counted
  <2>5. 4 + 0 * 2 + 0 * 3 + 0 * 5 + 0 * 7 = 4
    OBVIOUS
  <2>6. Len(w[0]) = Counted(list, 0)
    BY <1>1, <2>4, <2>5
  <2> QED BY <2>6
<1>5. ASSUME NEW k \in 0..(N - 1), k \in S PROVE k + 1 \in S
  <2>1. k \in Nat /\ k + 1 \in 1..N /\ (k + 1) - 1 = k /\ k + 1 \in Nat
    BY <1>1
  <2>2. Counted(list, k + 1) = Counted(list, k) + Len(Block(list[k + 1]))
    BY <1>2, <2>1, CountedRule
  <2>3. Len(w[k + 1]) = Len(w[k]) + Len(Block(list[k + 1]))
    BY <1>1, <2>1
  <2>4. Len(w[k]) = Counted(list, k)
    BY <1>5
  <2> QED BY <2>1, <2>2, <2>3, <2>4
<1> HIDE DEF S
<1>6. 0..N \subseteq S
    BY <1>1, <1>4, <1>5, Induction
<1>7. N \in S
    BY <1>1, <1>6
<1>8. Len(w[N]) = Counted(list, N)
    BY <1>7 DEF S
<1>9. /\ Cardinality(Having(list, N, 1)) \in Nat
      /\ Cardinality(Having(list, N, 2)) \in Nat
      /\ Cardinality(Having(list, N, 3)) \in Nat
    BY <1>1, CountRule
<1>10. \A n : {i \in DOMAIN list : Len(list[i].args) = n} = Having(list, N, n)
    BY <1>3 DEF Having
<1>11. ProgramLength(list) = N * 2 + Cardinality(Having(list, N, 1)) * 3
         + Cardinality(Having(list, N, 2)) * 5 + Cardinality(Having(list, N, 3)) * 7 + 5
    BY <1>10 DEF ProgramLength, N
<1> DEFINE a == Cardinality(Having(list, N, 1))
           b == Cardinality(Having(list, N, 2))
           c == Cardinality(Having(list, N, 3))
<1>12. /\ ProgramLength(list) = N * 2 + a * 3 + b * 5 + c * 7 + 5
       /\ Counted(list, N) = 4 + N * 2 + a * 3 + b * 5 + c * 7
    BY <1>11 DEF Counted
<1>13. a \in Nat /\ b \in Nat /\ c \in Nat
    BY <1>9
<1> HIDE DEF a, b, c
<1>14. (4 + N * 2 + a * 3 + b * 5 + c * 7) + 1 = N * 2 + a * 3 + b * 5 + c * 7 + 5
    BY <1>1, <1>13
<1> QED BY <1>1, <1>8, <1>12, <1>14

-----------------------------------------------------------------------------
(* What a list of at most n rules lets a call do, rule by rule.            *)
Piece(s, n) == RuleList(s) /\ n \in Nat /\ Len(s) <= n

Grants(s, c) == \E i \in 1..Len(s) : Fits(s[i], c) /\ s[i].errno = NoError
Refuses(s, c) == \E i \in 1..Len(s) : Fits(s[i], c) /\ s[i].errno # NoError

(* Rules collected one list after another: the whole grants what one of    *)
(* them grants and refuses what one of them refuses.                       *)
LEMMA PiecesGlued ==
    ASSUME NEW s, NEW t, NEW a, NEW b, NEW n, a \in Nat, b \in Nat, n \in Nat,
           Piece(s, a), Piece(t, b), a + b <= n
    PROVE  /\ Piece(Glue(s, t), n)
           /\ \A c : Grants(Glue(s, t), c) <=> Grants(s, c) \/ Grants(t, c)
           /\ \A c : Refuses(Glue(s, t), c) <=> Refuses(s, c) \/ Refuses(t, c)
<1> DEFINE g == Glue(s, t)
           k == Len(s)
           l == Len(t)
<1>1. IsSeq(s) /\ IsSeq(t)
    BY DEF Piece, RuleList
<1>2. /\ IsSeq(g) /\ Len(g) = k + l
      /\ \A i \in 1..k : g[i] = s[i]
      /\ \A i \in 1..l : g[k + i] = t[i]
    BY <1>1, Glued
<1>3. /\ \A i \in 1..k : WellFormed(s[i])
      /\ \A i \in 1..l : WellFormed(t[i])
      /\ k \in Nat /\ l \in Nat /\ k <= a /\ l <= b
    BY <1>1, SeqLength DEF Piece, RuleList
<1> HIDE DEF g, k, l
<1>4. ASSUME NEW i \in 1..(k + l)
      PROVE  (i \in 1..k /\ g[i] = s[i]) \/ (i - k \in 1..l /\ g[i] = t[i - k])
  <2>1. CASE i <= k
    BY <1>2, <1>3, <2>1
  <2>2. CASE i > k
    <3>1. i - k \in 1..l /\ k + (i - k) = i
      BY <1>3, <2>2
    <3>2. g[k + (i - k)] = t[i - k]
      BY <1>2, <3>1
    <3> QED BY <3>1, <3>2
  <2> QED BY <1>3, <2>1, <2>2
<1>5. \A i \in 1..k : i \in 1..(k + l) /\ g[i] = s[i]
    BY <1>2, <1>3
<1>6. \A i \in 1..l : k + i \in 1..(k + l) /\ g[k + i] = t[i]
    BY <1>2, <1>3
<1>7. Piece(g, n)
  <2>1. \A i \in 1..(k + l) : WellFormed(g[i])
    BY <1>3, <1>4
  <2>2. k + l <= n
    BY <1>3
  <2> QED BY <1>2, <2>1, <2>2 DEF Piece, RuleList
<1>8. ASSUME NEW c PROVE Grants(g, c) <=> Grants(s, c) \/ Grants(t, c)
  <2>1. Grants(g, c) => Grants(s, c) \/ Grants(t, c)
    <3> SUFFICES ASSUME NEW i \in 1..(k + l), Fits(g[i], c), g[i].errno = NoError
                 PROVE  Grants(s, c) \/ Grants(t, c)
      BY <1>2 DEF Grants
    <3> QED BY <1>4 DEF Grants, k, l
  <2>2. Grants(s, c) => Grants(g, c)
    <3> SUFFICES ASSUME NEW i \in 1..k, Fits(s[i], c), s[i].errno = NoError
                 PROVE  Grants(g, c)
      BY DEF Grants, k
    <3> QED BY <1>2, <1>5 DEF Grants
  <2>3. Grants(t, c) => Grants(g, c)
    <3> SUFFICES ASSUME NEW i \in 1..l, Fits(t[i], c), t[i].errno = NoError
                 PROVE  Grants(g, c)
      BY DEF Grants, l
    <3> QED BY <1>2, <1>6 DEF Grants
  <2> QED BY <2>1, <2>2, <2>3
<1>9. ASSUME NEW c PROVE Refuses(g, c) <=> Refuses(s, c) \/ Refuses(t, c)
  <2>1. Refuses(g, c) => Refuses(s, c) \/ Refuses(t, c)
    <3> SUFFICES ASSUME NEW i \in 1..(k + l), Fits(g[i], c), g[i].errno # NoError
                 PROVE  Refuses(s, c) \/ Refuses(t, c)
      BY <1>2 DEF Refuses
    <3> QED BY <1>4 DEF Refuses, k, l
  <2>2. Refuses(s, c) => Refuses(g, c)
    <3> SUFFICES ASSUME NEW i \in 1..k, Fits(s[i], c), s[i].errno # NoError
                 PROVE  Refuses(g, c)
      BY DEF Refuses, k
    <3> QED BY <1>2, <1>5 DEF Refuses
  <2>3. Refuses(t, c) => Refuses(g, c)
    <3> SUFFICES ASSUME NEW i \in 1..l, Fits(t[i], c), t[i].errno # NoError
                 PROVE  Refuses(g, c)
      BY DEF Refuses, l
    <3> QED BY <1>2, <1>6 DEF Refuses
  <2> QED BY <2>1, <2>2, <2>3
<1> QED BY <1>7, <1>8, <1>9 DEF g

(* The empty list grants and refuses nothing.                              *)
LEMMA NoRules ==
    /\ Piece(<< >>, 0)
    /\ \A c : ~Grants(<< >>, c) /\ ~Refuses(<< >>, c)
<1>1. Len(<< >>) = 0 /\ RuleList(<< >>)
    BY NoInstruction DEF RuleList
<1> QED BY <1>1 DEF Piece, Grants, Refuses

(* The list of a single rule.                                              *)
LEMMA OneRule ==
    ASSUME NEW r, WellFormed(r)
    PROVE  /\ Piece(<<r>>, 1)
           /\ \A c : Grants(<<r>>, c) <=> Fits(r, c) /\ r.errno = NoError
           /\ \A c : Refuses(<<r>>, c) <=> Fits(r, c) /\ r.errno # NoError
<1> DEFINE s == <<r>>
<1>1. IsSeq(s) /\ Len(s) = 1 /\ s[1] = r
    BY OneInstruction
<1> HIDE DEF s
<1>2. \A i \in 1..1 : i = 1
    OBVIOUS
<1>3. Piece(s, 1)
    BY <1>1, <1>2 DEF Piece, RuleList
<1>4. ASSUME NEW c PROVE Grants(s, c) <=> Fits(r, c) /\ r.errno = NoError
    BY <1>1, <1>2 DEF Grants
<1>5. ASSUME NEW c PROVE Refuses(s, c) <=> Fits(r, c) /\ r.errno # NoError
    BY <1>1, <1>2 DEF Refuses
<1> QED BY <1>3, <1>4, <1>5 DEF s

(* The rules the helpers add, and what each does to a call.                *)
Native(c) == c.arch = "X86_64"

(* A call permitted whatever its arguments.                                *)
LEMMA AllowNr ==
    ASSUME NEW nr
    PROVE  /\ Piece(allow_nr(nr), 1)
           /\ \A c : Native(c) => (Grants(allow_nr(nr), c) <=> c.nr = nr)
           /\ \A c : ~Refuses(allow_nr(nr), c)
<1> DEFINE r == [nr |-> nr, errno |-> NoError, args |-> << >>, masked |-> FALSE]
<1>1. allow_nr(nr) = <<r>>
    BY DEF allow_nr, Rule
<1>2. r.nr = nr /\ r.errno = NoError /\ r.args = << >>
    OBVIOUS
<1>3. Len(<< >>) = 0 /\ DOMAIN << >> = {} /\ 1..0 = {}
    OBVIOUS
<1> HIDE DEF r
<1>4. WellFormed(r)
    BY <1>2, <1>3 DEF WellFormed, NoError
<1>5. ASSUME NEW c, Native(c) PROVE Fits(r, c) <=> c.nr = nr
    BY <1>2, <1>3, <1>5 DEF Fits, Native
<1> QED BY <1>1, <1>2, <1>4, <1>5, OneRule

(* A call answered with an error.                                          *)
LEMMA RejectNr ==
    ASSUME NEW nr, NEW e, e # NoError, e # "ALLOW"
    PROVE  /\ Piece(reject_nr(nr, e), 1)
           /\ \A c : ~Grants(reject_nr(nr, e), c)
           /\ \A c : Native(c) => (Refuses(reject_nr(nr, e), c) <=> c.nr = nr)
<1> DEFINE r == [nr |-> nr, errno |-> e, args |-> << >>, masked |-> FALSE]
<1>1. reject_nr(nr, e) = <<r>>
    BY DEF reject_nr, Rule
<1>2. r.nr = nr /\ r.errno = e /\ r.args = << >>
    OBVIOUS
<1>3. Len(<< >>) = 0 /\ DOMAIN << >> = {} /\ 1..0 = {}
    OBVIOUS
<1> HIDE DEF r
<1>4. WellFormed(r)
    BY <1>2, <1>3 DEF WellFormed
<1>5. ASSUME NEW c, Native(c) PROVE Fits(r, c) <=> c.nr = nr
    BY <1>2, <1>3, <1>5 DEF Fits, Native
<1> QED BY <1>1, <1>2, <1>4, <1>5, OneRule

(* A call permitted for one value of one argument.                         *)
LEMMA AllowOneMatch ==
    ASSUME NEW nr, NEW a, NEW v
    PROVE  /\ Piece(allow_nr_1_arg_match(nr, a, v), 1)
           /\ \A c : Native(c) => (Grants(allow_nr_1_arg_match(nr, a, v), c)
                                     <=> c.nr = nr /\ c.args[a] = v)
           /\ \A c : ~Refuses(allow_nr_1_arg_match(nr, a, v), c)
<1> DEFINE x == <<a, v>>
           l == <<x>>
           r == [nr |-> nr, errno |-> NoError, args |-> l, masked |-> FALSE]
<1>1. allow_nr_1_arg_match(nr, a, v) = <<r>>
    BY DEF allow_nr_1_arg_match, Rule
<1>2. r.nr = nr /\ r.errno = NoError /\ r.args = l /\ ~r.masked
    OBVIOUS
<1>3. Len(l) = 1 /\ DOMAIN l = 1..1 /\ l[1][1] = a /\ l[1][2] = v
    OBVIOUS
<1>4. \A n : n \in 1..1 <=> n = 1
    OBVIOUS
<1> HIDE DEF r, l, x
<1>5. WellFormed(r)
    BY <1>2, <1>3 DEF WellFormed, NoError
<1>6. ASSUME NEW c, Native(c) PROVE Fits(r, c) <=> c.nr = nr /\ c.args[a] = v
    BY <1>2, <1>3, <1>4, <1>6 DEF Fits, Native
<1> QED BY <1>1, <1>2, <1>5, <1>6, OneRule

(* A call permitted for the flags of a mask.                               *)
LEMMA AllowOneMask ==
    ASSUME NEW nr, NEW a, NEW v
    PROVE  /\ Piece(allow_nr_1_arg_mask(nr, a, v), 1)
           /\ \A c : Native(c) => (Grants(allow_nr_1_arg_mask(nr, a, v), c)
                                     <=> c.nr = nr /\ c.args[a] \subseteq v)
           /\ \A c : ~Refuses(allow_nr_1_arg_mask(nr, a, v), c)
<1> DEFINE x == <<a, v>>
           l == <<x>>
           r == [nr |-> nr, errno |-> NoError, args |-> l, masked |-> TRUE]
<1>1. allow_nr_1_arg_mask(nr, a, v) = <<r>>
    BY DEF allow_nr_1_arg_mask, Rule
<1>2. r.nr = nr /\ r.errno = NoError /\ r.args = l /\ r.masked
    OBVIOUS
<1>3. Len(l) = 1 /\ DOMAIN l = 1..1 /\ l[1][1] = a /\ l[1][2] = v
    OBVIOUS
<1>4. \A n : n \in 1..1 <=> n = 1
    OBVIOUS
<1> HIDE DEF r, l, x
<1>5. WellFormed(r)
    BY <1>2, <1>3 DEF WellFormed, NoError
<1>6. ASSUME NEW c, Native(c) PROVE Fits(r, c) <=> c.nr = nr /\ c.args[a] \subseteq v
    BY <1>2, <1>3, <1>4, <1>6 DEF Fits, Native
<1> QED BY <1>1, <1>2, <1>5, <1>6, OneRule

(* A call permitted for one value of each of two arguments.                *)
LEMMA AllowTwoMatch ==
    ASSUME NEW nr, NEW a, NEW v, NEW b, NEW w
    PROVE  /\ Piece(allow_nr_2_arg_match(nr, a, v, b, w), 1)
           /\ \A c : Native(c) => (Grants(allow_nr_2_arg_match(nr, a, v, b, w), c)
                                     <=> c.nr = nr /\ c.args[a] = v /\ c.args[b] = w)
           /\ \A c : ~Refuses(allow_nr_2_arg_match(nr, a, v, b, w), c)
<1> DEFINE x == <<a, v>>
           y == <<b, w>>
           l == <<x, y>>
           r == [nr |-> nr, errno |-> NoError, args |-> l, masked |-> FALSE]
<1>1. allow_nr_2_arg_match(nr, a, v, b, w) = <<r>>
    BY DEF allow_nr_2_arg_match, Rule
<1>2. r.nr = nr /\ r.errno = NoError /\ r.args = l /\ ~r.masked
    OBVIOUS
<1>3. /\ Len(l) = 2 /\ DOMAIN l = 1..2
      /\ l[1][1] = a /\ l[1][2] = v /\ l[2][1] = b /\ l[2][2] = w
    OBVIOUS
<1>4. \A n : n \in 1..2 <=> n = 1 \/ n = 2
    OBVIOUS
<1> HIDE DEF r, l, x, y
<1>5. WellFormed(r)
    BY <1>2, <1>3 DEF WellFormed, NoError
<1>6. ASSUME NEW c, Native(c)
      PROVE  Fits(r, c) <=> c.nr = nr /\ c.args[a] = v /\ c.args[b] = w
    BY <1>2, <1>3, <1>4, <1>6 DEF Fits, Native
<1> QED BY <1>1, <1>2, <1>5, <1>6, OneRule

(* A call permitted for the flags of a mask and one value of another       *)
(* argument.                                                               *)
LEMMA AllowTwoMask ==
    ASSUME NEW nr, NEW a, NEW v, NEW b, NEW w
    PROVE  /\ Piece(allow_nr_2_arg_mask_match(nr, a, v, b, w), 1)
           /\ \A c : Native(c) => (Grants(allow_nr_2_arg_mask_match(nr, a, v, b, w), c)
                                     <=> c.nr = nr /\ c.args[a] \subseteq v /\ c.args[b] = w)
           /\ \A c : ~Refuses(allow_nr_2_arg_mask_match(nr, a, v, b, w), c)
<1> DEFINE x == <<a, v>>
           y == <<b, w>>
           l == <<x, y>>
           r == [nr |-> nr, errno |-> NoError, args |-> l, masked |-> TRUE]
<1>1. allow_nr_2_arg_mask_match(nr, a, v, b, w) = <<r>>
    BY DEF allow_nr_2_arg_mask_match, Rule
<1>2. r.nr = nr /\ r.errno = NoError /\ r.args = l /\ r.masked
    OBVIOUS
<1>3. /\ Len(l) = 2 /\ DOMAIN l = 1..2
      /\ l[1][1] = a /\ l[1][2] = v /\ l[2][1] = b /\ l[2][2] = w
    OBVIOUS
<1>4. \A n : n \in 1..2 <=> n = 1 \/ n = 2
    OBVIOUS
<1> HIDE DEF r, l, x, y
<1>5. WellFormed(r)
    BY <1>2, <1>3 DEF WellFormed, NoError
<1>6. ASSUME NEW c, Native(c)
      PROVE  Fits(r, c) <=> c.nr = nr /\ c.args[a] \subseteq v /\ c.args[b] = w
    BY <1>2, <1>3, <1>4, <1>6 DEF Fits, Native
<1> QED BY <1>1, <1>2, <1>5, <1>6, OneRule

(* A call permitted for one value of each of three arguments.              *)
LEMMA AllowThreeMatch ==
    ASSUME NEW nr, NEW a, NEW v, NEW b, NEW w, NEW d, NEW z
    PROVE  /\ Piece(allow_nr_3_arg_match(nr, a, v, b, w, d, z), 1)
           /\ \A c : Native(c) => (Grants(allow_nr_3_arg_match(nr, a, v, b, w, d, z), c)
                 <=> c.nr = nr /\ c.args[a] = v /\ c.args[b] = w /\ c.args[d] = z)
           /\ \A c : ~Refuses(allow_nr_3_arg_match(nr, a, v, b, w, d, z), c)
<1> DEFINE x == <<a, v>>
           y == <<b, w>>
           q == <<d, z>>
           l == <<x, y, q>>
           r == [nr |-> nr, errno |-> NoError, args |-> l, masked |-> FALSE]
<1>1. allow_nr_3_arg_match(nr, a, v, b, w, d, z) = <<r>>
    BY DEF allow_nr_3_arg_match, Rule
<1>2. r.nr = nr /\ r.errno = NoError /\ r.args = l /\ ~r.masked
    OBVIOUS
<1>3. /\ Len(l) = 3 /\ DOMAIN l = 1..3 /\ l[1][1] = a /\ l[1][2] = v
      /\ l[2][1] = b /\ l[2][2] = w /\ l[3][1] = d /\ l[3][2] = z
    OBVIOUS
<1>4. \A n : n \in 1..3 <=> n = 1 \/ n = 2 \/ n = 3
    OBVIOUS
<1> HIDE DEF r, l, x, y, q
<1>5. WellFormed(r)
    BY <1>2, <1>3 DEF WellFormed, NoError
<1>6. ASSUME NEW c, Native(c)
      PROVE  Fits(r, c) <=> c.nr = nr /\ c.args[a] = v /\ c.args[b] = w /\ c.args[d] = z
    BY <1>2, <1>3, <1>4, <1>6 DEF Fits, Native
<1> QED BY <1>1, <1>2, <1>5, <1>6, OneRule

(* Several calls permitted whatever their arguments.                       *)
LEMMA AllowAllNr ==
    ASSUME NEW nrs, IsSeq(nrs), NEW n, n \in Nat, Len(nrs) = n
    PROVE  /\ Piece(AllowAll(nrs), n)
           /\ \A c : Native(c) => (Grants(AllowAll(nrs), c) <=> \E i \in 1..n : nrs[i] = c.nr)
           /\ \A c : ~Refuses(AllowAll(nrs), c)
<1> DEFINE s == AllowAll(nrs)
<1>1. DOMAIN nrs = 1..n
    BY SeqLength
<1>2. ASSUME NEW nr
      PROVE  /\ WellFormed(allow_nr(nr)[1]) /\ allow_nr(nr)[1].errno = NoError
             /\ \A c : Native(c) => (Fits(allow_nr(nr)[1], c) <=> c.nr = nr)
  <2> DEFINE r == [nr |-> nr, errno |-> NoError, args |-> << >>, masked |-> FALSE]
  <2>1. allow_nr(nr)[1] = r
    BY DEF allow_nr, Rule
  <2>2. r.nr = nr /\ r.errno = NoError /\ r.args = << >>
    OBVIOUS
  <2>3. Len(<< >>) = 0 /\ DOMAIN << >> = {} /\ 1..0 = {}
    OBVIOUS
  <2> HIDE DEF r
  <2>4. WellFormed(r)
    BY <2>2, <2>3 DEF WellFormed, NoError
  <2>5. ASSUME NEW c, Native(c) PROVE Fits(r, c) <=> c.nr = nr
    BY <2>2, <2>3, <2>5 DEF Fits, Native
  <2> QED BY <2>1, <2>2, <2>4, <2>5
<1>3. s = [i \in 1..n |-> allow_nr(nrs[i])[1]]
    BY <1>1 DEF AllowAll
<1> HIDE DEF s
<1>4. s \in Seq({allow_nr(nrs[i])[1] : i \in 1..n}) /\ Len(s) = n
    BY <1>3
<1>5. IsSeq(s)
    BY <1>4, IsSeqOf
<1>6. \A i \in 1..n : s[i] = allow_nr(nrs[i])[1]
    BY <1>3
<1>7. Piece(s, n)
  <2>1. \A i \in 1..n : WellFormed(s[i])
    BY <1>2, <1>6
  <2> QED BY <1>4, <1>5, <2>1 DEF Piece, RuleList
<1>8. ASSUME NEW c, Native(c) PROVE Grants(s, c) <=> \E i \in 1..n : nrs[i] = c.nr
  <2>1. \A i \in 1..n : (Fits(s[i], c) <=> nrs[i] = c.nr) /\ s[i].errno = NoError
    BY <1>2, <1>6, <1>8
  <2> QED BY <1>4, <2>1 DEF Grants
<1>9. ASSUME NEW c PROVE ~Refuses(s, c)
  <2>1. \A i \in 1..n : s[i].errno = NoError
    BY <1>2, <1>6
  <2> QED BY <1>4, <2>1 DEF Refuses
<1> QED BY <1>7, <1>8, <1>9 DEF s

(* The length of a piece is a number.                                      *)
LEMMA PieceLength ==
    ASSUME NEW s, NEW n, Piece(s, n)
    PROVE  RuleList(s) /\ Len(s) \in Nat /\ n \in Nat /\ Len(s) <= n
    BY SeqLength DEF Piece, RuleList

(* g holds the rules of s and then those of t.                             *)
Joined(g, s, t) ==
    /\ RuleList(g) /\ Len(g) = Len(s) + Len(t) /\ Len(g) \in Nat
    /\ \A c : Grants(g, c) <=> Grants(s, c) \/ Grants(t, c)
    /\ \A c : Refuses(g, c) <=> Refuses(s, c) \/ Refuses(t, c)

(* Concatenation joins two lists of rules.                                 *)
LEMMA ListsGlued ==
    ASSUME NEW s, NEW t, RuleList(s), RuleList(t)
    PROVE  Joined(Glue(s, t), s, t)
<1> DEFINE a == Len(s)
           b == Len(t)
           n == a + b
<1>1. IsSeq(s) /\ IsSeq(t)
    BY DEF RuleList
<1>2. a \in Nat /\ b \in Nat
    BY <1>1, SeqLength
<1>3. Len(Glue(s, t)) = a + b
    BY <1>1, Glued
<1>4. Piece(s, a) /\ Piece(t, b)
    BY <1>2 DEF Piece
<1> HIDE DEF a, b
<1>5. a + b <= n /\ n \in Nat
    BY <1>2
<1>6. n = a + b
    OBVIOUS
<1> HIDE DEF n
<1>7. /\ Piece(Glue(s, t), n)
      /\ \A c : Grants(Glue(s, t), c) <=> Grants(s, c) \/ Grants(t, c)
      /\ \A c : Refuses(Glue(s, t), c) <=> Refuses(s, c) \/ Refuses(t, c)
    BY <1>2, <1>4, <1>5, PiecesGlued
<1>8. RuleList(Glue(s, t))
    BY <1>7 DEF Piece
<1> QED BY <1>2, <1>3, <1>5, <1>6, <1>7, <1>8 DEF Joined, a, b

(* A list that only one switch adds.                                       *)
LEMMA WhenPiece ==
    ASSUME NEW s, NEW n, NEW cond, Piece(s, n)
    PROVE  /\ Piece(When(cond, s), n)
           /\ \A c : Grants(When(cond, s), c) <=> cond /\ Grants(s, c)
           /\ \A c : Refuses(When(cond, s), c) <=> cond /\ Refuses(s, c)
<1>1. CASE cond
    BY <1>1 DEF When
<1>2. CASE ~cond
  <2>1. When(cond, s) = << >>
    BY <1>2 DEF When
  <2>2. Piece(<< >>, n)
    BY NoRules DEF Piece
  <2> QED BY <1>2, <2>1, <2>2, NoRules
<1> QED BY <1>1, <1>2

(* The calls permitted are the elements of the sequence.                   *)
LEMMA AllowNrs ==
    ASSUME NEW nrs, NEW n, NEW S, n \in Nat, nrs \in Seq(S), Len(nrs) = n,
           \A x \in S : \E i \in 1..n : nrs[i] = x
    PROVE  /\ Piece(AllowAll(nrs), n)
           /\ \A c : Native(c) => (Grants(AllowAll(nrs), c) <=> c.nr \in S)
           /\ \A c : ~Refuses(AllowAll(nrs), c)
<1>1. IsSeq(nrs)
    BY IsSeqOf
<1>2. \A i \in 1..n : nrs[i] \in S
    BY ElementOfSeq
<1> QED BY <1>1, <1>2, AllowAllNr

(* The values the rules compare with.                                      *)
None == {}
One(x) == {x}
Both(x, y) == {x, y}
AllFlags == kOpenFlags \cup O_ACCMODE
OpenFlags(t) == IF "write_enable" \in t THEN kOpenFlags \cup O_ACCMODE ELSE kOpenFlags

(* The switches they depend on.                                            *)
Logs(t) == t \cap {"xferlog_enable", "dual_log_enable"} # {}
Locks(t) == t \cap {"xferlog_enable", "dual_log_enable", "lock_upload_files"} # {}
Times(t) == t \cap {"idle_session_timeout", "data_connection_timeout"} # {}
Signals(t) == Times(t) \/ "async_abor_enable" \in t
Chown(t, a) == a /\ "chown_uploads" \in t
Hands(t, a) == Chown(t, a) \/ "ssl_enable" \in t
MayMkdir(t, a) == ~a \/ "anon_mkdir_write_enable" \in t
MayChange(t, a) == ~a \/ "anon_other_write_enable" \in t
MayUnlink(t, a) == MayChange(t, a) \/ "delete_failed_uploads" \in t
MayStamp(t, a) == MayChange(t, a) /\ "mdtm_write" \in t
MayChmod(t, a) == ~a /\ "chmod_enable" \in t

(* Two calls permitted whatever their arguments.                           *)
LEMMA AllowTwoNrs ==
    ASSUME NEW x, NEW y
    PROVE  /\ Piece(AllowAll(<<x, y>>), 2)
           /\ \A c : Native(c) =>
                 (Grants(AllowAll(<<x, y>>), c) <=> c.nr \in {x, y})
           /\ \A c : ~Refuses(AllowAll(<<x, y>>), c)
<1> DEFINE nrs == <<x, y>>
           S == {x, y}
           n == 2
<1>1. nrs \in Seq(S)
    OBVIOUS
<1>2. /\ Len(nrs) = n /\ n \in Nat
      /\ nrs[1] = x /\ nrs[2] = y
    OBVIOUS
<1>3. 1 \in 1..n /\ 2 \in 1..n
    OBVIOUS
<1> HIDE DEF nrs, n
<1>4. \A a \in S : \E i \in 1..n : nrs[i] = a
    BY <1>2, <1>3
<1> HIDE DEF S
<1>5. Len(nrs) = n /\ n \in Nat
    BY <1>2
<1>6. /\ Piece(AllowAll(nrs), n)
      /\ \A c : Native(c) => (Grants(AllowAll(nrs), c) <=> c.nr \in S)
      /\ \A c : ~Refuses(AllowAll(nrs), c)
    BY <1>1, <1>4, <1>5, AllowNrs, SMTT(30)
<1> QED BY <1>6 DEF nrs, S, n

(* Three calls permitted whatever their arguments.                         *)
LEMMA AllowThreeNrs ==
    ASSUME NEW x, NEW y, NEW z
    PROVE  /\ Piece(AllowAll(<<x, y, z>>), 3)
           /\ \A c : Native(c) =>
                 (Grants(AllowAll(<<x, y, z>>), c) <=> c.nr \in {x, y, z})
           /\ \A c : ~Refuses(AllowAll(<<x, y, z>>), c)
<1> DEFINE nrs == <<x, y, z>>
           S == {x, y, z}
           n == 3
<1>1. nrs \in Seq(S)
    OBVIOUS
<1>2. /\ Len(nrs) = n /\ n \in Nat
      /\ nrs[1] = x /\ nrs[2] = y /\ nrs[3] = z
    OBVIOUS
<1>3. 1 \in 1..n /\ 2 \in 1..n /\ 3 \in 1..n
    OBVIOUS
<1> HIDE DEF nrs, n
<1>4. \A a \in S : \E i \in 1..n : nrs[i] = a
    BY <1>2, <1>3
<1> HIDE DEF S
<1>5. Len(nrs) = n /\ n \in Nat
    BY <1>2
<1>6. /\ Piece(AllowAll(nrs), n)
      /\ \A c : Native(c) => (Grants(AllowAll(nrs), c) <=> c.nr \in S)
      /\ \A c : ~Refuses(AllowAll(nrs), c)
    BY <1>1, <1>4, <1>5, AllowNrs, SMTT(30)
<1> QED BY <1>6 DEF nrs, S, n

(* Five calls permitted whatever their arguments.                          *)
LEMMA AllowFiveNrs ==
    ASSUME NEW x, NEW y, NEW z, NEW x1, NEW y1
    PROVE  /\ Piece(AllowAll(<<x, y, z, x1, y1>>), 5)
           /\ \A c : Native(c) =>
                 (Grants(AllowAll(<<x, y, z, x1, y1>>), c) <=> c.nr \in {x, y, z, x1, y1})
           /\ \A c : ~Refuses(AllowAll(<<x, y, z, x1, y1>>), c)
<1> DEFINE nrs == <<x, y, z, x1, y1>>
           S == {x, y, z, x1, y1}
           n == 5
<1>1. nrs \in Seq(S)
    OBVIOUS
<1>2. /\ Len(nrs) = n /\ n \in Nat
      /\ nrs[1] = x /\ nrs[2] = y /\ nrs[3] = z /\ nrs[4] = x1 /\ nrs[5] = y1
    OBVIOUS
<1>3. 1 \in 1..n /\ 2 \in 1..n /\ 3 \in 1..n /\ 4 \in 1..n /\ 5 \in 1..n
    OBVIOUS
<1> HIDE DEF nrs, n
<1>4. \A a \in S : \E i \in 1..n : nrs[i] = a
    BY <1>2, <1>3
<1> HIDE DEF S
<1>5. Len(nrs) = n /\ n \in Nat
    BY <1>2
<1>6. /\ Piece(AllowAll(nrs), n)
      /\ \A c : Native(c) => (Grants(AllowAll(nrs), c) <=> c.nr \in S)
      /\ \A c : ~Refuses(AllowAll(nrs), c)
    BY <1>1, <1>4, <1>5, AllowNrs, SMTT(30)
<1> QED BY <1>6 DEF nrs, S, n

(* Six calls permitted whatever their arguments.                           *)
LEMMA AllowSixNrs ==
    ASSUME NEW x, NEW y, NEW z, NEW x1, NEW y1, NEW z1
    PROVE  /\ Piece(AllowAll(<<x, y, z, x1, y1, z1>>), 6)
           /\ \A c : Native(c) =>
                 (Grants(AllowAll(<<x, y, z, x1, y1, z1>>), c) <=> c.nr \in {x, y, z, x1, y1,
                       z1})
           /\ \A c : ~Refuses(AllowAll(<<x, y, z, x1, y1, z1>>), c)
<1> DEFINE nrs == <<x, y, z, x1, y1, z1>>
           S == {x, y, z, x1, y1, z1}
           n == 6
<1>1. nrs \in Seq(S)
    OBVIOUS
<1>2. /\ Len(nrs) = n /\ n \in Nat
      /\ nrs[1] = x /\ nrs[2] = y /\ nrs[3] = z /\ nrs[4] = x1 /\ nrs[5] = y1 /\ nrs[6] = z1
    OBVIOUS
<1>3. 1 \in 1..n /\ 2 \in 1..n /\ 3 \in 1..n /\ 4 \in 1..n /\ 5 \in 1..n /\ 6 \in 1..n
    OBVIOUS
<1> HIDE DEF nrs, n
<1>4. \A a \in S : \E i \in 1..n : nrs[i] = a
    BY <1>2, <1>3
<1> HIDE DEF S
<1>5. Len(nrs) = n /\ n \in Nat
    BY <1>2
<1>6. /\ Piece(AllowAll(nrs), n)
      /\ \A c : Native(c) => (Grants(AllowAll(nrs), c) <=> c.nr \in S)
      /\ \A c : ~Refuses(AllowAll(nrs), c)
    BY <1>1, <1>4, <1>5, AllowNrs, SMTT(30)
<1> QED BY <1>6 DEF nrs, S, n

(* The lists of the functions seccomp_sandbox_setup_*, and the parts they  *)
(* share: what each grants, and a lemma that it grants just that, what it  *)
(* refuses, and how many rules it has at most.                             *)
BaseGrants(c) ==
    \/ c.nr \in {"read", "write"}
    \/ c.nr = "mmap" /\ c.args[3] = Both("PROT_READ", "PROT_WRITE")
          /\ c.args[4] = Both("MAP_PRIVATE", "MAP_ANON")
    \/ c.nr = "mprotect" /\ c.args[3] \subseteq One("PROT_READ")
    \/ c.nr \in {"munmap", "brk"}
    \/ c.nr \in {"gettimeofday", "rt_sigreturn", "restart_syscall", "close", "exit_group"}

(* The rules every process has.                                            *)
LEMMA BasePieces ==
    /\ Piece(seccomp_sandbox_setup_base, 12)
    /\ \A c : Native(c) => (Grants(seccomp_sandbox_setup_base, c) <=> BaseGrants(c))
    /\ \A c : Native(c) => (Refuses(seccomp_sandbox_setup_base, c) <=> c.nr = "mremap")
<1> DEFINE p1 == AllowAll(<<"read", "write">>)
           p2 == allow_nr_2_arg_match("mmap", 3, Both("PROT_READ", "PROT_WRITE"), 4,
                 Both("MAP_PRIVATE", "MAP_ANON"))
           p3 == allow_nr_1_arg_mask("mprotect", 3, One("PROT_READ"))
           p4 == AllowAll(<<"munmap", "brk">>)
           p5 == reject_nr("mremap", "ENOSYS")
           p6 == AllowAll(<<"gettimeofday", "rt_sigreturn", "restart_syscall", "close",
                 "exit_group">>)
           g2 == Glue(p1, p2)
           g3 == Glue(g2, p3)
           g4 == Glue(g3, p4)
           g5 == Glue(g4, p5)
           g6 == Glue(g5, p6)
<1>0. seccomp_sandbox_setup_base = g6
    BY Zenon DEF seccomp_sandbox_setup_base, One, Both, None, Glue
<1>p1. /\ Piece(p1, 2)
       /\ \A c : Native(c) => (Grants(p1, c) <=> c.nr \in {"read", "write"})
       /\ \A c : ~Refuses(p1, c)
    BY AllowTwoNrs
<1>p2. /\ Piece(p2, 1)
       /\ \A c : Native(c) => (Grants(p2, c) <=> c.nr = "mmap" /\ c.args[3] = Both("PROT_READ",
             "PROT_WRITE") /\ c.args[4] = Both("MAP_PRIVATE", "MAP_ANON"))
       /\ \A c : ~Refuses(p2, c)
    BY AllowTwoMatch
<1>p3. /\ Piece(p3, 1)
       /\ \A c : Native(c) => (Grants(p3, c) <=> c.nr = "mprotect"
             /\ c.args[3] \subseteq One("PROT_READ"))
       /\ \A c : ~Refuses(p3, c)
    BY AllowOneMask
<1>p4. /\ Piece(p4, 2)
       /\ \A c : Native(c) => (Grants(p4, c) <=> c.nr \in {"munmap", "brk"})
       /\ \A c : ~Refuses(p4, c)
    BY AllowTwoNrs
<1>p5. /\ Piece(p5, 1)
       /\ \A c : ~Grants(p5, c)
       /\ \A c : Native(c) => (Refuses(p5, c) <=> c.nr = "mremap")
    BY RejectNr DEF NoError
<1>p6. /\ Piece(p6, 5)
       /\ \A c : Native(c) => (Grants(p6, c) <=> c.nr \in {"gettimeofday", "rt_sigreturn",
             "restart_syscall", "close", "exit_group"})
       /\ \A c : ~Refuses(p6, c)
    BY AllowFiveNrs
<1> HIDE DEF p1, p2, p3, p4, p5, p6
<1>2. Joined(g2, p1, p2)
    BY <1>p2, <1>p1, ListsGlued DEF Piece
<1> HIDE DEF g2
<1>3. Joined(g3, g2, p3)
    BY <1>p3, <1>2, ListsGlued DEF Piece, Joined
<1> HIDE DEF g3
<1>4. Joined(g4, g3, p4)
    BY <1>p4, <1>3, ListsGlued DEF Piece, Joined
<1> HIDE DEF g4
<1>5. Joined(g5, g4, p5)
    BY <1>p5, <1>4, ListsGlued DEF Piece, Joined
<1> HIDE DEF g5
<1>6. Joined(g6, g5, p6)
    BY <1>p6, <1>5, ListsGlued DEF Piece, Joined
<1> HIDE DEF g6
<1>L. Piece(g6, 12)
  <2>1. Len(g6) <= 12
    BY <1>p1, <1>p2, <1>p3, <1>p4, <1>p5, <1>p6, <1>2, <1>3, <1>4, <1>5, <1>6, PieceLength
       DEF Joined
  <2> QED BY <1>6, <2>1 DEF Piece, Joined
<1>M. ASSUME NEW c, Native(c)
      PROVE  /\ Grants(g6, c) <=> BaseGrants(c)
             /\ Refuses(g6, c) <=> c.nr = "mremap"
    BY <1>M, <1>p1, <1>p2, <1>p3, <1>p4, <1>p5, <1>p6, <1>2, <1>3, <1>4, <1>5, <1>6 DEF Joined,
       BaseGrants
<1> QED BY <1>0, <1>L, <1>M

LocksGrant(c) ==
    \/ c.nr = "fcntl" /\ c.args[2] = One("F_SETLKW")
    \/ c.nr = "fcntl" /\ c.args[2] = One("F_SETLK")

(* The rules of the file locks.                                            *)
LEMMA LocksPieces ==
    /\ Piece(FileLocks, 2)
    /\ \A c : Native(c) => (Grants(FileLocks, c) <=> LocksGrant(c))
    /\ \A c : ~Refuses(FileLocks, c)
<1> DEFINE p1 == allow_nr_1_arg_match("fcntl", 2, One("F_SETLKW"))
           p2 == allow_nr_1_arg_match("fcntl", 2, One("F_SETLK"))
           g2 == Glue(p1, p2)
<1>0. FileLocks = g2
    BY Zenon DEF FileLocks, One, Both, None, Glue
<1>p1. /\ Piece(p1, 1)
       /\ \A c : Native(c) => (Grants(p1, c) <=> c.nr = "fcntl" /\ c.args[2] = One("F_SETLKW"))
       /\ \A c : ~Refuses(p1, c)
    BY AllowOneMatch
<1>p2. /\ Piece(p2, 1)
       /\ \A c : Native(c) => (Grants(p2, c) <=> c.nr = "fcntl" /\ c.args[2] = One("F_SETLK"))
       /\ \A c : ~Refuses(p2, c)
    BY AllowOneMatch
<1> HIDE DEF p1, p2
<1>2. Joined(g2, p1, p2)
    BY <1>p2, <1>p1, ListsGlued DEF Piece
<1> HIDE DEF g2
<1>L. Piece(g2, 2)
  <2>1. Len(g2) <= 2
    BY <1>p1, <1>p2, <1>2, PieceLength DEF Joined
  <2> QED BY <1>2, <2>1 DEF Piece, Joined
<1>M. ASSUME NEW c, Native(c)
      PROVE  /\ Grants(g2, c) <=> LocksGrant(c)
             /\ ~Refuses(g2, c)
    BY <1>M, <1>p1, <1>p2, <1>2 DEF Joined, LocksGrant
<1>N. \A c : ~Refuses(g2, c)
    BY <1>p1, <1>p2, <1>2 DEF Joined
<1> QED BY <1>0, <1>L, <1>M, <1>N

(* Parts of the lists that one switch turns on.                            *)
SlaveRules ==
    allow_nr_1_arg_match("recvmsg", 3, None)
    \o allow_nr_2_arg_match("setsockopt", 2, One("IPPROTO_TCP"), 3, One("TCP_NODELAY"))

SlaveGrants(c) ==
    \/ c.nr = "recvmsg" /\ c.args[3] = None
    \/ c.nr = "setsockopt" /\ c.args[2] = One("IPPROTO_TCP") /\ c.args[3] = One("TCP_NODELAY")

(* The rules of ssl_enable.                                                *)
LEMMA SlavePieces ==
    /\ Piece(SlaveRules, 2)
    /\ \A c : Native(c) => (Grants(SlaveRules, c) <=> SlaveGrants(c))
    /\ \A c : ~Refuses(SlaveRules, c)
<1> DEFINE p1 == allow_nr_1_arg_match("recvmsg", 3, None)
           p2 == allow_nr_2_arg_match("setsockopt", 2, One("IPPROTO_TCP"), 3,
                 One("TCP_NODELAY"))
           g2 == Glue(p1, p2)
<1>0. SlaveRules = g2
    BY Zenon DEF SlaveRules, One, Both, None, Glue
<1>p1. /\ Piece(p1, 1)
       /\ \A c : Native(c) => (Grants(p1, c) <=> c.nr = "recvmsg" /\ c.args[3] = None)
       /\ \A c : ~Refuses(p1, c)
    BY AllowOneMatch
<1>p2. /\ Piece(p2, 1)
       /\ \A c : Native(c) => (Grants(p2, c) <=> c.nr = "setsockopt"
             /\ c.args[2] = One("IPPROTO_TCP") /\ c.args[3] = One("TCP_NODELAY"))
       /\ \A c : ~Refuses(p2, c)
    BY AllowTwoMatch
<1> HIDE DEF p1, p2
<1>2. Joined(g2, p1, p2)
    BY <1>p2, <1>p1, ListsGlued DEF Piece
<1> HIDE DEF g2
<1>L. Piece(g2, 2)
  <2>1. Len(g2) <= 2
    BY <1>p1, <1>p2, <1>2, PieceLength DEF Joined
  <2> QED BY <1>2, <2>1 DEF Piece, Joined
<1>M. ASSUME NEW c, Native(c)
      PROVE  /\ Grants(g2, c) <=> SlaveGrants(c)
             /\ ~Refuses(g2, c)
    BY <1>M, <1>p1, <1>p2, <1>2 DEF Joined, SlaveGrants
<1>N. \A c : ~Refuses(g2, c)
    BY <1>p1, <1>p2, <1>2 DEF Joined
<1> QED BY <1>0, <1>L, <1>M, <1>N

PreloginGrants(t, c) ==
    \/ BaseGrants(c)
    \/ c.nr = "recvfrom" /\ c.args[4] = One("MSG_PEEK")
    \/ c.nr \in {"nanosleep", "getpid", "shutdown"}
    \/ c.nr = "fcntl" /\ c.args[2] = One("F_GETFL")
    \/ c.nr = "fcntl" /\ c.args[3] \subseteq AllFlags /\ c.args[2] = One("F_SETFL")
    \/ "idle_session_timeout" \in t /\ c.nr \in {"rt_sigaction", "alarm"}
    \/ Logs(t) /\ LocksGrant(c)
    \/ "ssl_enable" \in t /\ SlaveGrants(c)

PreloginRefuses(t, c) == c.nr = "mremap" \/ ("syslog_enable" \in t /\ c.nr = "socket")

(* The rules of the process that reads the login.                          *)
LEMMA PreloginPieces ==
    ASSUME NEW t
    PROVE  /\ Piece(seccomp_sandbox_setup_prelogin(t), 25)
           /\ \A c : Native(c) => (Grants(seccomp_sandbox_setup_prelogin(t), c)
                 <=> PreloginGrants(t, c))
           /\ \A c : Native(c) => (Refuses(seccomp_sandbox_setup_prelogin(t), c)
                 <=> PreloginRefuses(t, c))
<1> DEFINE p1 == seccomp_sandbox_setup_base
           p2 == allow_nr_1_arg_match("recvfrom", 4, One("MSG_PEEK"))
           p3 == AllowAll(<<"nanosleep", "getpid", "shutdown">>)
           p4 == allow_nr_1_arg_match("fcntl", 2, One("F_GETFL"))
           p5 == allow_nr_2_arg_mask_match("fcntl", 3, AllFlags, 2, One("F_SETFL"))
           q6 == AllowAll(<<"rt_sigaction", "alarm">>)
           p6 == When("idle_session_timeout" \in t, q6)
           q7 == FileLocks
           p7 == When(Logs(t), q7)
           q8 == SlaveRules
           p8 == When("ssl_enable" \in t, q8)
           q9 == reject_nr("socket", "EACCES")
           p9 == When("syslog_enable" \in t, q9)
           g2 == Glue(p1, p2)
           g3 == Glue(g2, p3)
           g4 == Glue(g3, p4)
           g5 == Glue(g4, p5)
           g6 == Glue(g5, p6)
           g7 == Glue(g6, p7)
           g8 == Glue(g7, p8)
           g9 == Glue(g8, p9)
<1>0. seccomp_sandbox_setup_prelogin(t) = g9
    BY Zenon DEF seccomp_sandbox_setup_prelogin, SlaveRules, AllFlags, Logs, One, Both, None,
       Glue
<1> HIDE DEF q6, q7, q8, q9
<1>p1. /\ Piece(p1, 12)
       /\ \A c : Native(c) => (Grants(p1, c) <=> BaseGrants(c))
       /\ \A c : Native(c) => (Refuses(p1, c) <=> c.nr = "mremap")
    BY BasePieces
<1>p2. /\ Piece(p2, 1)
       /\ \A c : Native(c) => (Grants(p2, c) <=> c.nr = "recvfrom"
             /\ c.args[4] = One("MSG_PEEK"))
       /\ \A c : ~Refuses(p2, c)
    BY AllowOneMatch
<1>p3. /\ Piece(p3, 3)
       /\ \A c : Native(c) => (Grants(p3, c) <=> c.nr \in {"nanosleep", "getpid", "shutdown"})
       /\ \A c : ~Refuses(p3, c)
    BY AllowThreeNrs
<1>p4. /\ Piece(p4, 1)
       /\ \A c : Native(c) => (Grants(p4, c) <=> c.nr = "fcntl" /\ c.args[2] = One("F_GETFL"))
       /\ \A c : ~Refuses(p4, c)
    BY AllowOneMatch
<1>p5. /\ Piece(p5, 1)
       /\ \A c : Native(c) => (Grants(p5, c) <=> c.nr = "fcntl" /\ c.args[3] \subseteq AllFlags
             /\ c.args[2] = One("F_SETFL"))
       /\ \A c : ~Refuses(p5, c)
    BY AllowTwoMask
<1>p6. /\ Piece(p6, 2)
       /\ \A c : Native(c) => (Grants(p6, c) <=> "idle_session_timeout" \in t
             /\ c.nr \in {"rt_sigaction", "alarm"})
       /\ \A c : ~Refuses(p6, c)
  <2>1. /\ Piece(q6, 2)
        /\ \A c : Native(c) => (Grants(q6, c) <=> c.nr \in {"rt_sigaction", "alarm"})
        /\ \A c : ~Refuses(q6, c)
    BY AllowTwoNrs DEF q6
  <2> QED BY <2>1, WhenPiece
<1>p7. /\ Piece(p7, 2)
       /\ \A c : Native(c) => (Grants(p7, c) <=> Logs(t) /\ LocksGrant(c))
       /\ \A c : ~Refuses(p7, c)
  <2>1. /\ Piece(q7, 2)
        /\ \A c : Native(c) => (Grants(q7, c) <=> LocksGrant(c))
        /\ \A c : ~Refuses(q7, c)
    BY LocksPieces DEF q7
  <2> QED BY <2>1, WhenPiece
<1>p8. /\ Piece(p8, 2)
       /\ \A c : Native(c) => (Grants(p8, c) <=> "ssl_enable" \in t /\ SlaveGrants(c))
       /\ \A c : ~Refuses(p8, c)
  <2>1. /\ Piece(q8, 2)
        /\ \A c : Native(c) => (Grants(q8, c) <=> SlaveGrants(c))
        /\ \A c : ~Refuses(q8, c)
    BY SlavePieces DEF q8
  <2> QED BY <2>1, WhenPiece
<1>p9. /\ Piece(p9, 1)
       /\ \A c : ~Grants(p9, c)
       /\ \A c : Native(c) => (Refuses(p9, c) <=> "syslog_enable" \in t /\ c.nr = "socket")
  <2>1. /\ Piece(q9, 1)
        /\ \A c : ~Grants(q9, c)
        /\ \A c : Native(c) => (Refuses(q9, c) <=> c.nr = "socket")
    BY RejectNr DEF NoError, q9
  <2> QED BY <2>1, WhenPiece
<1> HIDE DEF p1, p2, p3, p4, p5, p6, p7, p8, p9
<1>2. Joined(g2, p1, p2)
    BY <1>p2, <1>p1, ListsGlued DEF Piece
<1> HIDE DEF g2
<1>3. Joined(g3, g2, p3)
    BY <1>p3, <1>2, ListsGlued DEF Piece, Joined
<1> HIDE DEF g3
<1>4. Joined(g4, g3, p4)
    BY <1>p4, <1>3, ListsGlued DEF Piece, Joined
<1> HIDE DEF g4
<1>5. Joined(g5, g4, p5)
    BY <1>p5, <1>4, ListsGlued DEF Piece, Joined
<1> HIDE DEF g5
<1>6. Joined(g6, g5, p6)
    BY <1>p6, <1>5, ListsGlued DEF Piece, Joined
<1> HIDE DEF g6
<1>7. Joined(g7, g6, p7)
    BY <1>p7, <1>6, ListsGlued DEF Piece, Joined
<1> HIDE DEF g7
<1>8. Joined(g8, g7, p8)
    BY <1>p8, <1>7, ListsGlued DEF Piece, Joined
<1> HIDE DEF g8
<1>9. Joined(g9, g8, p9)
    BY <1>p9, <1>8, ListsGlued DEF Piece, Joined
<1> HIDE DEF g9
<1>L. Piece(g9, 25)
  <2>1. Len(g9) <= 25
    BY <1>p1, <1>p2, <1>p3, <1>p4, <1>p5, <1>p6, <1>p7, <1>p8, <1>p9, <1>2, <1>3, <1>4, <1>5,
       <1>6, <1>7, <1>8, <1>9, PieceLength DEF Joined
  <2> QED BY <1>9, <2>1 DEF Piece, Joined
<1>M. ASSUME NEW c, Native(c)
      PROVE  /\ Grants(g9, c) <=> PreloginGrants(t, c)
             /\ Refuses(g9, c) <=> PreloginRefuses(t, c)
    BY <1>M, <1>p1, <1>p2, <1>p3, <1>p4, <1>p5, <1>p6, <1>p7, <1>p8, <1>p9, <1>2, <1>3, <1>4,
       <1>5, <1>6, <1>7, <1>8, <1>9 DEF Joined, PreloginGrants, PreloginRefuses
<1> QED BY <1>0, <1>L, <1>M

PortRules ==
    allow_nr("connect")
    \o allow_nr_2_arg_match("getsockopt", 2, One("SOL_SOCKET"), 3, One("SO_ERROR"))
    \o allow_nr_2_arg_match("setsockopt", 2, One("SOL_SOCKET"), 3, One("SO_REUSEADDR"))
    \o allow_nr_1_arg_match("fcntl", 2, One("F_GETFL"))
    \o allow_nr_2_arg_match("fcntl", 2, One("F_SETFL"), 3, Both("O_RDWR", "O_NONBLOCK"))
    \o allow_nr_2_arg_match("fcntl", 2, One("F_SETFL"), 3, One("O_RDWR"))

PortGrants(c) ==
    \/ c.nr = "connect"
    \/ c.nr = "getsockopt" /\ c.args[2] = One("SOL_SOCKET") /\ c.args[3] = One("SO_ERROR")
    \/ c.nr = "setsockopt" /\ c.args[2] = One("SOL_SOCKET") /\ c.args[3] = One("SO_REUSEADDR")
    \/ c.nr = "fcntl" /\ c.args[2] = One("F_GETFL")
    \/ c.nr = "fcntl" /\ c.args[2] = One("F_SETFL") /\ c.args[3] = Both("O_RDWR", "O_NONBLOCK")
    \/ c.nr = "fcntl" /\ c.args[2] = One("F_SETFL") /\ c.args[3] = One("O_RDWR")

(* The rules of port_enable.                                               *)
LEMMA PortPieces ==
    /\ Piece(PortRules, 6)
    /\ \A c : Native(c) => (Grants(PortRules, c) <=> PortGrants(c))
    /\ \A c : ~Refuses(PortRules, c)
<1> DEFINE p1 == allow_nr("connect")
           p2 == allow_nr_2_arg_match("getsockopt", 2, One("SOL_SOCKET"), 3, One("SO_ERROR"))
           p3 == allow_nr_2_arg_match("setsockopt", 2, One("SOL_SOCKET"), 3,
                 One("SO_REUSEADDR"))
           p4 == allow_nr_1_arg_match("fcntl", 2, One("F_GETFL"))
           p5 == allow_nr_2_arg_match("fcntl", 2, One("F_SETFL"), 3, Both("O_RDWR",
                 "O_NONBLOCK"))
           p6 == allow_nr_2_arg_match("fcntl", 2, One("F_SETFL"), 3, One("O_RDWR"))
           g2 == Glue(p1, p2)
           g3 == Glue(g2, p3)
           g4 == Glue(g3, p4)
           g5 == Glue(g4, p5)
           g6 == Glue(g5, p6)
<1>0. PortRules = g6
    BY Zenon DEF PortRules, One, Both, None, Glue
<1>p1. /\ Piece(p1, 1)
       /\ \A c : Native(c) => (Grants(p1, c) <=> c.nr = "connect")
       /\ \A c : ~Refuses(p1, c)
    BY AllowNr
<1>p2. /\ Piece(p2, 1)
       /\ \A c : Native(c) => (Grants(p2, c) <=> c.nr = "getsockopt"
             /\ c.args[2] = One("SOL_SOCKET") /\ c.args[3] = One("SO_ERROR"))
       /\ \A c : ~Refuses(p2, c)
    BY AllowTwoMatch
<1>p3. /\ Piece(p3, 1)
       /\ \A c : Native(c) => (Grants(p3, c) <=> c.nr = "setsockopt"
             /\ c.args[2] = One("SOL_SOCKET") /\ c.args[3] = One("SO_REUSEADDR"))
       /\ \A c : ~Refuses(p3, c)
    BY AllowTwoMatch
<1>p4. /\ Piece(p4, 1)
       /\ \A c : Native(c) => (Grants(p4, c) <=> c.nr = "fcntl" /\ c.args[2] = One("F_GETFL"))
       /\ \A c : ~Refuses(p4, c)
    BY AllowOneMatch
<1>p5. /\ Piece(p5, 1)
       /\ \A c : Native(c) => (Grants(p5, c) <=> c.nr = "fcntl" /\ c.args[2] = One("F_SETFL")
             /\ c.args[3] = Both("O_RDWR", "O_NONBLOCK"))
       /\ \A c : ~Refuses(p5, c)
    BY AllowTwoMatch
<1>p6. /\ Piece(p6, 1)
       /\ \A c : Native(c) => (Grants(p6, c) <=> c.nr = "fcntl" /\ c.args[2] = One("F_SETFL")
             /\ c.args[3] = One("O_RDWR"))
       /\ \A c : ~Refuses(p6, c)
    BY AllowTwoMatch
<1> HIDE DEF p1, p2, p3, p4, p5, p6
<1>2. Joined(g2, p1, p2)
    BY <1>p2, <1>p1, ListsGlued DEF Piece
<1> HIDE DEF g2
<1>3. Joined(g3, g2, p3)
    BY <1>p3, <1>2, ListsGlued DEF Piece, Joined
<1> HIDE DEF g3
<1>4. Joined(g4, g3, p4)
    BY <1>p4, <1>3, ListsGlued DEF Piece, Joined
<1> HIDE DEF g4
<1>5. Joined(g5, g4, p5)
    BY <1>p5, <1>4, ListsGlued DEF Piece, Joined
<1> HIDE DEF g5
<1>6. Joined(g6, g5, p6)
    BY <1>p6, <1>5, ListsGlued DEF Piece, Joined
<1> HIDE DEF g6
<1>L. Piece(g6, 6)
  <2>1. Len(g6) <= 6
    BY <1>p1, <1>p2, <1>p3, <1>p4, <1>p5, <1>p6, <1>2, <1>3, <1>4, <1>5, <1>6, PieceLength
       DEF Joined
  <2> QED BY <1>6, <2>1 DEF Piece, Joined
<1>M. ASSUME NEW c, Native(c)
      PROVE  /\ Grants(g6, c) <=> PortGrants(c)
             /\ ~Refuses(g6, c)
    BY <1>M, <1>p1, <1>p2, <1>p3, <1>p4, <1>p5, <1>p6, <1>2, <1>3, <1>4, <1>5, <1>6 DEF Joined,
       PortGrants
<1>N. \A c : ~Refuses(g6, c)
    BY <1>p1, <1>p2, <1>p3, <1>p4, <1>p5, <1>p6, <1>2, <1>3, <1>4, <1>5, <1>6 DEF Joined
<1> QED BY <1>0, <1>L, <1>M, <1>N

DataGrants(t, c) ==
    \/ c.nr = "socket" /\ c.args[1] = One("PF_INET") /\ c.args[2] = One("SOCK_STREAM")
          /\ c.args[3] = One("IPPROTO_TCP")
    \/ c.nr = "socket" /\ c.args[1] = One("PF_INET6") /\ c.args[2] = One("SOCK_STREAM")
          /\ c.args[3] = One("IPPROTO_TCP")
    \/ c.nr \in {"bind", "select"}
    \/ "port_enable" \in t /\ PortGrants(c)
    \/ "pasv_enable" \in t /\ c.nr \in {"listen", "accept"}

(* The rules of the process that opens the data connections.               *)
LEMMA DataPieces ==
    ASSUME NEW t
    PROVE  /\ Piece(seccomp_sandbox_setup_data_connections(t), 12)
           /\ \A c : Native(c) => (Grants(seccomp_sandbox_setup_data_connections(t), c)
                 <=> DataGrants(t, c))
           /\ \A c : ~Refuses(seccomp_sandbox_setup_data_connections(t), c)
<1> DEFINE p1 == allow_nr_3_arg_match("socket", 1, One("PF_INET"), 2, One("SOCK_STREAM"), 3,
               One("IPPROTO_TCP"))
           p2 == allow_nr_3_arg_match("socket", 1, One("PF_INET6"), 2, One("SOCK_STREAM"), 3,
                 One("IPPROTO_TCP"))
           p3 == AllowAll(<<"bind", "select">>)
           q4 == PortRules
           p4 == When("port_enable" \in t, q4)
           q5 == AllowAll(<<"listen", "accept">>)
           p5 == When("pasv_enable" \in t, q5)
           g2 == Glue(p1, p2)
           g3 == Glue(g2, p3)
           g4 == Glue(g3, p4)
           g5 == Glue(g4, p5)
<1>0. seccomp_sandbox_setup_data_connections(t) = g5
    BY Zenon DEF seccomp_sandbox_setup_data_connections, PortRules, One, Both, None, Glue
<1> HIDE DEF q4, q5
<1>p1. /\ Piece(p1, 1)
       /\ \A c : Native(c) => (Grants(p1, c) <=> c.nr = "socket" /\ c.args[1] = One("PF_INET")
             /\ c.args[2] = One("SOCK_STREAM") /\ c.args[3] = One("IPPROTO_TCP"))
       /\ \A c : ~Refuses(p1, c)
    BY AllowThreeMatch
<1>p2. /\ Piece(p2, 1)
       /\ \A c : Native(c) => (Grants(p2, c) <=> c.nr = "socket" /\ c.args[1] = One("PF_INET6")
             /\ c.args[2] = One("SOCK_STREAM") /\ c.args[3] = One("IPPROTO_TCP"))
       /\ \A c : ~Refuses(p2, c)
    BY AllowThreeMatch
<1>p3. /\ Piece(p3, 2)
       /\ \A c : Native(c) => (Grants(p3, c) <=> c.nr \in {"bind", "select"})
       /\ \A c : ~Refuses(p3, c)
    BY AllowTwoNrs
<1>p4. /\ Piece(p4, 6)
       /\ \A c : Native(c) => (Grants(p4, c) <=> "port_enable" \in t /\ PortGrants(c))
       /\ \A c : ~Refuses(p4, c)
  <2>1. /\ Piece(q4, 6)
        /\ \A c : Native(c) => (Grants(q4, c) <=> PortGrants(c))
        /\ \A c : ~Refuses(q4, c)
    BY PortPieces DEF q4
  <2>2. Piece(q4, 6) /\ ("port_enable" \in t) \in BOOLEAN
    BY <2>1
  <2>3. /\ Piece(p4, 6)
        /\ \A c : Grants(p4, c) <=> ("port_enable" \in t) /\ Grants(q4, c)
        /\ \A c : Refuses(p4, c) <=> ("port_enable" \in t) /\ Refuses(q4, c)
    BY <2>2, WhenPiece
  <2> QED BY <2>1, <2>3
<1>p5. /\ Piece(p5, 2)
       /\ \A c : Native(c) => (Grants(p5, c) <=> "pasv_enable" \in t /\ c.nr \in {"listen",
             "accept"})
       /\ \A c : ~Refuses(p5, c)
  <2>1. /\ Piece(q5, 2)
        /\ \A c : Native(c) => (Grants(q5, c) <=> c.nr \in {"listen", "accept"})
        /\ \A c : ~Refuses(q5, c)
    BY AllowTwoNrs DEF q5
  <2> QED BY <2>1, WhenPiece
<1> HIDE DEF p1, p2, p3, p4, p5
<1>2. Joined(g2, p1, p2)
    BY <1>p2, <1>p1, ListsGlued DEF Piece
<1> HIDE DEF g2
<1>3. Joined(g3, g2, p3)
    BY <1>p3, <1>2, ListsGlued DEF Piece, Joined
<1> HIDE DEF g3
<1>4. Joined(g4, g3, p4)
    BY <1>p4, <1>3, ListsGlued DEF Piece, Joined
<1> HIDE DEF g4
<1>5. Joined(g5, g4, p5)
    BY <1>p5, <1>4, ListsGlued DEF Piece, Joined
<1> HIDE DEF g5
<1>L. Piece(g5, 12)
  <2>1. Len(g5) <= 12
    BY <1>p1, <1>p2, <1>p3, <1>p4, <1>p5, <1>2, <1>3, <1>4, <1>5, PieceLength DEF Joined
  <2> QED BY <1>5, <2>1 DEF Piece, Joined
<1>M. ASSUME NEW c, Native(c)
      PROVE  /\ Grants(g5, c) <=> DataGrants(t, c)
             /\ ~Refuses(g5, c)
    BY <1>M, <1>p1, <1>p2, <1>p3, <1>p4, <1>p5, <1>2, <1>3, <1>4, <1>5 DEF Joined, DataGrants
<1>N. \A c : ~Refuses(g5, c)
    BY <1>p1, <1>p2, <1>p3, <1>p4, <1>p5, <1>2, <1>3, <1>4, <1>5 DEF Joined
<1> QED BY <1>0, <1>L, <1>M, <1>N

BrokerGrants(t, c) ==
    \/ BaseGrants(c)
    \/ DataGrants(t, c)
    \/ c.nr = "sendmsg" /\ c.args[3] = None

(* The rules of the broker.                                                *)
LEMMA BrokerPieces ==
    ASSUME NEW t
    PROVE  /\ Piece(seccomp_sandbox_setup_postlogin_broker(t), 25)
           /\ \A c : Native(c) => (Grants(seccomp_sandbox_setup_postlogin_broker(t), c)
                 <=> BrokerGrants(t, c))
           /\ \A c : Native(c) => (Refuses(seccomp_sandbox_setup_postlogin_broker(t), c)
                 <=> c.nr = "mremap")
<1> DEFINE p1 == seccomp_sandbox_setup_base
           p2 == seccomp_sandbox_setup_data_connections(t)
           p3 == allow_nr_1_arg_match("sendmsg", 3, None)
           g2 == Glue(p1, p2)
           g3 == Glue(g2, p3)
<1>0. seccomp_sandbox_setup_postlogin_broker(t) = g3
    BY Zenon DEF seccomp_sandbox_setup_postlogin_broker, One, Both, None, Glue
<1>p1. /\ Piece(p1, 12)
       /\ \A c : Native(c) => (Grants(p1, c) <=> BaseGrants(c))
       /\ \A c : Native(c) => (Refuses(p1, c) <=> c.nr = "mremap")
    BY BasePieces
<1>p2. /\ Piece(p2, 12)
       /\ \A c : Native(c) => (Grants(p2, c) <=> DataGrants(t, c))
       /\ \A c : ~Refuses(p2, c)
    BY DataPieces
<1>p3. /\ Piece(p3, 1)
       /\ \A c : Native(c) => (Grants(p3, c) <=> c.nr = "sendmsg" /\ c.args[3] = None)
       /\ \A c : ~Refuses(p3, c)
    BY AllowOneMatch
<1> HIDE DEF p1, p2, p3
<1>2. Joined(g2, p1, p2)
    BY <1>p2, <1>p1, ListsGlued DEF Piece
<1> HIDE DEF g2
<1>3. Joined(g3, g2, p3)
    BY <1>p3, <1>2, ListsGlued DEF Piece, Joined
<1> HIDE DEF g3
<1>L. Piece(g3, 25)
  <2>1. Len(g3) <= 25
    BY <1>p1, <1>p2, <1>p3, <1>2, <1>3, PieceLength DEF Joined
  <2> QED BY <1>3, <2>1 DEF Piece, Joined
<1>M. ASSUME NEW c, Native(c)
      PROVE  /\ Grants(g3, c) <=> BrokerGrants(t, c)
             /\ Refuses(g3, c) <=> c.nr = "mremap"
    BY <1>M, <1>p1, <1>p2, <1>p3, <1>2, <1>3 DEF Joined, BrokerGrants
<1> QED BY <1>0, <1>L, <1>M

WriteGrants(t, a, c) ==
    \/ MayMkdir(t, a) /\ c.nr = "mkdir"
    \/ MayUnlink(t, a) /\ c.nr = "unlink"
    \/ MayChange(t, a) /\ c.nr \in {"rmdir", "rename", "ftruncate"}
    \/ MayStamp(t, a) /\ c.nr \in {"utime", "utimes"}
    \/ MayChmod(t, a) /\ c.nr = "chmod"

(* The rules of write_enable.                                              *)
LEMMA WritePieces ==
    ASSUME NEW t, NEW a \in BOOLEAN
    PROVE  /\ Piece(WriteRules(t, a), 8)
           /\ \A c : Native(c) => (Grants(WriteRules(t, a), c) <=> WriteGrants(t, a, c))
           /\ \A c : ~Refuses(WriteRules(t, a), c)
<1> DEFINE q1 == allow_nr("mkdir")
           p1 == When(MayMkdir(t, a), q1)
           q2 == allow_nr("unlink")
           p2 == When(MayUnlink(t, a), q2)
           q3 == AllowAll(<<"rmdir", "rename", "ftruncate">>)
           p3 == When(MayChange(t, a), q3)
           q4 == AllowAll(<<"utime", "utimes">>)
           p4 == When(MayStamp(t, a), q4)
           q5 == allow_nr("chmod")
           p5 == When(MayChmod(t, a), q5)
           g2 == Glue(p1, p2)
           g3 == Glue(g2, p3)
           g4 == Glue(g3, p4)
           g5 == Glue(g4, p5)
<1>0. WriteRules(t, a) = g5
    BY Zenon DEF WriteRules, MayMkdir, MayUnlink, MayChange, MayStamp, MayChmod, Glue
<1> HIDE DEF q1, q2, q3, q4, q5
<1>p1. /\ Piece(p1, 1)
       /\ \A c : Native(c) => (Grants(p1, c) <=> MayMkdir(t, a) /\ c.nr = "mkdir")
       /\ \A c : ~Refuses(p1, c)
  <2>1. /\ Piece(q1, 1)
        /\ \A c : Native(c) => (Grants(q1, c) <=> c.nr = "mkdir")
        /\ \A c : ~Refuses(q1, c)
    BY AllowNr DEF q1
  <2> QED BY <2>1, WhenPiece
<1>p2. /\ Piece(p2, 1)
       /\ \A c : Native(c) => (Grants(p2, c) <=> MayUnlink(t, a) /\ c.nr = "unlink")
       /\ \A c : ~Refuses(p2, c)
  <2>1. /\ Piece(q2, 1)
        /\ \A c : Native(c) => (Grants(q2, c) <=> c.nr = "unlink")
        /\ \A c : ~Refuses(q2, c)
    BY AllowNr DEF q2
  <2> QED BY <2>1, WhenPiece
<1>p3. /\ Piece(p3, 3)
       /\ \A c : Native(c) => (Grants(p3, c) <=> MayChange(t, a) /\ c.nr \in {"rmdir", "rename",
             "ftruncate"})
       /\ \A c : ~Refuses(p3, c)
  <2>1. /\ Piece(q3, 3)
        /\ \A c : Native(c) => (Grants(q3, c) <=> c.nr \in {"rmdir", "rename", "ftruncate"})
        /\ \A c : ~Refuses(q3, c)
    BY AllowThreeNrs DEF q3
  <2> QED BY <2>1, WhenPiece
<1>p4. /\ Piece(p4, 2)
       /\ \A c : Native(c) => (Grants(p4, c) <=> MayStamp(t, a) /\ c.nr \in {"utime", "utimes"})
       /\ \A c : ~Refuses(p4, c)
  <2>1. /\ Piece(q4, 2)
        /\ \A c : Native(c) => (Grants(q4, c) <=> c.nr \in {"utime", "utimes"})
        /\ \A c : ~Refuses(q4, c)
    BY AllowTwoNrs DEF q4
  <2> QED BY <2>1, WhenPiece
<1>p5. /\ Piece(p5, 1)
       /\ \A c : Native(c) => (Grants(p5, c) <=> MayChmod(t, a) /\ c.nr = "chmod")
       /\ \A c : ~Refuses(p5, c)
  <2>1. /\ Piece(q5, 1)
        /\ \A c : Native(c) => (Grants(q5, c) <=> c.nr = "chmod")
        /\ \A c : ~Refuses(q5, c)
    BY AllowNr DEF q5
  <2> QED BY <2>1, WhenPiece
<1> HIDE DEF p1, p2, p3, p4, p5
<1>2. Joined(g2, p1, p2)
    BY <1>p2, <1>p1, ListsGlued DEF Piece
<1> HIDE DEF g2
<1>3. Joined(g3, g2, p3)
    BY <1>p3, <1>2, ListsGlued DEF Piece, Joined
<1> HIDE DEF g3
<1>4. Joined(g4, g3, p4)
    BY <1>p4, <1>3, ListsGlued DEF Piece, Joined
<1> HIDE DEF g4
<1>5. Joined(g5, g4, p5)
    BY <1>p5, <1>4, ListsGlued DEF Piece, Joined
<1> HIDE DEF g5
<1>L. Piece(g5, 8)
  <2>1. Len(g5) <= 8
    BY <1>p1, <1>p2, <1>p3, <1>p4, <1>p5, <1>2, <1>3, <1>4, <1>5, PieceLength DEF Joined
  <2> QED BY <1>5, <2>1 DEF Piece, Joined
<1>M. ASSUME NEW c, Native(c)
      PROVE  /\ Grants(g5, c) <=> WriteGrants(t, a, c)
             /\ ~Refuses(g5, c)
    BY <1>M, <1>p1, <1>p2, <1>p3, <1>p4, <1>p5, <1>2, <1>3, <1>4, <1>5 DEF Joined, WriteGrants
<1>N. \A c : ~Refuses(g5, c)
    BY <1>p1, <1>p2, <1>p3, <1>p4, <1>p5, <1>2, <1>3, <1>4, <1>5 DEF Joined
<1> QED BY <1>0, <1>L, <1>M, <1>N

CommonRules(t) ==
    allow_nr("lstat")
    \o seccomp_sandbox_setup_prelogin(t)
    \o When(Locks(t), FileLocks)
    \o When("async_abor_enable" \in t, allow_nr_2_arg_match("fcntl", 2, One("F_SETOWN"), 3,
          One("pid")))
    \o allow_nr_2_arg_match("setsockopt", 2, One("SOL_SOCKET"), 3, One("SO_KEEPALIVE"))
    \o allow_nr_2_arg_match("setsockopt", 2, One("SOL_SOCKET"), 3, One("SO_LINGER"))
    \o allow_nr_2_arg_match("setsockopt", 2, One("IPPROTO_IP"), 3, One("IP_TOS"))
    \o AllowAll(<<"fstat", "lseek">>)
    \o allow_nr_1_arg_mask("open", 2, OpenFlags(t))
    \o allow_nr_1_arg_mask("openat", 3, OpenFlags(t))
    \o AllowAll(<<"stat", "readlink", "getcwd", "chdir", "getdents", "umask">>)
    \o When("use_sendfile" \in t, allow_nr("sendfile"))
    \o When(Signals(t), allow_nr("rt_sigaction"))
    \o When(Times(t), allow_nr("alarm"))

CommonGrants(t, c) ==
    \/ c.nr = "lstat"
    \/ PreloginGrants(t, c)
    \/ Locks(t) /\ LocksGrant(c)
    \/ "async_abor_enable" \in t /\ c.nr = "fcntl" /\ c.args[2] = One("F_SETOWN")
          /\ c.args[3] = One("pid")
    \/ c.nr = "setsockopt" /\ c.args[2] = One("SOL_SOCKET") /\ c.args[3] = One("SO_KEEPALIVE")
    \/ c.nr = "setsockopt" /\ c.args[2] = One("SOL_SOCKET") /\ c.args[3] = One("SO_LINGER")
    \/ c.nr = "setsockopt" /\ c.args[2] = One("IPPROTO_IP") /\ c.args[3] = One("IP_TOS")
    \/ c.nr \in {"fstat", "lseek"}
    \/ c.nr = "open" /\ c.args[2] \subseteq OpenFlags(t)
    \/ c.nr = "openat" /\ c.args[3] \subseteq OpenFlags(t)
    \/ c.nr \in {"stat", "readlink", "getcwd", "chdir", "getdents", "umask"}
    \/ "use_sendfile" \in t /\ c.nr = "sendfile"
    \/ Signals(t) /\ c.nr = "rt_sigaction"
    \/ Times(t) /\ c.nr = "alarm"

(* The rules of the session that depend on no one else.                    *)
LEMMA CommonPieces ==
    ASSUME NEW t
    PROVE  /\ Piece(CommonRules(t), 45)
           /\ \A c : Native(c) => (Grants(CommonRules(t), c) <=> CommonGrants(t, c))
           /\ \A c : Native(c) => (Refuses(CommonRules(t), c) <=> PreloginRefuses(t, c))
<1> DEFINE p1 == allow_nr("lstat")
           p2 == seccomp_sandbox_setup_prelogin(t)
           q3 == FileLocks
           p3 == When(Locks(t), q3)
           q4 == allow_nr_2_arg_match("fcntl", 2, One("F_SETOWN"), 3, One("pid"))
           p4 == When("async_abor_enable" \in t, q4)
           p5 == allow_nr_2_arg_match("setsockopt", 2, One("SOL_SOCKET"), 3,
                 One("SO_KEEPALIVE"))
           p6 == allow_nr_2_arg_match("setsockopt", 2, One("SOL_SOCKET"), 3, One("SO_LINGER"))
           p7 == allow_nr_2_arg_match("setsockopt", 2, One("IPPROTO_IP"), 3, One("IP_TOS"))
           p8 == AllowAll(<<"fstat", "lseek">>)
           p9 == allow_nr_1_arg_mask("open", 2, OpenFlags(t))
           p10 == allow_nr_1_arg_mask("openat", 3, OpenFlags(t))
           p11 == AllowAll(<<"stat", "readlink", "getcwd", "chdir", "getdents", "umask">>)
           q12 == allow_nr("sendfile")
           p12 == When("use_sendfile" \in t, q12)
           q13 == allow_nr("rt_sigaction")
           p13 == When(Signals(t), q13)
           q14 == allow_nr("alarm")
           p14 == When(Times(t), q14)
           g2 == Glue(p1, p2)
           g3 == Glue(g2, p3)
           g4 == Glue(g3, p4)
           g5 == Glue(g4, p5)
           g6 == Glue(g5, p6)
           g7 == Glue(g6, p7)
           g8 == Glue(g7, p8)
           g9 == Glue(g8, p9)
           g10 == Glue(g9, p10)
           g11 == Glue(g10, p11)
           g12 == Glue(g11, p12)
           g13 == Glue(g12, p13)
           g14 == Glue(g13, p14)
<1>0. CommonRules(t) = g14
    BY Zenon DEF CommonRules, One, Both, None, Glue
<1> HIDE DEF q3, q4, q12, q13, q14
<1>p1. /\ Piece(p1, 1)
       /\ \A c : Native(c) => (Grants(p1, c) <=> c.nr = "lstat")
       /\ \A c : ~Refuses(p1, c)
    BY AllowNr
<1>p2. /\ Piece(p2, 25)
       /\ \A c : Native(c) => (Grants(p2, c) <=> PreloginGrants(t, c))
       /\ \A c : Native(c) => (Refuses(p2, c) <=> PreloginRefuses(t, c))
    BY PreloginPieces
<1>p3. /\ Piece(p3, 2)
       /\ \A c : Native(c) => (Grants(p3, c) <=> Locks(t) /\ LocksGrant(c))
       /\ \A c : ~Refuses(p3, c)
  <2>1. /\ Piece(q3, 2)
        /\ \A c : Native(c) => (Grants(q3, c) <=> LocksGrant(c))
        /\ \A c : ~Refuses(q3, c)
    BY LocksPieces DEF q3
  <2> QED BY <2>1, WhenPiece
<1>p4. /\ Piece(p4, 1)
       /\ \A c : Native(c) => (Grants(p4, c) <=> "async_abor_enable" \in t /\ c.nr = "fcntl"
             /\ c.args[2] = One("F_SETOWN") /\ c.args[3] = One("pid"))
       /\ \A c : ~Refuses(p4, c)
  <2>1. /\ Piece(q4, 1)
        /\ \A c : Native(c) => (Grants(q4, c) <=> c.nr = "fcntl" /\ c.args[2] = One("F_SETOWN")
              /\ c.args[3] = One("pid"))
        /\ \A c : ~Refuses(q4, c)
    BY AllowTwoMatch DEF q4
  <2> QED BY <2>1, WhenPiece
<1>p5. /\ Piece(p5, 1)
       /\ \A c : Native(c) => (Grants(p5, c) <=> c.nr = "setsockopt"
             /\ c.args[2] = One("SOL_SOCKET") /\ c.args[3] = One("SO_KEEPALIVE"))
       /\ \A c : ~Refuses(p5, c)
    BY AllowTwoMatch
<1>p6. /\ Piece(p6, 1)
       /\ \A c : Native(c) => (Grants(p6, c) <=> c.nr = "setsockopt"
             /\ c.args[2] = One("SOL_SOCKET") /\ c.args[3] = One("SO_LINGER"))
       /\ \A c : ~Refuses(p6, c)
    BY AllowTwoMatch
<1>p7. /\ Piece(p7, 1)
       /\ \A c : Native(c) => (Grants(p7, c) <=> c.nr = "setsockopt"
             /\ c.args[2] = One("IPPROTO_IP") /\ c.args[3] = One("IP_TOS"))
       /\ \A c : ~Refuses(p7, c)
    BY AllowTwoMatch
<1>p8. /\ Piece(p8, 2)
       /\ \A c : Native(c) => (Grants(p8, c) <=> c.nr \in {"fstat", "lseek"})
       /\ \A c : ~Refuses(p8, c)
    BY AllowTwoNrs
<1>p9. /\ Piece(p9, 1)
       /\ \A c : Native(c) => (Grants(p9, c) <=> c.nr = "open"
             /\ c.args[2] \subseteq OpenFlags(t))
       /\ \A c : ~Refuses(p9, c)
    BY AllowOneMask
<1>p10. /\ Piece(p10, 1)
        /\ \A c : Native(c) => (Grants(p10, c) <=> c.nr = "openat"
              /\ c.args[3] \subseteq OpenFlags(t))
        /\ \A c : ~Refuses(p10, c)
    BY AllowOneMask
<1>p11. /\ Piece(p11, 6)
        /\ \A c : Native(c) => (Grants(p11, c) <=> c.nr \in {"stat", "readlink", "getcwd",
              "chdir", "getdents", "umask"})
        /\ \A c : ~Refuses(p11, c)
    BY AllowSixNrs
<1>p12. /\ Piece(p12, 1)
        /\ \A c : Native(c) => (Grants(p12, c) <=> "use_sendfile" \in t /\ c.nr = "sendfile")
        /\ \A c : ~Refuses(p12, c)
  <2>1. /\ Piece(q12, 1)
        /\ \A c : Native(c) => (Grants(q12, c) <=> c.nr = "sendfile")
        /\ \A c : ~Refuses(q12, c)
    BY AllowNr DEF q12
  <2> QED BY <2>1, WhenPiece
<1>p13. /\ Piece(p13, 1)
        /\ \A c : Native(c) => (Grants(p13, c) <=> Signals(t) /\ c.nr = "rt_sigaction")
        /\ \A c : ~Refuses(p13, c)
  <2>1. /\ Piece(q13, 1)
        /\ \A c : Native(c) => (Grants(q13, c) <=> c.nr = "rt_sigaction")
        /\ \A c : ~Refuses(q13, c)
    BY AllowNr DEF q13
  <2> QED BY <2>1, WhenPiece
<1>p14. /\ Piece(p14, 1)
        /\ \A c : Native(c) => (Grants(p14, c) <=> Times(t) /\ c.nr = "alarm")
        /\ \A c : ~Refuses(p14, c)
  <2>1. /\ Piece(q14, 1)
        /\ \A c : Native(c) => (Grants(q14, c) <=> c.nr = "alarm")
        /\ \A c : ~Refuses(q14, c)
    BY AllowNr DEF q14
  <2> QED BY <2>1, WhenPiece
<1> HIDE DEF p1, p2, p3, p4, p5, p6, p7, p8, p9, p10, p11, p12, p13, p14
<1>2. Joined(g2, p1, p2)
    BY <1>p2, <1>p1, ListsGlued DEF Piece
<1> HIDE DEF g2
<1>3. Joined(g3, g2, p3)
    BY <1>p3, <1>2, ListsGlued DEF Piece, Joined
<1> HIDE DEF g3
<1>4. Joined(g4, g3, p4)
    BY <1>p4, <1>3, ListsGlued DEF Piece, Joined
<1> HIDE DEF g4
<1>5. Joined(g5, g4, p5)
    BY <1>p5, <1>4, ListsGlued DEF Piece, Joined
<1> HIDE DEF g5
<1>6. Joined(g6, g5, p6)
    BY <1>p6, <1>5, ListsGlued DEF Piece, Joined
<1> HIDE DEF g6
<1>7. Joined(g7, g6, p7)
    BY <1>p7, <1>6, ListsGlued DEF Piece, Joined
<1> HIDE DEF g7
<1>8. Joined(g8, g7, p8)
    BY <1>p8, <1>7, ListsGlued DEF Piece, Joined
<1> HIDE DEF g8
<1>9. Joined(g9, g8, p9)
    BY <1>p9, <1>8, ListsGlued DEF Piece, Joined
<1> HIDE DEF g9
<1>10. Joined(g10, g9, p10)
    BY <1>p10, <1>9, ListsGlued DEF Piece, Joined
<1> HIDE DEF g10
<1>11. Joined(g11, g10, p11)
    BY <1>p11, <1>10, ListsGlued DEF Piece, Joined
<1> HIDE DEF g11
<1>12. Joined(g12, g11, p12)
    BY <1>p12, <1>11, ListsGlued DEF Piece, Joined
<1> HIDE DEF g12
<1>13. Joined(g13, g12, p13)
    BY <1>p13, <1>12, ListsGlued DEF Piece, Joined
<1> HIDE DEF g13
<1>14. Joined(g14, g13, p14)
    BY <1>p14, <1>13, ListsGlued DEF Piece, Joined
<1> HIDE DEF g14
<1>L. Piece(g14, 45)
  <2>1. Len(g7) <= 32 /\ Len(g7) \in Nat
    BY <1>p1, <1>p2, <1>p3, <1>p4, <1>p5, <1>p6, <1>p7, <1>2, <1>3, <1>4, <1>5, <1>6, <1>7,
       PieceLength DEF Joined
  <2>2. Len(g14) <= Len(g7) + 13
    BY <2>1, <1>p8, <1>p9, <1>p10, <1>p11, <1>p12, <1>p13, <1>p14, <1>8, <1>9, <1>10, <1>11,
       <1>12, <1>13, <1>14, PieceLength DEF Joined
  <2> QED BY <1>14, <2>1, <2>2 DEF Piece, Joined
<1>M. ASSUME NEW c, Native(c)
      PROVE  /\ Grants(g14, c) <=> CommonGrants(t, c)
             /\ Refuses(g14, c) <=> PreloginRefuses(t, c)
  <2>1. /\ Grants(g7, c) <=>
            Grants(p1, c) \/ Grants(p2, c) \/ Grants(p3, c) \/ Grants(p4, c) \/
            Grants(p5, c) \/ Grants(p6, c) \/ Grants(p7, c)
        /\ Refuses(g7, c) <=>
            Refuses(p1, c) \/ Refuses(p2, c) \/ Refuses(p3, c) \/ Refuses(p4, c) \/
            Refuses(p5, c) \/ Refuses(p6, c) \/ Refuses(p7, c)
    BY <1>2, <1>3, <1>4, <1>5, <1>6, <1>7 DEF Joined
  <2>2. /\ Grants(g14, c) <=>
            Grants(g7, c) \/ Grants(p8, c) \/ Grants(p9, c) \/ Grants(p10, c) \/
            Grants(p11, c) \/ Grants(p12, c) \/ Grants(p13, c) \/ Grants(p14, c)
        /\ Refuses(g14, c) <=>
            Refuses(g7, c) \/ Refuses(p8, c) \/ Refuses(p9, c) \/ Refuses(p10, c) \/
            Refuses(p11, c) \/ Refuses(p12, c) \/ Refuses(p13, c) \/ Refuses(p14, c)
    BY <1>8, <1>9, <1>10, <1>11, <1>12, <1>13, <1>14 DEF Joined
  <2>3. Refuses(g14, c) <=> PreloginRefuses(t, c)
    BY <1>M, <1>p1, <1>p2, <1>p3, <1>p4, <1>p5, <1>p6, <1>p7, <1>p8, <1>p9, <1>p10, <1>p11,
       <1>p12, <1>p13, <1>p14, <2>1, <2>2
  <2>4. Grants(g14, c) <=> CommonGrants(t, c)
    BY <1>M, <1>p1, <1>p2, <1>p3, <1>p4, <1>p5, <1>p6, <1>p7, <1>p8, <1>p9, <1>p10, <1>p11,
       <1>p12, <1>p13, <1>p14, <2>1, <2>2, SMTT(30) DEF CommonGrants
  <2> QED BY <2>3, <2>4
<1> QED BY <1>0, <1>L, <1>M

OwnRules(t, a) ==
    seccomp_sandbox_setup_data_connections(t)
    \o When(Chown(t, a), AllowAll(<<"fchmod", "fchown">>))

OwnGrants(t, a, c) ==
    \/ DataGrants(t, c)
    \/ Chown(t, a) /\ c.nr \in {"fchmod", "fchown"}

(* The rules of the session that opens its own data connections.           *)
LEMMA OwnPieces ==
    ASSUME NEW t, NEW a \in BOOLEAN
    PROVE  /\ Piece(OwnRules(t, a), 14)
           /\ \A c : Native(c) => (Grants(OwnRules(t, a), c) <=> OwnGrants(t, a, c))
           /\ \A c : ~Refuses(OwnRules(t, a), c)
<1> DEFINE p1 == seccomp_sandbox_setup_data_connections(t)
           q2 == AllowAll(<<"fchmod", "fchown">>)
           p2 == When(Chown(t, a), q2)
           g2 == Glue(p1, p2)
<1>0. OwnRules(t, a) = g2
    BY Zenon DEF OwnRules, Glue
<1> HIDE DEF q2
<1>p1. /\ Piece(p1, 12)
       /\ \A c : Native(c) => (Grants(p1, c) <=> DataGrants(t, c))
       /\ \A c : ~Refuses(p1, c)
    BY DataPieces
<1>p2. /\ Piece(p2, 2)
       /\ \A c : Native(c) => (Grants(p2, c) <=> Chown(t, a) /\ c.nr \in {"fchmod", "fchown"})
       /\ \A c : ~Refuses(p2, c)
  <2>1. /\ Piece(q2, 2)
        /\ \A c : Native(c) => (Grants(q2, c) <=> c.nr \in {"fchmod", "fchown"})
        /\ \A c : ~Refuses(q2, c)
    BY AllowTwoNrs DEF q2
  <2> QED BY <2>1, WhenPiece
<1> HIDE DEF p1, p2
<1>2. Joined(g2, p1, p2)
    BY <1>p2, <1>p1, ListsGlued DEF Piece
<1> HIDE DEF g2
<1>L. Piece(g2, 14)
  <2>1. Len(g2) <= 14
    BY <1>p1, <1>p2, <1>2, PieceLength DEF Joined
  <2> QED BY <1>2, <2>1 DEF Piece, Joined
<1>M. ASSUME NEW c, Native(c)
      PROVE  /\ Grants(g2, c) <=> OwnGrants(t, a, c)
             /\ ~Refuses(g2, c)
    BY <1>M, <1>p1, <1>p2, <1>2 DEF Joined, OwnGrants
<1>N. \A c : ~Refuses(g2, c)
    BY <1>p1, <1>p2, <1>2 DEF Joined
<1> QED BY <1>0, <1>L, <1>M, <1>N

HandRules(t, a) ==
    allow_nr_1_arg_match("recvmsg", 3, None)
    \o When(Hands(t, a), allow_nr_1_arg_match("sendmsg", 3, None))

HandGrants(t, a, c) ==
    \/ c.nr = "recvmsg" /\ c.args[3] = None
    \/ Hands(t, a) /\ c.nr = "sendmsg" /\ c.args[3] = None

(* The rules of the session that gets them from the broker.                *)
LEMMA HandPieces ==
    ASSUME NEW t, NEW a \in BOOLEAN
    PROVE  /\ Piece(HandRules(t, a), 2)
           /\ \A c : Native(c) => (Grants(HandRules(t, a), c) <=> HandGrants(t, a, c))
           /\ \A c : ~Refuses(HandRules(t, a), c)
<1> DEFINE p1 == allow_nr_1_arg_match("recvmsg", 3, None)
           q2 == allow_nr_1_arg_match("sendmsg", 3, None)
           p2 == When(Hands(t, a), q2)
           g2 == Glue(p1, p2)
<1>0. HandRules(t, a) = g2
    BY Zenon DEF HandRules, One, Both, None, Glue
<1> HIDE DEF q2
<1>p1. /\ Piece(p1, 1)
       /\ \A c : Native(c) => (Grants(p1, c) <=> c.nr = "recvmsg" /\ c.args[3] = None)
       /\ \A c : ~Refuses(p1, c)
    BY AllowOneMatch
<1>p2. /\ Piece(p2, 1)
       /\ \A c : Native(c) => (Grants(p2, c) <=> Hands(t, a) /\ c.nr = "sendmsg"
             /\ c.args[3] = None)
       /\ \A c : ~Refuses(p2, c)
  <2>1. /\ Piece(q2, 1)
        /\ \A c : Native(c) => (Grants(q2, c) <=> c.nr = "sendmsg" /\ c.args[3] = None)
        /\ \A c : ~Refuses(q2, c)
    BY AllowOneMatch DEF q2
  <2> QED BY <2>1, WhenPiece
<1> HIDE DEF p1, p2
<1>2. Joined(g2, p1, p2)
    BY <1>p2, <1>p1, ListsGlued DEF Piece
<1> HIDE DEF g2
<1>L. Piece(g2, 2)
  <2>1. Len(g2) <= 2
    BY <1>p1, <1>p2, <1>2, PieceLength DEF Joined
  <2> QED BY <1>2, <2>1 DEF Piece, Joined
<1>M. ASSUME NEW c, Native(c)
      PROVE  /\ Grants(g2, c) <=> HandGrants(t, a, c)
             /\ ~Refuses(g2, c)
    BY <1>M, <1>p1, <1>p2, <1>2 DEF Joined, HandGrants
<1>N. \A c : ~Refuses(g2, c)
    BY <1>p1, <1>p2, <1>2 DEF Joined
<1> QED BY <1>0, <1>L, <1>M, <1>N

NameRules ==
    reject_nr("socket", "EACCES")
    \o allow_nr_2_arg_match("mmap", 3, One("PROT_READ"), 4, One("MAP_SHARED"))

NameGrants(c) ==
    \/ c.nr = "mmap" /\ c.args[3] = One("PROT_READ") /\ c.args[4] = One("MAP_SHARED")

(* The rules of text_userdb_names.                                         *)
LEMMA NamePieces ==
    /\ Piece(NameRules, 2)
    /\ \A c : Native(c) => (Grants(NameRules, c) <=> NameGrants(c))
    /\ \A c : Native(c) => (Refuses(NameRules, c) <=> c.nr = "socket")
<1> DEFINE p1 == reject_nr("socket", "EACCES")
           p2 == allow_nr_2_arg_match("mmap", 3, One("PROT_READ"), 4, One("MAP_SHARED"))
           g2 == Glue(p1, p2)
<1>0. NameRules = g2
    BY Zenon DEF NameRules, One, Both, None, Glue
<1>p1. /\ Piece(p1, 1)
       /\ \A c : ~Grants(p1, c)
       /\ \A c : Native(c) => (Refuses(p1, c) <=> c.nr = "socket")
    BY RejectNr DEF NoError
<1>p2. /\ Piece(p2, 1)
       /\ \A c : Native(c) => (Grants(p2, c) <=> c.nr = "mmap" /\ c.args[3] = One("PROT_READ")
             /\ c.args[4] = One("MAP_SHARED"))
       /\ \A c : ~Refuses(p2, c)
    BY AllowTwoMatch
<1> HIDE DEF p1, p2
<1>2. Joined(g2, p1, p2)
    BY <1>p2, <1>p1, ListsGlued DEF Piece
<1> HIDE DEF g2
<1>L. Piece(g2, 2)
  <2>1. Len(g2) <= 2
    BY <1>p1, <1>p2, <1>2, PieceLength DEF Joined
  <2> QED BY <1>2, <2>1 DEF Piece, Joined
<1>M. ASSUME NEW c, Native(c)
      PROVE  /\ Grants(g2, c) <=> NameGrants(c)
             /\ Refuses(g2, c) <=> c.nr = "socket"
    BY <1>M, <1>p1, <1>p2, <1>2 DEF Joined, NameGrants
<1> QED BY <1>0, <1>L, <1>M

DescriptorRules(t, a) ==
    IF "one_process_model" \in t THEN OwnRules(t, a) ELSE HandRules(t, a)

DescriptorGrants(t, a, c) ==
    IF "one_process_model" \in t THEN OwnGrants(t, a, c) ELSE HandGrants(t, a, c)

(* One or the other.                                                       *)
LEMMA DescriptorPieces ==
    ASSUME NEW t, NEW a \in BOOLEAN
    PROVE  /\ Piece(DescriptorRules(t, a), 14)
           /\ \A c : Native(c) => (Grants(DescriptorRules(t, a), c) <=> DescriptorGrants(t, a,
                 c))
           /\ \A c : ~Refuses(DescriptorRules(t, a), c)
<1>1. CASE "one_process_model" \in t
    BY <1>1, OwnPieces DEF DescriptorRules, DescriptorGrants
<1>2. CASE "one_process_model" \notin t
  <2>1. Piece(HandRules(t, a), 14)
    BY HandPieces DEF Piece
  <2> QED BY <1>2, <2>1, HandPieces DEF DescriptorRules, DescriptorGrants
<1> QED BY <1>1, <1>2

SessionGrants(t, a, c) ==
    \/ CommonGrants(t, c)
    \/ DescriptorGrants(t, a, c)
    \/ "syslog_enable" \in t /\ c.nr = "sendto" /\ c.args[6] = None
    \/ "text_userdb_names" \in t /\ NameGrants(c)
    \/ "write_enable" \in t /\ WriteGrants(t, a, c)

SessionRefuses(t, c) ==
    \/ PreloginRefuses(t, c)
    \/ "text_userdb_names" \in t /\ c.nr = "socket"

SessionRules(t, a) ==
    CommonRules(t)
    \o DescriptorRules(t, a)
    \o When("syslog_enable" \in t, allow_nr_1_arg_match("sendto", 6, None))
    \o When("text_userdb_names" \in t, NameRules)
    \o When("write_enable" \in t, WriteRules(t, a))

(* The list of the session, in these parts.                                *)
LEMMA SessionParts ==
    ASSUME NEW t, NEW a
    PROVE  seccomp_sandbox_setup_postlogin(t, a) = SessionRules(t, a)
    BY Zenon DEF seccomp_sandbox_setup_postlogin, SessionRules, CommonRules, DescriptorRules,
                 OwnRules, HandRules, NameRules, Locks, Times, Signals, Chown, Hands, OpenFlags,
                 One, Both, None

(* The rules of the session.                                               *)
LEMMA SessionPieces ==
    ASSUME NEW t, NEW a \in BOOLEAN
    PROVE  /\ Piece(SessionRules(t, a), 70)
           /\ \A c : Native(c) => (Grants(SessionRules(t, a), c) <=> SessionGrants(t, a, c))
           /\ \A c : Native(c) => (Refuses(SessionRules(t, a), c) <=> SessionRefuses(t, c))
<1> DEFINE p1 == CommonRules(t)
           p2 == DescriptorRules(t, a)
           q3 == allow_nr_1_arg_match("sendto", 6, None)
           p3 == When("syslog_enable" \in t, q3)
           q4 == NameRules
           p4 == When("text_userdb_names" \in t, q4)
           q5 == WriteRules(t, a)
           p5 == When("write_enable" \in t, q5)
           g2 == Glue(p1, p2)
           g3 == Glue(g2, p3)
           g4 == Glue(g3, p4)
           g5 == Glue(g4, p5)
<1>0. SessionRules(t, a) = g5
    BY Zenon DEF SessionRules, One, Both, None, Glue
<1> HIDE DEF q3, q4, q5
<1>p1. /\ Piece(p1, 45)
       /\ \A c : Native(c) => (Grants(p1, c) <=> CommonGrants(t, c))
       /\ \A c : Native(c) => (Refuses(p1, c) <=> PreloginRefuses(t, c))
    BY CommonPieces
<1>p2. /\ Piece(p2, 14)
       /\ \A c : Native(c) => (Grants(p2, c) <=> DescriptorGrants(t, a, c))
       /\ \A c : ~Refuses(p2, c)
    BY DescriptorPieces
<1>p3. /\ Piece(p3, 1)
       /\ \A c : Native(c) => (Grants(p3, c) <=> "syslog_enable" \in t /\ c.nr = "sendto"
             /\ c.args[6] = None)
       /\ \A c : ~Refuses(p3, c)
  <2>1. /\ Piece(q3, 1)
        /\ \A c : Native(c) => (Grants(q3, c) <=> c.nr = "sendto" /\ c.args[6] = None)
        /\ \A c : ~Refuses(q3, c)
    BY AllowOneMatch DEF q3
  <2> QED BY <2>1, WhenPiece
<1>p4. /\ Piece(p4, 2)
       /\ \A c : Native(c) => (Grants(p4, c) <=> "text_userdb_names" \in t /\ NameGrants(c))
       /\ \A c : Native(c) => (Refuses(p4, c) <=> "text_userdb_names" \in t /\ c.nr = "socket")
  <2>1. /\ Piece(q4, 2)
        /\ \A c : Native(c) => (Grants(q4, c) <=> NameGrants(c))
        /\ \A c : Native(c) => (Refuses(q4, c) <=> c.nr = "socket")
    BY NamePieces DEF q4
  <2> QED BY <2>1, WhenPiece
<1>p5. /\ Piece(p5, 8)
       /\ \A c : Native(c) => (Grants(p5, c) <=> "write_enable" \in t /\ WriteGrants(t, a, c))
       /\ \A c : ~Refuses(p5, c)
  <2>1. /\ Piece(q5, 8)
        /\ \A c : Native(c) => (Grants(q5, c) <=> WriteGrants(t, a, c))
        /\ \A c : ~Refuses(q5, c)
    BY WritePieces DEF q5
  <2>2. Piece(q5, 8) /\ ("write_enable" \in t) \in BOOLEAN
    BY <2>1
  <2>3. /\ Piece(p5, 8)
        /\ \A c : Grants(p5, c) <=> ("write_enable" \in t) /\ Grants(q5, c)
        /\ \A c : Refuses(p5, c) <=> ("write_enable" \in t) /\ Refuses(q5, c)
    BY <2>2, WhenPiece
  <2> QED BY <2>1, <2>3
<1> HIDE DEF p1, p2, p3, p4, p5
<1>2. Joined(g2, p1, p2)
    BY <1>p2, <1>p1, ListsGlued DEF Piece
<1> HIDE DEF g2
<1>3. Joined(g3, g2, p3)
    BY <1>p3, <1>2, ListsGlued DEF Piece, Joined
<1> HIDE DEF g3
<1>4. Joined(g4, g3, p4)
    BY <1>p4, <1>3, ListsGlued DEF Piece, Joined
<1> HIDE DEF g4
<1>5. Joined(g5, g4, p5)
    BY <1>p5, <1>4, ListsGlued DEF Piece, Joined
<1> HIDE DEF g5
<1>L. Piece(g5, 70)
  <2>1. Len(g5) <= 70
    BY <1>p1, <1>p2, <1>p3, <1>p4, <1>p5, <1>2, <1>3, <1>4, <1>5, PieceLength DEF Joined
  <2> QED BY <1>5, <2>1 DEF Piece, Joined
<1>M. ASSUME NEW c, Native(c)
      PROVE  /\ Grants(g5, c) <=> SessionGrants(t, a, c)
             /\ Refuses(g5, c) <=> SessionRefuses(t, c)
    BY <1>M, <1>p1, <1>p2, <1>p3, <1>p4, <1>p5, <1>2, <1>3, <1>4, <1>5 DEF Joined,
       SessionGrants, SessionRefuses
<1> QED BY <1>0, <1>L, <1>M

(* Every process's list is a list of rules, and fits the arrays.           *)
LEMMA RulesPieces ==
    ASSUME NEW r, NEW t, NEW a \in BOOLEAN,
           r \in {"prelogin", "postlogin", "one_process", "broker"}
    PROVE  RuleList(RulesOf(r, t, a)) /\ Len(RulesOf(r, t, a)) <= kMaxSyscalls
<1> DEFINE Fine(s) == RuleList(s) /\ Len(s) <= kMaxSyscalls
<1>1. ASSUME NEW s, NEW n, Piece(s, n), n <= 100 PROVE Fine(s)
    BY <1>1, PieceLength DEF kMaxSyscalls
<1>2. Fine(seccomp_sandbox_setup_prelogin(t))
  <2>1. Piece(seccomp_sandbox_setup_prelogin(t), 25)
    BY PreloginPieces
  <2> QED BY <1>1, <2>1
<1>3. Fine(seccomp_sandbox_setup_postlogin(t, a))
  <2>1. Piece(SessionRules(t, a), 70)
    BY SessionPieces
  <2> QED BY <1>1, <2>1, SessionParts
<1>4. Fine(seccomp_sandbox_setup_postlogin_broker(t))
  <2>1. Piece(seccomp_sandbox_setup_postlogin_broker(t), 25)
    BY BrokerPieces
  <2> QED BY <1>1, <2>1
<1> HIDE DEF Fine
<1>5. Fine(RulesOf(r, t, a))
    BY <1>2, <1>3, <1>4 DEF RulesOf
<1> QED BY <1>5 DEF Fine

(* A process keeps the switches it was started with; the rules it has      *)
(* collected are those of its role, and the filter is their program.       *)
SeccompInv ==
    /\ role \in {"prelogin", "postlogin", "one_process", "broker"}
    /\ anon \in BOOLEAN
    /\ role = "one_process" <=> "one_process_model" \in conf
    /\ role = "one_process" => ~anon
    /\ rules # << >> => rules = RulesOf(role, conf, anon)
    /\ filter # << >> => rules # << >> /\ filter = Program(rules)

(* SeccompInv is inductive.                                                *)
LEMMA SeccompInvariant == SeccompSpec => []SeccompInv
<1>1. SeccompInit => SeccompInv
    BY SeccompRoles DEF SeccompInit, SeccompInv
<1>2. SeccompInv /\ [SeccompNext]_seccompVars => SeccompInv'
  <2> SUFFICES ASSUME SeccompInv, [SeccompNext]_seccompVars PROVE SeccompInv'
    OBVIOUS
  <2>1. CASE SetupSandbox
    BY <2>1 DEF SeccompInv, SetupSandbox
  <2>2. CASE seccomp_sandbox_lockdown
    BY <2>2 DEF SeccompInv, seccomp_sandbox_lockdown
  <2>3. CASE UNCHANGED seccompVars
    BY <2>3 DEF SeccompInv, seccompVars
  <2> QED BY <2>1, <2>2, <2>3 DEF SeccompNext
<1> QED BY <1>1, <1>2, PTL DEF SeccompSpec

(* The verdict is what the program in the kernel decides.                  *)
LEMMA VerdictIsDecision ==
    ASSUME NEW c PROVE Verdict(c) = Decision(filter, c)
    BY DEF Verdict, Decision

(* Once a process has locked itself down, the kernel decides as the list   *)
(* of its rules reads.                                                     *)
LEMMA LockedDown ==
    ASSUME SeccompInv, filter # << >>
    PROVE  /\ rules = RulesOf(role, conf, anon) /\ RuleList(rules)
           /\ Len(rules) <= kMaxSyscalls
           /\ \A c : Verdict(c) = FirstFit(rules, c)
<1>1. rules = RulesOf(role, conf, anon) /\ filter = Program(rules)
    BY DEF SeccompInv
<1>2. RuleList(rules) /\ Len(rules) <= kMaxSyscalls
    BY <1>1, RulesPieces DEF SeccompInv
<1>3. ASSUME NEW c PROVE Verdict(c) = FirstFit(rules, c)
    BY <1>1, <1>2, ProgramDecides, VerdictIsDecision
<1> QED BY <1>1, <1>2, <1>3

(* The filter seccomp_sandbox_lockdown compiles decides every call as the  *)
(* list of rules reads, fills the array it is written into exactly, and    *)
(* the rules fit theirs: for every configuration and every process.        *)
THEOREM FilterDecidesTheorem == SeccompSpec => []FilterDecides
<1>1. SeccompInv => FilterDecides
  <2> SUFFICES ASSUME SeccompInv, filter # << >>
               PROVE  /\ Len(rules) <= kMaxSyscalls
                      /\ Len(filter) = ProgramLength(rules)
                      /\ \A c : Verdict(c) = FirstFit(rules, c)
    BY DEF FilterDecides
  <2>1. filter = Program(rules)
    BY DEF SeccompInv
  <2>2. Len(filter) = ProgramLength(rules)
    BY <2>1, LockedDown, ProgramFits
  <2> QED BY <2>2, LockedDown
<1> QED BY <1>1, SeccompInvariant, PTL

EveryCall == filter # << >> => \A c : Verdict(c) = FirstFit(rules, c)

(* The same for every call there is, not only for those of FilterDecides.  *)
THEOREM EveryCallDecided == SeccompSpec => []EveryCall
<1>1. SeccompInv => EveryCall
    BY LockedDown DEF EveryCall
<1> QED BY <1>1, SeccompInvariant, PTL

-----------------------------------------------------------------------------
(* What the first rule that fits says.                                     *)

(* The rule that fits and has none that fits before it decides.            *)
LEMMA FirstFitAt ==
    ASSUME NEW list, NEW c, NEW i, RuleList(list), i \in 1..Len(list), Fits(list[i], c),
           \A j \in 1..Len(list) : Fits(list[j], c) => i <= j
    PROVE  FirstFit(list, c) = RuleReturns(list[i])
<1> DEFINE N == Len(list)
           fit == {k \in DOMAIN list : Fits(list[k], c)}
           first == CHOOSE k \in fit : \A j \in fit : k <= j
<1>1. N \in Nat /\ DOMAIN list = 1..N
    BY SeqLength DEF RuleList
<1>2. i \in fit /\ \A j \in fit : i <= j
    BY <1>1
<1>3. fit \subseteq 1..N
    BY <1>1
<1>4. FirstFit(list, c) = IF fit = {} THEN "KILL" ELSE RuleReturns(list[first])
    BY DEF FirstFit, RuleReturns
<1> HIDE DEF fit, N
<1>5. first \in fit /\ \A j \in fit : first <= j
    BY <1>2
<1> HIDE DEF first
<1>6. first <= i /\ i <= first
    BY <1>2, <1>5
<1>7. i \in Nat /\ first \in Nat
    BY <1>1, <1>2, <1>3, <1>5
<1>8. first = i /\ fit # {}
    BY <1>2, <1>6, <1>7
<1> QED BY <1>4, <1>8

(* There is one if any rule fits.                                          *)
LEMMA FirstExists ==
    ASSUME NEW list, NEW c, RuleList(list), Grants(list, c) \/ Refuses(list, c)
    PROVE  \E i \in 1..Len(list) :
              Fits(list[i], c) /\ \A j \in 1..Len(list) : Fits(list[j], c) => i <= j
<1> DEFINE N == Len(list)
           fit == {k \in 1..N : Fits(list[k], c)}
<1>1. N \in Nat
    BY SeqLength DEF RuleList
<1>2. \E k : k \in fit
    BY DEF Grants, Refuses
<1>3. fit \subseteq Nat
    BY <1>1
<1>4. \A k : k \in fit <=> k \in 1..N /\ Fits(list[k], c)
    OBVIOUS
<1> HIDE DEF fit, N
<1>5. \E i \in fit : \A j \in fit : i <= j
    BY <1>2, <1>3, LeastNumber
<1> QED BY <1>4, <1>5 DEF N

(* Permitted: some rule grants the call and none refuses it.               *)
LEMMA AllowedIf ==
    ASSUME NEW list, NEW c, RuleList(list), Grants(list, c), ~Refuses(list, c)
    PROVE  FirstFit(list, c) = "ALLOW"
<1>1. PICK i \in 1..Len(list) :
         Fits(list[i], c) /\ \A j \in 1..Len(list) : Fits(list[j], c) => i <= j
    BY FirstExists
<1>2. list[i].errno = NoError
    BY <1>1 DEF Refuses
<1> QED BY <1>1, <1>2, FirstFitAt DEF RuleReturns

(* Not permitted: no rule grants the call.                                 *)
LEMMA DeniedIf ==
    ASSUME NEW list, NEW c, RuleList(list), ~Grants(list, c)
    PROVE  FirstFit(list, c) # "ALLOW"
<1>1. CASE Refuses(list, c)
  <2>1. PICK i \in 1..Len(list) :
         Fits(list[i], c) /\ \A j \in 1..Len(list) : Fits(list[j], c) => i <= j
    BY <1>1, FirstExists
  <2>2. list[i].errno # NoError /\ list[i].errno # "ALLOW"
    BY <2>1 DEF Grants, RuleList, WellFormed
  <2> QED BY <2>1, <2>2, FirstFitAt DEF RuleReturns
<1>2. CASE ~Refuses(list, c)
  <2>1. DOMAIN list = 1..Len(list)
    BY SeqLength DEF RuleList
  <2>2. {i \in DOMAIN list : Fits(list[i], c)} = {}
    BY <1>2, <2>1 DEF Grants, Refuses
  <2> QED BY <2>2 DEF FirstFit
<1> QED BY <1>1, <1>2

(* Rules added behind others change nothing for the calls those decide.    *)
LEMMA EarlierDecides ==
    ASSUME NEW s, NEW t, NEW c, RuleList(s), RuleList(t), Grants(s, c) \/ Refuses(s, c)
    PROVE  FirstFit(Glue(s, t), c) = FirstFit(s, c)
<1> DEFINE g == Glue(s, t)
           k == Len(s)
           l == Len(t)
<1>1. PICK i \in 1..k : Fits(s[i], c) /\ \A j \in 1..k : Fits(s[j], c) => i <= j
    BY FirstExists
<1>2. FirstFit(s, c) = RuleReturns(s[i])
    BY <1>1, FirstFitAt
<1>3. IsSeq(s) /\ IsSeq(t)
    BY DEF RuleList
<1>4. k \in Nat /\ l \in Nat
    BY <1>3, SeqLength
<1>5. Len(g) = k + l /\ \A j \in 1..k : g[j] = s[j]
    BY <1>3, Glued
<1>6. RuleList(g)
    BY ListsGlued DEF Joined
<1> HIDE DEF g, k, l
<1>7. i \in 1..(k + l) /\ g[i] = s[i] /\ Fits(g[i], c)
    BY <1>1, <1>4, <1>5
<1>8. ASSUME NEW j \in 1..(k + l), Fits(g[j], c) PROVE i <= j
  <2>1. CASE j \in 1..k
    BY <1>1, <1>5, <1>8, <2>1
  <2>2. CASE j > k
    BY <1>1, <1>4, <2>2
  <2> QED BY <1>4, <2>1, <2>2
<1>9. FirstFit(g, c) = RuleReturns(g[i])
    BY <1>5, <1>6, <1>7, <1>8, FirstFitAt
<1> QED BY <1>2, <1>7, <1>9 DEF g

-----------------------------------------------------------------------------
(* The calls.                                                              *)

(* A call whose arguments do not matter.                                   *)
LEMMA PlainCall ==
    ASSUME NEW nr
    PROVE  /\ Native(Call(nr)) /\ Call(nr).nr = nr
           /\ Call(nr).args[3] = None /\ Call(nr).args[6] = None
    BY DEF Call, CallWith, Native, None

(* fcntl with a command and its argument.                                  *)
LEMMA FcntlCall ==
    ASSUME NEW cmd, NEW v
    PROVE  /\ Native(Fcntl(cmd, v)) /\ Fcntl(cmd, v).nr = "fcntl"
           /\ Fcntl(cmd, v).args[2] = One(cmd) /\ Fcntl(cmd, v).args[3] = v
    BY DEF Fcntl, CallWith, Native, One

(* A TCP socket of a family.                                               *)
LEMMA SocketCall ==
    ASSUME NEW f
    PROVE  /\ Native(Socket(f)) /\ Socket(f).nr = "socket" /\ Socket(f).args[1] = One(f)
           /\ Socket(f).args[2] = One("SOCK_STREAM") /\ Socket(f).args[3] = One("IPPROTO_TCP")
    BY DEF Socket, CallWith, Native, One

(* A socket option.                                                        *)
LEMMA OptionCall ==
    ASSUME NEW nr, NEW level, NEW name
    PROVE  /\ Native(Option(nr, level, name)) /\ Option(nr, level, name).nr = nr
           /\ Option(nr, level, name).args[2] = One(level)
           /\ Option(nr, level, name).args[3] = One(name)
    BY DEF Option, CallWith, Native, One

(* open with its flags.                                                    *)
LEMMA OpenCall ==
    ASSUME NEW flags
    PROVE  Native(Open(flags)) /\ Open(flags).nr = "open" /\ Open(flags).args[2] = flags
    BY DEF Open, CallWith, Native

Memory == CallWith("mmap", <<{}, {}, {"PROT_READ", "PROT_WRITE"}, {"MAP_PRIVATE", "MAP_ANON"}>>)
Peek == CallWith("recvfrom", <<{}, {}, {}, {"MSG_PEEK"}>>)

(* The memory the allocator maps.                                          *)
LEMMA MemoryCall ==
    /\ Native(Memory) /\ Memory.nr = "mmap"
    /\ Memory.args[3] = Both("PROT_READ", "PROT_WRITE")
    /\ Memory.args[4] = Both("MAP_PRIVATE", "MAP_ANON")
    BY DEF Memory, CallWith, Native, Both

(* A look at the next command.                                             *)
LEMMA PeekCall == Native(Peek) /\ Peek.nr = "recvfrom" /\ Peek.args[4] = One("MSG_PEEK")
    BY DEF Peek, CallWith, Native, One

(* Neither refused nor one of the calls two rules disagree about.          *)
Plain(c) == Native(c) /\ c.nr # "mremap" /\ c.nr # "socket"

-----------------------------------------------------------------------------
(* What each part of the code asks for, and which rules grant it.          *)

(* Every process that talks to the client may do so.                       *)
LEMMA CommandServed ==
    ASSUME NEW t, NEW c \in CommandNeeds
    PROVE  Plain(c) /\ PreloginGrants(t, c)
<1>1. CASE c = Memory
    BY <1>1, MemoryCall DEF Plain, PreloginGrants, BaseGrants
<1>2. CASE c = Peek
    BY <1>2, PeekCall DEF Plain, PreloginGrants
<1>3. ASSUME NEW nr \in {"read", "write", "close", "shutdown", "nanosleep", "munmap", "brk",
                         "rt_sigreturn", "exit_group"}, c = Call(nr)
      PROVE  Plain(c) /\ PreloginGrants(t, c)
    BY <1>3, PlainCall DEF Plain, PreloginGrants, BaseGrants
<1> QED BY <1>1, <1>2, <1>3 DEF CommandNeeds, Calls, Memory, Peek

(* The alarm of idle_session_timeout.                                      *)
LEMMA IdleServed ==
    ASSUME NEW t, NEW c \in IdleNeeds(t)
    PROVE  Plain(c) /\ PreloginGrants(t, c)
<1>1. "idle_session_timeout" \in t /\ (c = Call("rt_sigaction") \/ c = Call("alarm"))
    BY DEF IdleNeeds, Asks, Calls
<1> QED BY <1>1, PlainCall DEF Plain, PreloginGrants

(* The locks of files.                                                     *)
LEMMA LockServed ==
    ASSUME NEW c \in FileLocking
    PROVE  Plain(c) /\ LocksGrant(c)
<1>1. c = Fcntl("F_SETLKW", {}) \/ c = Fcntl("F_SETLK", {})
    BY DEF FileLocking
<1> QED BY <1>1, FcntlCall DEF Plain, LocksGrant

(* All but the message to syslogd.                                         *)
LEMMA LogServed ==
    ASSUME NEW t, NEW c \in LogNeeds(t)
    PROVE  /\ Plain(c)
           /\ PreloginGrants(t, c) \/ ("syslog_enable" \in t /\ c = Call("sendto"))
<1>1. CASE Logs(t) /\ c \in FileLocking
    BY <1>1, LockServed DEF PreloginGrants
<1>2. CASE c = Call("gettimeofday")
    BY <1>2, PlainCall DEF Plain, PreloginGrants, BaseGrants
<1>3. CASE "syslog_enable" \in t /\ c = Call("sendto")
    BY <1>3, PlainCall DEF Plain
<1> QED BY <1>1, <1>2, <1>3 DEF LogNeeds, Logs, Asks, Calls

(* All the SSL slave does but clearing an alarm that no timeout set.       *)
LEMMA SlaveServed ==
    ASSUME NEW t, NEW c \in SlaveNeeds(t)
    PROVE  /\ Plain(c)
           /\ PreloginGrants(t, c)
                \/ ("ssl_enable" \in t /\ "idle_session_timeout" \notin t /\ c = Call("alarm"))
<1>1. "ssl_enable" \in t /\ (c = Call("alarm") \/ c = Call("recvmsg"))
    BY DEF SlaveNeeds, Asks, Calls
<1>2. CASE c = Call("alarm")
    BY <1>1, <1>2, PlainCall DEF Plain, PreloginGrants
<1>3. CASE c = Call("recvmsg")
    BY <1>1, <1>3, PlainCall DEF Plain, PreloginGrants, SlaveGrants
<1> QED BY <1>1, <1>2, <1>3

(* What the process that reads the login must do without.                  *)
LEMMA PreloginGaps ==
    ASSUME NEW t
    PROVE  /\ ~PreloginGrants(t, Call("sendto"))
           /\ "idle_session_timeout" \notin t => ~PreloginGrants(t, Call("alarm"))
<1>1. ~BaseGrants(Call("sendto")) /\ ~LocksGrant(Call("sendto")) /\ ~SlaveGrants(Call("sendto"))
    BY PlainCall DEF BaseGrants, LocksGrant, SlaveGrants
<1>2. ~BaseGrants(Call("alarm")) /\ ~LocksGrant(Call("alarm")) /\ ~SlaveGrants(Call("alarm"))
    BY PlainCall DEF BaseGrants, LocksGrant, SlaveGrants
<1>3. ~PreloginGrants(t, Call("sendto"))
    BY <1>1, PlainCall DEF PreloginGrants
<1>4. "idle_session_timeout" \notin t => ~PreloginGrants(t, Call("alarm"))
    BY <1>2, PlainCall DEF PreloginGrants
<1> QED BY <1>3, <1>4

(* The verdict of the first process on a call that is not refused.         *)
LEMMA PreloginDecides ==
    ASSUME NEW t, NEW c, Plain(c)
    PROVE  FirstFit(seccomp_sandbox_setup_prelogin(t), c) = "ALLOW" <=> PreloginGrants(t, c)
<1> DEFINE s == seccomp_sandbox_setup_prelogin(t)
<1>1. /\ RuleList(s) /\ Native(c)
      /\ Grants(s, c) <=> PreloginGrants(t, c)
      /\ Refuses(s, c) <=> PreloginRefuses(t, c)
    BY PreloginPieces DEF Piece, Plain
<1>2. ~PreloginRefuses(t, c)
    BY DEF PreloginRefuses, Plain
<1> HIDE DEF s
<1>3. CASE PreloginGrants(t, c)
    BY <1>1, <1>2, <1>3, AllowedIf DEF s
<1>4. CASE ~PreloginGrants(t, c)
    BY <1>1, <1>4, DeniedIf DEF s
<1> QED BY <1>3, <1>4

(* The calls among these that a list of rules lets through are exactly the *)
(* ones that are not among the others.                                     *)
Serves(list, needs, gaps) ==
    /\ gaps \subseteq needs
    /\ \A c \in needs : FirstFit(list, c) = "ALLOW" <=> c \notin gaps

(* The process that reads the login is served but for its gaps.            *)
LEMMA PreloginServes ==
    ASSUME NEW t, NEW a
    PROVE  Serves(seccomp_sandbox_setup_prelogin(t), Needs("prelogin", t, a), Gaps("prelogin",
          t, a))
<1> DEFINE S == Asks("syslog_enable" \in t, {Call("sendto")})
           A == Asks("ssl_enable" \in t /\ "idle_session_timeout" \notin t, {Call("alarm")})
<1>1. /\ Needs("prelogin", t,
            a) = CommandNeeds \cup IdleNeeds(t) \cup LogNeeds(t) \cup SlaveNeeds(t)
      /\ Gaps("prelogin", t, a) = S \cup A
    BY DEF Needs, Gaps
<1>2. S \subseteq LogNeeds(t) /\ A \subseteq SlaveNeeds(t)
    BY DEF Asks, LogNeeds, SlaveNeeds, Calls
<1>3. \A c : /\ c \in S <=> "syslog_enable" \in t /\ c = Call("sendto")
             /\ c \in A <=> "ssl_enable" \in t /\ "idle_session_timeout" \notin t
                   /\ c = Call("alarm")
    BY DEF Asks
<1> HIDE DEF S, A
<1>4. ASSUME NEW c \in CommandNeeds \cup IdleNeeds(t) \cup LogNeeds(t) \cup SlaveNeeds(t)
      PROVE  Plain(c) /\ (PreloginGrants(t, c) \/ c \in S \cup A)
    BY <1>3, CommandServed, IdleServed, LogServed, SlaveServed
<1>5. \A c \in S \cup A : ~PreloginGrants(t, c)
    BY <1>3, PreloginGaps
<1>6. ASSUME NEW c \in CommandNeeds \cup IdleNeeds(t) \cup LogNeeds(t) \cup SlaveNeeds(t)
      PROVE  FirstFit(seccomp_sandbox_setup_prelogin(t), c) = "ALLOW" <=> c \notin S \cup A
    BY <1>4, <1>5, PreloginDecides
<1> QED BY <1>1, <1>2, <1>6 DEF Serves

(* SIGURG for asynchronous ABOR.                                           *)
LEMMA UrgentServed ==
    ASSUME NEW t, NEW c \in UrgentNeeds(t)
    PROVE  Plain(c) /\ CommonGrants(t, c)
<1>1. /\ "async_abor_enable" \in t
      /\ c = Call("rt_sigaction") \/ c = Fcntl("F_SETOWN", {"pid"})
    BY DEF UrgentNeeds, Asks
<1>2. CASE c = Call("rt_sigaction")
    BY <1>1, <1>2, PlainCall DEF Plain, CommonGrants, Signals
<1>3. CASE c = Fcntl("F_SETOWN", One("pid"))
    BY <1>1, <1>3, FcntlCall DEF Plain, CommonGrants
<1> QED BY <1>1, <1>2, <1>3 DEF One

(* The options and the alarm of a data connection.                         *)
LEMMA TransferServed ==
    ASSUME NEW t, NEW c \in TransferNeeds(t)
    PROVE  Plain(c) /\ CommonGrants(t, c)
<1>1. CASE \/ c = Option("setsockopt", "SOL_SOCKET", "SO_KEEPALIVE")
           \/ c = Option("setsockopt", "SOL_SOCKET", "SO_LINGER")
           \/ c = Option("setsockopt", "IPPROTO_IP", "IP_TOS")
    BY <1>1, OptionCall DEF Plain, CommonGrants
<1>2. CASE /\ "data_connection_timeout" \in t
           /\ c = Call("rt_sigaction") \/ c = Call("alarm")
  <2>1. Times(t) /\ Signals(t)
    BY <1>2 DEF Times, Signals
  <2> QED BY <1>2, <2>1, PlainCall DEF Plain, CommonGrants
<1> QED BY <1>1, <1>2 DEF TransferNeeds, Asks, Calls

(* Opening a file to read.                                                 *)
LEMMA FileFlags ==
    ASSUME NEW t, NEW f, f \subseteq kOpenFlags
    PROVE  Plain(Open(f)) /\ CommonGrants(t, Open(f))
<1>1. f \subseteq OpenFlags(t)
    BY DEF OpenFlags
<1>2. Open(f).args[2] \subseteq OpenFlags(t)
    BY <1>1, OpenCall
<1> QED BY <1>2, OpenCall DEF Plain, CommonGrants

(* Reading and setting the flags of a file.                                *)
LEMMA FlagsServed ==
    ASSUME NEW t, NEW f, f \subseteq AllFlags
    PROVE  /\ Plain(Fcntl("F_GETFL", {})) /\ PreloginGrants(t, Fcntl("F_GETFL", {}))
           /\ Plain(Fcntl("F_SETFL", f)) /\ PreloginGrants(t, Fcntl("F_SETFL", f))
<1>1. Plain(Fcntl("F_GETFL", {})) /\ PreloginGrants(t, Fcntl("F_GETFL", {}))
    BY FcntlCall DEF Plain, PreloginGrants
<1>2. Fcntl("F_SETFL", f).args[3] \subseteq AllFlags
    BY FcntlCall
<1>3. Plain(Fcntl("F_SETFL", f)) /\ PreloginGrants(t, Fcntl("F_SETFL", f))
    BY <1>2, FcntlCall DEF Plain, PreloginGrants
<1> QED BY <1>1, <1>3

(* RETR.                                                                   *)
LEMMA DownloadServed ==
    ASSUME NEW t, NEW c \in DownloadNeeds(t)
    PROVE  Plain(c) /\ CommonGrants(t, c)
<1>1. CASE c = Open({"O_NONBLOCK"})
  <2>1. {"O_NONBLOCK"} \subseteq kOpenFlags
    BY DEF kOpenFlags
  <2> QED BY <1>1, <2>1, FileFlags
<1>2. CASE c = Call("fstat") \/ c = Call("lseek")
    BY <1>2, PlainCall DEF Plain, CommonGrants
<1>3. CASE c = Fcntl("F_GETFL", {}) \/ c = Fcntl("F_SETFL", {})
  <2>1. {} \subseteq AllFlags
    OBVIOUS
  <2>2. Plain(c) /\ PreloginGrants(t, c)
    BY <1>3, <2>1, FlagsServed
  <2> QED BY <2>2 DEF CommonGrants
<1>4. CASE "lock_upload_files" \in t /\ c \in FileLocking
  <2>1. Locks(t)
    BY <1>4 DEF Locks
  <2> QED BY <1>4, <2>1, LockServed DEF CommonGrants
<1>5. CASE "use_sendfile" \in t /\ c = Call("sendfile")
    BY <1>5, PlainCall DEF Plain, CommonGrants
<1> QED BY <1>1, <1>2, <1>3, <1>4, <1>5 DEF DownloadNeeds, Asks

(* Listing and looking.                                                    *)
LEMMA BrowseServed ==
    ASSUME NEW t, NEW c \in BrowseNeeds
    PROVE  Plain(c) /\ CommonGrants(t, c)
<1>1. CASE c = Open({"O_NONBLOCK", "O_DIRECTORY", "O_CLOEXEC"})
  <2>1. {"O_NONBLOCK", "O_DIRECTORY", "O_CLOEXEC"} \subseteq kOpenFlags
    BY DEF kOpenFlags
  <2> QED BY <1>1, <2>1, FileFlags
<1>2. ASSUME NEW nr \in {"getdents", "lstat", "stat", "fstat", "readlink", "getcwd", "chdir",
                         "umask"}, c = Call(nr)
      PROVE  Plain(c) /\ CommonGrants(t, c)
    BY <1>2, PlainCall DEF Plain, CommonGrants
<1> QED BY <1>1, <1>2 DEF BrowseNeeds, Calls

(* The rules collected for user b serve user a: themselves, or anyone if b *)
(* is not anonymous.                                                       *)
LEMMA WriteServed ==
    ASSUME NEW t, NEW a \in BOOLEAN, NEW b \in BOOLEAN, b => a, NEW c \in WriteNeeds(t, a)
    PROVE  Plain(c) /\ SessionGrants(t, b, c)
<1> DEFINE other == ~a \/ "anon_other_write_enable" \in t
           opens(x) == \/ x = Open({"O_CREAT", "O_WRONLY", "O_NONBLOCK"})
                       \/ x = Open({"O_CREAT", "O_EXCL", "O_WRONLY", "O_APPEND"})
           flags(x) == \/ x = Fcntl("F_GETFL", {})
                       \/ x = Fcntl("F_SETFL", {"O_WRONLY", "O_APPEND"})
           locks(x) == "lock_upload_files" \in t /\ x \in FileLocking
           writes(x) == \/ other /\ x = Call("ftruncate")
                        \/ "delete_failed_uploads" \in t /\ x = Call("unlink")
                        \/ MayMkdir(t, a) /\ x = Call("mkdir")
                        \/ other /\ (x = Call("unlink") \/ x = Call("rmdir")
                              \/ x = Call("rename"))
                        \/ other /\ "mdtm_write" \in t /\ x = Call("utime")
                        \/ MayChmod(t, a) /\ x = Call("chmod")
<1>1. "write_enable" \in t /\ (opens(c) \/ flags(c) \/ locks(c) \/ writes(c)
            \/ c = Call("fstat"))
    BY DEF WriteNeeds, Asks, Calls, MayMkdir, MayChmod
<1>2. /\ other => MayChange(t, b) /\ MayUnlink(t, b)
      /\ other /\ "mdtm_write" \in t => MayStamp(t, b)
      /\ "delete_failed_uploads" \in t => MayUnlink(t, b)
      /\ MayMkdir(t, a) => MayMkdir(t, b)
      /\ MayChmod(t, a) => MayChmod(t, b)
    BY DEF MayChange, MayUnlink, MayStamp, MayMkdir, MayChmod
<1> HIDE DEF other
<1>3. WriteGrants(t, b, c) => SessionGrants(t, b, c)
    BY <1>1 DEF SessionGrants
<1>4. CommonGrants(t, c) => SessionGrants(t, b, c)
    BY DEF SessionGrants
<1>5. ASSUME NEW f, f \subseteq AllFlags, c = Open(f) PROVE Plain(c) /\ SessionGrants(t, b, c)
  <2>1. OpenFlags(t) = AllFlags
    BY <1>1 DEF OpenFlags, AllFlags
  <2>2. Open(f).args[2] \subseteq OpenFlags(t)
    BY <1>5, <2>1, OpenCall
  <2>3. Plain(c) /\ CommonGrants(t, c)
    BY <1>5, <2>2, OpenCall DEF Plain, CommonGrants
  <2> QED BY <1>4, <2>3
<1>6. CASE opens(c)
  <2>1. /\ {"O_CREAT", "O_WRONLY", "O_NONBLOCK"} \subseteq AllFlags
        /\ {"O_CREAT", "O_EXCL", "O_WRONLY", "O_APPEND"} \subseteq AllFlags
    BY DEF AllFlags, kOpenFlags, O_ACCMODE
  <2> QED BY <1>5, <1>6, <2>1
<1>7. CASE flags(c)
  <2>1. {"O_WRONLY", "O_APPEND"} \subseteq AllFlags
    BY DEF AllFlags, kOpenFlags, O_ACCMODE
  <2>2. Plain(c) /\ PreloginGrants(t, c)
    BY <1>7, <2>1, FlagsServed
  <2>3. CommonGrants(t, c)
    BY <2>2 DEF CommonGrants
  <2> QED BY <1>4, <2>2, <2>3
<1>8. CASE c = Call("fstat")
  <2>1. Plain(c) /\ CommonGrants(t, c)
    BY <1>8, PlainCall DEF Plain, CommonGrants
  <2> QED BY <1>4, <2>1
<1>9. CASE locks(c)
  <2>1. Locks(t)
    BY <1>9 DEF Locks
  <2>2. Plain(c) /\ CommonGrants(t, c)
    BY <1>9, <2>1, LockServed DEF CommonGrants
  <2> QED BY <1>4, <2>2
<1>10. CASE writes(c)
  <2>1. Plain(c) /\ WriteGrants(t, b, c)
    BY <1>2, <1>10, PlainCall DEF Plain, WriteGrants
  <2> QED BY <1>3, <2>1
<1> HIDE DEF opens, flags, locks, writes
<1> QED BY <1>1, <1>6, <1>7, <1>8, <1>9, <1>10

(* All a session asks for but fchmod(), which only the rules of an         *)
(* anonymous user's own process include.                                   *)
LEMMA SessionServed ==
    ASSUME NEW t, NEW a \in BOOLEAN, NEW b \in BOOLEAN, b => a, NEW c \in PostLoginNeeds(t, a)
    PROVE  /\ Plain(c)
           /\ SessionGrants(t, b, c) \/ (Chowns(t, a) /\ c = Call("fchmod"))
<1>1. PreloginGrants(t, c) => CommonGrants(t, c)
    BY DEF CommonGrants
<1>2. CommonGrants(t, c) => SessionGrants(t, b, c)
    BY DEF SessionGrants
<1>3. CASE c \in LogNeeds(t)
  <2>1. CASE "syslog_enable" \in t /\ c = Call("sendto")
    BY <2>1, PlainCall DEF Plain, SessionGrants
  <2> QED BY <1>1, <1>2, <1>3, <2>1, LogServed
<1>4. CASE c \in CommandNeeds \/ c \in IdleNeeds(t)
    BY <1>1, <1>2, <1>4, CommandServed, IdleServed
<1>5. CASE \/ c \in UrgentNeeds(t) \/ c \in TransferNeeds(t)
           \/ c \in DownloadNeeds(t) \/ c \in BrowseNeeds
    BY <1>2, <1>5, UrgentServed, TransferServed, DownloadServed, BrowseServed
<1>6. CASE c \in WriteNeeds(t, a)
    BY <1>6, WriteServed
<1>7. CASE Chowns(t, a) /\ c = Call("fchmod")
    BY <1>7, PlainCall DEF Plain
<1> QED BY <1>3, <1>4, <1>5, <1>6, <1>7 DEF PostLoginNeeds, Asks

-----------------------------------------------------------------------------
(* What nobody grants.                                                     *)

(* Different flags are different arguments.                                *)
LEMMA Different == \A x, y : One(x) = One(y) <=> x = y
    BY DEF One

(* The option that lets an address be bound again.                         *)
Reuse == Option("setsockopt", "SOL_SOCKET", "SO_REUSEADDR")

(* A session grants these calls only with its descriptor rules.            *)
LEMMA SessionSilent ==
    ASSUME NEW t, NEW a, NEW c,
           c.nr \in {"socket", "bind", "connect", "select", "getsockopt", "listen", "accept",
                     "fchmod", "fchown"}
    PROVE  ~CommonGrants(t, c) /\ ~NameGrants(c) /\ ~WriteGrants(t, a, c) /\ c.nr # "sendto"
<1>1. ~BaseGrants(c) /\ ~LocksGrant(c) /\ ~SlaveGrants(c)
    BY DEF BaseGrants, LocksGrant, SlaveGrants
<1>2. ~PreloginGrants(t, c)
    BY <1>1 DEF PreloginGrants
<1>3. ~CommonGrants(t, c)
    BY <1>1, <1>2 DEF CommonGrants
<1>4. ~NameGrants(c) /\ ~WriteGrants(t, a, c) /\ c.nr # "sendto"
    BY DEF NameGrants, WriteGrants
<1> QED BY <1>3, <1>4

(* Nor is the option granted elsewhere.                                    *)
LEMMA ReuseSilent ==
    ASSUME NEW t, NEW a
    PROVE  /\ Plain(Reuse) /\ Reuse.nr = "setsockopt"
           /\ ~CommonGrants(t, Reuse) /\ ~NameGrants(Reuse) /\ ~WriteGrants(t, a, Reuse)
<1>1. /\ Native(Reuse) /\ Reuse.nr = "setsockopt"
      /\ Reuse.args[2] = One("SOL_SOCKET") /\ Reuse.args[3] = One("SO_REUSEADDR")
    BY OptionCall DEF Reuse
<1>2. ~BaseGrants(Reuse) /\ ~LocksGrant(Reuse) /\ ~SlaveGrants(Reuse)
    BY <1>1, Different DEF BaseGrants, LocksGrant, SlaveGrants
<1>3. ~PreloginGrants(t, Reuse)
    BY <1>1, <1>2 DEF PreloginGrants
<1>4. ~CommonGrants(t, Reuse)
    BY <1>1, <1>2, <1>3, Different DEF CommonGrants
<1>5. ~NameGrants(Reuse) /\ ~WriteGrants(t, a, Reuse)
    BY <1>1 DEF NameGrants, WriteGrants
<1> QED BY <1>1, <1>4, <1>5 DEF Plain

(* A session that gets its descriptors from the broker opens none.         *)
LEMMA HandSilent ==
    ASSUME NEW t, NEW a, NEW c, "one_process_model" \notin t,
           \/ c = Reuse
           \/ c.nr \in {"socket", "bind", "connect", "select", "getsockopt", "fchmod"}
    PROVE  ~SessionGrants(t, a, c)
<1>1. ~CommonGrants(t, c) /\ ~NameGrants(c) /\ ~WriteGrants(t, a, c) /\ c.nr # "sendto"
    BY SessionSilent, ReuseSilent
<1>2. c.nr # "recvmsg" /\ c.nr # "sendmsg"
    BY ReuseSilent
<1>3. ~DescriptorGrants(t, a, c)
    BY <1>2 DEF DescriptorGrants, HandGrants
<1> QED BY <1>1, <1>3 DEF SessionGrants

(* The one process collects its rules before it knows that its user is     *)
(* anonymous.                                                              *)
LEMMA OwnSilent ==
    ASSUME NEW t, NEW a \in BOOLEAN, ~a, NEW c, "one_process_model" \in t,
           \/ c = Reuse /\ "port_enable" \notin t
           \/ c.nr \in {"fchmod", "fchown"}
    PROVE  ~SessionGrants(t, a, c)
<1>1. /\ ~CommonGrants(t, c) /\ ~NameGrants(c) /\ ~WriteGrants(t, a, c)
      /\ c.nr # "sendto"
    BY SessionSilent, ReuseSilent
<1>2. ~DataGrants(t, c)
    BY ReuseSilent DEF DataGrants, PortGrants
<1>3. ~OwnGrants(t, a, c)
    BY <1>2 DEF OwnGrants, Chown
<1>4. ~DescriptorGrants(t, a, c)
    BY <1>3 DEF DescriptorGrants
<1> QED BY <1>1, <1>4 DEF SessionGrants

(* The verdict of a session on a call.                                     *)
LEMMA SessionDecides ==
    ASSUME NEW t, NEW a \in BOOLEAN, NEW c, Native(c)
    PROVE  /\ Plain(c) => (FirstFit(SessionRules(t, a), c) = "ALLOW" <=> SessionGrants(t, a, c))
           /\ ~SessionGrants(t, a, c) => FirstFit(SessionRules(t, a), c) # "ALLOW"
<1> DEFINE s == SessionRules(t, a)
<1>1. /\ RuleList(s)
      /\ Grants(s, c) <=> SessionGrants(t, a, c)
      /\ Refuses(s, c) <=> SessionRefuses(t, c)
    BY SessionPieces DEF Piece
<1>2. Plain(c) => ~SessionRefuses(t, c)
    BY DEF SessionRefuses, PreloginRefuses, Plain
<1> HIDE DEF s
<1>3. ASSUME Plain(c), SessionGrants(t, a, c) PROVE FirstFit(s, c) = "ALLOW"
    BY <1>1, <1>2, <1>3, AllowedIf
<1>4. ASSUME ~SessionGrants(t, a, c) PROVE FirstFit(s, c) # "ALLOW"
    BY <1>1, <1>4, DeniedIf
<1> QED BY <1>3, <1>4 DEF s

(* Which rules decide about a socket in the one process: refused by the    *)
(* rule for syslog_enable if there is one, else granted before the rule    *)
(* for text_userdb_names is reached.                                       *)
LEMMA SocketDecided ==
    ASSUME NEW t, NEW a \in BOOLEAN, NEW f \in {"PF_INET", "PF_INET6"},
          "one_process_model" \in t
    PROVE  FirstFit(SessionRules(t, a), Socket(f)) = "ALLOW" <=> "syslog_enable" \notin t
<1> DEFINE c == Socket(f)
           p1 == CommonRules(t)
           p2 == DescriptorRules(t, a)
           p3 == When("syslog_enable" \in t, allow_nr_1_arg_match("sendto", 6, None))
           p4 == When("text_userdb_names" \in t, NameRules)
           p5 == When("write_enable" \in t, WriteRules(t, a))
           g2 == Glue(p1, p2)
           g3 == Glue(g2, p3)
           g4 == Glue(g3, p4)
           g5 == Glue(g4, p5)
<1>1. SessionRules(t, a) = g5
    BY Zenon DEF SessionRules, Glue
<1>2. RuleList(p1) /\ RuleList(p2)
    BY CommonPieces, DescriptorPieces DEF Piece
<1>3. RuleList(p3) /\ RuleList(p4) /\ RuleList(p5)
  <2>1. ASSUME NEW s, NEW x, RuleList(s) PROVE RuleList(When(x, s))
    BY <2>1, NoRules DEF When, Piece
  <2>2. RuleList(allow_nr_1_arg_match("sendto", 6, None))
    BY AllowOneMatch DEF Piece
  <2>3. RuleList(NameRules) /\ RuleList(WriteRules(t, a))
    BY NamePieces, WritePieces DEF Piece
  <2>4. RuleList(p3)
    BY <2>1, <2>2
  <2>5. RuleList(p4)
    BY <2>1, <2>3
  <2>6. RuleList(p5)
    BY <2>1, <2>3
  <2> QED BY <2>4, <2>5, <2>6
<1>4. /\ Native(c) /\ c.nr = "socket" /\ c.args[1] = One(f)
      /\ c.args[2] = One("SOCK_STREAM") /\ c.args[3] = One("IPPROTO_TCP")
    BY SocketCall
<1> HIDE DEF c
<1>5. ~CommonGrants(t, c)
    BY <1>4, SessionSilent
<1>6. DescriptorGrants(t, a, c)
  <2>1. DataGrants(t, c)
    BY <1>4 DEF DataGrants
  <2>2. OwnGrants(t, a, c)
    BY <2>1 DEF OwnGrants
  <2> QED BY <2>2 DEF DescriptorGrants
<1>7. PreloginRefuses(t, c) <=> "syslog_enable" \in t
    BY <1>4 DEF PreloginRefuses
<1>8. /\ ~Grants(p1, c) /\ Grants(p2, c) /\ ~Refuses(p2, c)
      /\ Refuses(p1, c) <=> "syslog_enable" \in t
    BY <1>4, <1>5, <1>6, <1>7, CommonPieces, DescriptorPieces
<1> HIDE DEF p1, p2, p3, p4, p5
<1>9. /\ RuleList(g2) /\ Grants(g2, c)
      /\ Refuses(g2, c) <=> "syslog_enable" \in t
    BY <1>2, <1>8, ListsGlued DEF Joined
<1>10. FirstFit(g2, c) = "ALLOW" <=> "syslog_enable" \notin t
  <2>1. CASE "syslog_enable" \in t
    BY <1>2, <1>8, <2>1, EarlierDecides, DeniedIf
  <2>2. CASE "syslog_enable" \notin t
    BY <1>9, <2>2, AllowedIf
  <2> QED BY <2>1, <2>2
<1> HIDE DEF g2
<1>11. RuleList(g3) /\ Grants(g3, c) /\ FirstFit(g3, c) = FirstFit(g2, c)
    BY <1>3, <1>9, ListsGlued, EarlierDecides DEF Joined
<1> HIDE DEF g3
<1>12. RuleList(g4) /\ Grants(g4, c) /\ FirstFit(g4, c) = FirstFit(g3, c)
    BY <1>3, <1>11, ListsGlued, EarlierDecides DEF Joined
<1> HIDE DEF g4
<1>13. FirstFit(g5, c) = FirstFit(g4, c)
    BY <1>3, <1>12, EarlierDecides
<1> QED BY <1>1, <1>10, <1>11, <1>12, <1>13 DEF c

-----------------------------------------------------------------------------
(* The data connections.                                                   *)

(* bind() is retried after a nap, and a failed connection closed.          *)
LEMMA PortServed ==
    ASSUME NEW t, NEW c \in PortNeeds(t)
    PROVE  /\ "port_enable" \in t /\ Native(c) /\ c.nr # "mremap"
           /\ DataGrants(t, c) \/ c = Call("nanosleep") \/ c = Call("close")
           /\ c.nr = "socket" => c = Socket("PF_INET") \/ c = Socket("PF_INET6")
<1>1. /\ "port_enable" \in t
      /\ \/ c = Socket("PF_INET") \/ c = Socket("PF_INET6")
         \/ c = Reuse \/ c = Option("getsockopt", "SOL_SOCKET", "SO_ERROR")
         \/ c = Fcntl("F_GETFL", {}) \/ c = Fcntl("F_SETFL", Both("O_RDWR", "O_NONBLOCK"))
         \/ c = Fcntl("F_SETFL", One("O_RDWR"))
         \/ \E nr \in {"bind", "nanosleep", "connect", "select", "close"} : c = Call(nr)
    BY DEF PortNeeds, Asks, Calls, Reuse, Both, One
<1>2. CASE c = Socket("PF_INET") \/ c = Socket("PF_INET6")
    BY <1>1, <1>2, SocketCall DEF DataGrants
<1>3. CASE c = Reuse \/ c = Option("getsockopt", "SOL_SOCKET", "SO_ERROR")
    BY <1>1, <1>3, OptionCall DEF DataGrants, PortGrants, Reuse
<1>4. CASE \/ c = Fcntl("F_GETFL", {}) \/ c = Fcntl("F_SETFL", Both("O_RDWR", "O_NONBLOCK"))
           \/ c = Fcntl("F_SETFL", One("O_RDWR"))
    BY <1>1, <1>4, FcntlCall DEF DataGrants, PortGrants
<1>5. ASSUME NEW nr \in {"bind", "nanosleep", "connect", "select", "close"}, c = Call(nr)
      PROVE  /\ Native(c) /\ c.nr # "mremap" /\ c.nr # "socket"
             /\ DataGrants(t, c) \/ c = Call("nanosleep") \/ c = Call("close")
    BY <1>1, <1>5, PlainCall DEF DataGrants, PortGrants
<1> QED BY <1>1, <1>2, <1>3, <1>4, <1>5

(* A passive socket is served but for the option, if PORT is off.          *)
LEMMA PasvServed ==
    ASSUME NEW t, NEW c \in PasvNeeds(t)
    PROVE  /\ "pasv_enable" \in t /\ Native(c) /\ c.nr # "mremap"
           /\ \/ DataGrants(t, c) \/ c = Call("close")
              \/ c = Reuse /\ "port_enable" \notin t
           /\ c.nr = "socket" => c = Socket("PF_INET") \/ c = Socket("PF_INET6")
<1>1. /\ "pasv_enable" \in t
      /\ \/ c = Socket("PF_INET") \/ c = Socket("PF_INET6") \/ c = Reuse
         \/ \E nr \in {"bind", "listen", "select", "accept", "close"} : c = Call(nr)
    BY DEF PasvNeeds, Asks, Calls, Reuse
<1>2. CASE c = Socket("PF_INET") \/ c = Socket("PF_INET6")
    BY <1>1, <1>2, SocketCall DEF DataGrants
<1>3. CASE c = Reuse
    BY <1>1, <1>3, OptionCall DEF DataGrants, PortGrants, Reuse
<1>4. ASSUME NEW nr \in {"bind", "listen", "select", "accept", "close"}, c = Call(nr)
      PROVE  /\ Native(c) /\ c.nr # "mremap" /\ c.nr # "socket"
             /\ DataGrants(t, c) \/ c = Call("close")
    BY <1>1, <1>4, PlainCall DEF DataGrants
<1> QED BY <1>1, <1>2, <1>3, <1>4

(* Both ask for these.                                                     *)
LEMMA DataAsks ==
    ASSUME NEW t
    PROVE  /\ "pasv_enable" \in t => Reuse \in PasvNeeds(t)
           /\ "port_enable" \in t => Call("nanosleep") \in PortNeeds(t)
           /\ \A f \in {"PF_INET", "PF_INET6"} :
                 /\ "port_enable" \in t => Socket(f) \in PortNeeds(t)
                 /\ "pasv_enable" \in t => Socket(f) \in PasvNeeds(t)
    BY DEF PortNeeds, PasvNeeds, Asks, Calls, Reuse

(* Naps, goodbyes and flags are granted to whoever has read a login.       *)
LEMMA NapServed ==
    ASSUME NEW t
    PROVE  /\ Plain(Call("nanosleep")) /\ PreloginGrants(t, Call("nanosleep"))
           /\ Plain(Call("close")) /\ PreloginGrants(t, Call("close"))
    BY PlainCall DEF Plain, PreloginGrants, BaseGrants

-----------------------------------------------------------------------------
(* Process by process.                                                     *)

(* The verdict of the broker on a call.                                    *)
LEMMA BrokerDecides ==
    ASSUME NEW t, NEW c, Native(c), c.nr # "mremap"
    PROVE  FirstFit(seccomp_sandbox_setup_postlogin_broker(t), c) = "ALLOW"
              <=> BrokerGrants(t, c)
<1> DEFINE s == seccomp_sandbox_setup_postlogin_broker(t)
<1>1. /\ RuleList(s)
      /\ Grants(s, c) <=> BrokerGrants(t, c)
      /\ ~Refuses(s, c)
    BY BrokerPieces DEF Piece
<1> HIDE DEF s
<1>2. CASE BrokerGrants(t, c)
    BY <1>1, <1>2, AllowedIf DEF s
<1>3. CASE ~BrokerGrants(t, c)
    BY <1>1, <1>3, DeniedIf DEF s
<1> QED BY <1>2, <1>3

(* What the broker must do without: what chown_uploads needs, the option   *)
(* for passive sockets alone, and the nap.                                 *)
LEMMA BrokerGaps ==
    ASSUME NEW t
    PROVE  /\ \A nr \in {"recvmsg", "fstat", "fchown", "nanosleep"} :
                 ~BrokerGrants(t, Call(nr))
           /\ "port_enable" \notin t => ~BrokerGrants(t, Reuse)
<1>1. ASSUME NEW nr \in {"recvmsg", "fstat", "fchown", "nanosleep"}
      PROVE  ~BrokerGrants(t, Call(nr))
  <2>1. ~BaseGrants(Call(nr)) /\ ~DataGrants(t, Call(nr))
    BY <1>1, PlainCall DEF BaseGrants, DataGrants, PortGrants
  <2> QED BY <1>1, <2>1, PlainCall DEF BrokerGrants
<1>2. ASSUME "port_enable" \notin t PROVE ~BrokerGrants(t, Reuse)
  <2>1. ~BaseGrants(Reuse) /\ ~DataGrants(t, Reuse)
    BY <1>2, ReuseSilent DEF BaseGrants, DataGrants
  <2> QED BY <2>1, ReuseSilent DEF BrokerGrants
<1> QED BY <1>1, <1>2

(* The broker is served but for its gaps.                                  *)
LEMMA BrokerServes ==
    ASSUME NEW t, NEW a
    PROVE  Serves(seccomp_sandbox_setup_postlogin_broker(t), Needs("broker", t, a),
                  Gaps("broker", t, a))
<1> DEFINE W == Asks(Chowns(t, a), Calls({"recvmsg", "fstat", "fchown"}))
           R == Asks("pasv_enable" \in t /\ "port_enable" \notin t, {Reuse})
           N == Asks("port_enable" \in t /\ "port_promiscuous" \notin t, {Call("nanosleep")})
           K == Calls({"read", "write", "close", "exit_group"})
           P == Asks("port_promiscuous" \notin t, PortNeeds(t))
           M == Asks(t \cap {"port_enable", "pasv_enable"} # {}, {Call("sendmsg")})
<1>1. /\ Needs("broker", t, a) = K \cup P \cup PasvNeeds(t) \cup M \cup W
      /\ Gaps("broker", t, a) = W \cup R \cup N
    BY DEF Needs, Gaps, BrokerNeeds, Reuse
<1>2. R \subseteq PasvNeeds(t) /\ N \subseteq P
    BY DataAsks DEF Asks
<1>3. /\ \A c \in W : \E nr \in {"recvmsg", "fstat", "fchown"} : c = Call(nr)
      /\ \A c : c \in R <=> "pasv_enable" \in t /\ "port_enable" \notin t /\ c = Reuse
      /\ \A c : c \in N <=> /\ "port_enable" \in t /\ "port_promiscuous" \notin t
                            /\ c = Call("nanosleep")
      /\ \A c \in K : \E nr \in {"read", "write", "close", "exit_group"} : c = Call(nr)
      /\ \A c \in P : c \in PortNeeds(t) /\ "port_promiscuous" \notin t
      /\ \A c \in M : c = Call("sendmsg")
    BY DEF Asks, Calls
<1> HIDE DEF W, R, N, K, P, M
<1>4. ASSUME NEW c \in W \cup R \cup N
      PROVE  Native(c) /\ c.nr # "mremap" /\ ~BrokerGrants(t, c)
    BY <1>3, BrokerGaps, PlainCall, ReuseSilent DEF Plain
<1>5. ASSUME NEW nr \in {"read", "write", "close", "exit_group", "sendmsg"}
      PROVE  /\ Native(Call(nr)) /\ Call(nr).nr # "mremap" /\ BrokerGrants(t, Call(nr))
    BY <1>5, PlainCall DEF BrokerGrants, BaseGrants
<1>6. \A c : DataGrants(t, c) => BrokerGrants(t, c)
    BY DEF BrokerGrants
<1>7. ASSUME NEW c \in K \cup P \cup PasvNeeds(t) \cup M \cup W
      PROVE  Native(c) /\ c.nr # "mremap" /\ (BrokerGrants(t, c) \/ c \in W \cup R \cup N)
  <2>1. CASE c \in K \cup M
    BY <1>3, <1>5, <2>1
  <2>2. CASE c \in P
    BY <1>3, <1>5, <1>6, <2>2, PortServed
  <2>3. CASE c \in PasvNeeds(t)
    BY <1>3, <1>5, <1>6, <2>3, PasvServed
  <2>4. CASE c \in W
    BY <1>4, <2>4
  <2> QED BY <1>7, <2>1, <2>2, <2>3, <2>4
<1>8. ASSUME NEW c \in K \cup P \cup PasvNeeds(t) \cup M \cup W
      PROVE  FirstFit(seccomp_sandbox_setup_postlogin_broker(t), c) = "ALLOW"
                <=> c \notin W \cup R \cup N
    BY <1>4, <1>7, BrokerDecides
<1> QED BY <1>1, <1>2, <1>8 DEF Serves

(* What a session that connects for itself, with port_promiscuous, is      *)
(* still granted.                                                          *)
LEMMA PortRest ==
    ASSUME NEW t, NEW c \in PortNeeds(t), c # Reuse,
           c.nr \notin {"socket", "bind", "connect", "select", "getsockopt"}
    PROVE  Plain(c) /\ PreloginGrants(t, c)
<1> DEFINE both == {"O_RDWR", "O_NONBLOCK"}
           rw == {"O_RDWR"}
<1>1. both \subseteq AllFlags /\ rw \subseteq AllFlags
    BY DEF AllFlags, kOpenFlags, O_ACCMODE
<1>2. \/ c = Socket("PF_INET") \/ c = Socket("PF_INET6")
      \/ c = Option("getsockopt", "SOL_SOCKET", "SO_ERROR")
      \/ c = Fcntl("F_GETFL", {}) \/ c = Fcntl("F_SETFL", both) \/ c = Fcntl("F_SETFL", rw)
      \/ \E nr \in {"bind", "nanosleep", "connect", "select", "close"} : c = Call(nr)
    BY DEF PortNeeds, Asks, Calls, Reuse
<1> HIDE DEF both, rw
<1>3. \/ c = Fcntl("F_GETFL", {}) \/ c = Fcntl("F_SETFL", both) \/ c = Fcntl("F_SETFL", rw)
      \/ c = Call("nanosleep") \/ c = Call("close")
    BY <1>2, SocketCall, OptionCall, PlainCall
<1> QED BY <1>1, <1>3, FlagsServed, NapServed

(* The session of the two process model is served but for its gaps.        *)
LEMMA PostloginServes ==
    ASSUME NEW t, NEW a \in BOOLEAN, "one_process_model" \notin t
    PROVE  Serves(SessionRules(t, a), Needs("postlogin", t, a), Gaps("postlogin", t, a))
<1> DEFINE F == Asks(Chowns(t, a), {Call("fchmod")})
           P == Asks("port_promiscuous" \in t, PortNeeds(t))
           Q == Asks("port_promiscuous" \in t,
                     {c \in PortNeeds(t) :
                         \/ c.nr \in {"socket", "bind", "connect", "select", "getsockopt"}
                         \/ c = Reuse})
           R == Asks(t \cap {"port_enable", "pasv_enable"} # {}, {Call("recvmsg")})
           M == Asks(Chowns(t, a), {Call("sendmsg")})
           D == PostLoginNeeds(t, a)
<1>1. /\ Needs("postlogin", t, a) = D \cup R \cup M \cup P
      /\ Gaps("postlogin", t, a) = F \cup Q
    BY DEF Needs, Gaps, Reuse
<1>2. F \subseteq D /\ Q \subseteq P
    BY DEF PostLoginNeeds, Asks
<1>3. /\ \A c : c \in F <=> Chowns(t, a) /\ c = Call("fchmod")
      /\ \A c \in P : c \in PortNeeds(t)
      /\ \A c \in Q : \/ c.nr \in {"socket", "bind", "connect", "select", "getsockopt"}
                      \/ c = Reuse
      /\ \A c \in P : c \notin Q =>
            c.nr \notin {"socket", "bind", "connect", "select", "getsockopt"} /\ c # Reuse
      /\ \A c \in R : c = Call("recvmsg")
      /\ \A c \in M : Chowns(t, a) /\ c = Call("sendmsg")
    BY DEF Asks
<1>4. \A c \in D : /\ Plain(c)
                   /\ SessionGrants(t, a, c) \/ (Chowns(t, a) /\ c = Call("fchmod"))
    BY SessionServed
<1> HIDE DEF F, P, Q, R, M, D
<1>5. ASSUME NEW c \in F \cup Q PROVE Native(c) /\ ~SessionGrants(t, a, c)
  <2>1. CASE c \in F
    BY <1>3, <2>1, HandSilent, PlainCall
  <2>2. CASE c \in Q
    BY <1>2, <1>3, <2>2, HandSilent, PortServed
  <2> QED BY <2>1, <2>2
<1>6. ASSUME NEW c \in R \cup M PROVE Plain(c) /\ SessionGrants(t, a, c)
  <2>1. c.nr \in {"recvmsg", "sendmsg"} /\ c.args[3] = None /\ Plain(c)
    BY <1>3, PlainCall DEF Plain
  <2>2. c.nr = "sendmsg" => Hands(t, a)
    BY <1>3, PlainCall DEF Chowns, Hands, Chown
  <2>3. HandGrants(t, a, c)
    BY <2>1, <2>2 DEF HandGrants
  <2>4. DescriptorGrants(t, a, c)
    BY <2>3 DEF DescriptorGrants
  <2> QED BY <2>1, <2>4 DEF SessionGrants
<1>7. ASSUME NEW c \in P, c \notin Q PROVE Plain(c) /\ SessionGrants(t, a, c)
  <2>1. Plain(c) /\ PreloginGrants(t, c)
    BY <1>3, <1>7, PortRest
  <2> QED BY <2>1 DEF CommonGrants, SessionGrants
<1>8. ASSUME NEW c \in D \cup R \cup M \cup P, c \notin F \cup Q
      PROVE  Plain(c) /\ SessionGrants(t, a, c)
    BY <1>3, <1>4, <1>6, <1>7, <1>8
<1>9. ASSUME NEW c \in D \cup R \cup M \cup P
      PROVE  FirstFit(SessionRules(t, a), c) = "ALLOW" <=> c \notin F \cup Q
  <2>1. CASE c \in F \cup Q
    BY <1>5, <2>1, SessionDecides
  <2>2. CASE c \notin F \cup Q
    BY <1>8, <2>2, SessionDecides DEF Plain
  <2> QED BY <2>1, <2>2
<1> QED BY <1>1, <1>2, <1>9 DEF Serves

(* The one process is served but for its gaps.                             *)
LEMMA OneProcessServes ==
    ASSUME NEW t, NEW a \in BOOLEAN, ~a, "one_process_model" \in t
    PROVE  Serves(SessionRules(t, a), Needs("one_process", t, a), Gaps("one_process", t, a))
<1> DEFINE yes == TRUE
           W == Asks(Chowns(t, yes), Calls({"fchmod", "fchown"}))
           F == Asks(Chowns(t, yes), {Call("fchown")})
           R == Asks("pasv_enable" \in t /\ "port_enable" \notin t, {Reuse})
           S == Asks("syslog_enable" \in t /\ t \cap {"port_enable", "pasv_enable"} # {},
                     {Socket("PF_INET"), Socket("PF_INET6")})
           D == PostLoginNeeds(t, yes)
<1>1. /\ Needs("one_process", t, a) = D \cup PortNeeds(t) \cup PasvNeeds(t) \cup F
      /\ Gaps("one_process", t, a) = W \cup R \cup S
    BY DEF Needs, Gaps, Reuse
<1>2. yes \in BOOLEAN /\ (a => yes)
    OBVIOUS
<1> HIDE DEF yes
<1>3. W \subseteq D \cup F /\ R \subseteq PasvNeeds(t)
            /\ S \subseteq PortNeeds(t) \cup PasvNeeds(t)
  <2>1. W \subseteq D \cup F
    BY DEF PostLoginNeeds, Asks, Calls
  <2> QED BY <2>1, DataAsks DEF Asks
<1>4. /\ \A c : c \in W <=> Chowns(t, yes) /\ (c = Call("fchmod") \/ c = Call("fchown"))
      /\ \A c \in F : c \in W
      /\ \A c : c \in R <=> "pasv_enable" \in t /\ "port_enable" \notin t /\ c = Reuse
      /\ \A c : c \in S <=> /\ "syslog_enable" \in t
                            /\ "port_enable" \in t \/ "pasv_enable" \in t
                            /\ c = Socket("PF_INET") \/ c = Socket("PF_INET6")
    BY DEF Asks, Calls
<1>5. \A c \in D : /\ Plain(c)
                   /\ SessionGrants(t, a, c) \/ (Chowns(t, yes) /\ c = Call("fchmod"))
    BY <1>2, SessionServed
<1> HIDE DEF W, F, R, S, D
<1>6. ASSUME NEW c \in W \cup R PROVE Native(c) /\ c.nr # "socket" /\ ~SessionGrants(t, a, c)
  <2>1. CASE c \in W
    BY <1>4, <2>1, OwnSilent, PlainCall
  <2>2. CASE c \in R
    BY <1>4, <2>2, OwnSilent, ReuseSilent DEF Plain
  <2> QED BY <2>1, <2>2
<1>7. \A c : DataGrants(t, c) => SessionGrants(t, a, c)
  <2>1. \A c : DataGrants(t, c) => DescriptorGrants(t, a, c)
    BY DEF OwnGrants, DescriptorGrants
  <2> QED BY <2>1 DEF SessionGrants
<1>8. \A c : PreloginGrants(t, c) => SessionGrants(t, a, c)
    BY DEF CommonGrants, SessionGrants
<1>9. ASSUME NEW c \in PortNeeds(t) \cup PasvNeeds(t), c \notin R
      PROVE  /\ Native(c) /\ c.nr # "mremap" /\ SessionGrants(t, a, c)
             /\ "port_enable" \in t \/ "pasv_enable" \in t
             /\ c.nr = "socket" => c = Socket("PF_INET") \/ c = Socket("PF_INET6")
  <2>1. CASE c \in PortNeeds(t)
    BY <1>7, <1>8, <2>1, PortServed, NapServed
  <2>2. CASE c \in PasvNeeds(t)
    BY <1>4, <1>7, <1>8, <1>9, <2>2, PasvServed, NapServed
  <2> QED BY <2>1, <2>2
<1>10. ASSUME NEW c \in D \cup PortNeeds(t) \cup PasvNeeds(t) \cup F
       PROVE  FirstFit(SessionRules(t, a), c) = "ALLOW" <=> c \notin W \cup R \cup S
  <2>1. CASE c \in W \cup R
    BY <1>6, <2>1, SessionDecides
  <2>2. CASE c \notin W \cup R /\ c \in D
    <3>1. Plain(c) /\ SessionGrants(t, a, c)
      BY <1>4, <1>5, <2>2
    <3>2. c \notin S
      BY <1>4, <3>1, SocketCall DEF Plain
    <3> QED BY <2>2, <3>1, <3>2, SessionDecides DEF Plain
  <2>3. CASE c \notin W \cup R /\ c \in PortNeeds(t) \cup PasvNeeds(t) /\ c.nr # "socket"
    <3>1. Plain(c) /\ SessionGrants(t, a, c)
      BY <1>9, <2>3 DEF Plain
    <3>2. c \notin S
      BY <1>4, <3>1, SocketCall DEF Plain
    <3> QED BY <2>3, <3>1, <3>2, SessionDecides DEF Plain
  <2>4. CASE c \notin W \cup R /\ c \in PortNeeds(t) \cup PasvNeeds(t) /\ c.nr = "socket"
    <3>1. /\ c = Socket("PF_INET") \/ c = Socket("PF_INET6")
          /\ "port_enable" \in t \/ "pasv_enable" \in t
      BY <1>9, <2>4
    <3>2. FirstFit(SessionRules(t, a), c) = "ALLOW" <=> "syslog_enable" \notin t
      BY <3>1, SocketDecided
    <3> QED BY <1>4, <2>4, <3>1, <3>2
  <2> QED BY <1>4, <1>10, <2>1, <2>2, <2>3, <2>4
<1> QED BY <1>1, <1>3, <1>10 DEF Serves

(* In every process and for every configuration, the calls the code makes  *)
(* that the filter of that process does not let through are exactly those  *)
(* of Gaps.                                                                *)
THEOREM SandboxServesTheorem == SeccompSpec => []SandboxServes
<1>1. SeccompInv => SandboxServes
  <2> SUFFICES ASSUME SeccompInv, filter # << >>
               PROVE  {c \in Needs(role, conf, anon) : Verdict(c) # "ALLOW"}
                         = Gaps(role, conf, anon)
    BY DEF SandboxServes
  <2>1. /\ rules = RulesOf(role, conf, anon)
        /\ \A c : Verdict(c) = FirstFit(rules, c)
    BY LockedDown
  <2>2. /\ role \in {"prelogin", "postlogin", "one_process", "broker"}
        /\ anon \in BOOLEAN
        /\ role = "one_process" <=> "one_process_model" \in conf
        /\ role = "one_process" => ~anon
    BY DEF SeccompInv
  <2>3. Serves(rules, Needs(role, conf, anon), Gaps(role, conf, anon))
    <3>1. CASE role = "prelogin"
      BY <2>1, <3>1, PreloginServes DEF RulesOf
    <3>2. CASE role = "postlogin"
      <4>1. rules = SessionRules(conf, anon)
        BY <2>1, <3>2, SessionParts DEF RulesOf
      <4> QED BY <2>2, <3>2, <4>1, PostloginServes
    <3>3. CASE role = "one_process"
      <4>1. rules = SessionRules(conf, anon)
        BY <2>1, <3>3, SessionParts DEF RulesOf
      <4> QED BY <2>2, <3>3, <4>1, OneProcessServes
    <3>4. CASE role = "broker"
      BY <2>1, <3>4, BrokerServes DEF RulesOf
    <3> QED BY <2>2, <3>1, <3>2, <3>3, <3>4
  <2> QED BY <2>1, <2>3 DEF Serves
<1> QED BY <1>1, SeccompInvariant, PTL

=============================================================================
