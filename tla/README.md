# Formal models of vsftpd

TLA+ models of the FTP server in this repository (vsftpd, ported to Checked C),
TLC configurations that check them on small instances, and TLAPS proofs of
their main properties for every value of their constants.

## 1. The system and its parts

| Part | Source | State | Operations | Interacts with |
|---|---|---|---|---|
| Standalone listener | `standalone.c`, `main.c` | `s_children`, the per-IP and per-pid tables, the tunables | accept, count, fork, undo, reap, reload | signals; each child inherits counts and limits |
| Deferred signals | `sysutil.c` 74-300 | `s_sig_details[]`, one process alarm | deliver, check pending, install | every blocking call of every process |
| Hash tables | `hash.c` | bucket chains | add, look up, free | the listener |
| Privileged parent | `twoprocess.c`, `postprivparent.c`, `privops.c` | listening socket of PASV, session | request loop: chown, data socket, PASV clean/active/listen/accept | the unprivileged child over a socket pair |
| Unprivileged child | `postlogin.c`, `ftpdataio.c`, `ftpcmdio.c` | PORT address, data fd, abort and timeout flags | one handler per FTP command | the client; the parent by remote calls |
| Login | `main.c`, `prelogin.c`, `twoprocess.c`, `oneprocess.c`, `privops.c`, `secutil.c` | login failures, user, credentials and root of each process, SSL state | USER, PASS, AUTH, login attempt, hand-over | pre-login child, parent, session process |
| SSL | `ssl.c`, `sslslave.c`, `readwrite.c` | control and data SSL, slave process | hand-shake, shutdown, slave I/O | login and data transfers |
| Files | `postlogin.c`, `sysutil.c` | directory, locks, RNFR name, REST offset | RETR, STOR, APPE, STOU, DELE, RNFR, RNTO | other sessions, through the file system |
| Data transformation | `ascii.c`, `ls.c`, `access.c`, `netstr.c`, `ipaddrparse.c`, `str.c` | none | pure functions | command handlers |
| Configuration | `parseconf.c`, `tunables.c` | the tunables | load defaults, load file | everything; reloaded on SIGHUP |
| Logging | `logging.c` | log fds | format, lock, write | command handlers |
| Sandboxes | `seccompsandbox.c`, `ptracesandbox.c`, `ftppolicy.c` | kernel filter; the tracer's idea of where the traced process is | collect rules, compile, lock down; stop, decide, continue | every unprivileged process |

What is hard to test here: signals that arrive between two system calls and are
handled only after the next blocking one; children that exit before the
listener has entered them in its tables; a fork that fails half way; pid reuse;
limits that change while older sessions live on; remote calls between two
processes that must stay in step on every error path; sockets that must be
closed in both processes; timeouts that race with the end of a transfer; which
of three processes may speak to the client, and which of them still holds what
privilege, at every moment of a login; a system call that only one combination
of settings makes and the filter does not list; files that another session
renames, replaces or locks half way through a command.
`PROJECT.json` lists these hazards at their lines.

## 2. Modules

### Standalone, Admission

`Standalone` is the listener process. Its program counter `pc` names the points
between which a signal can arrive; `i` is the loop index of
`vsf_sysutil_check_pending_actions`, reduced to the two signals that have a
handler in this process (SIGHUP is 1 and SIGCHLD 17, so SIGHUP is looked at
first). `Deliver` is the kernel running `vsf_sysutil_common_sighandler`: the
pending flag, the alarm, and EINTR if `accept()` is asleep. A step of the code
that cannot be interrupted visibly is one action (`CountClient` is `++s_children`
with all of `handle_ip_count`; `ReapOne` is one turn of the loop of
`handle_sigchld` with `drop_ip_count` and `hash_free_entry`).

The two hash tables are modelled by what `hash.c` does with them, the calls of
`bug()` on a missing or a duplicate key included: such a call moves the listener
to `pc = "bug"`. The kernel's process table (`procs`, `peer`) is the reference
the tables are compared with. `launch` is the `vsf_client_launch` a child
inherits, with the limits it will compare it to: the ones in force at the fork,
or those of a per-IP file (`VSFTPD_LOAD_CONF`, `main.c`).

`Admission` is the promise to the administrator: sessions are admitted and
leave one at a time, and among the sessions admitted under a limit of at most
m, at most m are active. `Standalone` implements it (`ImplementsAdmission`).

Left out: `close()` of a client socket interrupted by a signal, which would run
the deferred handlers between `fork()` and `hash_add_entry` (Linux does not
interrupt the close of a socket without linger); `die()` on a failing
`waitpid`; the set-up of the listening socket.

### DataChannel, DataPath

`DataChannel` is a logged-in session under privilege separation: the child runs
the FTP commands that set up or use a data connection, the parent serves its
requests. `pc` is where the child is in which handler; its values are the places
where it waits for the answer of a remote call (`CallOf` says to which), where it
runs, and where it has stopped. `ppc` is where the parent is in
`process_post_login_req`. `down` and `up` are the two directions of the socket
pair; an answer of two parts (result and descriptor, result and number) is two
writes and two reads, so either process may die between them. `arg` is the
argument of the PORT or EPRT being run, one of four kinds: illegal, another
machine's, a reserved port, usable.

The handlers are followed call by call: `data_transfer_checks_ok` and
`get_remote_transfer_fd` ask `pasv_active` and `port_active` up to five times
before the connection is made, and each question is a remote call. RETR, LIST,
NLST, STOR, APPE and STOU take the same path with respect to the data
connection: the checks, the file, the connection, the transfer, the clean-up.
`bug()` moves the child to `"bug"`. The tests that PORT and PASV are not both
active would, if they ever failed, not reach their `bug()`: `port_active` and
`pasv_active` call each other until the stack ends; the model uses `"bug"` for
that too. A `die()` of the parent in a check of its own state or of a request
moves it to `"oops"`; one for want of resources is `ParentExit`.

`DataPath` is what the session promises, as if there were one process: a set-up
serves for one attempt, the attempt yields at most one connection, to the client
unless the configuration allows others, and nothing is set up while one is open.

Left out: what goes over the connection, and the one-process model, in which the
same calls are plain function calls.

One thing to know: after EPSV ALL the server refuses PASV and PORT
(`postlogin.c:201`, `239`) but still accepts EPRT (`postlogin.c:318`), and the
model does the same.

### Session

`Session` is the command loop of a logged-in session with its asynchronous
events, in the process that runs the commands. `pc` is where the loop is; a
transfer goes through `connect` (waiting for the connection), `move` (the copy
loop), `dispose`, `close` (the lingering close), `report`, `abor`. The system
calls that may block end in `vsf_sysutil_check_pending_actions`; `at` is the slot
this loop looks at (SIGALRM is 14 and SIGURG 23, so the alarm comes first), and
`Interrupted` is a signal that ends a sleeping call. `Expire` is the alarm going
off, at any moment, also just before a call goes to sleep: that is the race of
`sysutil.c:121`, for which the alarm repeats.

`handle_sigurg` runs inside whatever call was interrupted and reads a line itself:
`back` is where it returns to. One set of actions (`Peek`, `ReadLine`, ...) models
`vsf_cmdio_get_cmd_and_arg` for both of its callers. The one SIGALRM has one
handler, the idle timeout or the data timeout, whichever was installed last
(`handler`); `timer` is `alarm()`.

The commands are grouped by what they do to this state. "plain" stands for every
command answered at once (with or without a log entry), "setup" for PASV, EPSV,
PORT and EPRT (see `DataChannel`), "stat" for STAT of a file, "list" for LIST and
NLST, "retr" and "stor" for downloads and uploads (STOR, APPE, STOU), "quit" for
whatever ends in `vsf_cmdio_write_exit`. The urgent lines are an ABOR and any
other line sent with urgent data; outside a transfer both are plain commands.

A reply is sent in two steps: what the code does before it, and `Written`, the
connection taking it. Between them `pc` is one of `Saying`, where the client can hold
the process by not reading, an alarm or urgent data can interrupt the write, and a lost
connection ends the process (`WriteFails`). The loops of `write_loop` go on after an
interruption; a write to the descriptor that the data alarm made non-blocking does not
wait. Two of these waits have no alarm: the write of the final reply of a transfer, and
of an ABOR in it, come after `dispose` has cleared the alarm (`ftpcmdio.c:138`).

`consumed`, `answered`, `abors`, `ok`, `cut`, `logged` and `fired` record what
happened since the command was read; no guard reads them.

Left out: encrypted sessions (they are `SslSlave`), HTTP mode, and the contents of the
transfer.

### Login, SslSlave

`Login` starts where `main.c` has a client and ends where a session process serves
it. There are three processes: `parent` (the process `main.c` started), `prelogin`
(the unprivileged child that speaks FTP before the login) and `session`. Of each one
the model keeps its place, its credentials (user, capabilities, whether it is in a
jail, and the limits on processes and descriptors) and which ends of the socket
pairs it holds: a process learns of the death of its partner by end-of-file, and
end-of-file comes when the last copy of an end is closed, so the copies are state.
`Configs` are whole configurations, because what the code does depends on several
switches at once; a per-user file (`UserFiles`) overrides some of them after the
password was checked. The one-process model and `run_as_launching_user` are
configurations. PAM, the password file and capabilities are external.

Who launches the server is a choice too: root, or a user without capabilities, for whom
`main()` ends unless `run_as_launching_user` is set (`die_unless_privileged`). With that
setting `main.c:248` switches `connect_from_port_20` and `chown_uploads` off only if the
launcher is not root, and the process that serves the client keeps the credentials of its
launcher. Launched by root it serves as root, in no jail and with every capability, which
`vsftpd.conf.5:412` warns of; `LeastPrivilege` says so, and promises the least privilege to
everybody else. What it says of such a server is that no setting that needs a privilege is
left on without it.

`SslSlave` EXTENDS `Login` and adds what follows in an encrypted session: `prelogin`
becomes the slave that owns the keys, and the session asks it to read commands,
write replies, hand-shake, move and close data (`readwrite.c`, `sslslave.c`). `at`
is where the session is, `Awaits` the request each waiting place has made. A request
is one action and its answer is one action: each is sent by one process to one
reader, and the parts of one are never interleaved with another. The session's
alarms run while the slave is blocked on a connection they share; when the session
shuts it, the slave's call returns. Requests and answers carry no tags, so
`InStep` is all that keeps an answer from being taken for another's.

The end of a transfer is modelled with the second alarm of `ftpdataio.c:74-83`: unless
something failed, the session starts it again (`Linger`) for its own `close()`, which may
wait for the client. If that alarm goes off in the close it is not handled there but in the
session's next wait, which is the write of 226: `alarm` is "late". Its handler then sets
`data_timeout` and finds no data connection to shut, and the session ends with 421 at the
end of the command (`TimedOut`). This is the encrypted side of the finding `session_stall`.
`UploadWhole` therefore does not say that `data_timeout` is off where 226 is told; it says
that the connection of the upload was not shut down by the alarm (`xfer.shut`), which a read
cannot tell from the end of the data, and not cut by the client.

Every step of `SslSlave` is a step of `Login` or leaves its variables alone
(`LoginSpec`): nothing an encrypted session does invalidates what `Login` says.

### HashChains

The buckets and doubly linked chains of `hash.c` over a heap of nodes, one action per
operation. `entries` is the map the caller believes in; `HashIsMap` says that a
look-up through the chains finds what the map holds, that no node is lost, and that
both directions of every chain agree. `Visited` is the set of nodes the loop of
`hash_get_node_by_key` goes through, the least one that holds the head of the bucket and
goes on until the key is met. This is what `Standalone` assumes of its two tables.

### Seccomp, SandboxNeeds

`Seccomp` is `seccompsandbox.c`: the rules each of four processes collects from its
configuration, the BPF program they are compiled to with its literal jump offsets,
and the kernel that runs this program on a call. The program (`Written`) and its run
(`Execution`) are recursive functions, of the number of rules written and of
instructions executed. `SandboxNeeds` lists the calls
the code makes, by the settings that make it make them, following the wrappers
in `sysutil.c` and `sysdeputil.c`. `FilterDecides` compares the program with the
plain reading of the rules, `SandboxServes` compares what it refuses with what the
code needs. `Gaps` is the exact difference; see Observations.

### Tracer

The ptrace sandbox of 32-bit builds. The kernel's side is kept (is the process
inside a call or outside it), beside the tracer's side, which knows only how many
stops it has seen. `TracerGuards`: every call that ran is one that `get_action` permits,
arguments included, whatever signals, exits and kills come between, except that a kill
from outside may let the call the process is stopped at run. What this permission means is
a theorem, `PolicyConfines`: nothing that starts a process or signals one, no change of a
name or a length by a call of its own and no opening for writing without `write_enable`,
connections to the client only. It is not "no writing without `write_enable`", see Observations.

### Filters

The matcher `vsf_filename_passes_filter` of `ls.c` with its iteration limit, and
the checks of `access.c` for existing and not yet existing names. The reference is
the usual meaning of `*`, `?` and `{,}`; the code's matcher is shown to be sound for
it (`FilterAdmits`: a name it lets pass is matched), and complete for patterns with one
`*` and an end that does not overlap itself; see Observations for the others. The loop, which
calls the whole matcher for each alternative of a brace, is a recursive function of the
iterations left (`MatchLoop` of `MatchTurn`): the counter is shared by all calls, so a call
always has fewer left. The reference is a recursive function of the length of the
pattern (`Meanings`), and the scan for the last occurrence one of its steps.

### AsciiTransfer

The two conversions of `ascii.c` on memory cells, with the bounds the Checked C
declarations give, and the loops of `ftpdataio.c` that call them, with the buffers these
pass: a download is converted within `p_readbuf`, which is both input and output
(`ftpdataio.c:502`), and `p_asciibuf` is what is written out. The loops are recursive functions
of the number of turns; one turn of `vsf_ascii_bin_to_ascii` (`ToAsciiTurn`) is an operator on
the loop's variables. Nothing is promised of downloads that are not converted: the one run is
the finding `ascii`.

### Files

Sessions that share a directory. A file is an inode with blocks; the number of a
block is that of the command that wrote it. Opening, locking with truncation, each
block, the end, a failure and the death of a session are steps of their own; locks
are those of `fcntl` over the whole file. Guests are anonymous users without
`anon_other_write_enable`, who can only create. Downloads start at the beginning of
the file: REST is modelled for uploads, where it changes what is written.

Every lock that is asked for is granted in the end. The code does not look at the result of
`fcntl` (`postlogin.c:685`, `1093`): on a file system without locks it goes on unlocked, and
`TransfersIsolated` promises nothing there. `CompletedKept` has one exception, the race of the
clean-up of `delete_failed_uploads` (`postlogin.c:1166`): an upload that lost its name to another
session and then fails unlinks whatever was completed there since. It says that this is
the only way: an upload that kept its name takes away no other file than the one it wrote.
`GuestsHarmless` says nothing of the clean-up after another session took the name, by DELE, by RNTO
from it or to it, or by failing an upload of the same name (`moved`).

### Settings

Loading a configuration file line by line with `parseconf.c`'s checks, the mask it
sets, and SITE UMASK and SITE CHMOD. One setting of each kind stands for its table.


## 3. Runs

| Run | Checks | Shows |
|---|---|---|
| `standalone` | `NoBug`, `BooksExact`, `SessionsWithinLimits`, `ZombiesReaped`, `ImplementsAdmission` | counters and tables are exact at every moment, no `bug()` is reached, the limits hold although each child checks a count taken at its fork, no zombie stays, and the listener implements `Admission` |
| `standalone_lost_sighup` | `SighupHandled` (violated) | a pending SIGHUP can lose its alarm and stay unhandled, see Findings |
| `datachannel` | `ChecksHold`, `CallsInStep`, `ConnectionsClosed`, `ImplementsDataPath`, `CommandCompletes`, `ParentFollows` | with the default tunables, no sequence of commands and no death of a process makes a check fail, shifts an answer or leaks a connection; the processes never wait for each other for ever, and the parent never outlives the child |
| `datachannel_promiscuous` | `ImplementsDataPath` | the same promise where the child connects by itself and anybody may connect |
| `session` | `NoBug`, `Answered`, `SuccessIsWhole`, `LogTruthful`, `SigurgHasLine`, `NeverUnguarded`, `NeverHangs` | replies match lines, a success is one and is what the log says, every wait but that for a transfer's final reply to be taken is bounded, and the repeated alarm ends commands and silent sessions |
| `session_idle` | `IdleOnlyBetweenCommands` (violated) | see Findings |
| `session_stall` | `NoTimeoutAfterSuccess` (violated) | see Findings |
| `login` | `SslTypeOK`, `NoBug`, `LeastPrivilege`, `ServedAsAuthenticated`, `RequestsGuarded`, `OneSpeaker`, `InStep`, `SlaveReleases`, `UploadWhole`, `NobodyLingers`, `TimeoutsReach`, `LoginSpec` | whoever serves the client has dropped what it no longer needs and serves whom the parent authenticated; failed attempts are bounded and clear-text logins refused where they must be; one process at a time speaks to the client; session and slave stay in step through ABORs, timeouts and deaths; a cut upload is not a success; no process outlives the others for ever |
| `library` | `HashIsMap`, `FilterDecides`, `SandboxServes`, `TracerGuards`, `FilterAdmits`, `TransfersIsolated`, `GuestsHarmless`, `CompletedKept` | the parts that run by themselves, side by side: the variable `part` of `MCLibrary` picks one, and the others keep a fixed state |
| `ascii` | `AsciiHonoured` (violated) | see Findings |
| `octal` | `MaskAsGiven` (violated) | see Findings |
| `deny_file` | `DenyHolds` (violated) | see Findings |

Bounds.

* `standalone`: two pids and two addresses are enough for a limit of 1 to be reached
  and exceeded, in total and at one address while the other goes on, for pid reuse,
  and for the configurations that SIGHUP switches between. Nothing else is bounded:
  the counters are bounded by the number of pids. More pids and higher limits are
  left to the proofs.
* `datachannel` needs no bound: the calls bound the streams.
* `session` bounds the lines a client sends (`MaxLines`) and the chunks of a transfer
  (`MaxChunks`). Three lines are a set-up, a transfer and an urgent line in it, or a
  transfer and what comes after it; what is left of one command for the next (flags,
  pending signals, an open log entry) shows in two. One chunk tells a transfer that
  progressed from one that did not. The settings in which a timeout or asynchronous
  ABOR is off are left to the proofs.
* `login`: eight configurations, chosen so that every decision of the code is taken
  both ways (user lists in both senses, both process models, explicit and implicit
  SSL, guests, chroot lists, 0 to 2 permitted failures, HTTP, the launching user);
  three per-user files; two local names, one of them on the lists. Two lines
  after the login and one chunk: a transfer with its set-up, and the command after.
* `library`: four keys in two buckets, so that chains grow longer than two nodes;
  the switches the filters look at flipped in pairs from the defaults and from
  everything on; patterns of up to four out of seven characters against names of up to
  three, with the iteration limit scaled from 1000 to 3 so that it is reached;
  a guest and a local session with two names, two files of up to two
  blocks and three commands between them: a race between two and one that follows.

No run but the listener's checks for deadlock, because what the others model ends:
a session is over, a filter is installed, a text is converted.

Fairness. `FairSpec` asks that the listener process is scheduled and that an
armed alarm expires, both guaranteed by the kernel. It asks nothing of clients,
of children or of whoever sends SIGHUP. `FairSpec` of `DataChannel` asks that
both processes are scheduled; what depends on the client is bounded by
`accept_timeout`, `connect_timeout` and `data_connection_timeout`, each of which
is on by default. A new command of the client is not part of the fairness.
`FairSpec` of `Session` asks that the process is scheduled, that an alarm that is set
goes off, and that a pending alarm interrupts a sleeping call: one that misses
the call repeats every second. SIGURG does not repeat, and nothing is asked of
it. Data moves only if the client moves it, unless the connection was shut. A reply is taken
only if the client reads, with one assumption about the client: it takes, or breaks the
connection for, a reply written where no alarm is set. The code sets none for the replies that
follow a transfer, so without this assumption a client that never reads holds the process for
ever and `NeverHangs` is false; with it, a client that sends nothing, moves no data and takes
no other reply is ended by an alarm.
`Fairness` of `Login` and `SslFairSpec` of `SslSlave` ask that processes are scheduled,
that a process learns of the end of its partner, that alarms that are set go off,
and that a call on a connection that was shut returns; a transfer in the clear ends of
itself only then. Nothing is asked of the client except that it takes the replies it is
sent; failures and signals from outside are not fair either.

## 4. Proofs

`StandaloneProofs` proves, for every finite set of pids, every set of addresses
and every set of configurations:

* `StandaloneInvariant`: the inductive invariant `IInv`. The properties alone are
  not inductive: `LaunchConsistent` says what the listener knows while it launches
  a client, `GrantsBounded` says that at most n of the unreaped children hold a
  number of at most n (a child holds the count at its fork, and counts only
  drop when a child is reaped), and `ServingWithinLimits` ties a serving child to
  the test it passed. Each action has its own lemma.
* `StandaloneTyping`; `AccountingExact` (`BooksExact`); `NoBugReached` (`NoBug`); `LimitsHold`
  (`SessionsWithinLimits`): from `IInv`; the limits follow from `GrantsBounded` by
  comparing sets of children.
* `RefinesAdmission`: a child passing `check_limits` is an admission, the exit of
  a serving child a departure, and every other step leaves `Admission` unchanged.

`DataChannelProofs` proves, for every setting of the three tunables:

* `Inductive`: the inductive invariant `IInv`. `Streams` says, for each place of the
  child, what may be on the two streams and where the parent may be (a request
  not read yet, an answer complete or in its first half); `SetUps` says which of
  PORT and PASV can be active there; `Descriptors` says who holds a connection.
  The checked invariants follow from it but are not inductive: that the child
  never meets a `bug()` needs what the answer under way says about the parent's
  state at the moment it is read.
* `Typing`, `NoCheckFails` (`ChecksHold`), `InStep` (`CallsInStep`), `Connections`
  (`ConnectionsClosed`): the checked invariants.
* `Refinement`: `DataChannel` implements `DataPath`. One set-up of the abstraction
  is spread over `port_sockaddr`, `listen_fd` and the child's place; each action is
  shown to be one abstract step or none.

`SessionProofs` proves, for every setting of the two timeouts and of
`async_abor_enable`, every set of lines and every bound:

* `Invariance`: the inductive invariant `IInv`. `Loc` is the place of the loop
  whether or not it is inside `handle_sigurg`. `Shape` says where that handler may
  run and that a data connection is open from `init_data_sock_params` to `dispose`;
  `Logging` where an entry is open; `Counting` how many replies are due at each
  place, a reply being written counted as sent; `Cutting` that a connection that was cut
  is known by the two flags that `dispose` looks at; `Urgency` that a pending SIGURG belongs to a line not read
  yet, and in the handler to one behind the line it is about to read; `Guarding`
  which alarm bounds each wait. None of the checked invariants is inductive by
  itself. Each action has its lemma, and each lemma a step per conjunct.
* `Typing`, `NoBugs`, `Replies`, `Success`, `Log`, `UrgentLines`, `Guards`: the checked
  invariants, from `IInv`.

`FilesProofs` proves, for any number of sessions, names, files, blocks and commands:

* `FilesInvariant`: the inductive invariant `FilesIInv`. `Stands` says what a session
  has at each place of its command (a number, a descriptor, a lock); `LocksExclude`
  that two sessions never hold conflicting locks on one file; `Named` that the name of
  an upload leads to the file it has open, until it is marked as moved. The checked
  properties need these: a write is harmless to a reader because the reader's
  place implies its lock, and an unlink removes the right file because of `Named`.
  `OneMoves`, `OneWrites` and `NamesTaken` are the three kinds of steps.
* `LocksIsolate` (`TransfersIsolated`), `ExclusiveUploads` (`GuestsHarmless`), `UploadsKept`
  (`CompletedKept`): the checked invariants, from `FilesIInv`.

Assumed of the constants: the configurations are records of two Booleans, and the
bounds on suffixes and files are natural numbers (`FilesConstants`).

`LoginProofs` proves, for every set of configurations, per-user files and accounts, with
and without capabilities, and for any number of attempts:

* `LoginInvariant`: the inductive invariant `LoginIInv`. `Together` says which places the
  three processes can be at together; `Checked` what the checks of `main()` leave of the
  configurations until a per-user file is read; `EndsExact` which ends of the socket pairs
  a process holds at its place, to the last copy; `Channel` what is in the socket (a request
  only of a child that waits, an answer only to one, and what became of the child once a login
  is granted); `NamesGuarded` that a name which was accepted may still log in; `Found`
  and `AuthSound` who was found, and when; `Dropped` the credentials; `Counted` how the
  failures the child has counted bound those the parent has verified, with an
  answer under way or not. The checked properties need the others: that the session
  speaks alone follows from what the parent waited for, which is known only from the
  answer in the socket; the bound on attempts from which of the two processes
  has counted the last one.
* `LoginTypes`, `PrivilegesAreLeast` (`LeastPrivilege`), `SessionIsAuthenticated`
  (`ServedAsAuthenticated`), `LoginsAreGuarded` (`RequestsGuarded`), `OneProcessSpeaks`
  (`OneSpeaker`), `DescriptorsAreExact` (`EndsExact`): from `LoginIInv`.
* `LoginMeetsNoBug` (`NoBug`) for configurations without `run_as_launching_user` together
  with `local_enable`, and `OnlyOneCheckFails` for all of them: that combination is
  exactly what reaches a `bug()`, see Observations.
* `OneLogin` and `NoPrivilegeReturns`: action properties. Once a user is found
  nobody else is and AUTH is not undone; the credentials of a process a client can talk
  to do not change any more.

`SslSlaveProofs` proves, for every setting of the four tunables and any number of
commands and chunks:

* `SslInvariant`: the inductive invariant `SslIInv`, which is `LoginIInv` with `Exchange`
  (while the session waits exactly one of the socket, the slave and the way back holds its
  request or the answer to it, and nothing otherwise), `SlaveHas` and `SessionHas` (what
  each side has of the data connection at each place of the session) and `Reported` (what a
  transfer can be reported as). `InStep` alone is not inductive: that urgent data starts no
  second request needs `Found`, that the slave accepts a request needs `SlaveHas`.
* `SslRefinesLogin` (`LoginSpec`): every step is one of `Login` or leaves its variables
  alone. The slave's own `bug()` is the one step that is neither, and `SlaveNeverRefuses`
  excludes it. `SslKeepsLoginSafe` and `SslMeetsNoBug` carry the theorems of `Login` over.
* `SslTypesHold`, `SslStaysInStep` (`InStep`), `SlaveIsReleased` (`SlaveReleases`),
  `UploadsAreWhole` (`UploadWhole`): from `SslIInv`.

Assumed (`LoginConstants`, `SslConstants`): a configuration gives every switch a Boolean and
`max_login_fails` a natural number; a per-user file overrides switches other than
`ssl_enable` (see Observations); no account has the name of one of the fixed users; a system
that keeps capabilities over a change of user has capabilities; `None` is none of the
values it stands beside.

`LibraryProofs` proves, for any keys, any hash function and any number of buckets and nodes:

* `ChainsAreMap` (`HashIsMap`), from the inductive invariant `HashIInv`. Besides what is
  checked it says that a chain starts at the head of its bucket and stays in that bucket, and
  that a live node is in every set of nodes that holds the head and is closed under
  `p_next`: the chain reaches it. That stands in for the induction along the chain
  that unlinking a node in the middle would need.
* `OperationsOfMap`: an action property. An operation changes the table, as look-ups see it,
  at one key, as on a map; this is what `Standalone` assumes of its tables.

Assumed (`HashAssumption`): the heap is finite, and the hash function stays within the buckets.

It also proves, for any patterns, any names without a slash, any file system and any limit:

* `FilterAdmitsTheorem` (`FilterAdmits`). That nothing unmatched passes is an induction on
  the iterations left: `TurnSound` takes one turn of the loop, `PassesSound` and
  `AlternativesSound` carry it through the calls for the alternatives of a brace, and
  `LoopIsSound` concludes. The induction needs more than the property: `StateOK` says in which
  states the loop is entered (the whole path, slash and all, is kept only in front of a brace, and
  the needed text may be found further on only behind a `*`), and `Good` what passing means
  in the middle of a pattern. The meaning is handled by its five cases (`SemNothing` to `SemItself`)
  and by `LiteralPrefix`, for a stretch without tokens. That no existing name is
  missed for a simple pattern rests on `ScanReachesEnd`: occurrences of a text that does not
  overlap itself are apart (`NoOverlap`), so a scan from the left that takes each one
  arrives at the last.

Assumed (`FilterConstants`): the limit is at least 3, as two turns must leave it unreached (it
is 1000); patterns and names are sequences of characters other than the slash.

Induction over data goes through two lemmas made for it: `LeastNumber`, that a non-empty
set of numbers has a least element (from the well-foundedness of the numbers), and
`Induction`, the usual principle for a *set* of numbers rather than for a predicate. A
recursive function is first shown to exist, by induction on the bound of its domain.

`SandboxProofs` proves, for every configuration, every list of rules and every call:

* `FilterDecidesTheorem` (`FilterDecides`): the compiled program decides a call as the
  first rule that fits it says, and fits the kernel's and the code's bounds. `BlockDecides`
  is the heart: the block of one rule returns its verdict or leaves the machine at the start of
  the next block with the number of the call loaded again, for rules with none, one
  or several argument checks. `ProgramDecides` follows by induction on the rules,
  `ProgramFits` gives the length of the program, and one lemma for each piece of the set-up
  functions bounds the rules a process collects by `kMaxSyscalls`.
* `EveryCallDecided`: the program installed always ends in a verdict.
* `SandboxServesTheorem` (`SandboxServes`): a process is refused no call its configuration
  makes it make, `Gaps` aside. `Grants` and `Refuses` say what each piece of a list allows and
  refuses; where pieces disagree (`socket` in the one-process model) `EarlierDecides`
  gives the order. The inductive invariant `SeccompInv` says that what is installed is
  the program of the process's own rules.

Assumed (`SeccompRoles`): the processes are among the four of the code. `Configs` is any set.

It also proves, for any configuration and any calls the session attempts:

* `TracerIsSound` (`TracerGuards`), from the inductive invariant `TracerIInv`: at which
  places of the tracer the session can be on which side of the kernel, and that the
  tracer's `is_exit` agrees with the kernel at all of them (`CountInStep`), not only at
  the stops where it is used. `executed` holds no call that `get_action` would refuse.
* `PolicyConfines`, from `TracerIsSound`: what `get_action` then keeps a session from, by a
  lemma on the calls each permission covers and one on the settings that grant it.
* `RacedIsLast`: an action property. After the one call that a kill from outside lets
  through, nothing more runs.

Only model-checked: liveness (`ZombiesReaped`, `CommandCompletes`, `ParentFollows`,
`NeverHangs`, `NobodyLingers`, `TimeoutsReach`), which is out of the prover's reach, and the
findings. Every safety property of a passing run is a theorem.

## 5. Findings

* `standalone_lost_sighup`: `check_pending_actions` cancels the one process alarm
  when it is about to handle SIGCHLD. A SIGHUP that arrived after the loop went
  past its slot is still pending and relied on that alarm; with no further client
  the configuration is not reloaded. `sysutil.c:121` says the alarm fires
  "repeatedly until the signal is handled".
* `session_idle`: the alarm set for getting a command (`ftpcmdio.c:165`) runs on
  while the command is served, and a session that waits in one, for the
  connection of a passive transfer say, may end with "421 Timeout."
  `vsftpd.conf.5:691` speaks of the time "between FTP commands".
* `session_stall`: an alarm that goes off during the lingering close is pending when
  `dispose` clears the timer (`ftpdataio.c:92`). Its handler runs after the write of
  226 and the session ends with "421 Data timeout", although the transfer is
  complete. `vsftpd.conf.5:659` speaks of transfers that stall.
* `ascii`: `do_file_send_rwloop` hands the converter a buffer derived from
  `p_readbuf` and writes out `p_asciibuf`, which nothing fills (`ftpdataio.c:503`).
  An ASCII download sends NUL bytes.
* `octal`: `vsf_sysutil_octal_to_uint` walks the text and takes every digit from its
  first character (`sysutil.c:923`). `local_umask=022` sets 0, SITE CHMOD 644 sets
  0666; `vsftpd.conf.5:624` says octal numbers are supported.
* `deny_file`: `vsf_sysutil_realpath` composes the path of a name that does not exist
  and then returns 0 (`sysutil.c:1079`), so that the matcher fails for it and STOR,
  MKD and RNTO make names that `deny_file` denies.

### Observations

What the models follow and a maintainer should know, without a run of its own:

* `SandboxServes` holds with exactly these exceptions (`Gaps`), calls the code makes and
  the filter does not list: `sendto` of syslog before the login; `alarm` of the SSL
  slave with `idle_session_timeout=0`; `fchmod`, and in the parent `recvmsg`, `fstat`
  and `fchown`, with `chown_uploads`; SO_REUSEADDR with `pasv_enable` and without
  `port_enable`; `nanosleep` between two attempts to bind port 20; everything PORT
  needs in the child with `port_promiscuous`; and `socket` in the one-process model
  with `syslog_enable`, where a rule that refuses it stands before the one that allows
  it. The sandbox is off by default (`tunables.c:235`).
* The ptrace sandbox's check of `open` without `write_enable` looks at the access mode
  only (`ptracesandbox.c:807`): O_RDONLY with O_CREAT or O_TRUNC passes, so that the sandbox
  does not by itself keep a session from making or cutting a file.
* The policy of the ptrace sandbox checks `bind` with the validator of `connect`, does not
  list `munmap`, and is always set up as for a user who is not anonymous.
* USER anonymous, AUTH TLS, PASS gives an encrypted anonymous session although
  `allow_anon_ssl` is off: it is tested at USER only (`prelogin.c:222`).
* `run_as_launching_user` sets `one_process_model` (`main.c:247`) after the check that
  `local_enable` excludes it (`main.c:180`); a local login then ends in a `bug()`.
  `Configs` holds no such configuration. Nor do `UserFiles` change `ssl_enable`.
* The chroot decision is taken before the per-user file is loaded.
* The matcher refuses names its pattern matches: "\*a\*b\*" refuses "aba", "\*aa"
  refuses "aaa", "\*?" takes one character only, because it never goes back to an earlier
  `*`; and "x{a,b}" takes nothing, because the rest of the pattern is looked up as a path.
* `delete_failed_uploads` unlinks a name that an upload opened, not only one it made: a
  failed STOR over an existing file removes the file, and one of two uploads of the
  same name may remove what the other completed. `CompletedKept` excepts this, see Files.
* White space before a setting is not skipped: the loop of `parseconf.c` that counts
  it does not use its count.
* SSL, PAM and TCP wrappers are off in `builddefs.h`; `Login` and `SslSlave` model a build
  with SSL.

## 6. Plan

Done: `Standalone` with `Admission`, `DataChannel` with `DataPath`, `Session`, `Files`,
`Login`, `SslSlave`, `HashChains`, `Filters`, `Seccomp`, `SandboxNeeds` and
`Tracer`, with proofs; `AsciiTransfer` and `Settings`, model-checked. Left, in this order:

1. Action properties of `Session` and `SslSlave`: what a handler that runs in the middle of
   a command may never change.
2. MKD, RMD, CWD and MDTM in `Files`.
3. Address parsing, as operators checked against the grammar.

## 7. Not modelled

* Cryptography and certificates (OpenSSL), PAM, the password file: external.
* The lines of a listing, log lines, banners, FEAT, the process title: formatting.
* `ipaddrparse.c`, `opts.c`, `features.c`, `banner.c`, `tcpwrap.c`: no state; what they
  return is a choice of the model where a caller depends on it.
* The growth of string buffers in `str.c` and memory allocation: memory layout.
* Replies of an encrypted session that block: `SslSlave` takes every reply as taken or
  failed (`Session` models the wait).
* The files and directories of MKD, RMD, CWD and MDTM (their replies and log
  entries are in `Session`), downloads after REST, and HTTP mode beyond its login.
* The remaining system call wrappers, seen through their callers.

`PROJECT.json` gives the reason per component.
