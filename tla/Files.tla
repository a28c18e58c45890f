------------------------------- MODULE Files --------------------------------
(* Sessions that share a directory: the file side of RETR, STOR, APPE,     *)
(* STOU, REST, DELE, RNFR and RNTO (postlogin.c), with the locks of        *)
(* lock_upload_files and the clean-up of delete_failed_uploads.  The       *)
(* network side of a transfer is Session's; here a transfer moves blocks   *)
(* and may fail between any two.  Names are a base, 0, and its suffixes;   *)
(* a file is an inode, so that it lives on without its name.               *)
EXTENDS Integers, Sequences, FiniteSets

CONSTANTS
    Sessions,
    Guests,       \* the sessions of anonymous users without anon_other_write_enable
    FileConfigs,  \* the values of lock_upload_files and delete_failed_uploads tried
    MaxSuffix,    \* the highest suffix get_unique_filename comes to
    MaxInodes,    \* the files that can be made
    MaxBlocks,    \* the longest file
    MaxCommands   \* the commands of all sessions together

ASSUME FilesConstants ==
    /\ FileConfigs \subseteq [lock : BOOLEAN, del : BOOLEAN]
    /\ MaxSuffix \in Nat /\ MaxInodes \in Nat

FileNames == 0..MaxSuffix
Inodes == 1..MaxInodes
NoFile == 0
NoCommand == 0
Zeros == "zeros"                  \* a block nobody wrote

VARIABLES
    config,      \* the configuration
    dir,         \* name -> inode, or NoFile
    content,     \* inode -> its blocks
    made,        \* history: inode -> the command that made it
    issued,      \* the commands given so far
    sess,        \* session -> where it is in its command
    complete,    \* history: the uploads answered with success: <<name, inode>>
    harmed       \* history: the files of others that exclusive uploads changed or removed

fileVars == <<config, dir, content, made, issued, sess, complete, harmed>>

(* A session between commands.  fd is the inode its descriptor is open on, *)
(* holds its lock, expect what the file should hold, moved whether another *)
(* session took the name it is uploading to away from it.                  *)
Idle == [pc |-> "idle", number |-> NoCommand, name |-> NoFile, fd |-> NoFile,
         holds |-> "no", pos |-> 0,
         expect |-> <<>>, got |-> <<>>, exclusive |-> FALSE, append |-> FALSE,
         do_truncate |-> FALSE, moved |-> FALSE]

FilesInit ==
    /\ config \in FileConfigs
    /\ dir = [n \in FileNames |-> NoFile]
    /\ content = [i \in Inodes |-> <<>>]
    /\ made = [i \in Inodes |-> NoCommand]
    /\ issued = 0
    /\ sess = [s \in Sessions |-> [at |-> Idle, rnfr |-> {}]]
    /\ complete = {}
    /\ harmed = {}

At(s) == sess[s].at
Command(s) == At(s).number

(* The session moves on, or gets its next command.                         *)
Goes(s, to) == sess' = [sess EXCEPT ![s].at = to] /\ UNCHANGED issued
Issued == issued' = issued + 1
Starts(s, to) ==
    Issued /\ sess' = [sess EXCEPT ![s].at = [to EXCEPT !.number = issued + 1]]
Ready(s) == At(s).pc = "idle" /\ issued < MaxCommands

-----------------------------------------------------------------------------
(* The kernel's side.                                                      *)

(* fcntl(F_SETLKW) over the whole file: a lock conflicts with the write    *)
(* locks of other processes, a write lock with any.                        *)
LockFree(s, kind) ==
    \A t \in Sessions \ {s} :
        At(t).fd = At(s).fd => ~(At(t).holds = "write" \/ (At(t).holds = "read" /\ kind = "write"))

(* A block at a position; what lies before it and was never written reads  *)
(* as zeros.                                                               *)
WriteAt(blocks, pos, block) ==
    [i \in 1..(IF pos + 1 > Len(blocks) THEN pos + 1 ELSE Len(blocks)) |->
        IF i = pos + 1 THEN block
        ELSE IF i \in DOMAIN blocks THEN blocks[i]
        ELSE Zeros]

(* The sessions at work on a name that somebody else takes away.           *)
Bereaved(s, names) ==
    {t \in Sessions \ {s} : At(t).pc \in {"open", "write"} /\ At(t).name \in names}
MovedFrom(f, s, names) ==
    [t \in Sessions |-> IF t \in Bereaved(s, names) THEN [f[t] EXCEPT !.at.moved = TRUE] ELSE f[t]]

-----------------------------------------------------------------------------
(* handle_retr: open, wait for a read lock, send to the end of the file.   *)
OpenRead(s, n) ==
    /\ Ready(s)
    /\ dir[n] # NoFile
    /\ Starts(s, [Idle EXCEPT !.pc = "retr", !.name = n, !.fd = dir[n]])
    /\ UNCHANGED <<config, dir, content, made, complete, harmed>>

LockRead(s) ==
    /\ At(s).pc = "retr"
    /\ config.lock => LockFree(s, "read")
    /\ Goes(s, [At(s) EXCEPT !.pc = "read", !.holds = IF config.lock THEN "read" ELSE "no",
                             !.expect = content[At(s).fd]])
    /\ UNCHANGED <<config, dir, content, made, complete, harmed>>

ReadBlock(s) ==
    /\ At(s).pc = "read"
    /\ At(s).pos < Len(content[At(s).fd])
    /\ Goes(s, [At(s) EXCEPT !.pos = @ + 1,
                             !.got = Append(@, content[At(s).fd][At(s).pos + 1])])
    /\ UNCHANGED <<config, dir, content, made, complete, harmed>>

(* The end of the file, or a failure on the way: the descriptor is closed, *)
(* which drops the lock.                                                   *)
CloseRead(s) ==
    /\ At(s).pc \in {"retr", "read"}
    /\ Goes(s, Idle)
    /\ UNCHANGED <<config, dir, content, made, complete, harmed>>

-----------------------------------------------------------------------------
(* handle_upload_common.                                                   *)

(* open() with O_CREAT: a file that is there is opened, else one is made.  *)
Create(s, n, to) ==
    IF dir[n] # NoFile
    THEN Goes(s, [to EXCEPT !.fd = dir[n]]) /\ UNCHANGED <<dir, made>>
    ELSE \E i \in Inodes :
            /\ made[i] = NoCommand
            /\ \A j \in Inodes : made[j] = NoCommand => i <= j
            /\ made' = [made EXCEPT ![i] = Command(s)]
            /\ dir' = [dir EXCEPT ![n] = i]
            /\ Goes(s, [to EXCEPT !.fd = i])

(* Mutant: the name is opened whether it is taken or not.                  *)
CreateExclusiveOpens(s, n, to) == Create(s, n, to)

(* open() with O_EXCL: refused if the name is taken.                       *)
CreateExclusive(s, n, to) ==
    IF dir[n] # NoFile THEN Goes(s, Idle) /\ UNCHANGED <<dir, made>>
    ELSE Create(s, n, to)

(* STOR, APPE (not for guests), or STOR after REST.  An exclusive          *)
(* descriptor has O_APPEND, so that the seeks do nothing to it.            *)
StartUpload(s, n, kind) ==
    /\ Ready(s)
    /\ s \in Guests => kind # "APPE"
    /\ Starts(s, [Idle EXCEPT !.pc = "named", !.name = n,
                              !.exclusive = s \in Guests,
                              !.append = s \notin Guests /\ kind = "APPE",
                              !.pos = IF s \notin Guests /\ kind = "REST" THEN 1 ELSE 0,
                              !.do_truncate = s \notin Guests /\ kind = "STOR"])
    /\ UNCHANGED <<config, dir, content, made, complete, harmed>>

(* get_unique_filename: the base itself if a name was given and is free,   *)
(* else the first free suffix.                                             *)
UniqueName(given) ==
    LET free == {n \in FileNames : dir[n] = NoFile /\ (n > 0 \/ given)}
    IN  {n \in free : \A m \in free : n <= m}

StartUnique(s, given) ==
    /\ Ready(s)
    /\ \E n \in UniqueName(given) :
          Starts(s, [Idle EXCEPT !.pc = "named", !.name = n, !.exclusive = TRUE])
    /\ UNCHANGED <<config, dir, content, made, complete, harmed>>

OpenUpload(s) ==
    LET to == [At(s) EXCEPT !.pc = "open"]
    IN  /\ At(s).pc = "named"
        /\ IF At(s).exclusive THEN CreateExclusive(s, At(s).name, to)
           ELSE Create(s, At(s).name, to)
        /\ UNCHANGED <<config, content, complete, harmed>>

(* Mutant: the file is locked for reading only.                            *)
UploadLockShared == "read"

(* The lock an upload takes.                                               *)
UploadLock == "write"

(* The write lock, then the truncation, then the seek.                     *)
LockUpload(s) ==
    LET a == At(s)
        blocks == IF a.do_truncate THEN <<>> ELSE content[a.fd]
    IN  /\ a.pc = "open"
        /\ config.lock => LockFree(s, UploadLock)
        /\ content' = [content EXCEPT ![a.fd] = blocks]
        /\ Goes(s, [a EXCEPT !.pc = "write", !.holds = IF config.lock THEN UploadLock ELSE "no",
                             !.expect = blocks,
                             !.pos = IF a.append THEN Len(blocks) ELSE a.pos])
        /\ UNCHANGED <<config, dir, made, complete, harmed>>

WriteBlock(s) ==
    LET a == At(s)
        pos == IF a.exclusive THEN Len(content[a.fd]) ELSE a.pos
    IN  /\ a.pc = "write"
        /\ pos < MaxBlocks
        /\ content' = [content EXCEPT ![a.fd] = WriteAt(@, pos, Command(s))]
        /\ Goes(s, [a EXCEPT !.pos = pos + 1, !.expect = WriteAt(@, pos, Command(s))])
        /\ harmed' = IF a.exclusive /\ made[a.fd] # Command(s) THEN harmed \cup {a.fd}
                     ELSE harmed
        /\ UNCHANGED <<config, dir, made, complete>>

(* Mutant: the clean-up of delete_failed_uploads does not ask for success. *)
EndUploadDeletes(s) ==
    /\ At(s).pc = "write"
    /\ Goes(s, Idle)
    /\ dir' = IF config.del THEN [dir EXCEPT ![At(s).name] = NoFile] ELSE dir
    /\ complete' = IF At(s).moved THEN complete
                   ELSE complete \cup {<<At(s).name, At(s).fd>>}
    /\ UNCHANGED <<config, content, made, harmed>>

(* The transfer succeeded.                                                 *)
EndUpload(s) ==
    /\ At(s).pc = "write"
    /\ Goes(s, Idle)
    /\ complete' = IF At(s).moved THEN complete
                   ELSE complete \cup {<<At(s).name, At(s).fd>>}
    /\ UNCHANGED <<config, dir, content, made, harmed>>

(* The data connection could not be made or the transfer failed: the name  *)
(* is unlinked with delete_failed_uploads, then the file is closed.        *)
FailUpload(s) ==
    LET a == At(s)
        gone == dir[a.name]
    IN  /\ a.pc = "write"
        /\ IF config.del
           THEN /\ dir' = [dir EXCEPT ![a.name] = NoFile]
                /\ complete' = complete \ {c \in complete : c[1] = a.name /\ (c[2] = a.fd \/ a.moved)}
                /\ harmed' = IF a.exclusive /\ ~a.moved THEN harmed \cup ({gone} \ {NoFile, a.fd})
                             ELSE harmed
                /\ sess' = MovedFrom([sess EXCEPT ![s].at = Idle], s, {a.name})
                /\ UNCHANGED issued
           ELSE Goes(s, Idle) /\ UNCHANGED <<dir, complete, harmed>>
        /\ UNCHANGED <<config, content, made>>

(* The session is killed, by its idle timer while it waits for the lock or *)
(* from outside: the kernel closes what it has open, nothing is deleted.   *)
(* Between commands a death changes no file.                               *)
SessionDies(s) ==
    /\ At(s).pc \notin {"idle", "dead"}
    /\ Goes(s, [Idle EXCEPT !.pc = "dead"])
    /\ UNCHANGED <<config, dir, content, made, complete, harmed>>

-----------------------------------------------------------------------------
(* handle_dele, handle_rnfr and handle_rnto, for those who may.            *)
Dele(s, n) ==
    /\ Ready(s)
    /\ s \notin Guests
    /\ dir[n] # NoFile
    /\ dir' = [dir EXCEPT ![n] = NoFile]
    /\ complete' = {c \in complete : c[1] # n}
    /\ sess' = MovedFrom(sess, s, {n})
    /\ Issued
    /\ UNCHANGED <<config, content, made, harmed>>

Rnfr(s, n) ==
    /\ Ready(s)
    /\ s \notin Guests
    /\ sess' = [sess EXCEPT ![s].rnfr = IF dir[n] # NoFile THEN {n} ELSE {}]
    /\ UNCHANGED <<config, dir, content, made, issued, complete, harmed>>

(* rename() replaces what has the new name; the old name is forgotten even *)
(* if it fails.                                                            *)
Rnto(s, to) ==
    /\ Ready(s)
    /\ \E from \in sess[s].rnfr :
          LET works == dir[from] # NoFile /\ from # to
          IN  /\ dir' = IF works THEN [dir EXCEPT ![to] = dir[from], ![from] = NoFile] ELSE dir
              /\ complete' = IF works THEN {c \in complete : c[1] \notin {from, to}}
                             ELSE complete
              /\ sess' = LET f == [sess EXCEPT ![s].rnfr = {}]
                         IN  IF works THEN MovedFrom(f, s, {from, to}) ELSE f
    /\ Issued
    /\ UNCHANGED <<config, content, made, harmed>>

FilesNext ==
    \E s \in Sessions :
        \/ \E n \in FileNames :
              \/ OpenRead(s, n)
              \/ \E kind \in {"STOR", "APPE", "REST"} : StartUpload(s, n, kind)
              \/ Dele(s, n) \/ Rnfr(s, n) \/ Rnto(s, n)
        \/ LockRead(s) \/ ReadBlock(s) \/ CloseRead(s)
        \/ \E given \in BOOLEAN : StartUnique(s, given)
        \/ OpenUpload(s) \/ LockUpload(s) \/ WriteBlock(s)
        \/ EndUpload(s) \/ FailUpload(s) \/ SessionDies(s)

FilesSpec == FilesInit /\ [][FilesNext]_fileVars

-----------------------------------------------------------------------------
(* With lock_upload_files a transfer has its file to itself: what a        *)
(* download sends is the file as it was when its lock was granted, never a *)
(* half written one, and an upload leaves exactly its own blocks where it  *)
(* put them, whoever else wants the same file.  "Must truncate the file    *)
(* AFTER locking it!" (postlogin.c) is what this takes.  Every lock asked  *)
(* for is granted in the end: where fcntl() fails (a file system without   *)
(* locks) the code looks at no result (postlogin.c:685, 1093) and goes on  *)
(* without one, and nothing is promised.                                   *)
TransfersIsolated ==
    config.lock =>
        \A s \in Sessions :
            At(s).pc \in {"read", "write"} =>
                /\ content[At(s).fd] = At(s).expect
                /\ At(s).pc = "read" => At(s).got = SubSeq(At(s).expect, 1, At(s).pos)

(* A guest (and anybody who uses STOU) never writes to a file another      *)
(* command made, and the clean-up of a failed upload removes its own file, *)
(* through the race between choosing a unique name and making it.  The     *)
(* clean-up is not spoken of when another session took the name away while *)
(* the upload was open, by DELE, by RNTO from or to it, or by failing an   *)
(* upload of the same name: the unlink then goes by a name that may be     *)
(* somebody else's file.                                                   *)
GuestsHarmless ==
    /\ harmed = {}
    /\ \A s \in Sessions : At(s).exclusive /\ At(s).fd # NoFile => made[At(s).fd] = Command(s)

(* An upload answered with success is under its name, unless another       *)
(* session removed or replaced the name while it ran, and stays there      *)
(* until somebody deletes or renames it, or fails an upload into the very  *)
(* same file; delete_failed_uploads takes no other completed file with it. *)
(* The one exception is the code's own race (postlogin.c:1168): an upload  *)
(* that lost its name to another session and then fails unlinks whatever   *)
(* was completed under that name since.                                    *)
CompletedKept == \A c \in complete : dir[c[1]] = c[2]

=============================================================================
