---------------------------- MODULE AsciiTransfer ---------------------------
(* ASCII mode transfers: the conversions of ascii.c, and the loops         *)
(* do_file_send_rwloop and do_file_recv of ftpdataio.c around them.  A     *)
(* buffer is memory: a function from positions, counted from 0, to         *)
(* characters.  A conversion reads and writes cells, and where the code    *)
(* declares bounds for a pointer they are checked at each use, as the      *)
(* compiler of this port does.                                             *)
EXTENDS Integers, Sequences

CONSTANTS
    Texts,       \* what the file holds, or the client sends: sequences of characters
    MaxChunk,    \* the longest chunk
    Directions,  \* "download", "upload"
    BUFSIZE      \* VSFTP_DATA_BUFSIZE

VARIABLES
    direction,
    text,        \* the text to convert
    taken,       \* how much of it was handed to the converter
    prev_cr,     \* last_was_cr of the chunk before
    asciibuf,    \* p_asciibuf: mapped pages, nothing written yet
    sent,        \* what went out: to the client, or into the file
    done         \* "no", "ok" or "trap": a bounds check ended the process

transferVars == <<direction, text, taken, prev_cr, asciibuf, sent, done>>

CR == "CR"
LF == "LF"
NUL == "NUL"    \* a cell nobody wrote

(* A buffer of size cells with the characters of seq from position at on.  *)
Memory(seq, at, size) ==
    [i \in 0..(size - 1) |-> IF i - at + 1 \in DOMAIN seq THEN seq[i - at + 1] ELSE NUL]

Cells(mem, from, n) == [i \in 1..n |-> mem[from + i - 1]]

(* vsf_ascii_bin_to_ascii, whose p_in and p_buf are the same memory here.  *)
(* One turn of its loop: read a character, store it or CR and it.          *)
ToAsciiTurn(s, i) ==
    LET c == s.mem[i]
    IN  IF c = LF /\ s.last # CR
        THEN [mem |-> [s.mem EXCEPT ![s.out] = CR, ![s.out + 1] = c],
              out |-> s.out + 2, last |-> c]
        ELSE [mem |-> [s.mem EXCEPT ![s.out] = c], out |-> s.out + 1, last |-> c]

bin_to_ascii(p_buf, in_len, cr) ==
    LET Turn[i \in 0..in_len] ==
            IF i = 0 THEN [mem |-> p_buf, out |-> 0, last |-> IF cr THEN CR ELSE NUL]
            ELSE ToAsciiTurn(Turn[i - 1], i - 1)
    IN  [mem |-> Turn[in_len].mem, stored |-> Turn[in_len].out,
         last_was_cr |-> Turn[in_len].last = CR]

Trap == [trap |-> TRUE]

(* vsf_ascii_ascii_to_bin: p_buf has in_len cells, the characters start in *)
(* its second one.  p_out is the null pointer where the code looks for a   *)
(* LF after a CR that ended the chunk before, and the last character is    *)
(* one cell beyond the bounds, so the branch that sets last_was_cr is      *)
(* never reached.  The returned pointer is p_out, behind what was stored.  *)
ascii_to_bin(p_buf, in_len, cr) ==
    LET Out(s, c) ==
            IF s.out \notin 1..(in_len - 1) THEN Trap
            ELSE [s EXCEPT !.mem[s.out] = c, !.out = @ + 1, !.stored = @ + 1]
        Step[i \in 0..in_len] ==
            IF i = 0 THEN [trap |-> FALSE, mem |-> p_buf, out |-> 1, stored |-> 0,
                           last_was_cr |-> FALSE]
            ELSE LET s == Step[i - 1]
                 IN  IF s.trap \/ i >= in_len THEN Trap
                     ELSE IF s.mem[i] # CR THEN Out(s, s.mem[i])
                     ELSE IF i + 1 >= in_len THEN Trap
                     ELSE IF s.mem[i + 1] # LF THEN Out(s, CR)
                     ELSE s
    IN  IF cr THEN Trap ELSE Step[in_len]

-----------------------------------------------------------------------------
TransferInit ==
    /\ direction \in Directions
    /\ text \in Texts
    /\ taken = 0
    /\ prev_cr = FALSE
    /\ asciibuf = Memory(<<>>, 0, 2 * BUFSIZE)
    /\ sent = <<>>
    /\ done = "no"

Chunk(n) == Cells(Memory(text, 0, Len(text)), taken, n)

EndWith(how) ==
    /\ done' = how
    /\ UNCHANGED <<direction, text, taken, prev_cr, asciibuf, sent>>

Goes(n, out, cr) ==
    /\ taken' = taken + n
    /\ sent' = sent \o out
    /\ prev_cr' = cr
    /\ UNCHANGED <<direction, text, asciibuf, done>>

(* do_file_send_rwloop: the conversion is given p_readbuf for both of its  *)
(* buffers, in the bounds of the doubled chunk; p_asciibuf is written out. *)
SendChunk(n) ==
    LET p_readbuf == Memory(Chunk(n), 0, BUFSIZE)
        ret == bin_to_ascii(p_readbuf, n, prev_cr)
    IN  /\ direction = "download"
        /\ done = "no"
        /\ IF 2 * n > BUFSIZE THEN EndWith("trap")
           ELSE Goes(n, Cells(asciibuf, 0, ret.stored), ret.last_was_cr)

(* do_file_recv: the chunk is received behind the first cell, the          *)
(* conversion is given as many cells as there are characters, and writes   *)
(* what it stored from the pointer it returns.                             *)
RecvChunk(n) ==
    LET p_recvbuf == Memory(Chunk(n), 1, BUFSIZE + 1)
        ret == ascii_to_bin(p_recvbuf, n, prev_cr)
    IN  /\ direction = "upload"
        /\ done = "no"
        /\ IF ret.trap THEN EndWith("trap")
           ELSE Goes(n, Cells(ret.mem, ret.out, ret.stored), ret.last_was_cr)

(* The end of the file, or of the stream.                                  *)
TransferEnds ==
    /\ done = "no"
    /\ taken = Len(text)
    /\ direction = "upload" => ~prev_cr
    /\ EndWith("ok")

TransferNext ==
    \/ \E n \in 1..MaxChunk : taken + n <= Len(text) /\ (SendChunk(n) \/ RecvChunk(n))
    \/ TransferEnds

TransferSpec == TransferInit /\ [][TransferNext]_transferVars

-----------------------------------------------------------------------------
(* The text with every LF that no CR precedes made CR LF, and its inverse: *)
(* the tasks the comments of ascii.c set.                                  *)
Image(s, n) ==
    IF s[n] = LF /\ (n = 1 \/ s[n - 1] # CR) THEN <<CR, LF>> ELSE <<s[n]>>

AsciiPrefixes(s) ==
    LET Upto[n \in 0..Len(s)] == IF n = 0 THEN <<>> ELSE Upto[n - 1] \o Image(s, n)
    IN  Upto

AsAscii(s) == AsciiPrefixes(s)[Len(s)]

AsBinary(s) ==
    LET Upto[n \in 0..Len(s)] ==
            IF n = 0 THEN <<>>
            ELSE Upto[n - 1] \o (IF s[n] = CR /\ n < Len(s) /\ s[n + 1] = LF THEN <<>>
                                 ELSE <<s[n]>>)
    IN  Upto[Len(s)]

(* vsftpd.conf.5: with ascii_download_enable and ascii_upload_enable       *)
(* "ASCII mode data transfers will be honoured": what arrived when a       *)
(* transfer has ended well is the converted text.                          *)
AsciiHonoured ==
    done = "ok" => sent = IF direction = "download" THEN AsAscii(text) ELSE AsBinary(text)

=============================================================================
