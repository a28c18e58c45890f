------------------------------ MODULE Settings ------------------------------
(* The configuration file (parseconf.c) and the file creation mask that    *)
(* comes from it: the lines of the file are loaded one after the other,    *)
(* the mask is installed after the login, and SITE UMASK and SITE CHMOD    *)
(* convert what the client sends the same way.  A line is a setting and    *)
(* the text after its "=": the sequence of a number's digits, or of words. *)
EXTENDS Integers, Sequences, TLC

CONSTANTS
    Lines,       \* the lines a file may hold: [setting, value]
    MaxLines,    \* the longest file
    Numerals     \* what a client may send as a number

VARIABLES
    phase,       \* "load", "login", "commands" or "dead"
    errs_fatal,  \* FALSE when the listener reloads its file
    loaded,      \* the lines read so far
    tunable,     \* setting -> value
    s_current_umask,
    mode,        \* the permissions of the file SITE CHMOD was used on
    asked        \* history: what the tunable, the umask and the mode came from

settingsVars == <<phase, errs_fatal, loaded, tunable, s_current_umask, mode, asked>>

StrSettings == {"banner_file"}
BoolSettings == {"write_enable"}
UintSettings == {"local_umask"}

(* tunables_load_defaults.                                                 *)
Defaults == [banner_file |-> <<>>, write_enable |-> FALSE, local_umask |-> 63]

BoolTexts == "YES" :> TRUE @@ "TRUE" :> TRUE @@ "1" :> TRUE
             @@ "NO" :> FALSE @@ "FALSE" :> FALSE @@ "0" :> FALSE

-----------------------------------------------------------------------------
(* The number the first n digits make in a base.                           *)
Value(text, base) ==
    LET Upto[n \in 0..Len(text)] == IF n = 0 THEN 0 ELSE Upto[n - 1] * base + text[n]
    IN  Upto[Len(text)]

(* atoi() of digits.  The unsigned int it lands in wraps at 2^32, which    *)
(* the nine bits Perms keeps do not notice.                                *)
atoi(text) == Value(text, 10)

(* vsf_sysutil_octal_to_uint: the loop runs over the text with p_str_loop, *)
(* but the digit it takes each time is *p_str, the first one.              *)
octal_to_uint(text) ==
    IF text = <<>> \/ text[1] > 7 THEN 0
    ELSE Value([n \in DOMAIN text |-> text[1]], 8)

(* vsf_sysutil_set_umask and vsf_sysutil_chmod keep the permission bits.   *)
Perms(n) == n % 512

-----------------------------------------------------------------------------
SettingsInit ==
    /\ phase = "load"
    /\ errs_fatal \in BOOLEAN
    /\ loaded = 0
    /\ tunable = Defaults
    /\ s_current_umask = 63
    /\ mode = 0
    /\ asked = [tunable |-> <<>>, umask |-> <<>>, mode |-> <<>>]

(* A bad line ends the process, or is passed over during a reload.         *)
BadLine ==
    /\ phase' = IF errs_fatal THEN "dead" ELSE phase
    /\ UNCHANGED <<tunable, asked>>

Assign(setting, v) ==
    /\ tunable' = [tunable EXCEPT ![setting] = v]
    /\ UNCHANGED phase

(* vsf_parseconf_load_setting: strings first, then an empty value is       *)
(* refused, then booleans and numbers; a number that starts with 0 is      *)
(* octal.                                                                  *)
LoadSetting(line) ==
    CASE line.setting \in StrSettings  -> Assign(line.setting, line.value) /\ UNCHANGED asked
      [] line.value = <<>>             -> BadLine
      [] line.setting \in BoolSettings ->
            IF line.value[1] \in DOMAIN BoolTexts
            THEN Assign(line.setting, BoolTexts[line.value[1]]) /\ UNCHANGED asked
            ELSE BadLine
      [] line.setting \in UintSettings ->
            /\ Assign(line.setting, IF line.value[1] = 0 THEN octal_to_uint(line.value)
                                    ELSE atoi(line.value))
            /\ asked' = [asked EXCEPT !.tunable = line.value]
      [] OTHER                         -> BadLine

(* One turn of vsf_parseconf_load_file's loop over the lines.              *)
LoadLine(line) ==
    /\ phase = "load"
    /\ loaded < MaxLines
    /\ loaded' = loaded + 1
    /\ LoadSetting(line)
    /\ UNCHANGED <<errs_fatal, s_current_umask, mode>>

(* The file cannot be read, which a reload passes over; or it is not the   *)
(* user's own, which is fatal during a reload as well.                     *)
LoadFails ==
    /\ phase = "load"
    /\ loaded = 0
    /\ phase' = "dead" \/ (~errs_fatal /\ phase' = "login")
    /\ UNCHANGED <<errs_fatal, loaded, tunable, s_current_umask, mode, asked>>

LoadEnds ==
    /\ phase = "load"
    /\ phase' = "login"
    /\ UNCHANGED <<errs_fatal, loaded, tunable, s_current_umask, mode, asked>>

(* process_post_login for a local user.                                    *)
PostLogin ==
    /\ phase = "login"
    /\ phase' = "commands"
    /\ s_current_umask' = Perms(tunable.local_umask)
    /\ asked' = [asked EXCEPT !.umask = asked.tunable]
    /\ UNCHANGED <<errs_fatal, loaded, tunable, mode>>

(* handle_site_umask with an argument.                                     *)
SiteUmask(text) ==
    /\ phase = "commands"
    /\ s_current_umask' = Perms(octal_to_uint(text))
    /\ asked' = [asked EXCEPT !.umask = <<0>> \o text]
    /\ UNCHANGED <<phase, errs_fatal, loaded, tunable, mode>>

(* handle_site_chmod on a file the user may change.                        *)
SiteChmod(text) ==
    /\ phase = "commands"
    /\ mode' = Perms(octal_to_uint(text))
    /\ asked' = [asked EXCEPT !.mode = <<0>> \o text]
    /\ UNCHANGED <<phase, errs_fatal, loaded, tunable, s_current_umask>>

SettingsNext ==
    \/ \E line \in Lines : LoadLine(line)
    \/ LoadFails
    \/ LoadEnds
    \/ PostLogin
    \/ \E text \in Numerals : SiteUmask(text) \/ SiteChmod(text)

SettingsSpec == SettingsInit /\ [][SettingsNext]_settingsVars

-----------------------------------------------------------------------------
(* The octal number a text denotes, if all its digits are octal.           *)
Denotes(text, n) ==
    text # <<>> /\ text[1] = 0 /\ (\A i \in DOMAIN text : text[i] <= 7)
        => n = Value(text, 8) % 512

(* vsftpd.conf.5: "Octal numbers are supported, for convenience of the     *)
(* umask options.  To specify an octal number, use 0 as the first digit":  *)
(* the file creation mask in force, and the mode SITE CHMOD sets, are the  *)
(* numbers that were asked for.                                            *)
MaskAsGiven ==
    phase = "commands" =>
        /\ Denotes(asked.umask, s_current_umask)
        /\ Denotes(asked.mode, mode)

=============================================================================
