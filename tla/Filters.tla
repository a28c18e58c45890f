------------------------------ MODULE Filters -------------------------------
(* File name patterns: the matcher of ls.c, and the access checks of       *)
(* access.c that use it for deny_file, hide_file, upload_file and          *)
(* download_file.  A name or a pattern is a sequence of characters; the    *)
(* names live in the root directory, which is the current one.             *)
EXTENDS Integers, Sequences

CONSTANTS
    Patterns,              \* the patterns tried
    Names,                 \* the names asked about
    Trees,                 \* the sets of names that exist
    VSFTP_MATCHITERS_MAX   \* the matcher gives up here

Characters == UNION {{t[i] : i \in DOMAIN t} : t \in Patterns \cup Names}

(* The limit is 1000 in the code.  A name is one of the current directory. *)
ASSUME FilterConstants ==
    /\ VSFTP_MATCHITERS_MAX \in Nat /\ VSFTP_MATCHITERS_MAX >= 3
    /\ Patterns \cup Names \subseteq Seq(Characters)
    /\ "/" \notin Characters

VARIABLES
    access_str,  \* the pattern of all four settings
    tree,        \* the names that exist
    name,        \* the name asked about last; <<>> before
    answer       \* what the checks said of it

filterVars == <<access_str, tree, name, answer>>

NULL_PATH == <<>>
Tokens == {"*", "?", "{"}
Text == Seq(Characters \cup {"/"})

First(S) == CHOOSE i \in S : \A j \in S : i <= j
After(s, i) == SubSeq(s, i + 1, Len(s))

(* str_locate_chars, str_locate_char: a position, or beyond the end.       *)
LocateChars(s, chars) == First({i \in DOMAIN s : s[i] \in chars} \cup {Len(s) + 1})

(* str_locate_str: how many characters precede t in s, or -1.              *)
LocateStr(s, t) ==
    LET at == {i \in 0..(Len(s) - Len(t)) : SubSeq(s, i + 1, i + Len(t)) = t}
    IN  IF at = {} THEN -1 ELSE First(at)

(* vsf_sysutil_realpath(path, 1): a name that does not exist is composed   *)
(* from its resolved directory, but what is returned is the null pointer.  *)
realpath(path, existing) ==
    LET n == IF path # <<>> /\ path[1] = "/" THEN Tail(path) ELSE path
    IN  IF path # <<>> /\ (n = <<>> \/ n \in existing) THEN <<"/">> \o n ELSE NULL_PATH

(* str_basename: what follows the last slash.                              *)
Basename(path) ==
    LET slashes == {i \in DOMAIN path : path[i] = "/"}
    IN  IF slashes = {} THEN path
        ELSE After(path, CHOOSE i \in slashes : \A j \in slashes : j <= i)

(* The part of the path the pattern is about.                              *)
Subject(path, filter) ==
    IF filter # <<>> /\ filter[1] \notin {"/", "{"} THEN Basename(path) ELSE path

(* How much of the name is used up by needed text, or -1: at the current   *)
(* position, or at its last occurrence that the scan from the left finds.  *)
NextUse(s, needed, used) ==
    LET i == LocateStr(After(s, used), needed)
    IN  IF i < 0 THEN used ELSE used + i + Len(needed)

ScanForward(s, needed, used) ==
    LET Scan[k \in 0..Len(s)] == IF k = 0 THEN used ELSE NextUse(s, needed, Scan[k - 1])
    IN  Scan[Len(s)]

Uses(s, needed, must_match_at_current_pos) ==
    LET i == LocateStr(s, needed)
    IN  IF needed = <<>> THEN 0
        ELSE IF i < 0 \/ (must_match_at_current_pos /\ i > 0) THEN -1
        ELSE IF must_match_at_current_pos THEN Len(needed)
        ELSE ScanForward(s, needed, i + Len(needed))

Fails(iters) == [ret |-> FALSE, iters |-> iters]

(* Mutant: the limit is not looked at when the loop has ended.             *)
EndsLimitless(st) ==
    [ret |-> st.name_remain = <<>> \/ st.last_token = "*", iters |-> st.iters]

(* After the loop: nothing of the name may be left, unless a "*" took it,  *)
(* and the limit must not have been reached.                               *)
Ends(st) ==
    [ret |-> /\ st.name_remain = <<>> \/ st.last_token = "*"
             /\ st.iters # VSFTP_MATCHITERS_MAX,
     iters |-> st.iters]

(* The variables of the loop of vsf_filename_passes_filter.               *)
MatchStates ==
    [filter_remain : Text, name_remain : Text, must : BOOLEAN,
     last_token : Tokens \cup {"none"}, iters : 0..VSFTP_MATCHITERS_MAX]

(* vsf_filename_passes_filter up to its loop, which takes its variables to *)
(* what it returns.                                                        *)
Passes(loop, filename, filter, iters, existing) ==
    LET path == realpath(filename, existing)
    IN  IF path = NULL_PATH THEN Fails(iters)
        ELSE loop[[filter_remain |-> filter, name_remain |-> Subject(path, filter),
                   must |-> TRUE, last_token |-> "none", iters |-> iters]]

(* The alternatives of a brace one after the other, each in front of the   *)
(* rest of the pattern; an empty one ends the list.                        *)
Try(loop, t, rest, remain, existing) ==
    LET comma == LocateChars(t.list, {","})
        r == Passes(loop, remain, SubSeq(t.list, 1, comma - 1) \o rest, t.iters, existing)
    IN  IF t.ret \/ comma = 1 THEN t
        ELSE [list |-> After(t.list, comma), ret |-> r.ret, iters |-> r.iters]

Alternatives(loop, list, rest, remain, iters, existing) ==
    LET Tried[k \in 0..Len(list)] ==
            IF k = 0 THEN [list |-> list, ret |-> FALSE, iters |-> iters]
            ELSE Try(loop, Tried[k - 1], rest, remain, existing)
    IN  [ret |-> Tried[Len(list)].ret, iters |-> Tried[Len(list)].iters]

(* One turn of the loop, and what the turns after it return.               *)
MatchTurn(loop, st, existing) ==
    LET f == st.filter_remain
        at == LocateChars(f, Tokens)
        token == IF at \in DOMAIN f THEN f[at] ELSE "none"
        used == Uses(st.name_remain, SubSeq(f, 1, at - 1), st.must)
        remain == After(st.name_remain, used)
        rest == After(f, at)
        brace == LocateChars(rest, {"}"})
        iters == st.iters + 1
        Goon(n, must) ==
            loop[[filter_remain |-> rest, name_remain |-> n, must |-> must,
                  last_token |-> token, iters |-> iters]]
    IN  IF f = <<>> \/ st.iters >= VSFTP_MATCHITERS_MAX THEN Ends(st)
        ELSE IF used < 0 THEN Fails(iters)
        ELSE CASE token = "?" ->
                    IF remain = <<>> THEN Fails(iters) ELSE Goon(Tail(remain), TRUE)
               [] token = "{" /\ brace \in DOMAIN rest ->
                    Alternatives(loop, SubSeq(rest, 1, brace - 1), After(rest, brace), remain,
                                 iters, existing)
               [] token = "{" /\ brace \notin DOMAIN rest ->
                    IF remain = <<>> \/ remain[1] # "{" THEN Fails(iters)
                    ELSE Goon(Tail(remain), TRUE)
               [] OTHER -> Goon(remain, FALSE)

(* The loop with at most so many turns left.  The iterations are counted   *)
(* across the calls for the alternatives, so every call has fewer left     *)
(* than its caller, and what it needs is the loop one turn shorter.        *)
MatchLoop(existing) ==
    LET Loop[n \in 0..VSFTP_MATCHITERS_MAX] ==
            IF n = 0 THEN [st \in MatchStates |-> Ends(st)]
            ELSE [st \in MatchStates |-> MatchTurn(Loop[n - 1], st, existing)]
    IN  Loop[VSFTP_MATCHITERS_MAX]

filename_passes_filter(filename, filter, iters, existing) ==
    Passes(MatchLoop(existing), filename, filter, iters, existing)

-----------------------------------------------------------------------------
(* vsf_match_filter: the pattern, or its text somewhere in the name.       *)
match_filter(filename, filter, existing) ==
    \/ filename_passes_filter(filename, filter, 0, existing).ret
    \/ LocateStr(filename, filter) >= 0

FilterInit ==
    /\ access_str \in Patterns
    /\ tree \in Trees
    /\ name = <<>>
    /\ answer = [passes |-> FALSE, allowed |-> TRUE]

(* A command names a file: vsf_access_check_file and its siblings.  They   *)
(* keep nothing from one question to the next but the pattern's text.      *)
access_check_file(n) ==
    /\ name = <<>>
    /\ name' = n
    /\ answer' = [passes |-> filename_passes_filter(n, access_str, 0, tree).ret,
                  allowed |-> ~match_filter(n, access_str, tree)]
    /\ UNCHANGED <<access_str, tree>>

FilterNext == \E n \in Names : access_check_file(n)

FilterSpec == FilterInit /\ [][FilterNext]_filterVars

-----------------------------------------------------------------------------
(* What a pattern means: "any number of wildcards, * or ?" and "{,} syntax *)
(* (not nested)".                                                          *)
MeansTurn(match, p, s) ==
    LET rest == Tail(p)
        brace == LocateChars(rest, {"}"})
        inside == SubSeq(rest, 1, brace - 1)
        cuts == {i \in DOMAIN inside : inside[i] = ","} \cup {0, Len(inside) + 1}
        alts == {SubSeq(inside, i + 1, j - 1) : i, j \in cuts}
    IN  IF p = <<>> THEN s = <<>>
        ELSE CASE p[1] = "*" -> \E i \in 0..Len(s) : match[<<rest, After(s, i)>>]
               [] p[1] = "?" -> s # <<>> /\ match[<<rest, Tail(s)>>]
               [] p[1] = "{" /\ brace \in DOMAIN rest ->
                    \E a \in {x \in alts : \A i \in DOMAIN x : x[i] # ","} :
                        match[<<a \o After(rest, brace), s>>]
               [] OTHER -> s # <<>> /\ s[1] = p[1] /\ match[<<rest, Tail(s)>>]

(* Patterns of at most so many characters.                                 *)
Meanings(longest) ==
    LET Match[n \in 0..longest] ==
            IF n = 0 THEN [q \in Text \X Text |-> q[1] = <<>> /\ q[2] = <<>>]
            ELSE [q \in Text \X Text |-> MeansTurn(Match[n - 1], q[1], q[2])]
    IN  Match

Means(p, s) == Meanings(Len(p))[Len(p)][<<p, s>>]

(* The patterns the scan decides exactly: one "*", and an end that does    *)
(* not overlap itself.                                                     *)
Simple(p) ==
    LET at == LocateChars(p, Tokens)
        end == After(p, at)
    IN  /\ at \in DOMAIN p /\ p[at] = "*"
        /\ \A i \in DOMAIN end : end[i] \notin Tokens
        /\ \A i \in 1..(Len(end) - 1) : SubSeq(end, 1, i) # SubSeq(end, Len(end) - i + 1, Len(end))

(* Whatever the pattern and however many files there are, a name that      *)
(* passes the matcher has the meaning of the pattern: the greedy scan, the *)
(* alternatives and the limit on iterations never let one through that     *)
(* does not.  For existing names and simple patterns nothing is missed.    *)
FilterAdmits ==
    name # <<>> =>
        /\ answer.passes => Means(access_str, name)
        /\ Simple(access_str) /\ name \in tree /\ Means(access_str, name) => answer.passes

(* vsftpd.conf.5 on deny_file: "any attempt to do anything to them" is     *)
(* denied "if they match the regular expression", whether or not the item  *)
(* exists already.                                                         *)
DenyHolds ==
    name # <<>> /\ Simple(access_str) /\ Means(access_str, name) => ~answer.allowed

=============================================================================
