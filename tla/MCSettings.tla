----------------------------- MODULE MCSettings -----------------------------
(* A configuration file of at most two lines, and masks of up to three     *)
(* digits.                                                                 *)
EXTENDS Settings

MCNumerals == {<<2, 2>>, <<7, 7>>, <<6, 4, 4>>, <<8>>}

MCLines ==
    {[setting |-> "local_umask", value |-> v] :
        v \in {<<>>, <<6, 3>>, <<0, 2, 2>>, <<0, 7, 7>>}}
    \cup {[setting |-> "write_enable", value |-> v] : v \in {<<"YES">>, <<"MAYBE">>}}
    \cup {[setting |-> s, value |-> <<"text">>] : s \in {"banner_file", "no_such_setting"}}

=============================================================================
