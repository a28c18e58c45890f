------------------------------ MODULE MCAscii -------------------------------
(* All texts of up to three characters, in chunks of up to two.            *)
EXTENDS AsciiTransfer

MCTexts == UNION {[1..n -> {CR, LF, "x"}] : n \in 0..3}

=============================================================================
