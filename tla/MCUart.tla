------------------------------- MODULE MCUart -------------------------------
(* With Chunk = 3 the first line fits in one fgets, the second is split    *)
(* and gets a terminator inside.                                           *)
EXTENDS Lifecycle

MCLines == {<<"a", NewLine>>, <<"b", "c", NewLine>>}
=============================================================================
