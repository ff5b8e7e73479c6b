----------------------------- MODULE MCAluFlags -----------------------------
(* Words of three bits; CCMP fields without a flag and with Z only.        *)
EXTENDS AluFlags

MCCcmpFlags == {f \in Flags : ~f.N /\ ~f.C /\ ~f.V}
=============================================================================
