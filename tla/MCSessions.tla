----------------------------- MODULE MCSessions -----------------------------
(***************************************************************************)
(* Model-checking instances of Sessions.                                   *)
(***************************************************************************)
EXTENDS Sessions

TwoTokens == 1 .. 2
OneShort  == <<0, 1>>
Twins     == Permutations(Workers)
OneUser   == {<<"ann">>}
=============================================================================
