--------------------------- MODULE MCObjectNames ----------------------------
(***************************************************************************)
(* Names without colons, with the separator inside and with a colon at the *)
(* end.                                                                    *)
(***************************************************************************)
EXTENDS ObjectNames

MCNames == {<<>>, <<"a">>, <<"a", ":", ":", "b">>, <<"a", ":">>}
Symmetry == Permutations(Objects)
=============================================================================
