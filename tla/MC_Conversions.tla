--------------------------- MODULE MC_Conversions ---------------------------
(***************************************************************************)
(* The conversions on small inputs.                                        *)
(***************************************************************************)
EXTENDS Conversions

\* The library's operations and two that a provider might add.
ModelOperations == JobOps \cup {<<"migrate">>, <<"point", "backup">>}

\* A text may be empty.
ModelTexts == {<<>>, <<"x">>}
=============================================================================
