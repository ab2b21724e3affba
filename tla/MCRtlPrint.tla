------------------------------ MODULE MCRtlPrint ------------------------------
(***************************************************************************)
(* RtlPrint for TLC: words of five bits, so that 16 is the lowest number,  *)
(* and a buffer of three characters.                                       *)
(***************************************************************************)
EXTENDS RtlPrint

MCTexts == {<<>>, <<"p", "q">>}
=============================================================================
