----------------------------- MODULE MCTextEdit -----------------------------
(***************************************************************************)
(* An instance for TLC: a text box of one line and one of several lines    *)
(* that wrap.                                                              *)
(***************************************************************************)
EXTENDS TextEdit
MCTexts == {<<"a", SP>>, <<"a", CR, LF, "a">>}
MCKeys == {"a", SP, TAB}
MCBreaks == {<<LF>>}
MCPoints == {<<2, 0>>, <<1, 1>>}
MCModes == {{}, {"multiline", "wrapping"}}
=============================================================================
