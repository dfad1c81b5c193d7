----------------------------- MODULE MCTerminal -----------------------------
(* Terminal as TLC checks it: a screen of four rows of four, a line of     *)
(* three characters, and texts that make the screen wrap and scroll.       *)
EXTENDS Terminal

Letters     == {"c", "m", "q"}
ClearLine   == <<"c">>
MatrixLine  == <<"m">>
InfoLine    == <<"c", "m">>
PromptText  == <<"#">>
BannerText  == <<"o", "n">>
ReportText  == <<"o", "n", "o", "n">>
ComplainText == <<"o">>
StartText   == <<"n", "o", "n">>
HaltText    == <<"n", "o", "n">>
Colours     == {"t"}
=============================================================================
