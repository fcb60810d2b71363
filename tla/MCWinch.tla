------------------------------- MODULE MCWinch -------------------------------
(* Model-checking instances of Winch.  Each configuration enables the     *)
(* commands and inputs its question needs through these sets.             *)
EXTENDS Winch

\* Feedback-gated moves: one speed, a three-value sensor range.
FB_Speeds == {50}
FB_Distances == {1}
FB_PosTargets == {1}
FB_FbPositions == {0, 1, 2}

\* Open-loop moves, limits and interlocks.
OL_Speeds == {50}
OL_Revs == {1}
OL_RevTargets == {0, 1}
OL_MaxRevInputs == {1, 2}
OL_SwitchInputs == {"NoRaise", "NoLower"}
================================================================================
