---------------------------- MODULE MCQuestions ----------------------------
(* A prompt, its edit and a second prompt; a reaction to the first and a     *)
(* digit, which is an option of the edit and not of the original.            *)
EXTENDS Questions

CONSTANTS thumb, digit

MCOf == [v \in Revisions |-> IF v = 2 THEN 1 ELSE v]
MCTarget == [s \in Reacts |-> 1]
MCFits == (Answers \X Revisions) \ {<<digit, 1>>}
=============================================================================
