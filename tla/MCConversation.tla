--------------------------- MODULE MCConversation ---------------------------
(* Instances of Conversation for TLC.                                      *)
EXTENDS Conversation, TLC

CONSTANTS m1, m2, e1, e2, x1, h1, h2, r1, r2

\* Edits e1 and e2 are the author's own, x1 is somebody else's edit of m1.
MCTarget == e1 :> m1 @@ e2 :> m1 @@ x1 :> m1
MCAuthor == [e \in Events |-> IF e = x1 THEN "other" ELSE "author"]
MCRank == m1 :> 1 @@ m2 :> 2 @@ e1 :> 3 @@ e2 :> 4 @@ x1 :> 5

TargetOfEdits == [e \in Edits |-> MCTarget[e]]
RankOfEvents == [e \in Events |-> MCRank[e]]
PromptAndExport == [h \in Hydrators |-> IF h = h1 THEN 10 ELSE 30]

\* A room loses history or is left, but not both: the run "reuse" is about both.
GapOrDeparture == lost = {} \/ epoch = 0
=============================================================================
