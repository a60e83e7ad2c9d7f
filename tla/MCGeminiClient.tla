--------------------------- MODULE MCGeminiClient ---------------------------
(* Instances of GeminiClient for TLC: a probe and two sends, one of which    *)
(* continues a conversation while the other opens one.                       *)
EXTENDS GeminiClient, TLC

CONSTANTS p1, m1, m2, c1, c2

OneProbe == {p1}
NoProbe == {}
TwoSends == {m1, m2}
TwoConversations == {c1, c2}
OneContinues == [m \in Sends |-> IF m = m1 THEN c1 ELSE New]
=============================================================================
