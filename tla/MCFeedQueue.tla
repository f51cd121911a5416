----------------------------- MODULE MCFeedQueue -----------------------------
(* Instances of FeedQueue for TLC: a negative factor and a large denominator, *)
(* whose products overflow the integers.                                    *)
EXTENDS FeedQueue

SomeFactors == {<<-3, 1>>, <<1, 9>>}
=============================================================================
