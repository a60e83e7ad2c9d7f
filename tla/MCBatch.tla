------------------------------- MODULE MCBatch -------------------------------
(* Instances of Batch for TLC: a batch of two items, one of which names a  *)
(* session, beside a batch of one item.                                    *)
EXTENDS Batch, TLC

CONSTANTS b1, b2, i1, i2, i3

TwoBatches == {b1, b2}
ThreeItems == {i1, i2, i3}
TwoAndOne == [i \in Items |-> IF i = i3 THEN b2 ELSE b1]
FirstAndThird == {i1, i3}
=============================================================================
