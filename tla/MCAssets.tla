------------------------------- MODULE MCAssets -------------------------------
(* Instances of Assets for TLC: a request attaches an upload, and the        *)
(* provider may generate an image for it.                                    *)
EXTENDS Assets, TLC

CONSTANTS u1, g1, m1, s1

OneUpload == {u1}
OneImage == {g1}
OneSend == {m1}
OneSession == {s1}
ItsSession == [m \in Sends |-> s1]
TheUpload == [m \in Sends |-> u1]
AnImage == [m \in Sends |-> g1]
=============================================================================
