------------------------------ MODULE FileLife ------------------------------
(***************************************************************************)
(* What the asset store promises the reader of an asset: its content is    *)
(* there from the moment it is published until it is retired, and what has *)
(* been retired, or was refused, is never there again.                     *)
(***************************************************************************)
CONSTANT Assets

VARIABLE content   (* "none", "there" or "gone", for each asset            *)

Init == content = [a \in Assets |-> "none"]

Publish(a) ==
  /\ content[a] = "none"
  /\ content' = [content EXCEPT ![a] = "there"]

(* Of an asset that was there, or of an upload that has failed.            *)
Retire(a) ==
  /\ content[a] # "gone"
  /\ content' = [content EXCEPT ![a] = "gone"]

Next == \E a \in Assets : Publish(a) \/ Retire(a)

Spec == Init /\ [][Next]_content
=============================================================================
