----------------------------- MODULE SessionLife -----------------------------
(***************************************************************************)
(* What the chat service promises the clients of a stored session: while   *)
(* it exists it is on one account, which changes only if it may move; it   *)
(* begins without a conversation at the provider, and after every move it  *)
(* begins again without one; and its history grows by questions, each      *)
(* stored once, and by answers, each right after its question.  That the   *)
(* conversation it continues is on its own account is not promised.        *)
(***************************************************************************)
EXTENDS Naturals, Sequences

CONSTANTS Sessions, Accounts, NoAccount,
          Asks,              (* questions, with the session each is put to *)
          SessionOf,
          KeyOf, NoKey,      (* and its idempotency key                    *)
          Movable            (* the sessions that may change accounts      *)

VARIABLES
  state,    (* "new", "live" or "deleted", for each session                *)
  home,     (* the account of a live session                               *)
  talk,     (* the account of the conversation it continues, if any        *)
  history   (* its messages                                                *)

vars == <<state, home, talk, history>>

Init ==
  /\ state = [s \in Sessions |-> "new"]
  /\ home = [s \in Sessions |-> NoAccount]
  /\ talk = [s \in Sessions |-> NoAccount]
  /\ history = [s \in Sessions |-> <<>>]

Create(s, a) ==
  /\ state[s] = "new"
  /\ state' = [state EXCEPT ![s] = "live"]
  /\ home' = [home EXCEPT ![s] = a]
  /\ UNCHANGED <<talk, history>>

Move(s, a) ==
  /\ state[s] = "live" /\ s \in Movable
  /\ a # home[s]
  /\ home' = [home EXCEPT ![s] = a]
  /\ talk' = [talk EXCEPT ![s] = NoAccount]
  /\ UNCHANGED <<state, history>>

Continue(s, c) ==
  /\ state[s] = "live"
  /\ talk' = [talk EXCEPT ![s] = c]
  /\ UNCHANGED <<state, home, history>>

Says(r, role) ==
  /\ state[SessionOf[r]] = "live"
  /\ history' = [history EXCEPT ![SessionOf[r]] = Append(@, [role |-> role, by |-> r])]
  /\ UNCHANGED <<state, home, talk>>

(* A question that is new, whose key has not been answered.                *)
Ask(r) ==
  LET s == SessionOf[r]
      h == history[s]
  IN /\ \A i \in DOMAIN h : h[i].by # r
     /\ KeyOf[r] # NoKey =>
          \A i \in DOMAIN h : h[i].role = "assistant" => KeyOf[h[i].by] # KeyOf[r]
     /\ Says(r, "user")

Answer(r) ==
  LET h == history[SessionOf[r]]
  IN /\ h # <<>> /\ h[Len(h)] = [role |-> "user", by |-> r]
     /\ Says(r, "assistant")

Delete(s) ==
  /\ state[s] = "live"
  /\ state' = [state EXCEPT ![s] = "deleted"]
  /\ home' = [home EXCEPT ![s] = NoAccount]
  /\ talk' = [talk EXCEPT ![s] = NoAccount]
  /\ history' = [history EXCEPT ![s] = <<>>]

Next ==
  \/ \E s \in Sessions, a \in Accounts : Create(s, a) \/ Move(s, a)
  \/ \E s \in Sessions : Delete(s) \/ \E c \in Accounts \cup {NoAccount} : Continue(s, c)
  \/ \E r \in Asks : Ask(r) \/ Answer(r)

Spec == Init /\ [][Next]_vars
=============================================================================
