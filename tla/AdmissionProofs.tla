--------------------------- MODULE AdmissionProofs ---------------------------
(***************************************************************************)
(* Theorems about Admission for every set of accounts, every finite set of *)
(* requests and every value of the limits.                                 *)
(***************************************************************************)
EXTENDS Admission, FiniteSetTheorems, SequenceTheorems, TLAPS

-----------------------------------------------------------------------------
(* deque.remove: taking out an element of the deque leaves the others, in  *)
(* their order.                                                            *)

(* RemoveAt shortens a sequence by one and shifts what follows the gap.    *)
LEMMA RemoveAtProperties ==
  ASSUME NEW s \in Seq(Nat), NEW i \in 1..Len(s)
  PROVE  /\ RemoveAt(s, i) \in Seq(Nat)
         /\ Len(RemoveAt(s, i)) = Len(s) - 1
         /\ \A j \in 1..(Len(s) - 1) :
              RemoveAt(s, i)[j] = IF j < i THEN s[j] ELSE s[j + 1]
<1> DEFINE left == SubSeq(s, 1, i - 1)
           right == SubSeq(s, i + 1, Len(s))
<1>0. Len(s) \in Nat /\ i \in 1..Len(s) /\ s \in Seq(Nat)
  BY LenProperties
<1>1. /\ left \in Seq(Nat)
      /\ Len(left) = i - 1
      /\ \A j \in 1..(i - 1) : left[j] = s[j]
  <2>1. \A j \in 1..(i - 1) : s[j] \in Nat
    BY <1>0, ElementOfSeq
  <2>2. QED
    BY <1>0, <2>1, SubSeqProperties, SMT
<1>2. /\ right \in Seq(Nat)
      /\ Len(right) = Len(s) - i
      /\ \A j \in 1..(Len(s) - i) : right[j] = s[i + j]
  <2>1. \A j \in (i + 1)..Len(s) : s[j] \in Nat
    BY <1>0, ElementOfSeq
  <2>2. QED
    BY <1>0, <2>1, SubSeqProperties, SMT
<1>3. RemoveAt(s, i) = left \o right
  BY DEF RemoveAt
<1> HIDE DEF left, right
<1>4. /\ left \o right \in Seq(Nat)
      /\ Len(left \o right) = Len(left) + Len(right)
      /\ \A j \in 1..(Len(left) + Len(right)) :
           (left \o right)[j] = IF j <= Len(left) THEN left[j] ELSE right[j - Len(left)]
  BY <1>1, <1>2, ConcatProperties
<1>5. ASSUME NEW j \in 1..(Len(s) - 1)
      PROVE  RemoveAt(s, i)[j] = IF j < i THEN s[j] ELSE s[j + 1]
  <2>1. CASE j < i
    BY <1>0, <1>1, <1>2, <1>3, <1>4, <2>1, SMT
  <2>2. CASE ~(j < i)
    <3>1. j - (i - 1) \in 1..(Len(s) - i) /\ i + (j - (i - 1)) = j + 1
      BY <1>0, <2>2, SMT
    <3>2. right[j - (i - 1)] = s[j + 1]
      BY <1>2, <3>1
    <3>3. j \in 1..(Len(left) + Len(right)) /\ ~(j <= Len(left))
      BY <1>0, <1>1, <1>2, <2>2, SMT
    <3>4. RemoveAt(s, i)[j] = right[j - Len(left)]
      BY <1>3, <1>4, <3>3
    <3>5. QED
      BY <1>1, <2>2, <3>2, <3>4
  <2>3. QED
    BY <2>1, <2>2
<1>6. QED
  BY <1>0, <1>1, <1>2, <1>3, <1>4, <1>5, SMT

(* deque.remove takes out the ticket at the place where it stands.         *)
LEMMA RemoveWaiterPosition ==
  ASSUME NEW s \in Seq(Nat), NEW t, Contains(s, t)
  PROVE  \E i \in 1..Len(s) : s[i] = t /\ RemoveWaiter(s, t) = RemoveAt(s, i)
BY DEF Contains, RemoveWaiter

(* A deque of tickets is still one after deque.remove.                     *)
LEMMA RemoveWaiterType ==
  ASSUME NEW s \in Seq(Nat), NEW t
  PROVE  RemoveWaiter(s, t) \in Seq(Nat)
<1>1. CASE Contains(s, t)
  BY <1>1, RemoveWaiterPosition, RemoveAtProperties
<1>2. CASE ~Contains(s, t)
  BY <1>2 DEF RemoveWaiter
<1>3. QED
  BY <1>1, <1>2

Increasing(q) == \A i, j \in 1..Len(q) : i < j => q[i] < q[j]

(* Without its k-th element an increasing deque is increasing, and holds   *)
(* the other elements.                                                     *)
LEMMA RemoveAtFromIncreasing ==
  ASSUME NEW s \in Seq(Nat), Increasing(s), NEW k \in 1..Len(s),
         NEW q \in Seq(Nat), Len(q) = Len(s) - 1,
         \A j \in 1..(Len(s) - 1) : q[j] = IF j < k THEN s[j] ELSE s[j + 1]
  PROVE  /\ Increasing(q)
         /\ \A u : Contains(q, u) <=> Contains(s, u) /\ u # s[k]
<1>0. Len(s) \in Nat /\ \A j \in 1..Len(s) : s[j] \in Nat
  BY LenProperties, ElementOfSeq
<1>1. Increasing(q)
  <2> SUFFICES ASSUME NEW i \in 1..Len(q), NEW j \in 1..Len(q), i < j
               PROVE  q[i] < q[j]
    BY DEF Increasing
  <2>1. i \in 1..(Len(s) - 1) /\ j \in 1..(Len(s) - 1) /\ i + 1 \in 1..Len(s)
        /\ j + 1 \in 1..Len(s) /\ i \in 1..Len(s) /\ j \in 1..Len(s)
    BY <1>0, SMT
  <2>2. i < j + 1 /\ i + 1 < j + 1 /\ i \in Int /\ j \in Int /\ k \in Int
    BY <1>0, <2>1, SMT
  <2>3. s[i] < s[j] /\ s[i] < s[j + 1] /\ s[i + 1] < s[j + 1]
    BY <2>1, <2>2 DEF Increasing
  <2>4. q[i] = (IF i < k THEN s[i] ELSE s[i + 1]) /\ q[j] = (IF j < k THEN s[j] ELSE s[j + 1])
    BY <2>1
  <2>5. CASE i < k /\ j < k
    BY <2>3, <2>4, <2>5
  <2>6. CASE i < k /\ ~(j < k)
    BY <2>3, <2>4, <2>6
  <2>7. CASE ~(i < k) /\ ~(j < k)
    BY <2>3, <2>4, <2>7
  <2>8. QED
    <3>1. ~(~(i < k) /\ j < k)
      BY <2>2, SMT
    <3>2. QED
      BY <2>5, <2>6, <2>7, <3>1
<1>2. ASSUME NEW u, Contains(q, u)
      PROVE  Contains(s, u) /\ u # s[k]
  <2>1. PICK j \in 1..(Len(s) - 1) : q[j] = u
    BY <1>0, <1>2 DEF Contains
  <2>2. CASE j < k
    <3>1. s[j] = u /\ j \in 1..Len(s)
      BY <1>0, <2>1, <2>2, SMT
    <3>2. s[j] < s[k]
      BY <2>2, <3>1 DEF Increasing
    <3>3. s[j] \in Nat /\ s[k] \in Nat
      BY <1>0, <3>1
    <3>4. u # s[k]
      BY <3>1, <3>2, <3>3, SMT
    <3>5. QED
      BY <3>1, <3>4 DEF Contains
  <2>3. CASE ~(j < k)
    <3>1. s[j + 1] = u /\ j + 1 \in 1..Len(s) /\ k < j + 1
      BY <1>0, <2>1, <2>3, SMT
    <3>2. s[k] < s[j + 1]
      BY <3>1 DEF Increasing
    <3>3. s[j + 1] \in Nat /\ s[k] \in Nat
      BY <1>0, <3>1
    <3>4. u # s[k]
      BY <3>1, <3>2, <3>3, SMT
    <3>5. QED
      BY <3>1, <3>4 DEF Contains
  <2>4. QED
    BY <2>2, <2>3
<1>3. ASSUME NEW u, Contains(s, u), u # s[k]
      PROVE  Contains(q, u)
  <2>1. PICK i \in 1..Len(s) : s[i] = u
    BY <1>3 DEF Contains
  <2>2. i # k
    BY <1>3, <2>1
  <2>3. CASE i < k
    <3>1. i \in 1..(Len(s) - 1) /\ q[i] = u
      BY <1>0, <2>1, <2>3, SMT
    <3>2. QED
      BY <3>1 DEF Contains
  <2>4. CASE i > k
    <3>1. i - 1 \in 1..(Len(s) - 1) /\ ~(i - 1 < k) /\ (i - 1) + 1 = i
      BY <1>0, <2>4, SMT
    <3>2. q[i - 1] = u
      BY <2>1, <3>1
    <3>3. QED
      BY <3>1, <3>2 DEF Contains
  <2>5. QED
    BY <1>0, <2>2, <2>3, <2>4, SMT
<1>4. QED
  BY <1>1, <1>2, <1>3

-----------------------------------------------------------------------------
(* The inductive invariant: types, places in the queues, tickets.          *)

Inv == TypeOK /\ QueueSound /\ TicketsIssuedOnce

(* The two ways a ticket leaves a deque: the head starts, a waiter times   *)
(* out.                                                                    *)
LEMMA QueueIncreasing ==
  ASSUME Inv, NEW r \in Requests, pc[r] = "waiting"
  PROVE  /\ waiters[target[r]] \in Seq(Nat)
         /\ Increasing(waiters[target[r]])
         /\ Contains(waiters[target[r]], ticket[r])
BY DEF Inv, TypeOK, QueueSound, QueueDepth, Waiting, Increasing

(* Popping the head leaves an increasing deque without exactly that        *)
(* ticket.                                                                 *)
LEMMA HeadLeaves ==
  ASSUME Inv, NEW r \in Requests, pc[r] = "waiting", AtHead(r)
  PROVE  /\ Tail(waiters[target[r]]) \in Seq(Nat)
         /\ Increasing(Tail(waiters[target[r]]))
         /\ \A u : Contains(Tail(waiters[target[r]]), u)
                     <=> Contains(waiters[target[r]], u) /\ u # ticket[r]
<1> DEFINE q == waiters[target[r]]
<1>1. q \in Seq(Nat) /\ Increasing(q) /\ Contains(q, ticket[r])
  BY QueueIncreasing
<1>2. 1 \in 1..Len(q) /\ q[1] = ticket[r]
  <2>1. Len(q) \in Nat
    BY <1>1, LenProperties
  <2>2. PICK i \in 1..Len(q) : TRUE
    BY <1>1 DEF Contains
  <2>3. QED
    BY <2>1, <2>2, SMT DEF AtHead
<1>3. /\ Tail(q) \in Seq(Nat)
      /\ Len(Tail(q)) = Len(q) - 1
      /\ \A j \in 1..(Len(q) - 1) : Tail(q)[j] = IF j < 1 THEN q[j] ELSE q[j + 1]
  <2>1. q # <<>>
    BY <1>2, EmptySeq, SMT
  <2>2. QED
    BY <1>1, <2>1, HeadTailProperties, SMT
<1> HIDE DEF q
<1>4. /\ Increasing(Tail(q))
      /\ \A u : Contains(Tail(q), u) <=> Contains(q, u) /\ u # q[1]
  BY <1>1, <1>2, <1>3, RemoveAtFromIncreasing
<1>5. QED
  BY <1>2, <1>3, <1>4 DEF q

(* deque.remove leaves an increasing deque without exactly that ticket.    *)
LEMMA WaiterLeaves ==
  ASSUME Inv, NEW r \in Requests, pc[r] = "waiting"
  PROVE  /\ RemoveWaiter(waiters[target[r]], ticket[r]) \in Seq(Nat)
         /\ Increasing(RemoveWaiter(waiters[target[r]], ticket[r]))
         /\ \A u : Contains(RemoveWaiter(waiters[target[r]], ticket[r]), u)
                     <=> Contains(waiters[target[r]], u) /\ u # ticket[r]
<1> DEFINE q == waiters[target[r]]
<1>1. q \in Seq(Nat) /\ Increasing(q) /\ Contains(q, ticket[r])
  BY QueueIncreasing
<1> HIDE DEF q
<1>2. PICK i \in 1..Len(q) : q[i] = ticket[r] /\ RemoveWaiter(q, ticket[r]) = RemoveAt(q, i)
  BY <1>1, RemoveWaiterPosition
<1>3. /\ RemoveAt(q, i) \in Seq(Nat)
      /\ Len(RemoveAt(q, i)) = Len(q) - 1
      /\ \A j \in 1..(Len(q) - 1) :
           RemoveAt(q, i)[j] = IF j < i THEN q[j] ELSE q[j + 1]
  BY <1>1, RemoveAtProperties
<1>4. /\ Increasing(RemoveAt(q, i))
      /\ \A u : Contains(RemoveAt(q, i), u) <=> Contains(q, u) /\ u # q[i]
  BY <1>1, <1>3, RemoveAtFromIncreasing
<1>5. QED
  BY <1>2, <1>3, <1>4 DEF q

(* Whoever leaves a deque takes exactly its own ticket along.              *)
LEMMA LeavingKeepsInv ==
  ASSUME Inv, NEW r \in Requests, pc[r] = "waiting",
         NEW q \in Seq(Nat), Increasing(q),
         \A u : Contains(q, u) <=> Contains(waiters[target[r]], u) /\ u # ticket[r],
         NEW p \in {"holding", "timedout"},
         waiters' = [waiters EXCEPT ![target[r]] = q],
         pc' = [pc EXCEPT ![r] = p],
         woken' \subseteq Waiting \ {r},
         UNCHANGED <<ticketCounter, target, ticket>>
  PROVE  QueueSound' /\ TicketsIssuedOnce' /\ waiters' \in [Accounts -> Seq(Nat)]
                     /\ pc' \in [Requests -> PCs]
<1> USE DEF Inv
<1>1. /\ waiters' \in [Accounts -> Seq(Nat)]
      /\ pc' \in [Requests -> PCs]
      /\ waiters'[target[r]] = q
      /\ \A a \in Accounts : a # target[r] => waiters'[a] = waiters[a]
      /\ Waiting' = Waiting \ {r}
  BY DEF TypeOK, PCs, Waiting
<1>2. \A s \in Waiting' : Contains(waiters'[target'[s]], ticket'[s])
  <2> SUFFICES ASSUME NEW s \in Waiting \ {r}
               PROVE  Contains(waiters'[target[s]], ticket[s])
    BY <1>1
  <2>1. s \in Requests /\ Contains(waiters[target[s]], ticket[s]) /\ ticket[s] # ticket[r]
    BY DEF QueueSound, TicketsIssuedOnce, Waiting
  <2>2. QED
    BY <1>1, <2>1 DEF TypeOK
<1>3. \A a \in Accounts : \A i, j \in 1..Len(waiters'[a]) :
        i < j => waiters'[a][i] < waiters'[a][j]
  BY <1>1 DEF QueueSound, QueueDepth, Increasing
<1>4. \A s \in Requests : pc'[s] \in {"holding", "released", "timedout"} =>
        ~Contains(waiters'[target'[s]], ticket'[s])
  <2> SUFFICES ASSUME NEW s \in Requests,
                      pc'[s] \in {"holding", "released", "timedout"}
               PROVE  ~Contains(waiters'[target[s]], ticket[s])
    OBVIOUS
  <2>1. CASE s = r
    BY <1>1, <2>1
  <2>2. CASE s # r
    <3>1. ~Contains(waiters[target[s]], ticket[s])
      BY <2>2 DEF QueueSound, TypeOK
    <3>2. QED
      BY <1>1, <3>1 DEF TypeOK
  <2>3. QED
    BY <2>1, <2>2
<1>5. ASSUME NEW a \in Accounts, NEW i \in 1..Len(waiters'[a])
      PROVE  waiters'[a][i] < ticketCounter'
  <2>1. Contains(waiters'[a], waiters'[a][i])
    BY DEF Contains
  <2>2. Contains(waiters[a], waiters'[a][i])
    BY <1>1, <2>1
  <2>3. QED
    BY <2>2 DEF Contains, TicketsIssuedOnce, QueueDepth
<1>6. \A s \in Requests :
        /\ ticket'[s] < ticketCounter'
        /\ pc'[s] \in {"idle", "selected"} => ticket'[s] = NoTicket
        /\ pc'[s] = "waiting" => ticket'[s] # NoTicket
  BY <1>1 DEF TicketsIssuedOnce, TypeOK
<1>7. QED
  BY <1>1, <1>2, <1>3, <1>4, <1>5, <1>6 DEF QueueSound, TicketsIssuedOnce, QueueDepth

-----------------------------------------------------------------------------
(* Each action preserves the invariant.                                    *)

(* A request that joins a deque, with the next ticket, keeps the           *)
(* invariant.                                                              *)
LEMMA EnqueueInv ==
  ASSUME Inv, NEW r \in Requests, Enqueue(r)
  PROVE  Inv'
<1> USE DEF Inv
<1> DEFINE a == target[r]
           q == waiters[a]
<1>1. a \in Accounts /\ q \in Seq(Nat) /\ ticketCounter \in Nat /\ Len(q) \in Nat
      /\ \A i \in 1..Len(q) : q[i] \in Nat /\ q[i] < ticketCounter
  <2>1. a \in Accounts /\ q \in Seq(Nat) /\ ticketCounter \in Nat
    BY DEF TypeOK
  <2>2. QED
    BY <2>1, LenProperties, ElementOfSeq DEF TicketsIssuedOnce, QueueDepth
<1>2. /\ waiters' = [waiters EXCEPT ![a] = Append(q, ticketCounter)]
      /\ ticket' = [ticket EXCEPT ![r] = ticketCounter]
      /\ ticketCounter' = ticketCounter + 1
      /\ pc' = [pc EXCEPT ![r] = "waiting"]
      /\ target' = target /\ woken' = woken
  BY DEF Enqueue
<1>3. /\ Append(q, ticketCounter) \in Seq(Nat)
      /\ Len(Append(q, ticketCounter)) = Len(q) + 1
      /\ \A i \in 1..Len(q) : Append(q, ticketCounter)[i] = q[i]
      /\ Append(q, ticketCounter)[Len(q) + 1] = ticketCounter
  BY <1>1, AppendProperties
<1>4. \A u : Contains(Append(q, ticketCounter), u) <=> Contains(q, u) \/ u = ticketCounter
  <2>1. 1..Len(Append(q, ticketCounter)) = (1..Len(q)) \cup {Len(q) + 1}
    BY <1>1, <1>3, SMT
  <2>2. QED
    BY <1>3, <2>1 DEF Contains
<1>5. TypeOK'
  BY <1>1, <1>2, <1>3, SMT DEF TypeOK, PCs, Enqueue
<1>6. pc[r] = "selected" /\ ticket[r] = NoTicket /\ r \notin Waiting
      /\ Waiting' = Waiting \cup {r}
  BY <1>2 DEF Enqueue, TicketsIssuedOnce, Waiting, TypeOK
<1> HIDE DEF q
<1>7. ~Contains(q, ticketCounter)
  BY <1>1, SMT DEF Contains
<1>8. /\ waiters'[a] = Append(q, ticketCounter)
      /\ \A b \in Accounts : b # a => waiters'[b] = waiters[b]
  BY <1>1, <1>2 DEF TypeOK, q
<1>9. \A s \in Requests : s # r => ticket'[s] = ticket[s] /\ ticket[s] # ticketCounter
                                   /\ pc'[s] = pc[s]
  BY <1>1, <1>2, SMT DEF TypeOK, TicketsIssuedOnce
<1>10. ticket'[r] = ticketCounter /\ pc'[r] = "waiting"
  BY <1>2 DEF TypeOK
<1>11. \A s \in Waiting' : Contains(waiters'[target'[s]], ticket'[s])
  <2> SUFFICES ASSUME NEW s \in Waiting'
               PROVE  Contains(waiters'[target[s]], ticket'[s])
    BY <1>2
  <2>1. CASE s = r
    BY <1>4, <1>8, <1>10, <2>1
  <2>2. CASE s # r
    <3>1. s \in Waiting /\ s \in Requests /\ target[s] \in Accounts
      BY <1>6, <2>2 DEF Waiting, TypeOK
    <3>2. Contains(waiters[target[s]], ticket[s]) /\ ticket'[s] = ticket[s]
      BY <1>9, <2>2, <3>1 DEF QueueSound
    <3>3. QED
      BY <1>4, <1>8, <3>1, <3>2 DEF q
  <2>3. QED
    BY <2>1, <2>2
<1>12. \A b \in Accounts : \A i, j \in 1..Len(waiters'[b]) :
         i < j => waiters'[b][i] < waiters'[b][j]
  <2> SUFFICES ASSUME NEW i \in 1..(Len(q) + 1), NEW j \in 1..(Len(q) + 1), i < j
               PROVE  Append(q, ticketCounter)[i] < Append(q, ticketCounter)[j]
    <3>1. \A b \in Accounts \ {a} : \A i, j \in 1..Len(waiters[b]) :
            i < j => waiters[b][i] < waiters[b][j]
      BY DEF QueueSound, QueueDepth
    <3>2. Len(waiters'[a]) = Len(q) + 1
      BY <1>3, <1>8
    <3>3. QED
      BY <1>8, <3>1, <3>2
  <2>1. i \in 1..Len(q)
    BY <1>1, SMT
  <2>2. CASE j = Len(q) + 1
    BY <1>1, <1>3, <2>1, <2>2
  <2>3. CASE j # Len(q) + 1
    <3>1. j \in 1..Len(q)
      BY <1>1, <2>3, SMT
    <3>2. q[i] < q[j]
      BY <1>1, <2>1, <3>1 DEF QueueSound, QueueDepth, q
    <3>3. QED
      BY <1>3, <2>1, <3>1, <3>2
  <2>4. QED
    BY <2>2, <2>3
<1>13. \A s \in Requests : pc'[s] \in {"holding", "released", "timedout"} =>
         ~Contains(waiters'[target'[s]], ticket'[s])
  <2> SUFFICES ASSUME NEW s \in Requests,
                      pc'[s] \in {"holding", "released", "timedout"}
               PROVE  ~Contains(waiters'[target[s]], ticket'[s])
    BY <1>2
  <2>1. s # r /\ target[s] \in Accounts
    BY <1>10 DEF TypeOK
  <2>2. ~Contains(waiters[target[s]], ticket[s])
    BY <1>9, <2>1 DEF QueueSound
  <2>3. QED
    BY <1>4, <1>8, <1>9, <2>1, <2>2 DEF q
<1>14. ASSUME NEW b \in Accounts, NEW i \in 1..Len(waiters'[b])
       PROVE  waiters'[b][i] < ticketCounter + 1
  <2>1. CASE b = a
    <3>1. waiters'[b][i] < ticketCounter \/ waiters'[b][i] = ticketCounter
      <4>1. i \in 1..Len(q) \/ i = Len(q) + 1
        BY <1>1, <1>3, <1>8, <2>1, SMT
      <4>2. QED
        BY <1>1, <1>3, <1>8, <2>1, <4>1
    <3>2. waiters'[b][i] \in Nat
      BY <1>1, <1>3, <1>8, <2>1, ElementOfSeq
    <3>3. QED
      BY <1>1, <3>1, <3>2, SMT
  <2>2. CASE b # a
    <3>1. waiters'[b] = waiters[b] /\ waiters[b] \in Seq(Nat)
      BY <1>8, <2>2 DEF TypeOK
    <3>2. waiters[b][i] < ticketCounter /\ waiters[b][i] \in Nat
      BY <3>1, ElementOfSeq DEF TicketsIssuedOnce, QueueDepth
    <3>3. QED
      BY <1>1, <3>1, <3>2, SMT
  <2>3. QED
    BY <2>1, <2>2
<1>15. \A s \in Requests :
         /\ ticket'[s] < ticketCounter'
         /\ pc'[s] \in {"idle", "selected"} => ticket'[s] = NoTicket
         /\ pc'[s] = "waiting" => ticket'[s] # NoTicket
  <2> SUFFICES ASSUME NEW s \in Requests
               PROVE  /\ ticket'[s] < ticketCounter + 1
                      /\ pc'[s] \in {"idle", "selected"} => ticket'[s] = NoTicket
                      /\ pc'[s] = "waiting" => ticket'[s] # NoTicket
    BY <1>2
  <2>1. CASE s = r
    BY <1>1, <1>10, <2>1, SMT DEF NoTicket
  <2>2. CASE s # r
    BY <1>1, <1>9, <2>2, SMT DEF TicketsIssuedOnce, TypeOK, NoTicket
  <2>3. QED
    BY <2>1, <2>2
<1>16. \A s, t \in Requests :
         s # t /\ ticket'[s] = ticket'[t] => ticket'[s] = NoTicket
  BY <1>9, <1>10 DEF TicketsIssuedOnce
<1>17. woken' \subseteq Waiting'
  BY <1>2, <1>6 DEF TicketsIssuedOnce
<1>18. QueueSound'
  BY <1>11, <1>12, <1>13 DEF QueueSound, QueueDepth
<1>19. TicketsIssuedOnce'
  BY <1>2, <1>14, <1>15, <1>16, <1>17 DEF TicketsIssuedOnce, QueueDepth
<1>20. QED
  BY <1>5, <1>18, <1>19

(* A waiter that starts from the head of its deque keeps the invariant.    *)
LEMMA StartFromQueueInv ==
  ASSUME Inv, NEW r \in Requests, StartFromQueue(r)
  PROVE  Inv'
<1>1. pc[r] = "waiting" /\ AtHead(r)
  BY DEF Inv, TicketsIssuedOnce, Waiting, StartFromQueue
<1>2. /\ waiters' = [waiters EXCEPT ![target[r]] = Tail(waiters[target[r]])]
      /\ pc' = [pc EXCEPT ![r] = "holding"]
      /\ woken' = Waiting \ {r}
      /\ UNCHANGED <<ticketCounter, target, ticket>>
  BY DEF StartFromQueue, TakeSlot
<1>3. /\ QueueSound' /\ TicketsIssuedOnce'
      /\ waiters' \in [Accounts -> Seq(Nat)] /\ pc' \in [Requests -> PCs]
  BY <1>1, <1>2, HeadLeaves, LeavingKeepsInv
<1>4. TypeOK'
  BY <1>2, <1>3 DEF Inv, TypeOK, StartFromQueue, TakeSlot, Waiting
<1>5. QED
  BY <1>3, <1>4 DEF Inv

(* A waiter that gives up at its deadline keeps the invariant.             *)
LEMMA QueueTimeoutInv ==
  ASSUME Inv, NEW r \in Requests, QueueTimeout(r)
  PROVE  Inv'
<1>1. pc[r] = "waiting"
  BY DEF QueueTimeout
<1>2. /\ waiters' = [waiters EXCEPT ![target[r]] =
                        RemoveWaiter(waiters[target[r]], ticket[r])]
      /\ pc' = [pc EXCEPT ![r] = "timedout"]
      /\ UNCHANGED <<ticketCounter, target, ticket>>
  BY DEF QueueTimeout
<1>3. woken' \subseteq Waiting \ {r}
  BY DEF QueueTimeout, InterruptedWait, Inv, TicketsIssuedOnce
<1>4. /\ QueueSound' /\ TicketsIssuedOnce'
      /\ waiters' \in [Accounts -> Seq(Nat)] /\ pc' \in [Requests -> PCs]
  BY <1>1, <1>2, <1>3, WaiterLeaves, LeavingKeepsInv
<1>5. TypeOK'
  BY <1>2, <1>3, <1>4 DEF Inv, TypeOK, QueueTimeout, Waiting
<1>6. QED
  BY <1>4, <1>5 DEF Inv

(* The other steps leave deques and tickets alone: enough that the waiting *)
(* requests only lose members, and that nobody is moved to a place where   *)
(* its ticket should be gone.                                              *)
LEMMA QueuesUntouched ==
  ASSUME Inv, UNCHANGED <<waiters, ticketCounter, target, ticket>>,
         woken' \subseteq Waiting', Waiting' \subseteq Waiting,
         \A s \in Requests : pc'[s] \in {"idle", "selected"} => ticket[s] = NoTicket,
         \A s \in Requests : pc'[s] \in {"holding", "released", "timedout"} =>
           ~Contains(waiters[target[s]], ticket[s])
  PROVE  QueueSound' /\ TicketsIssuedOnce'
<1>1. QueueSound'
  BY DEF Inv, QueueSound, QueueDepth
<1>2. TicketsIssuedOnce'
  BY DEF Inv, TicketsIssuedOnce, QueueDepth, Waiting
<1>3. QED
  BY <1>1, <1>2

(* A request that never queued has no ticket in any deque.                 *)
LEMMA NoTicketNotQueued ==
  ASSUME TypeOK, NEW r \in Requests, ticket[r] = NoTicket
  PROVE  ~Contains(waiters[target[r]], ticket[r])
<1>1. waiters[target[r]] \in Seq(Nat)
  BY DEF TypeOK
<1>2. \A i \in 1..Len(waiters[target[r]]) : waiters[target[r]][i] \in Nat
  BY <1>1, ElementOfSeq
<1>3. NoTicket \notin Nat
  BY SMT DEF NoTicket
<1>4. QED
  BY <1>2, <1>3 DEF Contains

(* The selection of a runtime keeps the invariant.                         *)
LEMMA SelectInv ==
  ASSUME Inv, NEW r \in Requests, Select(r)
  PROVE  Inv'
<1>1. TypeOK'
  BY DEF Inv, TypeOK, PCs, Select
<1>2. ~Contains(waiters[target[r]], ticket[r]) /\ ticket[r] = NoTicket
  BY NoTicketNotQueued DEF Inv, TicketsIssuedOnce, Select
<1>3. QueueSound' /\ TicketsIssuedOnce'
  <2>1. Waiting' = Waiting /\ woken' \subseteq Waiting'
    BY DEF Inv, TypeOK, Waiting, Select, TicketsIssuedOnce
  <2>2. \A s \in Requests : pc'[s] \in {"idle", "selected"} => ticket[s] = NoTicket
    BY <1>2 DEF Inv, TypeOK, Select, TicketsIssuedOnce
  <2>3. \A s \in Requests : pc'[s] \in {"holding", "released", "timedout"} =>
          ~Contains(waiters[target[s]], ticket[s])
    BY <1>2 DEF Inv, TypeOK, Select, QueueSound
  <2>4. QED
    BY <2>1, <2>2, <2>3, QueuesUntouched DEF Select
<1>4. QED
  BY <1>1, <1>3 DEF Inv

(* A direct start keeps the invariant.                                     *)
LEMMA StartDirectlyInv ==
  ASSUME Inv, NEW r \in Requests, StartDirectly(r)
  PROVE  Inv'
<1>1. TypeOK'
  BY DEF Inv, TypeOK, PCs, StartDirectly, TakeSlot, Waiting
<1>2. ~Contains(waiters[target[r]], ticket[r]) /\ ticket[r] = NoTicket
  BY NoTicketNotQueued DEF Inv, TicketsIssuedOnce, StartDirectly
<1>3. QueueSound' /\ TicketsIssuedOnce'
  <2>1. Waiting' = Waiting /\ woken' \subseteq Waiting'
    BY DEF Inv, TypeOK, Waiting, StartDirectly, TakeSlot
  <2>2. \A s \in Requests : pc'[s] \in {"idle", "selected"} => ticket[s] = NoTicket
    BY DEF Inv, TypeOK, StartDirectly, TakeSlot, TicketsIssuedOnce
  <2>3. \A s \in Requests : pc'[s] \in {"holding", "released", "timedout"} =>
          ~Contains(waiters[target[s]], ticket[s])
    BY <1>2 DEF Inv, TypeOK, StartDirectly, TakeSlot, QueueSound
  <2>4. QED
    BY <2>1, <2>2, <2>3, QueuesUntouched DEF StartDirectly
<1>4. QED
  BY <1>1, <1>3 DEF Inv

(* A rejection keeps the invariant.                                        *)
LEMMA RejectInv ==
  ASSUME Inv, NEW r \in Requests, RejectQueueFull(r)
  PROVE  Inv'
<1>1. TypeOK'
  BY DEF Inv, TypeOK, PCs, RejectQueueFull
<1>2. QueueSound' /\ TicketsIssuedOnce'
  <2>1. Waiting' = Waiting /\ woken' \subseteq Waiting'
    BY DEF Inv, TypeOK, Waiting, RejectQueueFull, TicketsIssuedOnce
  <2>2. \A s \in Requests : pc'[s] \in {"idle", "selected"} => ticket[s] = NoTicket
    BY DEF Inv, TypeOK, RejectQueueFull, TicketsIssuedOnce
  <2>3. \A s \in Requests : pc'[s] \in {"holding", "released", "timedout"} =>
          ~Contains(waiters[target[s]], ticket[s])
    BY DEF Inv, TypeOK, RejectQueueFull, QueueSound
  <2>4. QED
    BY <2>1, <2>2, <2>3, QueuesUntouched DEF RejectQueueFull
<1>3. QED
  BY <1>1, <1>2 DEF Inv

(* A waiter that goes back to waiting keeps the invariant.                 *)
LEMMA WaitAgainInv ==
  ASSUME Inv, NEW r \in Requests, WaitAgain(r)
  PROVE  Inv'
<1>1. TypeOK'
  BY DEF Inv, TypeOK, WaitAgain
<1>2. QueueSound' /\ TicketsIssuedOnce'
  BY DEF Inv, WaitAgain, QueueSound, TicketsIssuedOnce, QueueDepth, Waiting
<1>3. QED
  BY <1>1, <1>2 DEF Inv

(* A cancellation, which leaves the ticket behind, keeps the invariant.    *)
LEMMA CancelInv ==
  ASSUME Inv, NEW r \in Requests, Cancel(r)
  PROVE  Inv'
<1>0. woken' \subseteq Waiting \ {r}
  BY DEF Inv, Cancel, InterruptedWait, TicketsIssuedOnce, Waiting
<1>1. TypeOK'
  BY <1>0 DEF Inv, TypeOK, PCs, Cancel, Waiting
<1>2. QueueSound' /\ TicketsIssuedOnce'
  <2>1. Waiting' = Waiting \ {r} /\ woken' \subseteq Waiting'
    BY <1>0 DEF Inv, TypeOK, Waiting, Cancel
  <2>2. \A s \in Requests : pc'[s] \in {"idle", "selected"} => ticket[s] = NoTicket
    BY DEF Inv, TypeOK, Cancel, TicketsIssuedOnce
  <2>3. \A s \in Requests : pc'[s] \in {"holding", "released", "timedout"} =>
          ~Contains(waiters[target[s]], ticket[s])
    BY DEF Inv, TypeOK, Cancel, QueueSound
  <2>4. QED
    BY <2>1, <2>2, <2>3, QueuesUntouched DEF Cancel
<1>3. QED
  BY <1>1, <1>2 DEF Inv

(* The end of a lease keeps the invariant.                                 *)
LEMMA ReleaseInv ==
  ASSUME Inv, NEW r \in Requests, Release(r)
  PROVE  Inv'
<1>1. TypeOK'
  BY SMT DEF Inv, TypeOK, PCs, Release, Waiting
<1>2. QueueSound' /\ TicketsIssuedOnce'
  <2>1. Waiting' = Waiting /\ woken' \subseteq Waiting'
    BY DEF Inv, TypeOK, Waiting, Release
  <2>2. \A s \in Requests : pc'[s] \in {"idle", "selected"} => ticket[s] = NoTicket
    BY DEF Inv, TypeOK, Release, TicketsIssuedOnce
  <2>3. \A s \in Requests : pc'[s] \in {"holding", "released", "timedout"} =>
          ~Contains(waiters[target[s]], ticket[s])
    BY DEF Inv, TypeOK, Release, QueueSound
  <2>4. QED
    BY <2>1, <2>2, <2>3, QueuesUntouched DEF Release
<1>3. QED
  BY <1>1, <1>2 DEF Inv

(* Whatever inventory is loaded, an account's limit stays a number.        *)
LEMMA ConfigsAreLimits ==
  ASSUME TypeOK, NEW a \in Accounts, SetMaxConcurrency(a)
  PROVE  maxConcurrency' \in [Accounts -> Nat]
<1>1. PICK c \in Configs : maxConcurrency' = [maxConcurrency EXCEPT ![a] = c[a]]
  BY DEF SetMaxConcurrency
<1>2. c[a] \in Nat
  BY LimitsAssumption
<1>3. QED
  BY <1>1, <1>2 DEF TypeOK

(* A change of an account's state keeps the invariant.                     *)
LEMMA SetStateInv ==
  ASSUME Inv, NEW a \in Accounts, SetState(a)
  PROVE  Inv'
<1>1. TypeOK'
  BY DEF Inv, TypeOK, SetState
<1>2. QueueSound' /\ TicketsIssuedOnce'
  BY DEF Inv, SetState, QueueSound, TicketsIssuedOnce, QueueDepth, Waiting
<1>3. QED
  BY <1>1, <1>2 DEF Inv

(* A runtime that is dropped keeps its deque and those who wait in it.     *)
LEMMA DropRuntimeInv ==
  ASSUME Inv, NEW a \in Accounts, DropRuntime(a)
  PROVE  Inv'
<1>1. TypeOK'
  BY DEF Inv, TypeOK, DropRuntime
<1>2. QueueSound' /\ TicketsIssuedOnce'
  BY DEF Inv, DropRuntime, QueueSound, TicketsIssuedOnce, QueueDepth, Waiting
<1>3. QED
  BY <1>1, <1>2 DEF Inv

(* Nobody waits on a new runtime: its deque is empty, the others are as    *)
(* they were.                                                              *)
LEMMA NewRuntimeInv ==
  ASSUME Inv, NEW a \in Accounts, NewRuntime(a)
  PROVE  Inv'
<1>1. <<>> \in Seq(Nat) /\ Len(<<>>) = 0 /\ 1..0 = {}
  BY EmptySeq, SMT
<1>2. TypeOK'
  BY <1>1, ConfigsAreLimits DEF Inv, TypeOK, NewRuntime
<1>3. /\ waiters'[a] = <<>>
      /\ \A b \in Accounts : b # a => waiters'[b] = waiters[b]
  BY DEF Inv, TypeOK, NewRuntime
<1>4. \A r \in Waiting : target[r] # a
  BY DEF NewRuntime, InUse, Waiting
<1>5. \A u : ~Contains(<<>>, u)
  BY <1>1 DEF Contains
<1>6. QueueSound'
  <2>1. \A r \in Waiting' : Contains(waiters[target[r]], ticket[r])'
    BY <1>3, <1>4 DEF Inv, TypeOK, QueueSound, NewRuntime, Waiting
  <2>2. \A b \in Accounts : \A i, j \in 1..QueueDepth(b)' :
          i < j => waiters'[b][i] < waiters'[b][j]
    BY <1>1, <1>3 DEF Inv, QueueSound, QueueDepth
  <2>3. \A r \in Requests : pc'[r] \in {"holding", "released", "timedout"} =>
          ~Contains(waiters'[target'[r]], ticket'[r])
    BY <1>3, <1>5 DEF Inv, TypeOK, QueueSound, NewRuntime
  <2>4. QED
    BY <2>1, <2>2, <2>3 DEF QueueSound
<1>7. TicketsIssuedOnce'
  <2>1. \A b \in Accounts : \A i \in 1..QueueDepth(b)' : waiters'[b][i] < ticketCounter'
    BY <1>1, <1>3 DEF Inv, TicketsIssuedOnce, QueueDepth, NewRuntime
  <2>2. QED
    BY <2>1 DEF Inv, TicketsIssuedOnce, NewRuntime, Waiting
<1>8. QED
  BY <1>2, <1>6, <1>7 DEF Inv

(* A reload of the configuration touches no queue.                         *)
LEMMA ReloadConfigInv ==
  ASSUME Inv, NEW a \in Accounts, ReloadConfig(a)
  PROVE  Inv'
<1>1. TypeOK'
  BY ConfigsAreLimits DEF Inv, TypeOK, ReloadConfig
<1>2. QueueSound' /\ TicketsIssuedOnce'
  BY DEF Inv, ReloadConfig, QueueSound, TicketsIssuedOnce, QueueDepth, Waiting
<1>3. QED
  BY <1>1, <1>2 DEF Inv

(* The invariant holds initially.                                          *)
LEMMA InitInv == Init => Inv
<1> SUFFICES ASSUME Init PROVE Inv
  OBVIOUS
<1>1. <<>> \in Seq(Nat) /\ Len(<<>>) = 0
  BY EmptySeq
<1>2. TypeOK
  BY <1>1, LimitsAssumption, SMT DEF Init, TypeOK, PCs
<1>3. \A a \in Accounts : 1..QueueDepth(a) = {}
  BY <1>1, SMT DEF Init, QueueDepth
<1>4. QueueSound
  BY <1>3 DEF Init, QueueSound, Waiting
<1>5. NoTicket < 0
  BY SMT DEF NoTicket
<1>6. TicketsIssuedOnce
  BY <1>3, <1>5 DEF Init, TicketsIssuedOnce, Waiting
<1>7. QED
  BY <1>2, <1>4, <1>6 DEF Inv

(* The invariant is inductive.                                             *)
LEMMA NextInv == Inv /\ [Next]_vars => Inv'
<1> SUFFICES ASSUME Inv, [Next]_vars PROVE Inv'
  OBVIOUS
<1>1. ASSUME NEW r \in Requests, Select(r) PROVE Inv'
  BY <1>1, SelectInv
<1>2. ASSUME NEW r \in Requests, StartDirectly(r) PROVE Inv'
  BY <1>2, StartDirectlyInv
<1>3. ASSUME NEW r \in Requests, RejectQueueFull(r) PROVE Inv'
  BY <1>3, RejectInv
<1>4. ASSUME NEW r \in Requests, Enqueue(r) PROVE Inv'
  BY <1>4, EnqueueInv
<1>5. ASSUME NEW r \in Requests, StartFromQueue(r) PROVE Inv'
  BY <1>5, StartFromQueueInv
<1>6. ASSUME NEW r \in Requests, WaitAgain(r) PROVE Inv'
  BY <1>6, WaitAgainInv
<1>7. ASSUME NEW r \in Requests, QueueTimeout(r) PROVE Inv'
  BY <1>7, QueueTimeoutInv
<1>8. ASSUME NEW r \in Requests, Cancel(r) PROVE Inv'
  BY <1>8, CancelInv
<1>9. ASSUME NEW r \in Requests, Release(r) PROVE Inv'
  BY <1>9, ReleaseInv
<1>10. ASSUME NEW a \in Accounts, SetState(a) PROVE Inv'
  BY <1>10, SetStateInv
<1>11. ASSUME NEW a \in Accounts, DropRuntime(a) PROVE Inv'
  BY <1>11, DropRuntimeInv
<1>12. ASSUME NEW a \in Accounts, NewRuntime(a) PROVE Inv'
  BY <1>12, NewRuntimeInv
<1>13. ASSUME NEW a \in Accounts, ReloadConfig(a) PROVE Inv'
  BY <1>13, ReloadConfigInv
<1>14. CASE UNCHANGED vars
  BY <1>14 DEF vars, Inv, TypeOK, QueueSound, TicketsIssuedOnce, QueueDepth, Waiting
<1>15. QED
  BY <1>1, <1>2, <1>3, <1>4, <1>5, <1>6, <1>7, <1>8, <1>9, <1>10, <1>11, <1>12, <1>13, <1>14
     DEF Next, Admit, Resume

(* The shapes and types of the pool's state.                               *)
THEOREM TypeCorrect == Spec => []TypeOK
<1>1. Inv => TypeOK
  BY DEF Inv
<1>2. QED
  BY InitInv, NextInv, <1>1, PTL DEF Spec

(* Every waiter keeps its place, deques stay in arrival order, and a       *)
(* request that started or timed out has left its deque.                   *)
THEOREM QueueCorrect == Spec => []QueueSound
<1>1. Inv => QueueSound
  BY DEF Inv
<1>2. QED
  BY InitInv, NextInv, <1>1, PTL DEF Spec

-----------------------------------------------------------------------------
(* The counters.  Holders grow by one in TakeSlot and lose one in Release; *)
(* no other step touches them or the counters.                             *)

(* Only finitely many requests hold a slot.                                *)
LEMMA HoldersFinite ==
  /\ IsFiniteSet(Holders) /\ Cardinality(Holders) \in Nat
  /\ \A a : IsFiniteSet(HoldersOf(a)) /\ Cardinality(HoldersOf(a)) \in Nat
<1>1. Holders \subseteq Requests /\ \A a : HoldersOf(a) \subseteq Requests
  BY DEF Holders, HoldersOf
<1>2. QED
  BY <1>1, FS_Subset, FS_CardinalityType, LimitsAssumption

(* Taking a slot adds one holder, of the account it is taken on.           *)
LEMMA TakeSlotCounts ==
  ASSUME TypeOK, CountersExact, NEW r \in Requests, pc[r] # "holding",
         TakeSlot(r), target' = target
  PROVE  CountersExact'
<1>1. Holders' = Holders \cup {r} /\ r \notin Holders
  BY DEF Holders, TakeSlot, TypeOK
<1>2. globalActive' = Cardinality(Holders')
  BY <1>1, HoldersFinite, FS_AddElement DEF CountersExact, TakeSlot
<1>3. ASSUME NEW a \in Accounts
      PROVE  active'[a] = Cardinality(HoldersOf(a)')
  <2>1. CASE a = target[r]
    <3>1. HoldersOf(a)' = HoldersOf(a) \cup {r} /\ r \notin HoldersOf(a)
      BY <2>1 DEF HoldersOf, TakeSlot, TypeOK
    <3>2. active'[a] = active[a] + 1
      BY <2>1 DEF TakeSlot, TypeOK
    <3>3. Cardinality(HoldersOf(a)') = Cardinality(HoldersOf(a)) + 1
      BY <3>1, HoldersFinite, FS_AddElement
    <3>4. QED
      BY <3>2, <3>3 DEF CountersExact
  <2>2. CASE a # target[r]
    <3>1. HoldersOf(a)' = HoldersOf(a)
      BY <2>2 DEF HoldersOf, TakeSlot, TypeOK
    <3>2. active'[a] = active[a]
      BY <2>2 DEF TakeSlot, TypeOK
    <3>3. QED
      BY <3>1, <3>2 DEF CountersExact
  <2>3. QED
    BY <2>1, <2>2
<1>4. QED
  BY <1>2, <1>3 DEF CountersExact

(* Giving a slot back removes one holder, of the account it was on.        *)
LEMMA ReleaseCounts ==
  ASSUME TypeOK, CountersExact, NEW r \in Requests, Release(r)
  PROVE  CountersExact'
<1>1. Holders' = Holders \ {r} /\ r \in Holders
  BY DEF Holders, Release, TypeOK
<1>2. globalActive' = Cardinality(Holders')
  <2>1. Cardinality(Holders') = Cardinality(Holders) - 1
    BY <1>1, HoldersFinite, FS_RemoveElement
  <2>2. Cardinality(Holders') \in Nat
    BY <1>1, HoldersFinite, FS_RemoveElement, FS_CardinalityType
  <2>3. globalActive > 0
    BY <2>1, <2>2, HoldersFinite, SMT DEF CountersExact
  <2>4. QED
    BY <2>1, <2>3 DEF CountersExact, Release
<1>3. ASSUME NEW a \in Accounts
      PROVE  active'[a] = Cardinality(HoldersOf(a)')
  <2>1. CASE a = target[r]
    <3>1. HoldersOf(a)' = HoldersOf(a) \ {r} /\ r \in HoldersOf(a)
      BY <2>1 DEF HoldersOf, Release, TypeOK
    <3>2. Cardinality(HoldersOf(a)') = Cardinality(HoldersOf(a)) - 1
      BY <3>1, HoldersFinite, FS_RemoveElement
    <3>3. Cardinality(HoldersOf(a)') \in Nat
      BY <3>1, HoldersFinite, FS_RemoveElement, FS_CardinalityType
    <3>4. active[a] > 0
      BY <3>2, <3>3, HoldersFinite, SMT DEF CountersExact
    <3>5. active'[a] = active[a] - 1
      BY <2>1, <3>4 DEF Release, TypeOK
    <3>6. QED
      BY <3>2, <3>5 DEF CountersExact
  <2>2. CASE a # target[r]
    <3>1. HoldersOf(a)' = HoldersOf(a)
      BY <2>2 DEF HoldersOf, Release, TypeOK
    <3>2. active'[a] = active[a]
      BY <2>2 DEF Release, TypeOK
    <3>3. QED
      BY <3>1, <3>2 DEF CountersExact
  <2>3. QED
    BY <2>1, <2>2
<1>4. QED
  BY <1>2, <1>3 DEF CountersExact

(* The steps that neither start nor end a request.                         *)
Bystep(r) ==
  Select(r) \/ RejectQueueFull(r) \/ Enqueue(r) \/ WaitAgain(r)
            \/ QueueTimeout(r) \/ Cancel(r)

(* A step that moves no request in or out of holding leaves the counts     *)
(* alone.                                                                  *)
LEMMA BystepHolders ==
  ASSUME TypeOK, NEW r \in Requests, Bystep(r), woken \subseteq Waiting
  PROVE  /\ Holders' = Holders /\ \A a : HoldersOf(a)' = HoldersOf(a)
         /\ UNCHANGED <<active, globalActive, target>>
<1>1. CASE Select(r)
  BY <1>1 DEF Select, TypeOK, Holders, HoldersOf
<1>2. CASE RejectQueueFull(r)
  BY <1>2 DEF RejectQueueFull, TypeOK, Holders, HoldersOf
<1>3. CASE Enqueue(r)
  BY <1>3 DEF Enqueue, TypeOK, Holders, HoldersOf
<1>4. CASE WaitAgain(r)
  BY <1>4 DEF WaitAgain, TypeOK, Holders, HoldersOf
<1>5. CASE QueueTimeout(r)
  BY <1>5 DEF QueueTimeout, TypeOK, Holders, HoldersOf
<1>6. CASE Cancel(r)
  BY <1>6 DEF Cancel, TypeOK, Holders, HoldersOf
<1>7. QED
  BY <1>1, <1>2, <1>3, <1>4, <1>5, <1>6 DEF Bystep

(* Nobody holds a slot of a runtime that nobody uses, so the counter of a  *)
(* new runtime starts where it stood.                                      *)
LEMMA NewRuntimeHolders ==
  ASSUME TypeOK, CountersExact, NEW a \in Accounts, NewRuntime(a)
  PROVE  /\ Holders' = Holders /\ \A b : HoldersOf(b)' = HoldersOf(b)
         /\ UNCHANGED <<active, globalActive, target>>
<1>1. HoldersOf(a) = {}
  BY DEF NewRuntime, InUse, HoldersOf
<1>2. active[a] = 0
  BY <1>1, FS_EmptySet DEF CountersExact
<1>3. active' = active
  BY <1>2 DEF TypeOK, NewRuntime
<1>4. QED
  BY <1>3 DEF NewRuntime, Holders, HoldersOf

(* Every step starts a request under CanStart, ends one, or is neither.    *)
LEMMA StepKinds ==
  ASSUME Inv, CountersExact, [Next]_vars
  PROVE  \/ \E r \in Requests : /\ pc[r] # "holding" /\ CanStart(target[r])
                                /\ TakeSlot(r) /\ target' = target
                                /\ UNCHANGED maxConcurrency
         \/ \E r \in Requests : Release(r)
         \/ /\ Holders' = Holders /\ \A a : HoldersOf(a)' = HoldersOf(a)
            /\ UNCHANGED <<active, globalActive, target>>
<1>1. ASSUME NEW r \in Requests, StartDirectly(r)
      PROVE  /\ pc[r] # "holding" /\ CanStart(target[r]) /\ TakeSlot(r)
             /\ UNCHANGED <<target, maxConcurrency>>
  BY <1>1 DEF StartDirectly
<1>2. ASSUME NEW r \in Requests, StartFromQueue(r)
      PROVE  /\ pc[r] # "holding" /\ CanStart(target[r]) /\ TakeSlot(r)
             /\ UNCHANGED <<target, maxConcurrency>>
  BY <1>2 DEF StartFromQueue, Inv, TicketsIssuedOnce, Waiting
<1>3. ASSUME NEW r \in Requests, Bystep(r)
      PROVE  /\ Holders' = Holders /\ \A a : HoldersOf(a)' = HoldersOf(a)
             /\ UNCHANGED <<active, globalActive, target>>
  BY <1>3, BystepHolders DEF Inv, TicketsIssuedOnce
<1>4. ASSUME NEW a \in Accounts, SetState(a)
      PROVE  /\ Holders' = Holders /\ \A b : HoldersOf(b)' = HoldersOf(b)
             /\ UNCHANGED <<active, globalActive, target>>
  BY <1>4 DEF SetState, Holders, HoldersOf
<1>5. ASSUME NEW a \in Accounts, DropRuntime(a)
      PROVE  /\ Holders' = Holders /\ \A b : HoldersOf(b)' = HoldersOf(b)
             /\ UNCHANGED <<active, globalActive, target>>
  BY <1>5 DEF DropRuntime, Holders, HoldersOf
<1>6. ASSUME NEW a \in Accounts, NewRuntime(a)
      PROVE  /\ Holders' = Holders /\ \A b : HoldersOf(b)' = HoldersOf(b)
             /\ UNCHANGED <<active, globalActive, target>>
  BY <1>6, NewRuntimeHolders DEF Inv
<1>7. ASSUME NEW a \in Accounts, ReloadConfig(a)
      PROVE  /\ Holders' = Holders /\ \A b : HoldersOf(b)' = HoldersOf(b)
             /\ UNCHANGED <<active, globalActive, target>>
  BY <1>7 DEF ReloadConfig, Holders, HoldersOf
<1>8. CASE UNCHANGED vars
  BY <1>8 DEF vars, Holders, HoldersOf
<1>9. QED
  BY <1>1, <1>2, <1>3, <1>4, <1>5, <1>6, <1>7, <1>8 DEF Next, Admit, Resume, Bystep

(* The counters and the limits are right initially.                        *)
LEMMA CountersInit == Init => CountersExact /\ LimitsRespected
<1> SUFFICES ASSUME Init PROVE CountersExact /\ LimitsRespected
  OBVIOUS
<1>1. Holders = {} /\ \A a : HoldersOf(a) = {}
  BY DEF Init, Holders, HoldersOf
<1>2. Cardinality({}) = 0
  BY FS_EmptySet
<1>3. CountersExact
  BY <1>1, <1>2 DEF Init, CountersExact
<1>4. LimitsRespected
  <2>1. \A a \in Accounts : maxConcurrency[a] \in Nat /\ maxConcurrency \in Configs
    BY LimitsAssumption DEF Init
  <2>2. \A a \in Accounts : 0 <= maxConcurrency[a]
    BY <2>1, SMT
  <2>3. 0 <= GlobalMaxConcurrency
    BY LimitsAssumption, SMT
  <2>4. QED
    BY <1>1, <1>2, <2>1, <2>2, <2>3 DEF LimitsRespected
<1>5. QED
  BY <1>3, <1>4

(* Every step keeps the counters equal to the numbers of holders.          *)
LEMMA CountersStep == Inv /\ CountersExact /\ [Next]_vars => CountersExact'
<1> SUFFICES ASSUME Inv, CountersExact, [Next]_vars PROVE CountersExact'
  OBVIOUS
<1>1. ASSUME NEW r \in Requests, pc[r] # "holding", TakeSlot(r), target' = target
      PROVE  CountersExact'
  BY <1>1, TakeSlotCounts DEF Inv
<1>2. ASSUME NEW r \in Requests, Release(r)
      PROVE  CountersExact'
  BY <1>2, ReleaseCounts DEF Inv
<1>3. CASE /\ Holders' = Holders /\ \A a : HoldersOf(a)' = HoldersOf(a)
           /\ UNCHANGED <<active, globalActive, target>>
  BY <1>3 DEF CountersExact
<1>4. QED
  BY <1>1, <1>2, <1>3, StepKinds

(* Every limit in force is one that some inventory gave.                   *)
LimitsGiven == \A a \in Accounts : \E c \in Configs : maxConcurrency[a] = c[a]

(* Only a new configuration changes a limit.                               *)
LEMMA WhoSetsLimits ==
  ASSUME Inv, [Next]_vars
  PROVE  \/ UNCHANGED maxConcurrency
         \/ \E a \in Accounts :
              /\ SetMaxConcurrency(a)
              /\ ReloadConfig(a) \/ NewRuntime(a)
BY DEF Next, vars, Admit, Resume, Select, StartDirectly, RejectQueueFull, Enqueue,
       StartFromQueue, WaitAgain, QueueTimeout, Cancel, Release, SetState,
       DropRuntime, ReloadConfig, NewRuntime

(* A new configuration gives one account a limit of an inventory.          *)
LEMMA LimitsGivenStep == Inv /\ LimitsGiven /\ [Next]_vars => LimitsGiven'
<1> SUFFICES ASSUME Inv, LimitsGiven, [Next]_vars, NEW b \in Accounts
             PROVE  \E c \in Configs : maxConcurrency'[b] = c[b]
  BY DEF LimitsGiven
<1>1. CASE UNCHANGED maxConcurrency
  BY <1>1 DEF LimitsGiven
<1>2. ASSUME NEW a \in Accounts, SetMaxConcurrency(a)
      PROVE  \E c \in Configs : maxConcurrency'[b] = c[b]
  <2>1. PICK c \in Configs : maxConcurrency' = [maxConcurrency EXCEPT ![a] = c[a]]
    BY <1>2 DEF SetMaxConcurrency
  <2>2. CASE b = a
    BY <2>1, <2>2 DEF Inv, TypeOK
  <2>3. CASE b # a
    BY <2>1, <2>3 DEF Inv, TypeOK, LimitsGiven
  <2>4. QED
    BY <2>2, <2>3
<1>3. QED
  BY <1>1, <1>2, WhoSetsLimits

(* Every step keeps the numbers of holders within both limits.             *)
LEMMA LimitsStep ==
  Inv /\ CountersExact /\ LimitsGiven /\ LimitsRespected /\ [Next]_vars
    => LimitsRespected'
<1> SUFFICES ASSUME Inv, CountersExact, LimitsGiven, LimitsRespected, [Next]_vars
             PROVE  LimitsRespected'
  OBVIOUS
<1>0. CountersExact'
  BY CountersStep
<1>1. ASSUME NEW r \in Requests, CanStart(target[r]), TakeSlot(r), target' = target
      PROVE  LimitsRespected'
  <2>1. globalActive' <= GlobalMaxConcurrency
    BY <1>1, LimitsAssumption, SMT DEF CanStart, TakeSlot, Inv, TypeOK
  <2>2. ASSUME NEW a \in Accounts
        PROVE  \E c \in Configs : active'[a] <= c[a]
    <3>1. CASE a = target[r]
      <4>1. PICK c \in Configs : maxConcurrency[a] = c[a]
        BY DEF LimitsGiven
      <4>2. active[a] \in Nat /\ maxConcurrency[a] \in Nat
        BY DEF Inv, TypeOK
      <4>3. active[a] < maxConcurrency[a] /\ active'[a] = active[a] + 1
        BY <1>1, <3>1 DEF CanStart, TakeSlot, Inv, TypeOK
      <4>4. active'[a] <= maxConcurrency[a]
        BY <4>2, <4>3, SMT
      <4>5. QED
        BY <4>1, <4>4
    <3>2. CASE a # target[r]
      <4>1. active'[a] = active[a]
        BY <1>1, <3>2 DEF TakeSlot, Inv, TypeOK
      <4>2. QED
        BY <4>1 DEF LimitsRespected, CountersExact
    <3>3. QED
      BY <3>1, <3>2
  <2>3. QED
    BY <1>0, <2>1, <2>2 DEF LimitsRespected, CountersExact
<1>2. ASSUME NEW r \in Requests, Release(r)
      PROVE  LimitsRespected'
  <2>1. /\ globalActive' \in Nat /\ globalActive' <= globalActive
        /\ \A a \in Accounts : active'[a] \in Nat /\ active'[a] <= active[a]
    BY <1>2, SMT DEF Release, Inv, TypeOK
  <2>2. globalActive' <= GlobalMaxConcurrency
    BY <2>1, LimitsAssumption, SMT DEF LimitsRespected, CountersExact, Inv, TypeOK
  <2>3. ASSUME NEW a \in Accounts
        PROVE  \E c \in Configs : active'[a] <= c[a]
    <3>1. PICK c \in Configs : active[a] <= c[a]
      BY DEF LimitsRespected, CountersExact
    <3>2. c[a] \in Nat /\ active[a] \in Nat
      BY LimitsAssumption DEF Inv, TypeOK
    <3>3. active'[a] <= c[a]
      BY <2>1, <3>1, <3>2, SMT
    <3>4. QED
      BY <3>3
  <2>4. QED
    BY <1>0, <2>2, <2>3 DEF LimitsRespected, CountersExact
<1>3. CASE /\ Holders' = Holders /\ \A a : HoldersOf(a)' = HoldersOf(a)
           /\ UNCHANGED <<active, globalActive, target>>
  BY <1>3 DEF LimitsRespected
<1>4. QED
  BY <1>1, <1>2, <1>3, StepKinds

(* Both counters always equal the number of requests that hold a slot.     *)
THEOREM CountersCorrect == Spec => []CountersExact
<1>1. Init => Inv /\ CountersExact
  BY InitInv, CountersInit
<1>2. Inv /\ CountersExact /\ [Next]_vars => Inv' /\ CountersExact'
  BY NextInv, CountersStep
<1>3. QED
  BY <1>1, <1>2, PTL DEF Spec

(* The service never runs more than the global limit, and an account never *)
(* more than some inventory allowed it.                                    *)
THEOREM LimitsCorrect == Spec => []LimitsRespected
<1>1. Init => Inv /\ CountersExact /\ LimitsGiven /\ LimitsRespected
  BY InitInv, CountersInit DEF Init, LimitsGiven
<1>2. Inv /\ CountersExact /\ LimitsGiven /\ LimitsRespected /\ [Next]_vars
        => Inv' /\ CountersExact' /\ LimitsGiven' /\ LimitsRespected'
  BY NextInv, CountersStep, LimitsGivenStep, LimitsStep
<1>3. QED
  BY <1>1, <1>2, PTL DEF Spec

-----------------------------------------------------------------------------
(* Refinement: the running requests of Slots are the holders.              *)

(* The abstract sets of running requests have the sizes of the sets of     *)
(* holders.                                                                *)
LEMMA RunningCounts ==
  ASSUME TypeOK
  PROVE  /\ Cardinality(Running) = Cardinality(Holders)
         /\ \A a : Cardinality({p \in Running : p[2] = a}) = Cardinality(HoldersOf(a))
<1>1. ASSUME NEW H, H \subseteq Requests
      PROVE  Cardinality({<<r, target[r]>> : r \in H}) = Cardinality(H)
  <2> DEFINE f == [r \in H |-> <<r, target[r]>>]
             P == {<<r, target[r]>> : r \in H}
  <2>1. f \in Bijection(H, P)
    <3>1. f \in [H -> P]
      OBVIOUS
    <3>2. \A x, y \in H : f[x] = f[y] => x = y
      OBVIOUS
    <3>3. \A p \in P : \E x \in H : f[x] = p
      OBVIOUS
    <3>4. QED
      BY <3>1, <3>2, <3>3 DEF Bijection, Injection, Surjection, IsInjective
  <2>2. ExistsBijection(H, P)
    BY <2>1 DEF ExistsBijection
  <2>3. IsFiniteSet(H)
    BY <1>1, FS_Subset, LimitsAssumption
  <2>4. QED
    BY <2>2, <2>3, FS_Bijection
<1>2. Cardinality(Running) = Cardinality(Holders)
  BY <1>1 DEF Running, Holders
<1>3. ASSUME NEW a
      PROVE  Cardinality({p \in Running : p[2] = a}) = Cardinality(HoldersOf(a))
  <2>1. {p \in Running : p[2] = a} = {<<r, target[r]>> : r \in HoldersOf(a)}
    BY DEF Running, HoldersOf, Holders
  <2>2. QED
    BY <1>1, <2>1 DEF HoldersOf
<1>4. QED
  BY <1>2, <1>3

(* Every step is a start or an end of one running request, or a stutter.   *)
LEMMA StepImplements ==
  Inv /\ CountersExact /\ [Next]_vars => [Bounded!Next]_(Bounded!vars)
<1> SUFFICES ASSUME Inv, CountersExact, [Next]_vars
             PROVE  Bounded!Next \/ UNCHANGED <<Running, maxConcurrency>>
  BY DEF Bounded!vars
<1>1. ASSUME NEW r \in Requests, pc[r] # "holding", CanStart(target[r]),
             TakeSlot(r), UNCHANGED <<target, maxConcurrency>>
      PROVE  Bounded!Next
  <2>1. target[r] \in Accounts /\ \A p \in Running : p[1] # r
    BY <1>1 DEF Inv, TypeOK, Running, Holders
  <2>2. /\ Cardinality({p \in Running : p[2] = target[r]}) < maxConcurrency[target[r]]
        /\ Cardinality(Running) < GlobalMaxConcurrency
    BY <1>1, <2>1, RunningCounts DEF CanStart, CountersExact, Inv
  <2>3. Holders' = Holders \cup {r}
    BY <1>1 DEF Inv, TypeOK, Holders, TakeSlot
  <2>4. Running' = Running \cup {<<r, target[r]>>}
    BY <1>1, <2>3 DEF Running
  <2>5. Bounded!Start(r, target[r])
    BY <1>1, <2>1, <2>2, <2>4 DEF Bounded!Start, Bounded!RunningOn,
         Bounded!Cardinality, Cardinality
  <2>6. QED
    BY <2>1, <2>5 DEF Bounded!Next
<1>2. ASSUME NEW r \in Requests, Release(r)
      PROVE  Bounded!Next
  <2>1. target[r] \in Accounts /\ r \in Holders /\ target' = target
    BY <1>2 DEF Inv, TypeOK, Holders, Release
  <2>2. Holders' = Holders \ {r}
    BY <1>2 DEF Inv, TypeOK, Holders, Release
  <2>3. Running' = Running \ {<<r, target[r]>>} /\ <<r, target[r]>> \in Running
    BY <2>1, <2>2 DEF Running
  <2>4. Bounded!Finish(r, target[r])
    BY <1>2, <2>3 DEF Bounded!Finish, Release
  <2>5. QED
    <3>1. \E q \in Requests, a \in Accounts : Bounded!Finish(q, a)
      BY <2>1, <2>4
    <3>2. QED
      BY <3>1 DEF Bounded!Next
<1>3. CASE /\ Holders' = Holders /\ \A a : HoldersOf(a)' = HoldersOf(a)
           /\ UNCHANGED <<active, globalActive, target>>
  <2>1. Running' = Running
    BY <1>3 DEF Running
  <2>2. ASSUME NEW a \in Accounts, SetMaxConcurrency(a)
        PROVE  Bounded!Next
    <3>1. Bounded!SetLimit(a)
      BY <2>1, <2>2 DEF Bounded!SetLimit, SetMaxConcurrency
    <3>2. QED
      BY <3>1 DEF Bounded!Next
  <2>3. QED
    BY <2>1, <2>2, WhoSetsLimits
<1>4. QED
  BY <1>1, <1>2, <1>3, StepKinds

(* Admission with its counters, deques and wake-ups implements the         *)
(* abstract bound on running requests.                                     *)
THEOREM AdmissionImplementsSlots == Spec => ImplementsSlots
<1>1. Init => Inv /\ CountersExact
  BY InitInv, CountersInit
<1>2. Inv /\ CountersExact /\ [Next]_vars => Inv' /\ CountersExact'
  BY NextInv, CountersStep
<1>3. Init => Bounded!Init
  BY DEF Init, Bounded!Init, Running, Holders
<1>4. QED
  BY <1>1, <1>2, <1>3, StepImplements, PTL DEF Spec, ImplementsSlots, Bounded!Spec

-----------------------------------------------------------------------------
(* FIFO among the queued requests.                                         *)

(* The ticket at the head of a deque is the smallest one in it.            *)
LEMMA HeadIsOldest ==
  ASSUME Inv, NEW r \in Requests, pc[r] = "waiting", AtHead(r),
         NEW s \in Waiting, s # r, target[s] = target[r]
  PROVE  ticket[r] < ticket[s]
<1> DEFINE q == waiters[target[r]]
<1>1. q \in Seq(Nat) /\ Len(q) \in Nat /\ Increasing(q) /\ Contains(q, ticket[s])
  BY QueueIncreasing, LenProperties DEF Inv, QueueSound
<1>2. ticket[s] # ticket[r]
  BY DEF Inv, TicketsIssuedOnce, Waiting
<1>3. q[1] = ticket[r]
  BY DEF AtHead
<1> HIDE DEF q
<1>4. PICK i \in 1..Len(q) : q[i] = ticket[s]
  BY <1>1 DEF Contains
<1>5. i # 1
  BY <1>2, <1>3, <1>4
<1>6. 1 \in 1..Len(q) /\ 1 < i
  BY <1>1, <1>5, SMT
<1>7. QED
  BY <1>1, <1>3, <1>4, <1>6 DEF Increasing

(* No step lets a waiter start before an earlier one of the same account.  *)
LEMMA NobodyOvertakes ==
  ASSUME Inv, [Next]_vars, NEW r \in Waiting, NEW s \in Waiting,
         pc'[r] = "holding", target[r] = target[s], pc'[s] = "waiting"
  PROVE  ticket[r] < ticket[s]
<1>0. r \in Requests /\ pc[r] = "waiting" /\ r # s
  BY DEF Waiting
<1>1. ASSUME NEW t \in Requests, StartFromQueue(t)
      PROVE  ticket[r] < ticket[s]
  <2>1. r = t
    BY <1>0, <1>1 DEF StartFromQueue, TakeSlot, Inv, TypeOK
  <2>2. QED
    BY <1>0, <1>1, <2>1, HeadIsOldest DEF StartFromQueue
<1>2. ASSUME NEW t \in Requests, Bystep(t)
      PROVE  FALSE
  BY <1>0, <1>2 DEF Bystep, Select, RejectQueueFull, Enqueue, WaitAgain,
     QueueTimeout, Cancel, Inv, TypeOK
<1>3. ASSUME NEW t \in Requests, StartDirectly(t)
      PROVE  FALSE
  BY <1>0, <1>3 DEF StartDirectly, TakeSlot, Inv, TypeOK
<1>4. ASSUME NEW t \in Requests, Release(t)
      PROVE  FALSE
  BY <1>0, <1>4 DEF Release, Inv, TypeOK
<1>5. ASSUME NEW a \in Accounts, SetState(a) \/ DropRuntime(a) \/ ReloadConfig(a) \/ NewRuntime(a)
      PROVE  FALSE
  BY <1>0, <1>5 DEF SetState, DropRuntime, ReloadConfig, NewRuntime
<1>6. CASE UNCHANGED vars
  BY <1>0, <1>6 DEF vars
<1>7. QED
  BY <1>1, <1>2, <1>3, <1>4, <1>5, <1>6 DEF Next, Admit, Resume, Bystep

(* A queued request never starts before one that queued earlier on the     *)
(* same account and still waits.                                           *)
THEOREM QueueIsFifo == Spec => NoOvertakingInQueue
<1>1. Inv /\ [Next]_vars =>
        [\A r, s \in Waiting :
           pc'[r] = "holding" /\ target[r] = target[s] /\ pc'[s] = "waiting"
             => ticket[r] < ticket[s]]_vars
  BY NobodyOvertakes
<1>2. QED
  BY <1>1, InitInv, NextInv, PTL DEF Spec, NoOvertakingInQueue
-----------------------------------------------------------------------------
(* Wake-ups while nothing fails.  Every step of SteadySpec is one of Spec, *)
(* so the invariants above hold there too.                                 *)

HeadsAreWoken ==
  \A r \in Waiting : CanStart(target[r]) /\ AtHead(r) => r \in woken

SteadyInv == Inv /\ CountersExact /\ HeadsAreWoken /\ NoStrayTicket

(* A steady step is a step of the pool.                                    *)
LEMMA SteadyIsNext == [SteadyNext]_vars => [Next]_vars
BY DEF SteadyNext, Next

(* A step that wakes everyone who then waits wakes every head.             *)
LEMMA AllWoken ==
  ASSUME Waiting' \subseteq woken'
  PROVE  HeadsAreWoken'
BY DEF HeadsAreWoken

(* The head of a deque keeps its place when another ticket is appended.    *)
LEMMA HeadStays ==
  ASSUME Inv, NEW r \in Requests, Enqueue(r), NEW s \in Waiting, AtHead(s)'
  PROVE  AtHead(s) /\ s # r
<1>1. s \in Requests /\ pc[s] = "waiting" /\ s # r
  BY DEF Waiting, Enqueue
<1>2. /\ target' = target /\ ticket'[s] = ticket[s]
      /\ waiters' = [waiters EXCEPT ![target[r]] = Append(@, ticketCounter)]
  BY <1>1 DEF Enqueue, Inv, TypeOK
<1>3. /\ waiters[target[s]] \in Seq(Nat) /\ ticketCounter \in Nat
      /\ target[s] \in Accounts /\ target[r] \in Accounts
      /\ Contains(waiters[target[s]], ticket[s])
  BY <1>1 DEF Inv, TypeOK, QueueSound
<1>4. 1 \in 1..Len(waiters[target[s]])
  <2>1. Len(waiters[target[s]]) \in Nat
    BY <1>3, LenProperties
  <2>2. PICK i \in 1..Len(waiters[target[s]]) : TRUE
    BY <1>3 DEF Contains
  <2>3. QED
    BY <2>1, <2>2, SMT
<1>5. waiters'[target[s]][1] = waiters[target[s]][1]
  <2>1. CASE target[s] = target[r]
    <3>1. waiters'[target[s]] = Append(waiters[target[s]], ticketCounter)
      BY <1>2, <1>3, <2>1 DEF Inv, TypeOK
    <3>2. QED
      BY <1>3, <1>4, <3>1, AppendProperties
  <2>2. CASE target[s] # target[r]
    BY <1>2, <1>3, <2>2 DEF Inv, TypeOK
  <2>3. QED
    BY <2>1, <2>2
<1>6. QED
  BY <1>1, <1>2, <1>5 DEF AtHead

(* No steady step leaves the head of a deque asleep when it could start.   *)
LEMMA WokenStep ==
  ASSUME Inv, HeadsAreWoken, [SteadyNext]_vars
  PROVE  HeadsAreWoken'
<1>1. ASSUME NEW r \in Requests, Select(r) \/ RejectQueueFull(r)
      PROVE  HeadsAreWoken'
  <2>1. Waiting' = Waiting
    BY <1>1 DEF Waiting, Select, RejectQueueFull, Inv, TypeOK
  <2>2. UNCHANGED <<maxConcurrency, routable, active, globalActive, waiters,
                    target, ticket, woken>>
    BY <1>1 DEF Select, RejectQueueFull
  <2>3. QED
    BY <2>1, <2>2 DEF HeadsAreWoken, CanStart, AtHead
<1>2. ASSUME NEW r \in Requests, TakeSlot(r)
      PROVE  HeadsAreWoken'
  <2>1. Waiting' \subseteq woken'
    BY <1>2 DEF TakeSlot, Waiting, Inv, TypeOK
  <2>2. QED
    BY <2>1, AllWoken
<1>3. ASSUME NEW r \in Requests, Release(r)
      PROVE  HeadsAreWoken'
  <2>1. Waiting' \subseteq woken'
    BY <1>3 DEF Release, Waiting, Inv, TypeOK
  <2>2. QED
    BY <2>1, AllWoken
<1>4. ASSUME NEW r \in Requests, Enqueue(r)
      PROVE  HeadsAreWoken'
  <2> SUFFICES ASSUME NEW s \in Waiting', CanStart(target[s])', AtHead(s)'
               PROVE  s \in woken'
    BY DEF HeadsAreWoken
  <2>1. /\ UNCHANGED <<maxConcurrency, routable, active, globalActive, target, woken>>
        /\ ~CanStart(target[r]) /\ Waiting' = Waiting \cup {r}
    BY <1>4 DEF Enqueue, Waiting, Inv, TypeOK
  <2>2. CanStart(target[s])
    BY <2>1 DEF CanStart
  <2>3. s \in Waiting
    BY <2>1, <2>2
  <2>4. AtHead(s)
    BY <1>4, <2>3, HeadStays
  <2>5. QED
    BY <2>1, <2>2, <2>3, <2>4 DEF HeadsAreWoken
<1>5. ASSUME NEW r \in Requests, WaitAgain(r)
      PROVE  HeadsAreWoken'
  <2>1. Waiting' = Waiting
    BY <1>5 DEF Waiting, WaitAgain
  <2>2. /\ UNCHANGED <<maxConcurrency, routable, active, globalActive, waiters,
                       target, ticket>>
        /\ woken' = woken \ {r} /\ ~(CanStart(target[r]) /\ AtHead(r))
    BY <1>5 DEF WaitAgain
  <2>3. QED
    BY <2>1, <2>2 DEF HeadsAreWoken, CanStart, AtHead
<1>6. CASE UNCHANGED vars
  BY <1>6 DEF vars, HeadsAreWoken, Waiting, CanStart, AtHead
<1>7. QED
  BY <1>1, <1>2, <1>3, <1>4, <1>5, <1>6
     DEF SteadyNext, Admit, Resume, StartDirectly, StartFromQueue

(* The tickets of a deque keep their owners when nobody leaves or joins a  *)
(* deque.                                                                  *)
LEMMA OwnersStay ==
  ASSUME Inv, NoStrayTicket, Waiting \subseteq Waiting',
         UNCHANGED <<routable, waiters, target, ticket>>
  PROVE  NoStrayTicket'
BY DEF NoStrayTicket, QueueDepth

(* A waiter that starts takes its ticket along; one that queues brings one *)
(* that is its own.                                                        *)
LEMMA StrayStep ==
  ASSUME Inv, NoStrayTicket, [SteadyNext]_vars
  PROVE  NoStrayTicket'
<1>1. ASSUME NEW r \in Requests,
             Select(r) \/ RejectQueueFull(r) \/ WaitAgain(r) \/ Release(r)
      PROVE  NoStrayTicket'
  <2>1. Waiting \subseteq Waiting'
    BY <1>1 DEF Waiting, Select, RejectQueueFull, WaitAgain, Release, Inv, TypeOK
  <2>2. UNCHANGED <<routable, waiters, target, ticket>>
    BY <1>1 DEF Select, RejectQueueFull, WaitAgain, Release
  <2>3. QED
    BY <2>1, <2>2, OwnersStay
<1>2. ASSUME NEW r \in Requests, StartDirectly(r)
      PROVE  NoStrayTicket'
  <2>1. Waiting \subseteq Waiting'
    BY <1>2 DEF Waiting, StartDirectly, TakeSlot, Inv, TypeOK
  <2>2. QED
    BY <1>2, <2>1, OwnersStay DEF StartDirectly
<1>3. ASSUME NEW r \in Requests, StartFromQueue(r)
      PROVE  NoStrayTicket'
  <2>1. pc[r] = "waiting" /\ AtHead(r) /\ Waiting' = Waiting \ {r}
        /\ waiters' = [waiters EXCEPT ![target[r]] = Tail(waiters[target[r]])]
        /\ UNCHANGED <<routable, target, ticket>>
    BY <1>3 DEF StartFromQueue, TakeSlot, Waiting, Inv, TypeOK, TicketsIssuedOnce
  <2> SUFFICES ASSUME NEW a \in Accounts, NEW i \in 1..Len(waiters'[a])
               PROVE  \E s \in Waiting' : target'[s] = a /\ ticket'[s] = waiters'[a][i]
    BY <2>1 DEF NoStrayTicket, QueueDepth
  <2>2. CASE a = target[r]
    <3>1. waiters'[a] = Tail(waiters[target[r]])
      BY <2>1, <2>2 DEF Inv, TypeOK
    <3>2. Contains(Tail(waiters[target[r]]), waiters'[a][i])
      BY <3>1 DEF Contains
    <3>3. Contains(waiters[a], waiters'[a][i]) /\ waiters'[a][i] # ticket[r]
      BY <2>1, <2>2, <3>2, HeadLeaves
    <3>4. PICK s \in Waiting : target[s] = a /\ ticket[s] = waiters'[a][i]
      BY <3>3 DEF Contains, NoStrayTicket, QueueDepth
    <3>5. QED
      BY <2>1, <3>3, <3>4
  <2>3. CASE a # target[r]
    <3>1. waiters'[a] = waiters[a]
      BY <2>1, <2>3 DEF Inv, TypeOK
    <3>2. PICK s \in Waiting : target[s] = a /\ ticket[s] = waiters'[a][i]
      BY <3>1 DEF NoStrayTicket, QueueDepth
    <3>3. QED
      BY <2>1, <2>3, <3>2
  <2>4. QED
    BY <2>2, <2>3
<1>4. ASSUME NEW r \in Requests, Enqueue(r)
      PROVE  NoStrayTicket'
  <2>1. /\ Waiting' = Waiting \cup {r} /\ r \notin Waiting
        /\ waiters' = [waiters EXCEPT ![target[r]] = Append(waiters[target[r]], ticketCounter)]
        /\ ticket'[r] = ticketCounter
        /\ \A s \in Waiting : ticket'[s] = ticket[s]
        /\ UNCHANGED <<routable, target>>
    BY <1>4 DEF Enqueue, Waiting, Inv, TypeOK
  <2> SUFFICES ASSUME NEW a \in Accounts, NEW i \in 1..Len(waiters'[a])
               PROVE  \E s \in Waiting' : target[s] = a /\ ticket'[s] = waiters'[a][i]
    BY <2>1 DEF NoStrayTicket, QueueDepth
  <2>2. ASSUME i \in 1..Len(waiters[a]), waiters'[a][i] = waiters[a][i]
        PROVE  \E s \in Waiting' : target[s] = a /\ ticket'[s] = waiters'[a][i]
    <3>1. PICK s \in Waiting : target[s] = a /\ ticket[s] = waiters[a][i]
      BY <2>2 DEF NoStrayTicket, QueueDepth
    <3>2. QED
      BY <2>1, <2>2, <3>1
  <2>3. CASE a = target[r]
    <3>1. waiters[a] \in Seq(Nat) /\ ticketCounter \in Nat /\ Len(waiters[a]) \in Nat
      BY LenProperties DEF Inv, TypeOK
    <3>2. waiters'[a] = Append(waiters[a], ticketCounter)
      BY <2>1, <2>3 DEF Inv, TypeOK
    <3>3. /\ Len(waiters'[a]) = Len(waiters[a]) + 1
          /\ \A j \in 1..Len(waiters[a]) : waiters'[a][j] = waiters[a][j]
          /\ waiters'[a][Len(waiters[a]) + 1] = ticketCounter
      BY <3>1, <3>2, AppendProperties
    <3>4. i \in 1..Len(waiters[a]) \/ i = Len(waiters[a]) + 1
      BY <3>1, <3>3, SMT
    <3>5. CASE i = Len(waiters[a]) + 1
      BY <2>1, <2>3, <3>3, <3>5
    <3>6. QED
      BY <2>2, <3>3, <3>4, <3>5
  <2>4. CASE a # target[r]
    <3>1. waiters'[a] = waiters[a]
      BY <2>1, <2>4 DEF Inv, TypeOK
    <3>2. QED
      BY <2>2, <3>1
  <2>5. QED
    BY <2>3, <2>4
<1>5. CASE UNCHANGED vars
  BY <1>5 DEF vars, NoStrayTicket, QueueDepth, Waiting
<1>6. QED
  BY <1>1, <1>2, <1>3, <1>4, <1>5 DEF SteadyNext, Admit, Resume

(* Whoever waits has a head of its deque before it, or is that head.       *)
LEMMA DequeHasHead ==
  ASSUME Inv, NoStrayTicket, NEW r \in Waiting
  PROVE  \E s \in Waiting : target[s] = target[r] /\ AtHead(s)
<1> DEFINE q == waiters[target[r]]
<1>1. r \in Requests /\ target[r] \in Accounts
  BY DEF Waiting, Inv, TypeOK
<1>2. q \in Seq(Nat) /\ Contains(q, ticket[r]) /\ Len(q) \in Nat
  BY <1>1, LenProperties DEF Inv, TypeOK, QueueSound
<1>3. 1 \in 1..Len(q)
  <2>1. PICK i \in 1..Len(q) : TRUE
    BY <1>2 DEF Contains
  <2>2. QED
    BY <1>2, <2>1, SMT
<1>4. PICK s \in Waiting : target[s] = target[r] /\ ticket[s] = q[1]
  BY <1>1, <1>3 DEF NoStrayTicket, QueueDepth
<1>5. QED
  BY <1>4 DEF AtHead

(* The steady invariant excludes lost wake-ups and standing queues: with   *)
(* no holder the counters are zero, so the head could start and is woken.  *)
LEMMA NobodyStands == SteadyInv => NoLostWakeup
<1> SUFFICES ASSUME SteadyInv,
                    NEW r \in Waiting, GlobalMaxConcurrency > 0,
                    maxConcurrency[target[r]] > 0, Holders = {}
             PROVE  \E s \in woken : target[s] = target[r] /\ AtHead(s)
  BY DEF SteadyInv, HeadsAreWoken, NoLostWakeup
<1>1. PICK s \in Waiting : target[s] = target[r] /\ AtHead(s)
  BY DequeHasHead DEF SteadyInv
<1>2. target[s] \in Accounts /\ routable[target[s]]
  BY DEF Waiting, SteadyInv, Inv, TypeOK, NoStrayTicket
<1>3. active[target[s]] = 0 /\ globalActive = 0
  <2>1. HoldersOf(target[s]) = {}
    BY DEF Holders, HoldersOf
  <2>2. QED
    BY <1>2, <2>1, FS_EmptySet DEF SteadyInv, CountersExact
<1>4. CanStart(target[s])
  BY <1>1, <1>2, <1>3 DEF CanStart, SteadyInv, Inv, TypeOK
<1>5. QED
  BY <1>1, <1>4 DEF SteadyInv, HeadsAreWoken

(* While nothing fails no wake-up is lost, and the queues never stand      *)
(* still.                                                                  *)
THEOREM NoWakeupIsLost == SteadySpec => []NoLostWakeup
<1>1. SteadyInit => SteadyInv
  <2> SUFFICES ASSUME SteadyInit PROVE SteadyInv
    OBVIOUS
  <2>1. Inv /\ CountersExact
    BY InitInv, CountersInit DEF SteadyInit
  <2>2. Waiting = {} /\ Len(<<>>) = 0 /\ waiters = [a \in Accounts |-> <<>>]
        /\ routable = [a \in Accounts |-> TRUE]
    BY EmptySeq DEF SteadyInit, Init, Waiting
  <2>3. \A a \in Accounts : 1..QueueDepth(a) = {}
    BY <2>2, SMT DEF QueueDepth
  <2>4. QED
    BY <2>1, <2>2, <2>3 DEF SteadyInv, HeadsAreWoken, NoStrayTicket
<1>2. SteadyInv /\ [SteadyNext]_vars => SteadyInv'
  BY SteadyIsNext, NextInv, CountersStep, WokenStep, StrayStep DEF SteadyInv
<1>3. QED
  BY <1>1, <1>2, NobodyStands, PTL DEF SteadySpec
=============================================================================
