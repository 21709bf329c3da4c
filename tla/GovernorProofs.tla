--------------------------- MODULE GovernorProofs ----------------------------
(***************************************************************************)
(* For any finite set of requests, any limits and any queue wait: the      *)
(* semaphores of Governor count exactly the requests that hold them, and   *)
(* Governor keeps the promise of Admission.                                *)
(***************************************************************************)
EXTENDS Governor, FiniteSetTheorems, TLAPS

IInv == TypeOK /\ SlotAccounting /\ WorkConserving /\ QueuesAreTheParked

-----------------------------------------------------------------------------
(* Slots and who holds them. *)

LEMMA SlotFacts ==
  /\ \A r \in Requests : UserSlot(r) \in Slots /\ ConnSlot(r) \in Slots
  /\ \A a, b \in Requests : UserSlot(a) # ConnSlot(b)
  /\ \A r \in Requests : Capacity(UserSlot(r)) = MaxPerUser
  /\ \A r \in Requests : Capacity(ConnSlot(r)) = MaxPerConnection
  /\ \A s \in Slots : Capacity(s) \in Nat
  /\ \A r \in Requests : Wanted(r) \in Slots
BY GovernorAssumption DEF Slots, UserSlot, ConnSlot, Capacity, Wanted, Anybody

LEMMA HoldersFinite ==
  \A s : Holders(s) \subseteq Requests /\ IsFiniteSet(Holders(s))
<1> TAKE s
<1>1. Holders(s) \subseteq Requests
  BY DEF Holders
<1> QED
  BY <1>1, GovernorAssumption, FS_Subset

\* A queue without its i-th member is a queue of the others, in their order.
LEMMA WithoutFacts ==
  ASSUME NEW S, NEW q \in Seq(S), NEW i \in 1 .. Len(q)
  PROVE  /\ Without(q, i) \in Seq(S)
         /\ Len(Without(q, i)) = Len(q) - 1
         /\ \A j \in 1 .. Len(q) - 1 :
              Without(q, i)[j] = IF j < i THEN q[j] ELSE q[j + 1]
         /\ q # <<>>
BY DEF Without

-----------------------------------------------------------------------------
(* Frames: what a step that moves some requests leaves true. *)

LEMMA QueuesKept ==
  ASSUME TypeOK, QueuesAreTheParked, waitq' = waitq,
         \A q \in Requests, s \in Slots : ParkedFor(q, s)' <=> ParkedFor(q, s)
  PROVE  QueuesAreTheParked'
<1> SUFFICES ASSUME NEW s \in Slots
             PROVE  QueueIsTheParked(s)'
  BY DEF QueuesAreTheParked, Slots, UserSlot, ConnSlot
<1>1. \A i \in DOMAIN waitq[s] : waitq[s][i] \in Requests
  BY DEF TypeOK
<1>2. QueueIsTheParked(s)
  BY DEF QueuesAreTheParked
<1> QED
  BY <1>1, <1>2 DEF QueueIsTheParked

\* The semaphores keep counting their holders when one request joins or leaves
\* the holders of one slot and its count follows.
LEMMA CountFollows ==
  ASSUME TypeOK, SlotAccounting, NEW w \in Slots, NEW n \in Nat,
         used' = [used EXCEPT ![w] = n],
         n = Cardinality(Holders(w)'), n <= Capacity(w),
         \A s \in Slots : s # w => Holders(s)' = Holders(s)
  PROVE  SlotAccounting'
<1> SUFFICES ASSUME NEW s \in Slots
             PROVE  used'[s] = Cardinality(Holders(s)') /\ used'[s] <= Capacity(s)
  BY DEF SlotAccounting, Slots, UserSlot, ConnSlot, Capacity
<1>1. CASE s = w
  BY <1>1 DEF TypeOK
<1>2. CASE s # w
  BY <1>2 DEF TypeOK, SlotAccounting
<1> QED
  BY <1>1, <1>2

\* A step that moves one request without touching a slot or a queue keeps the
\* invariant, when the request holds the same slots and is parked nowhere
\* before and after.
LEMMA QuietMove ==
  ASSUME IInv, NEW r \in Requests, NEW p \in Phases,
         pc' = [pc EXCEPT ![r] = p],
         pc[r] \notin Parked, p \notin Parked,
         UNCHANGED <<used, waitq, waited>>,
         gone' \in [Requests -> BOOLEAN],
         HasUserSlot(r)' <=> HasUserSlot(r),
         HasConnSlot(r)' <=> HasConnSlot(r)
  PROVE  IInv'
<1> USE DEF IInv
<1>1. TypeOK'
  BY DEF TypeOK
<1>2. \A s : Holders(s)' = Holders(s)
  BY DEF TypeOK, Holders, Holds, HasUserSlot, HasConnSlot, UserSlot, ConnSlot
<1>3. SlotAccounting'
  BY <1>2 DEF SlotAccounting, Capacity, Slots
<1>4. WorkConserving'
  BY DEF WorkConserving, Free
<1>5. \A q \in Requests, s \in Slots : ParkedFor(q, s)' <=> ParkedFor(q, s)
  BY DEF TypeOK, ParkedFor, Parked, UserSlot, ConnSlot
<1>6. QueuesAreTheParked'
  BY <1>5, QueuesKept
<1> QED
  BY <1>1, <1>3, <1>4, <1>6

LEMMA TakeStep ==
  ASSUME IInv, NEW r \in Requests, Take(r),
         pc[r] \in {"u_try", "u_slow", "c_try", "c_slow"}
  PROVE  IInv'
<1> USE DEF IInv
<1>0. PICK w \in Slots : w = Wanted(r)
  BY SlotFacts
<1>a. PICK n \in Nat : n = used[w] + 1
  BY DEF TypeOK
<1>1. used[w] \in Nat /\ used[w] < Capacity(w)
  BY <1>0 DEF Take, TypeOK, Free
<1>2. /\ used' = [used EXCEPT ![w] = n]
      /\ pc' = [pc EXCEPT ![r] = Gained(r)]
      /\ UNCHANGED <<waitq, gone, waited>>
  BY <1>0, <1>a DEF Take
<1>3. TypeOK'
  BY <1>1, <1>2 DEF TypeOK, Gained, Phases, Acquiring, ConnPhases
<1>4. \A q \in Requests : q # r => pc'[q] = pc[q]
  BY <1>2 DEF TypeOK
<1>5. \A s \in Slots : Holds(r, s)' <=> (Holds(r, s) \/ s = w)
  <2>1. CASE pc[r] \in {"u_try", "u_slow"}
    BY <1>0, <1>2, <2>1, SlotFacts DEF TypeOK, Holds, HasUserSlot, HasConnSlot, Wanted, Gained,
         UserPhases, UserSlot, ConnSlot
  <2>2. CASE pc[r] \in {"c_try", "c_slow"}
    BY <1>0, <1>2, <2>2, SlotFacts DEF TypeOK, Holds, HasUserSlot, HasConnSlot, Wanted, Gained,
         UserPhases, UserSlot, ConnSlot
  <2> QED
    BY <2>1, <2>2
<1>6. \A q \in Requests, s \in Slots : q # r => (Holds(q, s)' <=> Holds(q, s))
  BY <1>4 DEF Holds, HasUserSlot, HasConnSlot, UserSlot, ConnSlot
<1>7. ~Holds(r, w)
  BY <1>0, SlotFacts DEF Holds, HasUserSlot, HasConnSlot, Wanted, UserPhases
<1>8. Holders(w)' = Holders(w) \cup {r} /\ r \notin Holders(w)
  BY <1>1, <1>5, <1>6, <1>7 DEF Holders
<1>9. \A s \in Slots : s # w => Holders(s)' = Holders(s)
  BY <1>5, <1>6 DEF Holders
<1>10. Cardinality(Holders(w)') = n
  BY <1>a, <1>8, HoldersFinite, FS_AddElement DEF SlotAccounting
<1>11. n <= Capacity(w)
  BY <1>a, <1>1, SlotFacts
<1>12. SlotAccounting'
  BY <1>1, <1>2, <1>9, <1>10, <1>11, CountFollows
<1>13. waitq[w] = <<>>
  BY <1>1 DEF WorkConserving, Free
<1>14. WorkConserving'
  BY <1>1, <1>2, <1>13 DEF WorkConserving, TypeOK, Free, Slots, UserSlot, ConnSlot, Capacity
<1>15. \A q \in Requests, s \in Slots : ParkedFor(q, s)' <=> ParkedFor(q, s)
  BY <1>2, <1>4 DEF TypeOK, ParkedFor, Gained, UserSlot, ConnSlot
<1>16. QueuesAreTheParked'
  BY <1>2, <1>15, QueuesKept
<1> QED
  BY <1>3, <1>12, <1>14, <1>16

\* Who holds what does not change when nobody's phase crosses an acquisition.
LEMMA HoldersKept ==
  ASSUME TypeOK, SlotAccounting, used' = used,
         \A q \in Requests : /\ HasUserSlot(q)' <=> HasUserSlot(q)
                             /\ HasConnSlot(q)' <=> HasConnSlot(q)
  PROVE  SlotAccounting'
<1>1. \A s : Holders(s)' = Holders(s)
  BY DEF Holders, Holds, UserSlot, ConnSlot
<1> QED
  BY <1>1 DEF SlotAccounting, Capacity, Slots

\* Parking behind a full slot.
LEMMA ParkStep ==
  ASSUME IInv, NEW r \in Requests, pc[r] \in {"u_slow", "c_slow"},
         ~Free(Wanted(r)),
         waitq' = [waitq EXCEPT ![Wanted(r)] = Append(@, r)],
         pc' = [pc EXCEPT ![r] = IF @ = "u_slow" THEN "u_wait" ELSE "c_wait"],
         UNCHANGED <<used, gone, waited>>
  PROVE  IInv'
<1> USE DEF IInv
<1>0. PICK w \in Slots : w = Wanted(r)
  BY SlotFacts
<1>1. waitq[w] \in Seq(Requests) /\ waitq' = [waitq EXCEPT ![w] = Append(waitq[w], r)]
  BY <1>0 DEF TypeOK
<1>b. Append(waitq[w], r) \in Seq(Requests)
  BY <1>1
<1>2. waitq' \in [Slots -> Seq(Requests)]
  BY <1>1, <1>b DEF TypeOK
<1>3. TypeOK'
  BY <1>2 DEF TypeOK, Phases, Acquiring, UserPhases, ConnPhases
<1>4. \A q \in Requests : q # r => pc'[q] = pc[q]
  BY DEF TypeOK
<1>5. pc'[r] = IF pc[r] = "u_slow" THEN "u_wait" ELSE "c_wait"
  BY DEF TypeOK
<1>6. \A q \in Requests : /\ HasUserSlot(q)' <=> HasUserSlot(q)
                          /\ HasConnSlot(q)' <=> HasConnSlot(q)
  BY <1>4, <1>5 DEF HasUserSlot, HasConnSlot, UserPhases
<1>7. SlotAccounting'
  BY <1>6, HoldersKept
<1>8. WorkConserving'
  BY <1>0, <1>1 DEF WorkConserving, Free, TypeOK, Slots, UserSlot, ConnSlot, Capacity
<1>9. \A s \in Slots : ParkedFor(r, s)' <=> s = w
  BY <1>0, <1>5, SlotFacts DEF ParkedFor, Wanted, UserPhases, UserSlot, ConnSlot
<1>10. \A q \in Requests, s \in Slots : q # r => (ParkedFor(q, s)' <=> ParkedFor(q, s))
  BY <1>4 DEF ParkedFor, UserSlot, ConnSlot
<1>11. \A s \in Slots : ~ParkedFor(r, s)
  BY DEF ParkedFor
<1>12. ASSUME NEW s \in Slots
       PROVE  QueueIsTheParked(s)'
  <2>1. waitq[s] \in Seq(Requests)
    BY DEF TypeOK
  <2>2. QueueIsTheParked(s) /\ \A i \in DOMAIN waitq[s] : waitq[s][i] \in Requests
    BY <2>1 DEF QueuesAreTheParked
  <2>3. \A i \in DOMAIN waitq[s] : waitq[s][i] # r
    BY <2>2, <1>11 DEF QueueIsTheParked
  <2>4. CASE s # w
    <3>1. waitq'[s] = waitq[s]
      BY <1>1, <2>4 DEF TypeOK
    <3> QED
      BY <3>1, <2>2, <2>3, <2>4, <1>9, <1>10 DEF QueueIsTheParked
  <2>5. CASE s = w
    <3>1. waitq'[s] = Append(waitq[s], r)
      BY <1>1, <2>5 DEF TypeOK
    <3>2. /\ DOMAIN waitq'[s] = 1 .. Len(waitq[s]) + 1
          /\ \A i \in DOMAIN waitq[s] : waitq'[s][i] = waitq[s][i]
          /\ waitq'[s][Len(waitq[s]) + 1] = r
          /\ DOMAIN waitq[s] = 1 .. Len(waitq[s])
          /\ Len(waitq[s]) \in Nat
      BY <3>1, <2>1
    <3>3. \A i \in DOMAIN waitq'[s] : waitq'[s][i] = r \/ (i \in DOMAIN waitq[s] /\ waitq'[s][i] = waitq[s][i])
      BY <3>2
    <3> QED
      BY <3>2, <3>3, <2>2, <2>3, <2>5, <1>9, <1>10 DEF QueueIsTheParked
  <2> QED
    BY <2>4, <2>5
<1>13. QueuesAreTheParked'
  BY <1>12 DEF QueuesAreTheParked, Slots, UserSlot, ConnSlot
<1> QED
  BY <1>3, <1>7, <1>8, <1>13

\* Taking the i-th request out of a queue, when that request is parked no more
\* and nobody else's parking changes.
LEMMA DequeueKeepsQueues ==
  ASSUME TypeOK, QueuesAreTheParked, NEW w \in Slots, NEW i \in DOMAIN waitq[w],
         waitq' = [waitq EXCEPT ![w] = Without(waitq[w], i)],
         NEW h \in Requests, h = waitq[w][i],
         \A s \in Slots : ~ParkedFor(h, s)',
         \A q \in Requests, s \in Slots :
           q # h => (ParkedFor(q, s)' <=> ParkedFor(q, s))
  PROVE  waitq' \in [Slots -> Seq(Requests)] /\ QueuesAreTheParked'
<1>1. waitq[w] \in Seq(Requests) /\ i \in 1 .. Len(waitq[w])
  BY DEF TypeOK
<1>2. /\ Without(waitq[w], i) \in Seq(Requests)
      /\ Len(Without(waitq[w], i)) = Len(waitq[w]) - 1
      /\ \A j \in 1 .. Len(waitq[w]) - 1 : Without(waitq[w], i)[j] =
           IF j < i THEN waitq[w][j] ELSE waitq[w][j + 1]
  <2>1. PICK o \in Seq(Requests) : o = waitq[w]
    BY <1>1
  <2> QED
    BY <1>1, <2>1, WithoutFacts
<1>3. waitq' \in [Slots -> Seq(Requests)]
  BY <1>2 DEF TypeOK
<1>5. ASSUME NEW s \in Slots, s # w
      PROVE  QueueIsTheParked(s)'
  <2>1. waitq'[s] = waitq[s] /\ waitq[s] \in Seq(Requests)
    BY <1>5 DEF TypeOK
  <2>2. QueueIsTheParked(s) /\ QueueIsTheParked(w)
    BY DEF QueuesAreTheParked
  <2>3. ParkedFor(h, w)
    BY <2>2 DEF QueueIsTheParked
  <2>4. ~ParkedFor(h, s)
    BY <1>1, <1>5, <2>3, SlotFacts DEF ParkedFor
  <2> QED
    BY <2>1, <2>2, <2>4 DEF QueueIsTheParked
<1>6. QueueIsTheParked(w)'
  <2>1. QueueIsTheParked(w)
    BY DEF QueuesAreTheParked
  <2>2. PICK o : o = waitq[w]
    OBVIOUS
  <2>3. PICK k : k = Without(o, i)
    OBVIOUS
  <2>4. waitq'[w] = k
    BY <2>2, <2>3 DEF TypeOK
  <2>5. /\ o \in Seq(Requests) /\ k \in Seq(Requests) /\ i \in 1 .. Len(o)
        /\ Len(k) = Len(o) - 1 /\ Len(o) \in Nat
        /\ DOMAIN o = 1 .. Len(o) /\ DOMAIN k = 1 .. Len(o) - 1
        /\ \A j \in 1 .. Len(o) - 1 : k[j] = IF j < i THEN o[j] ELSE o[j + 1]
        /\ h = o[i]
    <3>1. /\ o \in Seq(Requests) /\ k \in Seq(Requests) /\ i \in 1 .. Len(o)
          /\ Len(k) = Len(o) - 1 /\ h = o[i]
          /\ \A j \in 1 .. Len(o) - 1 : k[j] = IF j < i THEN o[j] ELSE o[j + 1]
      BY <1>1, <1>2, <2>2, <2>3
    <3> QED
      BY <3>1
  <2>6. /\ \A a \in DOMAIN o : ParkedFor(o[a], w)
        /\ \A a, b \in DOMAIN o : o[a] = o[b] => a = b
        /\ \A q \in Requests : ParkedFor(q, w) => \E a \in DOMAIN o : o[a] = q
    BY <2>1, <2>2 DEF QueueIsTheParked
  <2>7. \A j \in DOMAIN k : k[j] # h /\ k[j] \in Requests /\ ParkedFor(k[j], w)
    <3> SUFFICES ASSUME NEW j \in DOMAIN k
                 PROVE  k[j] # h /\ k[j] \in Requests /\ ParkedFor(k[j], w)
      OBVIOUS
    <3>1. PICK x \in DOMAIN o : k[j] = o[x] /\ x # i
      BY <2>5
    <3> QED
      BY <2>5, <2>6, <3>1
  <2>8. \A a, b \in DOMAIN k : k[a] = k[b] => a = b
    <3> SUFFICES ASSUME NEW a \in DOMAIN k, NEW b \in DOMAIN k, k[a] = k[b]
                 PROVE  a = b
      OBVIOUS
    <3>1. PICK x \in DOMAIN o : k[a] = o[x] /\ x = IF a < i THEN a ELSE a + 1
      BY <2>5
    <3>2. PICK y \in DOMAIN o : k[b] = o[y] /\ y = IF b < i THEN b ELSE b + 1
      BY <2>5
    <3>3. x = y
      BY <2>6, <3>1, <3>2
    <3> QED
      BY <2>5, <3>1, <3>2, <3>3
  <2>9. ASSUME NEW q \in Requests, q # h, ParkedFor(q, w)
        PROVE  \E j \in DOMAIN k : k[j] = q
    <3>1. PICK a \in DOMAIN o : o[a] = q
      BY <2>6, <2>9
    <3>2. CASE a < i
      BY <2>5, <3>1, <3>2
    <3>3. CASE a > i
      <4>1. a - 1 \in DOMAIN k /\ ~(a - 1 < i) /\ (a - 1) + 1 = a
        BY <2>5, <3>3
      <4> QED
        BY <2>5, <3>1, <4>1
    <3> QED
      BY <2>5, <2>9, <3>1, <3>2, <3>3
  <2> QED
    BY <2>4, <2>7, <2>8, <2>9 DEF QueueIsTheParked
<1> QED
  BY <1>3, <1>5, <1>6 DEF QueuesAreTheParked, Slots, UserSlot, ConnSlot

\* A parked request gives up.
LEMMA LeaveStep ==
  ASSUME IInv, NEW r \in Requests, pc[r] \in Parked, Leave(r)
  PROVE  IInv'
<1> USE DEF IInv
<1>0. PICK w \in Slots : w = Wanted(r)
  BY SlotFacts
<1>1. PICK i \in DOMAIN waitq[w] :
        /\ waitq[w][i] = r
        /\ waitq' = [waitq EXCEPT ![w] = Without(waitq[w], i)]
  BY <1>0 DEF Leave
<1>2. /\ pc' = [pc EXCEPT ![r] = Failed(r)]
      /\ waited' = [waited EXCEPT ![r] = 0]
      /\ UNCHANGED <<used, gone>>
  BY DEF Leave
<1>3. pc'[r] = Failed(r) /\ \A q \in Requests : q # r => pc'[q] = pc[q]
  BY <1>2 DEF TypeOK
<1>4. \A q \in Requests, s \in Slots : q # r => (ParkedFor(q, s)' <=> ParkedFor(q, s))
  BY <1>3 DEF ParkedFor, UserSlot, ConnSlot
<1>5. \A s \in Slots : ~ParkedFor(r, s)'
  BY <1>3 DEF ParkedFor, Failed
<1>6. waitq' \in [Slots -> Seq(Requests)] /\ QueuesAreTheParked'
  BY <1>1, <1>4, <1>5, DequeueKeepsQueues
<1>7. TypeOK'
  BY <1>2, <1>6 DEF TypeOK, Failed, Phases
<1>8. \A q \in Requests : /\ HasUserSlot(q)' <=> HasUserSlot(q)
                          /\ HasConnSlot(q)' <=> HasConnSlot(q)
  BY <1>3 DEF HasUserSlot, HasConnSlot, UserPhases, Failed, Parked
<1>9. SlotAccounting'
  BY <1>2, <1>8, HoldersKept
<1>10. \A s \in Slots : waitq'[s] # <<>> => waitq[s] # <<>>
  <2>1. waitq[w] # <<>>
    BY <1>1
  <2> QED
    BY <1>1, <2>1 DEF TypeOK
<1>11. WorkConserving'
  BY <1>2, <1>10 DEF WorkConserving, Free, Slots, UserSlot, ConnSlot, Capacity
<1> QED
  BY <1>6, <1>7, <1>9, <1>11

\* A place is given back: by ReleaseConn or by ReleaseUser.
GivesBack(r, s, next) ==
  \/ s = ConnSlot(r) /\ next = "unwind" /\ pc[r] = "running"
  \/ s = UserSlot(r) /\ next = "idle" /\ pc[r] \in {"unwind", "refund"}

LEMMA ReceiveStep ==
  ASSUME IInv, NEW r \in Requests, NEW w \in Slots, NEW next \in Phases,
         GivesBack(r, w, next), Receive(w, r, next), UNCHANGED gone
  PROVE  IInv'
<1> USE DEF IInv
<1>1. next \in {"idle", "unwind"} /\ Holds(r, w) /\ \A s \in Slots : ~ParkedFor(r, s)
  BY SlotFacts DEF GivesBack, Holds, HasUserSlot, HasConnSlot, ParkedFor, UserPhases
<1>2. r \in Holders(w) /\ used[w] = Cardinality(Holders(w)) /\ used[w] <= Capacity(w)
  BY <1>1 DEF Holders, SlotAccounting
<1>3. CASE waitq[w] = <<>>
  <2>1. PICK n : n = used[w] - 1
    OBVIOUS
  <2>2. /\ used' = [used EXCEPT ![w] = n]
        /\ pc' = [pc EXCEPT ![r] = next]
        /\ UNCHANGED <<waitq, waited, gone>>
    BY <1>3, <2>1 DEF Receive
  <2>3. pc'[r] = next /\ \A q \in Requests : q # r => pc'[q] = pc[q]
    BY <2>2 DEF TypeOK
  <2>4. \A s \in Slots : Holds(r, s)' <=> (Holds(r, s) /\ s # w)
    BY <2>3, SlotFacts DEF GivesBack, Holds, HasUserSlot, HasConnSlot, UserPhases, UserSlot, ConnSlot
  <2>5. \A q \in Requests, s \in Slots : q # r => (Holds(q, s)' <=> Holds(q, s))
    BY <2>3 DEF Holds, HasUserSlot, HasConnSlot, UserSlot, ConnSlot
  <2>6. Holders(w)' = Holders(w) \ {r}
    BY <2>4, <2>5 DEF Holders
  <2>7. \A s \in Slots : s # w => Holders(s)' = Holders(s)
    BY <2>4, <2>5 DEF Holders
  <2>8. Cardinality(Holders(w)') = Cardinality(Holders(w)) - 1 /\ Cardinality(Holders(w)) \in Nat \ {0}
    BY <1>2, <2>6, HoldersFinite, FS_RemoveElement, FS_CardinalityType, FS_EmptySet
  <2>9. n \in Nat /\ n = Cardinality(Holders(w)') /\ n <= Capacity(w)
    BY <1>2, <2>1, <2>8, SlotFacts
  <2>10. SlotAccounting'
    BY <2>2, <2>7, <2>9, CountFollows
  <2>11. TypeOK'
    BY <2>2, <2>9 DEF TypeOK
  <2>12. WorkConserving'
    BY <1>3, <2>2 DEF WorkConserving, Free, TypeOK, Slots, UserSlot, ConnSlot, Capacity
  <2>13. \A q \in Requests, s \in Slots : ParkedFor(q, s)' <=> ParkedFor(q, s)
    BY <1>1, <2>3 DEF ParkedFor, UserSlot, ConnSlot
  <2>14. QueuesAreTheParked'
    BY <2>2, <2>13, QueuesKept
  <2> QED
    BY <2>10, <2>11, <2>12, <2>14
<1>4. CASE waitq[w] # <<>>
  <2>1. PICK h \in Requests : h = Head(waitq[w]) /\ h = waitq[w][1] /\ 1 \in DOMAIN waitq[w]
    BY <1>4 DEF TypeOK
  <2>2. ParkedFor(h, w) /\ h # r
    BY <1>1, <2>1 DEF QueuesAreTheParked, QueueIsTheParked
  <2>3. /\ waitq' = [waitq EXCEPT ![w] = Tail(waitq[w])]
        /\ pc' = [pc EXCEPT ![r] = next, ![h] = Gained(h)]
        /\ waited' = [waited EXCEPT ![h] = 0]
        /\ UNCHANGED <<used, gone>>
    BY <1>4, <2>1 DEF Receive
  <2>4. Tail(waitq[w]) = Without(waitq[w], 1)
    <3>1. PICK o \in Seq(Requests) : o = waitq[w]
      BY DEF TypeOK
    <3> QED
      BY <1>4, <3>1 DEF Without
  <2>5. waitq' = [waitq EXCEPT ![w] = Without(waitq[w], 1)]
    BY <2>3, <2>4
  <2>6. /\ pc'[r] = next /\ pc'[h] = Gained(h)
        /\ \A q \in Requests : q # r /\ q # h => pc'[q] = pc[q]
    BY <2>2, <2>3 DEF TypeOK
  <2>7. Gained(h) \in {"c_try", "granted"}
    BY DEF Gained
  <2>8. \A q \in Requests, s \in Slots : q # h => (ParkedFor(q, s)' <=> ParkedFor(q, s))
    BY <1>1, <2>6 DEF ParkedFor, UserSlot, ConnSlot
  <2>9. \A s \in Slots : ~ParkedFor(h, s)'
    BY <2>6, <2>7 DEF ParkedFor
  <2>10. waitq' \in [Slots -> Seq(Requests)] /\ QueuesAreTheParked'
    BY <2>1, <2>5, <2>8, <2>9, DequeueKeepsQueues
  <2>11. TypeOK'
    BY <2>3, <2>7, <2>10 DEF TypeOK, Phases, Acquiring, ConnPhases
  <2>12. \A s \in Slots : Holds(r, s)' <=> (Holds(r, s) /\ s # w)
    BY <2>6, SlotFacts DEF GivesBack, Holds, HasUserSlot, HasConnSlot, UserPhases, UserSlot, ConnSlot
  <2>13. \A s \in Slots : Holds(h, s)' <=> (Holds(h, s) \/ s = w)
    BY <2>2, <2>6, SlotFacts DEF ParkedFor, Gained, Holds, HasUserSlot, HasConnSlot, UserPhases, UserSlot, ConnSlot
  <2>14. \A q \in Requests, s \in Slots : q # r /\ q # h => (Holds(q, s)' <=> Holds(q, s))
    BY <2>6 DEF Holds, HasUserSlot, HasConnSlot, UserSlot, ConnSlot
  <2>15. h \notin Holders(w)
    BY <2>2, SlotFacts DEF Holders, Holds, HasUserSlot, HasConnSlot, ParkedFor, UserPhases
  <2>16. Holders(w)' = (Holders(w) \ {r}) \cup {h}
    BY <2>2, <2>12, <2>13, <2>14 DEF Holders
  <2>17. \A s \in Slots : s # w => Holders(s)' = Holders(s)
    BY <2>12, <2>13, <2>14 DEF Holders
  <2>18. Cardinality(Holders(w) \ {r}) = Cardinality(Holders(w)) - 1 /\ IsFiniteSet(Holders(w) \ {r})
    BY <1>2, HoldersFinite, FS_RemoveElement
  <2>19. Cardinality(Holders(w)') = Cardinality(Holders(w))
    <3>1. Cardinality((Holders(w) \ {r}) \cup {h}) = Cardinality(Holders(w) \ {r}) + 1
      BY <2>15, <2>18, FS_AddElement
    <3>2. Cardinality(Holders(w)) \in Nat
      BY HoldersFinite, FS_CardinalityType
    <3>3. Cardinality(Holders(w)') = Cardinality((Holders(w) \ {r}) \cup {h})
      BY <2>16
    <3> QED
      BY <2>18, <3>1, <3>2, <3>3
  <2>20. PICK n \in Nat : n = used[w]
    BY DEF TypeOK
  <2>21. used' = [used EXCEPT ![w] = n]
    BY <2>3, <2>20 DEF TypeOK
  <2>22. SlotAccounting'
    BY <1>2, <2>17, <2>19, <2>20, <2>21, CountFollows
  <2>23. \A s \in Slots : waitq'[s] # <<>> => waitq[s] # <<>>
    <3>1. waitq'[w] = Tail(waitq[w]) /\ \A s \in Slots : s # w => waitq'[s] = waitq[s]
      BY <2>3 DEF TypeOK
    <3> QED
      BY <1>4, <3>1
  <2>24. WorkConserving'
    BY <2>3, <2>23 DEF WorkConserving, Free, Slots, UserSlot, ConnSlot, Capacity
  <2> QED
    BY <2>10, <2>11, <2>22, <2>24
<1> QED
  BY <1>3, <1>4

LEMMA TickStep ==
  ASSUME IInv, Tick
  PROVE  IInv'
<1> USE DEF IInv
<1>1. UNCHANGED <<pc, used, waitq, gone>>
  BY DEF Tick
<1>2. waited' \in [Requests -> Nat] 
  BY DEF Tick, TypeOK
<1>3. TypeOK'
  BY <1>1, <1>2 DEF TypeOK
<1>4. SlotAccounting'
  BY <1>1, HoldersKept DEF HasUserSlot, HasConnSlot
<1>5. WorkConserving'
  BY <1>1 DEF WorkConserving, Free, Slots, UserSlot, ConnSlot, Capacity
<1>6. QueuesAreTheParked'
  BY <1>1, QueuesKept DEF ParkedFor, UserSlot, ConnSlot
<1> QED
  BY <1>3, <1>4, <1>5, <1>6

-----------------------------------------------------------------------------
(* The invariant. *)

LEMMA InitIInv == Init => IInv
<1> SUFFICES ASSUME Init PROVE IInv
  OBVIOUS
<1>1. TypeOK
  BY DEF Init, TypeOK, Phases
<1>2. \A s : Holders(s) = {}
  BY DEF Init, Holders, Holds, HasUserSlot, HasConnSlot
<1>3. SlotAccounting
  <2> SUFFICES ASSUME NEW s \in Slots
               PROVE  used[s] = Cardinality(Holders(s)) /\ used[s] <= Capacity(s)
    BY DEF SlotAccounting
  <2>1. used[s] = 0 /\ Cardinality(Holders(s)) = 0
    BY <1>2, FS_EmptySet DEF Init
  <2>2. Capacity(s) \in Nat
    BY SlotFacts
  <2> QED
    BY <2>1, <2>2
<1>4. WorkConserving
  BY DEF Init, WorkConserving
<1>5. QueuesAreTheParked
  BY DEF Init, QueuesAreTheParked, QueueIsTheParked, ParkedFor
<1> QED
  BY <1>1, <1>3, <1>4, <1>5 DEF IInv

LEMMA StepIInv ==
  ASSUME IInv, NEW r \in Requests, Step(r)
  PROVE  IInv'
<1>1. CASE Admit(r)
  BY <1>1, QuietMove DEF Admit, IInv, TypeOK, HasUserSlot, HasConnSlot, UserPhases,
       Phases, Acquiring, Parked
<1>2. CASE TryFast(r)
  <2>1. CASE Take(r)
    BY <1>2, <2>1, TakeStep DEF TryFast
  <2>2. CASE ~Take(r)
    BY <1>2, <2>2, QuietMove DEF TryFast, IInv, TypeOK, HasUserSlot, HasConnSlot,
         UserPhases, ConnPhases, Phases, Acquiring, Parked
  <2> QED
    BY <2>1, <2>2
<1>3. CASE Select(r)
  <2>1. CASE Take(r)
    BY <1>3, <2>1, TakeStep DEF Select
  <2>2. CASE gone[r] /\ ~Take(r)
    BY <1>3, <2>2, QuietMove DEF Select, Failed, IInv, TypeOK, HasUserSlot, HasConnSlot,
         UserPhases, ConnPhases, Phases, Acquiring, Parked
  <2>3. CASE ~gone[r] /\ ~Take(r)
    BY <1>3, <2>3, ParkStep DEF Select
  <2> QED
    BY <2>1, <2>2, <2>3
<1>4. CASE Timeout(r)
  BY <1>4, LeaveStep DEF Timeout
<1>5. CASE Abandon(r)
  BY <1>5, LeaveStep DEF Abandon
<1>6. CASE Cancel(r)
  <2>1. TypeOK' /\ WorkConserving'
    BY <1>6 DEF Cancel, IInv, TypeOK, WorkConserving, Free, Slots, UserSlot, ConnSlot, Capacity
  <2>2. SlotAccounting'
    BY <1>6, HoldersKept DEF Cancel, IInv, HasUserSlot, HasConnSlot
  <2>3. QueuesAreTheParked'
    BY <1>6, QueuesKept DEF Cancel, IInv, ParkedFor, UserSlot, ConnSlot
  <2> QED
    BY <2>1, <2>2, <2>3 DEF IInv
<1>7. CASE Admitted(r)
  BY <1>7, QuietMove DEF Admitted, IInv, TypeOK, HasUserSlot, HasConnSlot, UserPhases,
       Phases, Acquiring, Parked
<1>8. CASE ReleaseConn(r)
  BY <1>8, SlotFacts, ReceiveStep DEF ReleaseConn, GivesBack, Phases
<1>9. CASE ReleaseUser(r)
  BY <1>9, SlotFacts, ReceiveStep DEF ReleaseUser, GivesBack, Phases
<1> QED
  BY <1>1, <1>2, <1>3, <1>4, <1>5, <1>6, <1>7, <1>8, <1>9 DEF Step

LEMMA NextIInv == IInv /\ [Next]_vars => IInv'
<1> SUFFICES ASSUME IInv, [Next]_vars PROVE IInv'
  OBVIOUS
<1>1. CASE Tick
  BY <1>1, TickStep
<1>2. CASE \E r \in Requests : Step(r)
  BY <1>2, StepIInv
<1>3. CASE UNCHANGED vars
  <2>1. TypeOK' /\ WorkConserving'
    BY <1>3 DEF vars, IInv, TypeOK, WorkConserving, Free, Slots, UserSlot, ConnSlot, Capacity
  <2>2. SlotAccounting'
    BY <1>3, HoldersKept DEF vars, IInv, HasUserSlot, HasConnSlot
  <2>3. QueuesAreTheParked'
    BY <1>3, QueuesKept DEF vars, IInv, ParkedFor, UserSlot, ConnSlot
  <2> QED
    BY <2>1, <2>2, <2>3 DEF IInv
<1> QED
  BY <1>1, <1>2, <1>3 DEF Next

\* The inductive invariant holds in every reachable state: the part the other
\* theorems rest on.
THEOREM Inductive == Spec => []IInv
<1> QED
  BY InitIInv, NextIInv, PTL DEF Spec

\* Every variable of Governor keeps its type.
THEOREM TypeCorrect == Spec => []TypeOK
<1>1. IInv => TypeOK
  BY DEF IInv
<1> QED
  BY <1>1, Inductive, PTL

\* The semaphores count their holders exactly and never exceed their limits,
\* for any number of requests, users and connections.
THEOREM SlotsAccountedFor == Spec => []SlotAccounting
<1>1. IInv => SlotAccounting
  BY DEF IInv
<1> QED
  BY <1>1, Inductive, PTL

\* No free place ever coexists with somebody parked for it.
THEOREM NoLostWakeup == Spec => []WorkConserving
<1>1. IInv => WorkConserving
  BY DEF IInv
<1> QED
  BY <1>1, Inductive, PTL

\* The queues hold exactly the parked requests, each once.
THEOREM QueuesExact == Spec => []QueuesAreTheParked
<1>1. IInv => QueuesAreTheParked
  BY DEF IInv
<1> QED
  BY <1>1, Inductive, PTL

-----------------------------------------------------------------------------
(* What follows from the invariant. *)

LEMMA FootprintHolds == IInv => UserFootprint
<1> SUFFICES ASSUME IInv, NEW r \in Requests
             PROVE  Cardinality({q \in Requests :
                      /\ UserSlot(q) = UserSlot(r)
                      /\ pc[q] \in ConnPhases \cup {"granted", "running"}}) <= MaxPerUser
  BY DEF UserFootprint
<1> DEFINE F == {q \in Requests : /\ UserSlot(q) = UserSlot(r)
                                  /\ pc[q] \in ConnPhases \cup {"granted", "running"}}
<1>1. F \subseteq Holders(UserSlot(r))
  BY DEF Holders, Holds, HasUserSlot, UserPhases, ConnPhases
<1>2. /\ Cardinality(Holders(UserSlot(r))) <= MaxPerUser
      /\ Cardinality(Holders(UserSlot(r))) \in Nat
  BY SlotFacts, HoldersFinite, FS_CardinalityType DEF IInv, SlotAccounting
<1>3. Cardinality(F) <= Cardinality(Holders(UserSlot(r))) /\ Cardinality(F) \in Nat
  BY <1>1, HoldersFinite, FS_Subset, FS_CardinalityType
<1> HIDE DEF F
<1>4. Cardinality(F) <= MaxPerUser
  BY <1>2, <1>3, GovernorAssumption
<1> QED
  BY <1>4 DEF F

\* What one user has running on, or queued for, a connection is within their
\* limit, so queueing behind their own queries takes nothing from the source.
THEOREM FootprintBounded == Spec => []UserFootprint
<1> QED
  BY FootprintHolds, Inductive, PTL

LEMMA AloneHolds == IInv => NobodyTakesAConnectionAlone
<1> SUFFICES ASSUME IInv, MaxPerUser < MaxPerConnection,
                    NEW r \in Requests, pc[r] = "c_wait",
                    \A a, b \in Holders(ConnSlot(r)) : UserOf[a] = UserOf[b]
             PROVE  FALSE
  BY DEF NobodyTakesAConnectionAlone
<1> DEFINE H == Holders(ConnSlot(r))
<1>1. waitq[ConnSlot(r)] # <<>>
  <2>1. ParkedFor(r, ConnSlot(r)) /\ QueueIsTheParked(ConnSlot(r))
    BY SlotFacts DEF ParkedFor, IInv, QueuesAreTheParked
  <2> QED
    BY <2>1 DEF QueueIsTheParked
<1>2. Cardinality(H) >= MaxPerConnection
  BY <1>1, SlotFacts, GovernorAssumption
     DEF IInv, WorkConserving, SlotAccounting, Free, TypeOK
<1>3. PICK a : a \in H
  BY <1>2, GovernorAssumption, FS_EmptySet
<1>4. a \in Requests /\ H \subseteq Holders(UserSlot(a))
  BY <1>3, SlotFacts DEF Holders, Holds, HasUserSlot, HasConnSlot, UserSlot, ConnSlot, UserPhases
<1>5. /\ Cardinality(Holders(UserSlot(a))) <= MaxPerUser
      /\ Cardinality(Holders(UserSlot(a))) \in Nat
  BY <1>4, SlotFacts, HoldersFinite, FS_CardinalityType DEF IInv, SlotAccounting
<1>6. Cardinality(H) <= Cardinality(Holders(UserSlot(a))) /\ Cardinality(H) \in Nat
  BY <1>4, HoldersFinite, FS_Subset, FS_CardinalityType
<1> HIDE DEF H
<1> QED
  BY <1>2, <1>5, <1>6, GovernorAssumption

\* While the per-user limit is the smaller one, nobody waits for a connection
\* that one person has filled alone.
THEOREM NobodyAlone == Spec => []NobodyTakesAConnectionAlone
<1> QED
  BY AloneHolds, Inductive, PTL

LEMMA NoOvertakingStep ==
  ASSUME IInv, [Next]_vars, NEW s \in Slots,
         NEW i \in DOMAIN waitq[s], NEW j \in DOMAIN waitq[s], i < j,
         pc'[waitq[s][j]] = Gained(waitq[s][j])
  PROVE  pc'[waitq[s][i]] # pc[waitq[s][i]]
<1>1. PICK b \in Requests : b = waitq[s][j] /\ ParkedFor(b, s)
  BY DEF IInv, TypeOK, QueuesAreTheParked, QueueIsTheParked
<1>2. pc[b] \in Parked /\ pc'[b] \in {"c_try", "granted"}
  BY <1>1 DEF Gained, ParkedFor, Parked
<1>3. j # 1 /\ j \in 1 .. Len(waitq[s]) /\ i \in 1 .. Len(waitq[s])
  BY DEF IInv, TypeOK
<1>4. ASSUME NEW r \in Requests, NEW w \in Slots, NEW next \in Phases,
             GivesBack(r, w, next), Receive(w, r, next)
      PROVE  FALSE
  <2>1. r # b /\ next \notin Parked
    BY <1>2, <1>4 DEF GivesBack, Parked
  <2>2. waitq[w] # <<>> /\ b = Head(waitq[w])
    BY <1>2, <1>4, <2>1 DEF Receive, IInv, TypeOK, Parked
  <2>3. 1 \in DOMAIN waitq[w] /\ b = waitq[w][1]
    BY <2>2 DEF IInv, TypeOK
  <2>4. ParkedFor(b, w)
    BY <2>3 DEF IInv, QueuesAreTheParked, QueueIsTheParked
  <2>5. w = s
    BY <1>1, <2>4, SlotFacts DEF ParkedFor
  <2> QED
    <3>1. QueueIsTheParked(s)
      BY DEF IInv, QueuesAreTheParked
    <3>2. waitq[s][1] = waitq[s][j] /\ 1 \in DOMAIN waitq[s]
      BY <1>1, <2>3, <2>5
    <3> QED
      BY <1>3, <3>1, <3>2 DEF QueueIsTheParked
<1>5. ASSUME NEW r \in Requests, Step(r)
      PROVE  FALSE
  <2>1. CASE Admit(r) \/ TryFast(r) \/ Select(r) \/ Cancel(r) \/ Admitted(r)
    <3>1. pc[r] \notin Parked \/ pc' = pc
      BY <2>1 DEF Admit, TryFast, Select, Cancel, Admitted, Parked
    <3>2. \A q \in Requests : q # r => pc'[q] = pc[q]
      BY <2>1 DEF Admit, TryFast, Select, Cancel, Admitted, Take, IInv, TypeOK
    <3> QED
      BY <1>2, <3>1, <3>2 DEF Parked
  <2>2. CASE Timeout(r) \/ Abandon(r)
    BY <1>2, <2>2 DEF Timeout, Abandon, Leave, Failed, Parked, IInv, TypeOK
  <2>3. CASE ReleaseConn(r)
    BY <1>4, <2>3, SlotFacts DEF ReleaseConn, GivesBack, Phases
  <2>4. CASE ReleaseUser(r)
    BY <1>4, <2>4, SlotFacts DEF ReleaseUser, GivesBack, Phases
  <2> QED
    BY <1>5, <2>1, <2>2, <2>3, <2>4 DEF Step
<1>6. CASE Tick \/ UNCHANGED vars
  BY <1>2, <1>6 DEF Tick, vars, Parked
<1> QED
  BY <1>5, <1>6 DEF Next

\* Slots are handed over first come, first served.
THEOREM FirstComeFirstServed == Spec => NoOvertaking
<1>1. IInv /\ [Next]_vars =>
        [\A s \in Slots : \A i, j \in DOMAIN waitq[s] :
           LET ahead == waitq[s][i]  behind == waitq[s][j] IN
           i < j /\ pc'[behind] = Gained(behind) => pc'[ahead] # pc[ahead]]_vars
  BY NoOvertakingStep
<1> QED
  BY <1>1, Inductive, PTL DEF Spec, NoOvertaking

-----------------------------------------------------------------------------
(* Governor implements Admission. *)

LEMMA SameCardinality == \A S : Promise!Cardinality(S) = Cardinality(S)
BY DEF Promise!Cardinality, Cardinality

LEMMA PhaseOfFacts ==
  ASSUME TypeOK
  PROVE  /\ \A r \in Requests : phaseOf[r] = "running" <=> pc[r] = "running"
         /\ \A r \in Requests : phaseOf[r] = "idle" <=> pc[r] \in {"idle", "unwind"}
         /\ \A r \in Requests : phaseOf[r] = "waiting" <=>
              pc[r] \in Acquiring \cup {"refund", "granted"}
         /\ phaseOf \in [Requests -> {"idle", "waiting", "running"}]
BY DEF TypeOK, phaseOf, Phase, Phases, Acquiring, UserPhases, ConnPhases

\* A request that holds both slots finds room for itself among the running.
LEMMA RoomForGranted ==
  ASSUME IInv, NEW r \in Requests, pc[r] = "granted"
  PROVE  /\ Cardinality(Promise!OnConnection(ConnOf[r])) < MaxPerConnection
         /\ Cardinality(Promise!OfUser(UserOf[r], ConnOf[r])) < MaxPerUser
<1> DEFINE C == Promise!OnConnection(ConnOf[r])
           U == Promise!OfUser(UserOf[r], ConnOf[r])
<1>1. C \cup {r} \subseteq Holders(ConnSlot(r)) /\ r \notin C
  BY PhaseOfFacts, SlotFacts DEF IInv, Promise!OnConnection, Promise!Running, Holders, Holds,
     HasConnSlot, ConnSlot
<1>2. U \cup {r} \subseteq Holders(UserSlot(r)) /\ r \notin U
  BY PhaseOfFacts, SlotFacts DEF IInv, Promise!OfUser, Promise!OnConnection, Promise!Running,
     Holders, Holds, HasUserSlot, UserSlot, UserPhases
<1>3. /\ Cardinality(Holders(ConnSlot(r))) <= MaxPerConnection
      /\ Cardinality(Holders(UserSlot(r))) <= MaxPerUser
  BY SlotFacts DEF IInv, SlotAccounting
<1> HIDE DEF C, U
<1>4. ASSUME NEW S, NEW H, S \cup {r} \subseteq H, r \notin S, IsFiniteSet(H),
             NEW n \in Nat, Cardinality(H) <= n
      PROVE  Cardinality(S) < n
  <2>1. IsFiniteSet(S) /\ IsFiniteSet(S \cup {r})
    BY <1>4, FS_Subset
  <2>2. Cardinality(S \cup {r}) = Cardinality(S) + 1
    BY <1>4, <2>1, FS_AddElement
  <2>3. Cardinality(S \cup {r}) <= Cardinality(H)
    BY <1>4, FS_Subset
  <2>4. Cardinality(S) \in Nat /\ Cardinality(H) \in Nat
    BY <1>4, <2>1, FS_CardinalityType
  <2> QED
    BY <1>4, <2>2, <2>3, <2>4
<1>5. Cardinality(C) < MaxPerConnection
  BY <1>1, <1>3, <1>4, HoldersFinite, GovernorAssumption
<1>6. Cardinality(U) < MaxPerUser
  BY <1>2, <1>3, <1>4, HoldersFinite, GovernorAssumption
<1> QED
  BY <1>5, <1>6 DEF C, U

\* One request moving between phases is one step of the promise.
LEMMA PhaseMove ==
  ASSUME IInv, IInv', NEW r \in Requests,
         \A q \in Requests : q # r => phaseOf'[q] = phaseOf[q]
  PROVE  phaseOf' = [phaseOf EXCEPT ![r] = phaseOf'[r]]
BY PhaseOfFacts DEF IInv, phaseOf

\* Where a step can leave the requests, as far as the promise can tell.
LEMMA OthersStay ==
  ASSUME IInv, IInv', NEW r \in Requests, Step(r)
  PROVE  \A q \in Requests : q # r => phaseOf'[q] = phaseOf[q]
<1> SUFFICES ASSUME NEW q \in Requests, q # r
             PROVE  phaseOf'[q] = phaseOf[q]
  OBVIOUS
<1>1. \/ pc'[q] = pc[q]
      \/ pc[q] \in Parked /\ pc'[q] \in {"c_try", "granted"}
  <2>1. CASE \/ Admit(r) \/ TryFast(r) \/ Select(r) \/ Cancel(r) \/ Admitted(r)
             \/ Timeout(r) \/ Abandon(r)
    BY <2>1 DEF Admit, TryFast, Take, Select, Cancel, Admitted, Timeout, Abandon, Leave, IInv, TypeOK
  <2>2. ASSUME NEW w \in Slots, NEW next, Receive(w, r, next)
        PROVE  \/ pc'[q] = pc[q]
               \/ pc[q] \in Parked /\ pc'[q] \in {"c_try", "granted"}
    <3>1. CASE waitq[w] = <<>>
      BY <2>2, <3>1 DEF Receive, IInv, TypeOK
    <3>2. CASE waitq[w] # <<>>
      <4>1. PICK h \in Requests : h = Head(waitq[w]) /\ h = waitq[w][1] /\ 1 \in DOMAIN waitq[w]
        BY <3>2 DEF IInv, TypeOK
      <4>2. pc[h] \in Parked
        BY <4>1 DEF IInv, QueuesAreTheParked, QueueIsTheParked, ParkedFor, Parked
      <4>3. pc' = [pc EXCEPT ![r] = next, ![h] = Gained(h)]
        BY <2>2, <3>2, <4>1 DEF Receive
      <4> QED
        BY <4>2, <4>3 DEF Gained, IInv, TypeOK
    <3> QED
      BY <3>1, <3>2
  <2>3. CASE ReleaseConn(r) \/ ReleaseUser(r)
    BY <2>2, <2>3, SlotFacts DEF ReleaseConn, ReleaseUser
  <2> QED
    BY <2>1, <2>3 DEF Step
<1> QED
  BY <1>1 DEF phaseOf, Phase, Parked

LEMMA StepImplements ==
  ASSUME IInv, IInv', NEW r \in Requests, Step(r)
  PROVE  Promise!Next \/ UNCHANGED phaseOf
<1>0. /\ phaseOf[r] = "running" <=> pc[r] = "running"
      /\ phaseOf[r] = "idle" <=> pc[r] \in {"idle", "unwind"}
      /\ phaseOf[r] = "waiting" <=> pc[r] \in Acquiring \cup {"refund", "granted"}
      /\ phaseOf \in [Requests -> {"idle", "waiting", "running"}]
  BY PhaseOfFacts DEF IInv
<1> USE DEF IInv
<1>1. phaseOf' = [phaseOf EXCEPT ![r] = phaseOf'[r]]
  BY OthersStay, PhaseMove
<1>2. CASE phaseOf'[r] = phaseOf[r]
  BY <1>0, <1>1, <1>2
<1>3. CASE pc[r] = "idle" /\ phaseOf'[r] = "waiting"
  BY <1>0, <1>1, <1>3 DEF Promise!Next, Promise!Ask
<1>4. CASE pc[r] \in Acquiring \cup {"refund"} /\ phaseOf'[r] = "idle"
  BY <1>0, <1>1, <1>4 DEF Promise!Next, Promise!TurnAway
<1>5. CASE pc[r] = "granted" /\ phaseOf'[r] = "running"
  <2>1. Promise!LetIn(r)
    <3>1. phaseOf[r] = "waiting" /\ phaseOf' = [phaseOf EXCEPT ![r] = "running"]
      BY <1>0, <1>1, <1>5
    <3>2. /\ Cardinality(Promise!OnConnection(ConnOf[r])) < MaxPerConnection
          /\ Cardinality(Promise!OfUser(UserOf[r], ConnOf[r])) < MaxPerUser
      BY <1>5, RoomForGranted
    <3> QED
      BY <3>1, <3>2, SameCardinality DEF Promise!LetIn
  <2> QED
    BY <2>1 DEF Promise!Next
<1>6. CASE pc[r] = "running" /\ phaseOf'[r] = "idle"
  BY <1>0, <1>1, <1>6 DEF Promise!Next, Promise!End
<1>7. \/ pc[r] = "idle" /\ pc'[r] = "u_try"
      \/ pc[r] \in Acquiring /\ pc'[r] \in Acquiring \cup {"granted", "refund", "idle"}
      \/ pc[r] = "granted" /\ pc'[r] = "running"
      \/ pc[r] = "running" /\ pc'[r] = "unwind"
      \/ pc[r] \in {"refund", "unwind"} /\ pc'[r] = "idle"
  <2>1. CASE \/ Admit(r) \/ TryFast(r) \/ Select(r) \/ Cancel(r) \/ Admitted(r)
             \/ Timeout(r) \/ Abandon(r)
    BY <2>1 DEF Admit, TryFast, Take, Select, Cancel, Admitted, Timeout, Abandon, Leave,
       Gained, Failed, TypeOK, Acquiring, UserPhases, ConnPhases, Parked
  <2>2. ASSUME NEW w \in Slots, NEW next, Receive(w, r, next), pc[r] \notin Parked
        PROVE  pc'[r] = next
    <3>1. CASE waitq[w] = <<>>
      BY <2>2, <3>1 DEF Receive, TypeOK
    <3>2. CASE waitq[w] # <<>>
      <4>1. PICK h \in Requests : h = Head(waitq[w]) /\ h = waitq[w][1] /\ 1 \in DOMAIN waitq[w]
        BY <3>2 DEF TypeOK
      <4>2. pc[h] \in Parked
        BY <4>1 DEF QueuesAreTheParked, QueueIsTheParked, ParkedFor, Parked
      <4>3. pc' = [pc EXCEPT ![r] = next, ![h] = Gained(h)]
        BY <2>2, <3>2, <4>1 DEF Receive
      <4> QED
        BY <2>2, <4>2, <4>3 DEF TypeOK
    <3> QED
      BY <3>1, <3>2
  <2>3. CASE ReleaseConn(r)
    BY <2>2, <2>3, SlotFacts DEF ReleaseConn, Parked
  <2>4. CASE ReleaseUser(r)
    BY <2>2, <2>4, SlotFacts DEF ReleaseUser, Parked
  <2> QED
    BY <2>1, <2>3, <2>4 DEF Step
<1>8. phaseOf'[r] = "running" <=> pc'[r] = "running"
  BY DEF phaseOf, Phase, TypeOK, Phases, Acquiring, UserPhases, ConnPhases
<1>9. phaseOf'[r] = "idle" <=> pc'[r] \in {"idle", "unwind"}
  BY DEF phaseOf, Phase, TypeOK, Phases, Acquiring, UserPhases, ConnPhases
<1>10. phaseOf'[r] = "waiting" <=> pc'[r] \in Acquiring \cup {"refund", "granted"}
  BY DEF phaseOf, Phase, TypeOK, Phases, Acquiring, UserPhases, ConnPhases
<1> QED
  BY <1>2, <1>3, <1>4, <1>5, <1>6, <1>7, <1>8, <1>9, <1>10, <1>0 DEF Acquiring, UserPhases, ConnPhases

\* For any requests, limits and queue wait, Governor keeps the promise of
\* Admission: whatever is let in finds room under both limits.
THEOREM Implements == Spec => Refinement
<1>1. Init => Promise!Init
  BY DEF Init, Promise!Init, phaseOf, Phase
<1>2. IInv /\ IInv' /\ [Next]_vars => [Promise!Next]_phaseOf
  <2> SUFFICES ASSUME IInv, IInv', [Next]_vars
               PROVE  Promise!Next \/ UNCHANGED phaseOf
    OBVIOUS
  <2>1. CASE Tick \/ UNCHANGED vars
    BY <2>1 DEF Tick, vars, phaseOf
  <2>2. CASE \E r \in Requests : Step(r)
    BY <2>2, StepImplements
  <2> QED
    BY <2>1, <2>2 DEF Next
<1> QED
  BY <1>1, <1>2, Inductive, PTL DEF Spec, Refinement, Promise!Spec
==============================================================================
