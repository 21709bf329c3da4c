---------------------------- MODULE SourceProofs -----------------------------
(***************************************************************************)
(* What pivot has from a source: proofs about SourceConnector (the         *)
(* connections and the statements on them) and about Catalog (what it      *)
(* knows of the tables there), for any calls, sessions, pool size, syncs   *)
(* and objects. The two share no variable; each part has an invariant of   *)
(* its own, ConnectorIInv and CatalogIInv.                                 *)
(***************************************************************************)
EXTENDS Catalog, SourceConnector, FiniteSetTheorems, TLAPS

-----------------------------------------------------------------------------
(***************************************************************************)
(* The connector.                                                          *)
(*                                                                         *)
(* A KILL hits its own statement because the connection is held until the  *)
(* watcher is done (Watching), every connection in the pool has one holder *)
(* (Holding, Apart), and a statement on a connection of the pool belongs   *)
(* to the call that holds it (StatementsBelong): one that was walked away  *)
(* from has taken its connection out of the pool.                          *)
(***************************************************************************)

Holders == {"identifying", "querying", "reading", "stopping", "waiting"}

Holding ==
  \A c \in Calls :
    /\ pc[c] \in Holders => conn[c] \in pool \ idle
    /\ pc[c] \notin Holders => conn[c] = NoSession

Apart == \A c, d \in Calls : conn[c] = conn[d] /\ conn[c] # NoSession => c = d

AllHeld == \A s \in pool \ idle : \E c \in Calls : conn[c] = s

Room == IsFiniteSet(pool) /\ Cardinality(pool) <= MaxOpenConns

Connections == Holding /\ Apart /\ AllHeld /\ Room

\* The driver closes a connection when the context of its call has ended.
Breakage ==
  \A c \in Calls : conn[c] \in broken => c \in ended /\ pc[c] \in {"stopping", "waiting"}

\* A watcher watches the connection that its call holds.
Watching ==
  \A c \in Calls :
    /\ watcher[c] # "none" => pc[c] \in Holders \ {"identifying"} /\ target[c] = conn[c]
    /\ watcher[c] \in {"killing", "sent"} => c \in ended
    /\ pc[c] = "querying" => watcher[c] = "watching" \/ c \in ended

\* What runs on a connection of the pool is its holder's; once the holder has
\* done with it the connection is broken.
StatementsBelong ==
  \A s \in Sessions : statement[s] # Nobody =>
    /\ s \in opened
    /\ s \in pool =>
         /\ conn[statement[s]] = s
         /\ pc[statement[s]] \in {"reading", "stopping", "waiting"}
         /\ pc[statement[s]] # "reading" => s \in broken

ConnectorIInv ==
  /\ TypeOK /\ Connections /\ Breakage /\ Watching /\ StatementsBelong
  /\ KillsHitTheirOwn /\ NothingRunsUnattended
-----------------------------------------------------------------------------
(* What a state of the invariant looks like from one call.                  *)

LEMMA HeldIsOpen ==
  ASSUME ConnectorIInv, NEW c \in Calls, pc[c] \in Holders
  PROVE  /\ conn[c] \in pool \ idle /\ conn[c] \in Sessions /\ conn[c] # NoSession
         /\ conn[c] \in opened
         /\ \A d \in Calls : conn[d] = conn[c] => d = c
BY SourceConnectorAssumption DEF ConnectorIInv, TypeOK, Connections, Holding, Apart

LEMMA HoldsIsHolding ==
  ASSUME ConnectorIInv, NEW c \in Calls
  PROVE  Holds(c) <=> pc[c] \in Holders
BY HeldIsOpen, SourceConnectorAssumption DEF ConnectorIInv, TypeOK, Connections, Holding, Holds

(* What runs on the connection that a call holds is its own, and nothing    *)
(* runs before it has asked or once it is done and the connection is good.  *)
LEMMA HeldRunsOwn ==
  ASSUME ConnectorIInv, NEW c \in Calls, pc[c] \in Holders, statement[conn[c]] # Nobody
  PROVE  /\ statement[conn[c]] = c
         /\ pc[c] \in {"reading", "stopping", "waiting"}
         /\ pc[c] # "reading" => conn[c] \in broken
<1>1. conn[c] \in pool /\ conn[c] \in Sessions /\ \A d \in Calls : conn[d] = conn[c] => d = c
  BY HeldIsOpen
<1>2. statement[conn[c]] \in Calls
  BY <1>1 DEF ConnectorIInv, TypeOK
<1>3. conn[statement[conn[c]]] = conn[c]
  BY <1>1 DEF ConnectorIInv, StatementsBelong
<1>4. statement[conn[c]] = c
  BY <1>1, <1>2, <1>3
<1> QED BY <1>1, <1>4 DEF ConnectorIInv, StatementsBelong

LEMMA NothingRunsElsewhere ==
  ASSUME ConnectorIInv, NEW s \in Sessions, s \in idle \/ s \notin opened
  PROVE  statement[s] = Nobody
<1> SUFFICES ASSUME statement[s] # Nobody
             PROVE  FALSE
  OBVIOUS
<1>1. s \in opened /\ s \in idle /\ s \in pool
  BY DEF ConnectorIInv, TypeOK, StatementsBelong
<1>2. statement[s] \in Calls /\ conn[statement[s]] = s
  /\ pc[statement[s]] \in {"reading", "stopping", "waiting"}
  BY <1>1 DEF ConnectorIInv, TypeOK, StatementsBelong
<1>3. conn[statement[s]] \notin idle
  BY <1>2, HeldIsOpen DEF Holders
<1> QED BY <1>1, <1>2, <1>3
-----------------------------------------------------------------------------
(* What steps leave.                                                        *)

(* A call that holds a connection goes on holding it, and one that holds    *)
(* none has none.                                                           *)
LEMMA ConnectionsStay ==
  ASSUME ConnectorIInv, UNCHANGED <<pool, idle, conn>>, NEW c \in Calls, NEW w \in Steps,
         pc' = [pc EXCEPT ![c] = w], pc[c] \in Holders <=> w \in Holders
  PROVE  Connections'
BY DEF ConnectorIInv, TypeOK, Connections, Holding, Apart, AllHeld, Room

LEMMA ConnectionsStand ==
  ASSUME ConnectorIInv, UNCHANGED <<pool, idle, conn, pc>>
  PROVE  Connections'
BY DEF ConnectorIInv, Connections, Holding, Apart, AllHeld, Room

(* A watcher that ends leaves its session to nobody's care.                 *)
LEMMA OthersAttend ==
  ASSUME ConnectorIInv, NEW c \in Calls, UNCHANGED target,
         \A d \in Calls \ {c} : watcher'[d] = watcher[d],
         walkedAway \subseteq walkedAway',
         \A s \in Sessions : statement'[s] # Nobody =>
           /\ statement[s] # Nobody
           /\ watcher'[c] = "none" /\ watcher[c] # "none" /\ target[c] = s => s \in walkedAway'
  PROVE  NothingRunsUnattended'
<1> SUFFICES ASSUME NEW s \in Sessions, statement'[s] # Nobody, s \notin walkedAway'
             PROVE  \E d \in Calls : target'[d] = s /\ watcher'[d] # "none"
  BY DEF NothingRunsUnattended
<1>1. PICK d \in Calls : target[d] = s /\ watcher[d] # "none"
  BY DEF ConnectorIInv, NothingRunsUnattended
<1> QED BY <1>1

LEMMA AttendedStays ==
  ASSUME ConnectorIInv, UNCHANGED <<target, watcher, walkedAway, statement>>
  PROVE  NothingRunsUnattended'
BY DEF ConnectorIInv, NothingRunsUnattended

(* A statement less runs, or none has changed.                              *)
LEMMA StatementsStand ==
  ASSUME ConnectorIInv, UNCHANGED <<opened, pool, broken, conn, pc>>,
         \A s \in Sessions : statement'[s] \in {statement[s], Nobody}
  PROVE  StatementsBelong'
BY DEF ConnectorIInv, StatementsBelong
-----------------------------------------------------------------------------
(* The steps of a call.                                                     *)

LEMMA BeginKeeps ==
  ASSUME ConnectorIInv, NEW c \in Calls, Begin(c)
  PROVE  ConnectorIInv'
<1> USE DEF Begin, Goto, connections, killing
<1>1. pc[c] = "idle" /\ pc' = [pc EXCEPT ![c] = "borrowing"] /\ "borrowing" \in Steps
  BY DEF Steps
<1>2. TypeOK'
  BY <1>1 DEF ConnectorIInv, TypeOK
<1>3. Connections'
  BY <1>1, ConnectionsStay DEF Holders
<1>4. Breakage'
  BY <1>1 DEF ConnectorIInv, TypeOK, Breakage
<1>5. Watching'
  BY <1>1 DEF ConnectorIInv, TypeOK, Watching, Holders
<1>6. StatementsBelong'
  BY <1>1 DEF ConnectorIInv, TypeOK, StatementsBelong
<1>7. KillsHitTheirOwn' /\ NothingRunsUnattended'
  BY AttendedStays DEF ConnectorIInv, KillsHitTheirOwn
<1> QED BY <1>2, <1>3, <1>4, <1>5, <1>6, <1>7 DEF ConnectorIInv

LEMMA EndContextKeeps ==
  ASSUME ConnectorIInv, NEW c \in Calls, EndContext(c)
  PROVE  ConnectorIInv'
<1> USE DEF EndContext, connections, killing
<1>1. TypeOK'
  BY DEF ConnectorIInv, TypeOK
<1>2. Connections'
  BY ConnectionsStand
<1>3. Breakage' /\ Watching'
  BY DEF ConnectorIInv, Breakage, Watching
<1>4. StatementsBelong'
  BY StatementsStand
<1>5. KillsHitTheirOwn' /\ NothingRunsUnattended'
  BY AttendedStays DEF ConnectorIInv, KillsHitTheirOwn
<1> QED BY <1>1, <1>2, <1>3, <1>4, <1>5 DEF ConnectorIInv

LEMMA BorrowKeeps ==
  ASSUME ConnectorIInv, NEW c \in Calls, Borrow(c)
  PROVE  ConnectorIInv'
<1>1. PICK s \in Sessions :
        /\ conn' = [conn EXCEPT ![c] = s]
        /\ walkedAway' = walkedAway \ {s}
        /\ \/ s \in idle /\ idle' = idle \ {s} /\ UNCHANGED <<pool, opened>>
           \/ /\ idle = {} /\ Cardinality(pool) < MaxOpenConns
              /\ s \notin opened
              /\ opened' = opened \cup {s} /\ pool' = pool \cup {s} /\ UNCHANGED idle
  BY DEF Borrow
<1>2. /\ pc[c] = "borrowing" /\ pc' = [pc EXCEPT ![c] = "identifying"]
      /\ UNCHANGED <<broken, ended, watcher, target, control, late, statement, stray>>
      /\ "identifying" \in Steps /\ "identifying" \in Holders /\ pc[c] \notin Holders
  BY DEF Borrow, Goto, Steps, Holders
<1>3. /\ pool' \ idle' = (pool \ idle) \cup {s} /\ s \notin pool \ idle
      /\ s # NoSession /\ opened \subseteq opened' /\ pool \subseteq pool'
      /\ \A x \in Sessions : x \in pool' => x = s \/ x \in pool
  BY <1>1, SourceConnectorAssumption DEF ConnectorIInv, TypeOK
<1>4. TypeOK'
  BY <1>1, <1>2 DEF ConnectorIInv, TypeOK
<1>5. Connections'
  <2>1. Holding'
    BY <1>1, <1>2, <1>3 DEF ConnectorIInv, TypeOK, Connections, Holding
  <2>2. Apart'
    <3>1. \A d \in Calls : conn[d] # s
      BY <1>3, HeldIsOpen DEF ConnectorIInv, Connections, Holding
    <3> QED BY <1>1, <3>1 DEF ConnectorIInv, TypeOK, Connections, Apart
  <2>3. AllHeld'
    <3>1. conn[c] = NoSession
      BY <1>2 DEF ConnectorIInv, Connections, Holding
    <3>2. ASSUME NEW x \in pool' \ idle'
          PROVE  \E d \in Calls : conn'[d] = x
      <4>1. CASE x = s
        BY <1>1, <4>1 DEF ConnectorIInv, TypeOK
      <4>2. CASE x # s
        <5>1. x \in pool \ idle
          BY <1>3, <3>2, <4>2
        <5>2. PICK d \in Calls : conn[d] = x
          BY <5>1 DEF ConnectorIInv, Connections, AllHeld
        <5>3. d # c
          BY <3>1, <5>1, <5>2, SourceConnectorAssumption DEF ConnectorIInv, TypeOK
        <5> QED BY <1>1, <5>2, <5>3 DEF ConnectorIInv, TypeOK
      <4> QED BY <4>1, <4>2
    <3> QED BY <3>2 DEF AllHeld
  <2>4. Room'
    <3>1. IsFiniteSet(pool) /\ Cardinality(pool) <= MaxOpenConns
      BY DEF ConnectorIInv, Connections, Room
    <3>2. CASE UNCHANGED pool
      BY <3>1, <3>2 DEF Room
    <3>3. CASE Cardinality(pool) < MaxOpenConns /\ pool' = pool \cup {s} /\ s \notin pool
      <4>1. Cardinality(pool) \in Nat
        BY <3>1, FS_CardinalityType
      <4>2. IsFiniteSet(pool \cup {s}) /\ Cardinality(pool \cup {s}) = Cardinality(pool) + 1
        BY <3>1, <3>3, FS_AddElement
      <4> QED BY <3>3, <4>1, <4>2, SourceConnectorAssumption DEF Room
    <3> QED BY <1>1, <3>2, <3>3 DEF ConnectorIInv, TypeOK
  <2> QED BY <2>1, <2>2, <2>3, <2>4 DEF Connections
<1>6. Breakage'
  <2>1. s \notin broken
    BY <1>3 DEF ConnectorIInv, TypeOK
  <2> QED BY <1>1, <1>2, <2>1 DEF ConnectorIInv, TypeOK, Breakage
<1>7. Watching'
  BY <1>1, <1>2 DEF ConnectorIInv, TypeOK, Watching
<1>8. statement[s] = Nobody
  BY <1>1, NothingRunsElsewhere
<1>9. StatementsBelong'
  <2> SUFFICES ASSUME NEW x \in Sessions, statement[x] # Nobody
               PROVE  /\ x \in opened'
                      /\ x \in pool' =>
                           /\ conn'[statement[x]] = x
                           /\ pc'[statement[x]] \in {"reading", "stopping", "waiting"}
                           /\ pc'[statement[x]] # "reading" => x \in broken
    BY <1>2 DEF StatementsBelong
  <2>1. x # s /\ statement[x] \in Calls
    BY <1>8 DEF ConnectorIInv, TypeOK
  <2>2. x \in opened /\ (x \in pool' => x \in pool)
    BY <1>3, <2>1 DEF ConnectorIInv, StatementsBelong
  <2>3. CASE x \in pool
    <3>1. pc[statement[x]] \in {"reading", "stopping", "waiting"} /\ conn[statement[x]] = x
          /\ (pc[statement[x]] # "reading" => x \in broken)
      BY <2>3 DEF ConnectorIInv, StatementsBelong
    <3>2. statement[x] # c
      BY <1>2, <3>1
    <3> QED BY <1>1, <1>2, <1>3, <2>1, <2>2, <3>1, <3>2 DEF ConnectorIInv, TypeOK
  <2> QED BY <1>3, <2>2, <2>3
<1>10. NothingRunsUnattended'
  BY <1>1, <1>2, <1>8 DEF ConnectorIInv, NothingRunsUnattended
<1>11. KillsHitTheirOwn'
  BY <1>2 DEF ConnectorIInv, KillsHitTheirOwn
<1> QED BY <1>4, <1>5, <1>6, <1>7, <1>9, <1>10, <1>11 DEF ConnectorIInv

LEMMA BorrowFailsKeeps ==
  ASSUME ConnectorIInv, NEW c \in Calls, BorrowFails(c)
  PROVE  ConnectorIInv'
<1> USE DEF BorrowFails, Over, Goto, connections, killing
<1>1. pc[c] = "borrowing" /\ "idle" \in Steps /\ conn[c] = NoSession /\ watcher[c] = "none"
  BY DEF Steps, Holders, ConnectorIInv, TypeOK, Connections, Holding, Watching
<1>2. conn' = conn
  BY <1>1 DEF ConnectorIInv, TypeOK
<1>3. TypeOK'
  BY <1>1, <1>2 DEF ConnectorIInv, TypeOK
<1>4. Connections'
  BY <1>1, <1>2, ConnectionsStay DEF Holders
<1>5. Breakage'
  BY <1>1, <1>2 DEF ConnectorIInv, TypeOK, Breakage
<1>6. Watching'
  BY <1>1, <1>2 DEF ConnectorIInv, TypeOK, Watching, Holders
<1>7. StatementsBelong'
  BY <1>1, <1>2 DEF ConnectorIInv, TypeOK, StatementsBelong
<1>8. KillsHitTheirOwn' /\ NothingRunsUnattended'
  BY AttendedStays DEF ConnectorIInv, KillsHitTheirOwn
<1> QED BY <1>3, <1>4, <1>5, <1>6, <1>7, <1>8 DEF ConnectorIInv

LEMMA IdentifyKeeps ==
  ASSUME ConnectorIInv, NEW c \in Calls, Identify(c)
  PROVE  ConnectorIInv'
<1> USE DEF Identify, Goto, connections, killing
<1>1. /\ pc[c] = "identifying" /\ "querying" \in Steps /\ watcher[c] = "none"
      /\ pc[c] \in Holders /\ "querying" \in Holders
  BY DEF Steps, Holders, ConnectorIInv, TypeOK, Watching
<1>2. TypeOK'
  BY <1>1 DEF ConnectorIInv, TypeOK
<1>3. Connections'
  BY <1>1, ConnectionsStay
<1>4. Breakage'
  BY <1>1 DEF ConnectorIInv, TypeOK, Breakage
<1>5. Watching'
  BY <1>1 DEF ConnectorIInv, TypeOK, Watching, Holders
<1>6. StatementsBelong'
  BY <1>1 DEF ConnectorIInv, TypeOK, StatementsBelong
<1>7. NothingRunsUnattended'
  BY <1>1 DEF ConnectorIInv, TypeOK, NothingRunsUnattended
<1>8. KillsHitTheirOwn'
  BY DEF ConnectorIInv, KillsHitTheirOwn
<1> QED BY <1>2, <1>3, <1>4, <1>5, <1>6, <1>7, <1>8 DEF ConnectorIInv

(* A connection is given back, or closed.                                   *)
LEMMA GivingBackKeeps ==
  ASSUME ConnectorIInv, NEW c \in Calls, pc[c] \in {"identifying", "waiting"}, watcher[c] = "none",
         Over(c, pc[c]), UNCHANGED <<watcher, target, killing>>,
         \/ GiveBack(conn[c])
         \/ /\ pc[c] = "identifying"
            /\ pool' = pool \ {conn[c]} /\ UNCHANGED <<opened, idle, broken>>
  PROVE  ConnectorIInv'
<1> DEFINE s == conn[c]
<1>1. /\ pc' = [pc EXCEPT ![c] = "idle"] /\ conn' = [conn EXCEPT ![c] = NoSession]
      /\ ended' = ended \ {c} /\ "idle" \in Steps /\ "idle" \notin Holders /\ pc[c] \in Holders
      /\ UNCHANGED <<control, late, statement, walkedAway, stray>>
  BY DEF Over, Goto, Steps, Holders, killing
<1>2. /\ s \in pool \ idle /\ s \in Sessions /\ s # NoSession
      /\ \A d \in Calls : conn[d] = s => d = c
  BY <1>1, HeldIsOpen
<1>3. pc[c] = "identifying" => s \notin broken
  BY DEF ConnectorIInv, Breakage
<1>4. /\ broken' = broken \ {s} /\ UNCHANGED opened
      /\ \/ pool' = pool \ {s} /\ UNCHANGED idle
         \/ s \notin broken /\ idle' = idle \cup {s} /\ UNCHANGED pool
  BY <1>2, <1>3 DEF GiveBack
<1> HIDE DEF s
<1>5. pool' \ idle' = (pool \ idle) \ {s} /\ pool' \subseteq pool
  BY <1>2, <1>4
<1>6. TypeOK'
  BY <1>1, <1>2, <1>4 DEF ConnectorIInv, TypeOK
<1>7. conn[c] = s /\ \A d \in Calls \ {c} : conn'[d] = conn[d] /\ pc'[d] = pc[d] /\ conn[d] # s
  BY <1>1, <1>2 DEF s, ConnectorIInv, TypeOK
<1>8. conn'[c] = NoSession /\ pc'[c] = "idle"
  BY <1>1 DEF ConnectorIInv, TypeOK
<1>9. Connections'
  <2>1. Holding'
    BY <1>1, <1>5, <1>7, <1>8 DEF ConnectorIInv, Connections, Holding
  <2>2. Apart'
    BY <1>7, <1>8 DEF ConnectorIInv, Connections, Apart
  <2>3. AllHeld'
    <3>1. ASSUME NEW x \in pool' \ idle'
          PROVE  \E d \in Calls : conn'[d] = x
      <4>1. x \in pool \ idle /\ x # s
        BY <1>5
      <4>2. PICK d \in Calls : conn[d] = x
        BY <4>1 DEF ConnectorIInv, Connections, AllHeld
      <4> QED BY <1>7, <4>1, <4>2
    <3> QED BY <3>1 DEF AllHeld
  <2>4. Room'
    <3>1. IsFiniteSet(pool) /\ Cardinality(pool) <= MaxOpenConns
      BY DEF ConnectorIInv, Connections, Room
    <3>2. IsFiniteSet(pool') /\ Cardinality(pool') <= Cardinality(pool)
      BY <1>5, <3>1, FS_Subset
    <3>3. Cardinality(pool) \in Nat /\ Cardinality(pool') \in Nat
      BY <3>1, <3>2, FS_CardinalityType
    <3> QED BY <3>1, <3>2, <3>3, SourceConnectorAssumption DEF Room
  <2> QED BY <2>1, <2>2, <2>3, <2>4 DEF Connections
<1>10. Breakage'
  <2>1. NoSession \notin broken
    BY SourceConnectorAssumption DEF ConnectorIInv, TypeOK
  <2> QED BY <1>1, <1>4, <1>7, <1>8, <2>1 DEF ConnectorIInv, Breakage
<1>11. Watching'
  BY <1>1, <1>7, <1>8 DEF ConnectorIInv, Watching
<1>12. StatementsBelong'
  <2> SUFFICES ASSUME NEW x \in Sessions, statement[x] # Nobody
               PROVE  /\ x \in opened'
                      /\ x \in pool' =>
                           /\ conn'[statement[x]] = x
                           /\ pc'[statement[x]] \in {"reading", "stopping", "waiting"}
                           /\ pc'[statement[x]] # "reading" => x \in broken'
    BY <1>1 DEF StatementsBelong
  <2>1. x \in opened'
    BY <1>4 DEF ConnectorIInv, StatementsBelong
  <2>2. ASSUME x \in pool', x # s
        PROVE  /\ conn'[statement[x]] = x
               /\ pc'[statement[x]] \in {"reading", "stopping", "waiting"}
               /\ pc'[statement[x]] # "reading" => x \in broken'
    <3>1. statement[x] \in Calls
      BY DEF ConnectorIInv, TypeOK
    <3>2. /\ conn[statement[x]] = x /\ pc[statement[x]] \in {"reading", "stopping", "waiting"}
          /\ pc[statement[x]] # "reading" => x \in broken
      BY <1>5, <2>2 DEF ConnectorIInv, StatementsBelong
    <3>3. statement[x] # c
      BY <1>7, <2>2, <3>2
    <3> QED BY <1>4, <1>7, <2>2, <3>1, <3>2, <3>3
  <2>3. x = s => x \notin pool'
    <3>1. SUFFICES ASSUME x = s
                   PROVE  s \in broken
      BY <1>4
    <3>2. statement[conn[c]] # Nobody
      BY <1>7, <3>1
    <3>3. pc[c] # "reading" /\ (pc[c] # "reading" => conn[c] \in broken)
      BY <1>1, <3>2, HeldRunsOwn
    <3> QED BY <1>7, <3>3
  <2> QED BY <2>1, <2>2, <2>3
<1>13. NothingRunsUnattended'
  BY <1>1, AttendedStays
<1>14. KillsHitTheirOwn'
  BY <1>1 DEF ConnectorIInv, KillsHitTheirOwn
<1> QED BY <1>6, <1>9, <1>10, <1>11, <1>12, <1>13, <1>14 DEF ConnectorIInv

LEMMA IdentifyFailsKeeps ==
  ASSUME ConnectorIInv, NEW c \in Calls, IdentifyFails(c)
  PROVE  ConnectorIInv'
<1>1. pc[c] = "identifying" /\ watcher[c] = "none"
  BY DEF IdentifyFails, Over, Goto, ConnectorIInv, TypeOK, Watching
<1> QED BY <1>1, GivingBackKeeps DEF IdentifyFails

LEMMA ReturnKeeps ==
  ASSUME ConnectorIInv, NEW c \in Calls, Return(c)
  PROVE  ConnectorIInv'
<1>1. pc[c] = "waiting" /\ watcher[c] = "none"
  BY DEF Return, Over, Goto
<1> QED BY <1>1, GivingBackKeeps DEF Return

LEMMA QueryKeeps ==
  ASSUME ConnectorIInv, NEW c \in Calls, Query(c)
  PROVE  ConnectorIInv'
<1>1. /\ pc[c] = "querying" /\ pc[c] \in Holders
      /\ UNCHANGED <<opened, pool, idle, broken, conn, ended, watcher, target, control, late,
                     walkedAway, stray>>
  BY DEF Query, Goto, Holders, connections
<1>2. PICK w \in {"reading", "stopping"} :
        /\ pc' = [pc EXCEPT ![c] = w]
        /\ \/ w = "reading" /\ c \notin ended /\ statement' = [statement EXCEPT ![conn[c]] = c]
           \/ w = "stopping" /\ UNCHANGED statement
  BY DEF Query, Goto
<1>3. w \in Steps /\ w \in Holders \ {"identifying"}
  BY DEF Steps, Holders
<1>4. /\ conn[c] \in pool /\ conn[c] \in Sessions /\ conn[c] \in opened
      /\ \A d \in Calls : conn[d] = conn[c] => d = c
  BY <1>1, HeldIsOpen
<1>5. statement[conn[c]] = Nobody
  BY <1>1, HeldRunsOwn
<1>6. pc'[c] = w /\ \A d \in Calls \ {c} : pc'[d] = pc[d]
  BY <1>2 DEF ConnectorIInv, TypeOK
<1>7. /\ \A x \in Sessions \ {conn[c]} : statement'[x] = statement[x]
      /\ statement'[conn[c]] = IF w = "reading" THEN c ELSE Nobody
  BY <1>2, <1>4, <1>5 DEF ConnectorIInv, TypeOK
<1>8. TypeOK'
  BY <1>1, <1>2, <1>3 DEF ConnectorIInv, TypeOK
<1>9. Connections'
  BY <1>1, <1>2, <1>3, ConnectionsStay
<1>10. Breakage'
  BY <1>1, <1>6 DEF ConnectorIInv, Breakage
<1>11. Watching'
  BY <1>1, <1>2, <1>3, <1>6 DEF ConnectorIInv, Watching
<1>12. StatementsBelong'
  <2> SUFFICES ASSUME NEW x \in Sessions, statement'[x] # Nobody
               PROVE  /\ x \in opened
                      /\ x \in pool =>
                           /\ conn[statement'[x]] = x
                           /\ pc'[statement'[x]] \in {"reading", "stopping", "waiting"}
                           /\ pc'[statement'[x]] # "reading" => x \in broken
    BY <1>1 DEF StatementsBelong
  <2>1. CASE x = conn[c]
    BY <1>4, <1>6, <1>7, <2>1
  <2>2. CASE x # conn[c]
    <3>1. statement'[x] = statement[x] /\ statement[x] \in Calls
      BY <1>7, <2>2 DEF ConnectorIInv, TypeOK
    <3>2. /\ x \in opened
          /\ x \in pool => /\ conn[statement[x]] = x
                           /\ pc[statement[x]] \in {"reading", "stopping", "waiting"}
                           /\ pc[statement[x]] # "reading" => x \in broken
      BY <3>1 DEF ConnectorIInv, StatementsBelong
    <3>3. x \in pool => statement[x] # c
      BY <1>1, <3>2
    <3> QED BY <1>6, <3>1, <3>2, <3>3
  <2> QED BY <2>1, <2>2
<1>13. NothingRunsUnattended'
  <2> SUFFICES ASSUME NEW x \in Sessions, statement'[x] # Nobody, x \notin walkedAway
               PROVE  \E d \in Calls : target[d] = x /\ watcher[d] # "none"
    BY <1>1 DEF NothingRunsUnattended
  <2>1. CASE x = conn[c]
    <3>1. c \notin ended
      BY <1>2, <1>7, <2>1
    <3>2. watcher[c] = "watching" /\ target[c] = conn[c]
      BY <1>1, <3>1 DEF ConnectorIInv, Watching
    <3> QED BY <2>1, <3>2
  <2>2. CASE x # conn[c]
    BY <1>7, <2>2 DEF ConnectorIInv, NothingRunsUnattended
  <2> QED BY <2>1, <2>2
<1>14. KillsHitTheirOwn'
  BY <1>1 DEF ConnectorIInv, KillsHitTheirOwn
<1> QED BY <1>8, <1>9, <1>10, <1>11, <1>12, <1>13, <1>14 DEF ConnectorIInv

(* The steps from the reading to the wait for the watcher.                  *)
LEMMA StoppingKeeps ==
  ASSUME ConnectorIInv, NEW c \in Calls, ReadToEnd(c) \/ HangUp(c) \/ Stop(c)
  PROVE  ConnectorIInv'
<1>1. PICK w \in {"stopping", "waiting"} :
        /\ pc' = [pc EXCEPT ![c] = w]
        /\ \/ pc[c] = "reading" /\ statement[conn[c]] # c /\ UNCHANGED broken
           \/ pc[c] = "reading" /\ c \in ended /\ broken' = broken \cup {conn[c]}
           \/ pc[c] = "stopping" /\ UNCHANGED broken
  BY DEF ReadToEnd, HangUp, Stop, Goto, connections
<1>2. /\ UNCHANGED <<opened, pool, idle, conn, ended, watcher, target, control, late, statement,
                     walkedAway, stray>>
      /\ pc[c] \in Holders \ {"identifying", "querying"}
      /\ w \in Steps /\ w \in Holders \ {"identifying", "querying"}
  BY <1>1 DEF ReadToEnd, HangUp, Stop, connections, killing, Steps, Holders
<1>3. /\ conn[c] \in pool \ idle /\ conn[c] \in Sessions
      /\ \A d \in Calls : conn[d] = conn[c] => d = c
  BY <1>2, HeldIsOpen
<1>4. pc'[c] = w /\ \A d \in Calls \ {c} : pc'[d] = pc[d]
  BY <1>1 DEF ConnectorIInv, TypeOK
<1>5. TypeOK'
  BY <1>1, <1>2, <1>3 DEF ConnectorIInv, TypeOK
<1>6. Connections'
  BY <1>1, <1>2, ConnectionsStay
<1>7. Breakage'
  BY <1>1, <1>2, <1>3, <1>4 DEF ConnectorIInv, Breakage
<1>8. Watching'
  BY <1>1, <1>2, <1>4 DEF ConnectorIInv, Watching
<1>9. StatementsBelong'
  <2> SUFFICES ASSUME NEW x \in Sessions, statement[x] # Nobody
               PROVE  /\ x \in opened
                      /\ x \in pool =>
                           /\ conn[statement[x]] = x
                           /\ pc'[statement[x]] \in {"reading", "stopping", "waiting"}
                           /\ pc'[statement[x]] # "reading" => x \in broken'
    BY <1>2 DEF StatementsBelong
  <2>1. statement[x] \in Calls /\ broken \subseteq broken'
    BY <1>1 DEF ConnectorIInv, TypeOK
  <2>2. /\ x \in opened
        /\ x \in pool => /\ conn[statement[x]] = x
                         /\ pc[statement[x]] \in {"reading", "stopping", "waiting"}
                         /\ pc[statement[x]] # "reading" => x \in broken
    BY DEF ConnectorIInv, StatementsBelong
  <2>3. statement[x] = c /\ x \in pool => conn[c] \in broken'
    BY <1>1, <2>1, <2>2
  <2> QED BY <1>4, <2>1, <2>2, <2>3
<1>10. NothingRunsUnattended'
  BY <1>2, AttendedStays
<1>11. KillsHitTheirOwn'
  BY <1>2 DEF ConnectorIInv, KillsHitTheirOwn
<1> QED BY <1>5, <1>6, <1>7, <1>8, <1>9, <1>10, <1>11 DEF ConnectorIInv
-----------------------------------------------------------------------------
(* The steps of the watcher and of the source.                              *)

(* A watcher goes on or ends.                                               *)
LEMMA WatchKeeps ==
  ASSUME ConnectorIInv, NEW c \in Calls, NEW from, NEW to \in {"none", "killing", "sent"},
         from # "none", Watch(c, from, to),
         to \in {"killing", "sent"} => c \in ended,
         pc[c] # "querying" \/ c \in ended,
         \A x \in Sessions : statement'[x] \in {statement[x], Nobody},
         statement' \in [Sessions -> Calls \cup {Nobody}],
         walkedAway \subseteq walkedAway', walkedAway' \subseteq Sessions,
         control' \in Calls \cup {Nobody}, late' \subseteq Sessions,
         stray' \in BOOLEAN, ~stray',
         to = "none" => \A x \in Sessions : target[c] = x /\ statement'[x] # Nobody => x \in walkedAway'
  PROVE  ConnectorIInv'
<1>1. /\ watcher[c] # "none" /\ watcher' = [watcher EXCEPT ![c] = to]
      /\ UNCHANGED <<opened, pool, idle, broken, pc, conn, ended, target>>
  BY DEF Watch, connections
<1>2. watcher'[c] = to /\ \A d \in Calls \ {c} : watcher'[d] = watcher[d]
  BY <1>1 DEF ConnectorIInv, TypeOK
<1>3. TypeOK'
  BY <1>1 DEF ConnectorIInv, TypeOK
<1>4. Connections'
  BY <1>1, ConnectionsStand
<1>5. Breakage'
  BY <1>1 DEF ConnectorIInv, Breakage
<1>6. Watching'
  BY <1>1, <1>2 DEF ConnectorIInv, Watching
<1>7. StatementsBelong'
  BY <1>1, StatementsStand
<1>8. NothingRunsUnattended'
  BY <1>1, <1>2, OthersAttend
<1>9. KillsHitTheirOwn'
  BY DEF KillsHitTheirOwn
<1> QED BY <1>3, <1>4, <1>5, <1>6, <1>7, <1>8, <1>9 DEF ConnectorIInv

LEMMA WatchedIsHeld ==
  ASSUME ConnectorIInv, NEW c \in Calls, watcher[c] # "none"
  PROVE  pc[c] \in Holders /\ target[c] = conn[c] /\ target[c] \in Sessions
BY HeldIsOpen DEF ConnectorIInv, Watching

LEMMA WatcherKeeps ==
  ASSUME ConnectorIInv, NEW c \in Calls, Wake(c) \/ SendKill(c) \/ KillTimesOut(c)
  PROVE  ConnectorIInv'
<1>1. ~stray /\ watcher[c] # "none"
  BY DEF ConnectorIInv, KillsHitTheirOwn, Wake, SendKill, KillTimesOut, Watch
<1>2. target[c] \in Sessions
  BY <1>1, WatchedIsHeld
<1>3. CASE Wake(c)
  <2>1. UNCHANGED <<control, late, statement, walkedAway, stray>>
    BY <1>3 DEF Wake, killing
  <2>2. c \in ended /\ Watch(c, "watching", "killing")
    BY <1>3 DEF Wake
  <2> QED BY <1>1, <2>1, <2>2, WatchKeeps DEF ConnectorIInv, TypeOK
<1>4. CASE SendKill(c)
  <2>1. UNCHANGED <<late, statement, walkedAway, stray>> /\ control' = c
        /\ Watch(c, "killing", "sent")
    BY <1>4 DEF SendKill
  <2>2. c \in ended
    BY <2>1 DEF Watch, ConnectorIInv, Watching
  <2> QED BY <1>1, <2>1, <2>2, WatchKeeps DEF ConnectorIInv, TypeOK
<1>5. CASE KillTimesOut(c)
  <2>1. PICK from \in {"killing", "sent"} : Watch(c, from, "none")
    BY <1>5 DEF KillTimesOut
  <2>2. c \in ended
    BY <2>1 DEF Watch, ConnectorIInv, Watching
  <2>3. walkedAway' = walkedAway \cup {target[c]} /\ UNCHANGED <<statement, stray>>
    BY <1>5 DEF KillTimesOut
  <2>4. control' \in Calls \cup {Nobody} /\ late' \subseteq Sessions
    BY <1>2, <1>5 DEF KillTimesOut, ConnectorIInv, TypeOK
  <2> QED BY <1>1, <1>2, <2>1, <2>2, <2>3, <2>4, WatchKeeps DEF ConnectorIInv, TypeOK
<1> QED BY <1>3, <1>4, <1>5

LEMMA DismissKeeps ==
  ASSUME ConnectorIInv, NEW c \in Calls, Dismiss(c)
  PROVE  ConnectorIInv'
<1>1. /\ pc[c] = "waiting" /\ Watch(c, "watching", "none") /\ watcher[c] # "none"
      /\ UNCHANGED <<control, late, statement, stray>> /\ ~stray
      /\ walkedAway' = IF c \in ended THEN walkedAway \cup {target[c]} ELSE walkedAway
  BY DEF Dismiss, Watch, ConnectorIInv, KillsHitTheirOwn
<1>2. target[c] = conn[c] /\ target[c] \in Sessions /\ pc[c] \in Holders
  BY <1>1, WatchedIsHeld
<1>3. c \notin ended => statement[conn[c]] = Nobody
  BY <1>1, <1>2, HeldRunsOwn DEF ConnectorIInv, Breakage
<1> QED BY <1>1, <1>2, <1>3, WatchKeeps DEF ConnectorIInv, TypeOK

LEMMA ExecuteKillKeeps ==
  ASSUME ConnectorIInv, NEW c \in Calls, ExecuteKill(c)
  PROVE  ConnectorIInv'
<1>1. /\ Watch(c, "sent", "none") /\ watcher[c] = "sent"
      /\ statement' = [statement EXCEPT ![target[c]] = Nobody]
      /\ stray' = (stray \/ statement[target[c]] \notin {c, Nobody})
      /\ control' = Nobody /\ UNCHANGED <<late, walkedAway>>
  BY DEF ExecuteKill, Watch
<1>2. pc[c] \in Holders /\ target[c] = conn[c] /\ target[c] \in Sessions /\ c \in ended
  BY <1>1, WatchedIsHeld DEF ConnectorIInv, Watching
<1>3. statement[target[c]] \in {c, Nobody}
  BY <1>2, HeldRunsOwn
<1>4. stray' \in BOOLEAN /\ ~stray'
  BY <1>1, <1>3 DEF ConnectorIInv, KillsHitTheirOwn
<1>5. /\ statement' \in [Sessions -> Calls \cup {Nobody}]
      /\ \A x \in Sessions : statement'[x] \in {statement[x], Nobody}
      /\ statement'[target[c]] = Nobody
  BY <1>1, <1>2 DEF ConnectorIInv, TypeOK
<1> QED BY <1>1, <1>2, <1>4, <1>5, WatchKeeps DEF ConnectorIInv, TypeOK

LEMMA SourceKeeps ==
  ASSUME ConnectorIInv, NEW s \in Sessions, Finish(s) \/ LateKill(s)
  PROVE  ConnectorIInv'
<1>1. /\ statement' = [statement EXCEPT ![s] = Nobody] /\ late' \subseteq late
      /\ UNCHANGED <<opened, pool, idle, broken, pc, conn, ended, watcher, target, control,
                     walkedAway, stray>>
  BY DEF Finish, LateKill, connections
<1>2. /\ statement' \in [Sessions -> Calls \cup {Nobody}]
      /\ \A x \in Sessions : statement'[x] \in {statement[x], Nobody}
  BY <1>1 DEF ConnectorIInv, TypeOK
<1>3. TypeOK'
  BY <1>1, <1>2 DEF ConnectorIInv, TypeOK
<1>4. Connections' /\ StatementsBelong'
  BY <1>1, <1>2, ConnectionsStand, StatementsStand
<1>5. Breakage' /\ Watching' /\ KillsHitTheirOwn'
  BY <1>1 DEF ConnectorIInv, Breakage, Watching, KillsHitTheirOwn
<1>6. NothingRunsUnattended'
  BY <1>1, <1>2 DEF ConnectorIInv, NothingRunsUnattended
<1> QED BY <1>3, <1>4, <1>5, <1>6 DEF ConnectorIInv
-----------------------------------------------------------------------------
(* The invariant, and what follows from it.                                 *)

LEMMA InitHolds == Init => ConnectorIInv
<1> SUFFICES ASSUME Init
             PROVE  ConnectorIInv
  OBVIOUS
<1> USE DEF Init
<1>1. TypeOK
  BY DEF TypeOK, Steps
<1>2. Holding /\ Apart /\ AllHeld
  BY DEF Holding, Apart, AllHeld, Holders
<1>3. Room
  BY FS_EmptySet, SourceConnectorAssumption DEF Room
<1>4. Breakage /\ Watching /\ StatementsBelong /\ KillsHitTheirOwn /\ NothingRunsUnattended
  BY DEF Breakage, Watching, StatementsBelong, KillsHitTheirOwn, NothingRunsUnattended
<1> QED BY <1>1, <1>2, <1>3, <1>4 DEF ConnectorIInv, Connections

LEMMA NextPreserves == ConnectorIInv /\ [Next]_vars => ConnectorIInv'
<1> SUFFICES ASSUME ConnectorIInv, [Next]_vars
             PROVE  ConnectorIInv'
  OBVIOUS
<1>1. CASE UNCHANGED vars
  <2>1. UNCHANGED <<opened, pool, idle, broken, pc, conn, ended, watcher, target, control, late,
                    statement, walkedAway, stray>>
    BY <1>1 DEF vars, connections, killing
  <2> QED BY <2>1 DEF ConnectorIInv, TypeOK, Connections, Holding, Apart, AllHeld, Room, Breakage,
     Watching, StatementsBelong, KillsHitTheirOwn, NothingRunsUnattended
<1>2. ASSUME NEW c \in Calls, Begin(c) \/ EndContext(c) \/ Borrow(c) \/ BorrowFails(c)
      PROVE  ConnectorIInv'
  BY <1>2, BeginKeeps, EndContextKeeps, BorrowKeeps, BorrowFailsKeeps
<1>3. ASSUME NEW c \in Calls,
             Identify(c) \/ IdentifyFails(c) \/ Query(c) \/ ReadToEnd(c) \/ HangUp(c)
             \/ Stop(c) \/ Return(c)
      PROVE  ConnectorIInv'
  BY <1>3, IdentifyKeeps, IdentifyFailsKeeps, QueryKeeps, StoppingKeeps, ReturnKeeps
<1>4. ASSUME NEW c \in Calls,
             Dismiss(c) \/ Wake(c) \/ SendKill(c) \/ ExecuteKill(c) \/ KillTimesOut(c)
      PROVE  ConnectorIInv'
  BY <1>4, DismissKeeps, WatcherKeeps, ExecuteKillKeeps
<1>5. ASSUME NEW s \in Sessions, Finish(s) \/ LateKill(s)
      PROVE  ConnectorIInv'
  BY <1>5, SourceKeeps
<1> QED BY <1>1, <1>2, <1>3, <1>4, <1>5 DEF Next

THEOREM Inductive == Spec => []ConnectorIInv
BY InitHolds, NextPreserves, PTL DEF Spec

(* The pool, the calls, their watchers and the source keep their types.     *)
THEOREM TypeCorrect == Spec => []TypeOK
<1>1. ConnectorIInv => TypeOK
  BY DEF ConnectorIInv
<1> QED BY <1>1, Inductive, PTL

(* A KILL that is waited for stops its own call's statement or none.        *)
THEOREM OwnIsHit == Spec => []KillsHitTheirOwn
<1>1. ConnectorIInv => KillsHitTheirOwn
  BY DEF ConnectorIInv
<1> QED BY <1>1, Inductive, PTL

(* A statement that runs is watched, or was left without an answered KILL.  *)
THEOREM RunningIsAttended == Spec => []NothingRunsUnattended
<1>1. ConnectorIInv => NothingRunsUnattended
  BY DEF ConnectorIInv
<1> QED BY <1>1, Inductive, PTL

(* Every open connection is idle or has one holder, and there are never     *)
(* more than may be open.                                                   *)
THEOREM NothingLeaks == Spec => []NoConnectionLeaks
<1>1. ASSUME ConnectorIInv
      PROVE  NoConnectionLeaks
  <2>1. Cardinality(pool) <= MaxOpenConns
    BY <1>1 DEF ConnectorIInv, Connections, Room
  <2>2. pool \ idle = {conn[c] : c \in {d \in Calls : Holds(d)}}
    <3>1. ASSUME NEW s \in pool \ idle
          PROVE  \E c \in {d \in Calls : Holds(d)} : conn[c] = s
      BY <1>1, <3>1 DEF ConnectorIInv, Connections, AllHeld, Holds
    <3>2. ASSUME NEW c \in Calls, Holds(c)
          PROVE  conn[c] \in pool \ idle
      BY <1>1, <3>2, HoldsIsHolding, HeldIsOpen
    <3> QED BY <3>1, <3>2
  <2>3. \A c, d \in Calls : Holds(c) /\ conn[c] = conn[d] => c = d
    BY <1>1, HoldsIsHolding, HeldIsOpen
  <2> QED BY <2>1, <2>2, <2>3 DEF NoConnectionLeaks
<1> QED BY <1>1, Inductive, PTL

-----------------------------------------------------------------------------
(***************************************************************************)
(* The catalog.                                                            *)
(*                                                                         *)
(* A sync that runs alone is the only one (Solitude), so nobody else has   *)
(* stamped a row since it began (Times): what carries its time is what it  *)
(* has stored, and what is older it has not found (Stamped, FoundSoFar),   *)
(* which is what its sweeps must know. From when a row is swept until its  *)
(* sync is over, the report is ahead of what is recorded (ToldBefore).     *)
(***************************************************************************)

Lone(y) == y \in Syncing \ crossed

(* A sync that no other has run beside is the only one, and a result stands *)
(* while none runs.                                                         *)
Solitude ==
  /\ \A y \in Syncs : Lone(y) => Syncing = {y}
  /\ last.alone => Syncing = {}

Times ==
  /\ \A y \in Syncs : job[y].began <= begun
  /\ \A o \in Objects : rows[o].seen <= begun

(* A row is never unmade, and a column has its table.                       *)
Tabled ==
  /\ \A y \in Syncs : \A o \in job[y].stored : rows[o].state # "none"
  /\ \A x \in Columns : rows[x].state # "none" => rows[TableOf[x]].state # "none"

ReadingTables == {"begun", "tables"}
Early == ReadingTables \cup {"known", "recording"}
Late == {"keys", "columns swept"}

(* A lone sync has stamped exactly what it stored.                          *)
Stamped(y) ==
  /\ job[y].began = begun
  /\ job[y].stored \subseteq job[y].found
  /\ \A o \in job[y].stored : rows[o] = [state |-> "live", seen |-> begun]
  /\ \A o \in Objects \ job[y].stored : rows[o].seen < begun

(* How far it has come with what it found.                                  *)
FoundSoFar(y) ==
  /\ stage[y] \in {"begun", "tables", "known"} => job[y].found = {}
  /\ stage[y] = "recording" => job[y].found \subseteq Shape
  /\ stage[y] \notin Early => job[y].found \cap Shape \subseteq job[y].stored
  /\ stage[y] \in Late => job[y].found \subseteq job[y].stored
  /\ stage[y] = "keys found" => job[y].stored \subseteq Shape
  /\ stage[y] \in {"keys found", "keys known"} => job[y].keys
  /\ job[y].keys => stage[y] \notin Early
  /\ ~job[y].keys => job[y].found \subseteq Shape

(* What it has neither stored nor swept is as it was in the snapshot.       *)
Kept(y, S) ==
  \A o \in S : o \notin job[y].stored \cup job[y].swept => rows[o].state = job[y].before[o]

Remembered(y) ==
  /\ stage[y] # "begun" => Kept(y, Tables)
  /\ IF stage[y] \in ReadingTables THEN \A x \in Columns : job[y].before[x] = "none"
     ELSE Kept(y, Columns)
  /\ job[y].keys /\ stage[y] # "keys found" => Kept(y, KeyRows)

SweptKeys(y) == IF stage[y] \in Late /\ job[y].keys THEN Missing(y, KeyRows) ELSE {}
SweptColumns(y) == IF stage[y] = "columns swept" THEN Missing(y, Columns) ELSE {}

(* It has swept what the snapshot had and the source has no more.           *)
SweptMissing(y) ==
  /\ job[y].swept = SweptKeys(y) \cup SweptColumns(y)
  /\ \A o \in job[y].swept : rows[o].state = "gone"

LoneJob ==
  \A y \in Syncs : Lone(y) =>
    Stamped(y) /\ FoundSoFar(y) /\ Remembered(y) /\ SweptMissing(y)

(* The reports so far amount to what the running sync took its snapshot of. *)
ToldBefore ==
  ~astray =>
    /\ crossed = {}
    /\ Syncing = {} => told = Known \cap Shape
    /\ \A y \in Syncing :
         told = IF stage[y] \in ReadingTables THEN Known \cap Shape
                ELSE {o \in Shape : job[y].before[o] = "live"}

CatalogIInv ==
  /\ CatalogTypeOK /\ Solitude /\ Times /\ Tabled /\ LoneJob /\ ToldBefore
  /\ LoneSyncHeals /\ DisagreementMeansCrossing
-----------------------------------------------------------------------------
LEMMA EmptyJob == NoJob \in Job /\ NoResult \in Result
<1>1. [o \in Objects |-> "none"] \in States
  BY DEF States
<1> QED BY <1>1, CatalogAssumption DEF NoJob, Job, NoResult, Result

LEMMA CatalogTyped ==
  ASSUME CatalogTypeOK, [CatalogNext]_catalog
  PROVE  CatalogTypeOK'
<1> USE CatalogAssumption
<1>1. CASE Change
  BY <1>1 DEF CatalogTypeOK, Change, Syncing, Objects, Shape
<1> SUFFICES ASSUME CatalogTypeOK, NEW y \in Syncs,
               \/ BeginSync(y) \/ SnapshotTables(y) \/ SnapshotColumns(y) \/ Introspect(y)
               \/ Record(y) \/ ForeignKeys(y) \/ StoredKeys(y) \/ RecordForeignKey(y)
               \/ MarkForeignKeysGone(y) \/ SweepColumns(y) \/ FinishSync(y) \/ Fail(y)
             PROVE  CatalogTypeOK'
  <2>1. CASE UNCHANGED catalog
    BY <2>1 DEF CatalogTypeOK, catalog, Syncing
  <2> QED BY <1>1, <2>1 DEF CatalogNext
<1> USE DEF CatalogTypeOK
<1>2. CASE BeginSync(y)
  <2>1. begun' \in 0 .. MaxSyncs
    BY <1>2 DEF BeginSync
  <2>2. [NoJob EXCEPT !.began = begun'] \in Job
    BY <2>1, EmptyJob DEF Job
  <2>3. Syncing' = Syncing \cup {y} /\ stage' \in [Syncs -> Stages]
    BY <1>2 DEF BeginSync, Syncing, Advance, Stages
  <2> QED BY <1>2, <2>1, <2>2, <2>3, EmptyJob DEF BeginSync
<1>3. ASSUME NEW S, NEW from \in Stages, NEW to \in Stages \ {"idle"}, Snapshot(y, S, from, to)
      PROVE  CatalogTypeOK'
  <2> DEFINE b == [o \in Objects |-> IF o \in S THEN rows[o].state ELSE job[y].before[o]]
  <2>1. b \in States
    BY DEF Row, Job, States
  <2>2. [job[y] EXCEPT !.before = b] \in Job
    BY <2>1 DEF Job
  <2>3. job' = [job EXCEPT ![y] = [job[y] EXCEPT !.before = b]]
    BY <1>3 DEF Snapshot
  <2>4. job' \in [Syncs -> Job]
    BY <2>2, <2>3
  <2> QED BY <1>3, <2>4 DEF Snapshot, Syncing, Advance
<1>4. CASE SnapshotTables(y)
  BY <1>3, <1>4 DEF SnapshotTables, Stages
<1>5. CASE SnapshotColumns(y)
  BY <1>3, <1>5 DEF SnapshotColumns, Stages
<1>6. CASE StoredKeys(y)
  BY <1>3, <1>6 DEF StoredKeys, Stages
<1>7. CASE Introspect(y)
  BY <1>7 DEF Introspect, Syncing, Advance, Stages, Job
<1>8. ASSUME NEW o \in Objects, Store(y, o)
      PROVE  CatalogTypeOK'
  <2>1. Stored(y, o) \in Row
    BY DEF Stored, Row, Job
  <2> QED BY <1>8, <2>1 DEF Store, Syncing, Job
<1>9. CASE Record(y)
  BY <1>8, <1>9 DEF Record, Left, Objects, Shape
<1>10. CASE RecordForeignKey(y)
  BY <1>8, <1>10 DEF RecordForeignKey, Left, Objects, Shape
<1>11. CASE ForeignKeys(y)
  <2>1. [job[y] EXCEPT !.found = @ \cup (source \cap KeyRows), !.keys = TRUE] \in Job
    BY DEF Job, Objects
  <2>2. job' \in [Syncs -> Job]
    BY <1>11, <2>1 DEF ForeignKeys
  <2> QED BY <1>11, <2>2 DEF ForeignKeys, Syncing, Advance, Stages
<1>12. ASSUME NEW S \in SUBSET Objects, NEW from \in Stages, NEW to \in Stages \ {"idle"},
              Sweep(y, S, from, to)
       PROVE  CatalogTypeOK'
  <2>1. rows' \in [Objects -> Row]
    BY <1>12 DEF Sweep, Row
  <2>2. job' \in [Syncs -> Job]
    BY <1>12 DEF Sweep, Stale, Job
  <2> QED BY <1>12, <2>1, <2>2 DEF Sweep, Syncing, Advance
<1>13. CASE MarkForeignKeysGone(y)
  BY <1>12, <1>13 DEF MarkForeignKeysGone, Stages, Objects
<1>14. CASE SweepColumns(y)
  BY <1>12, <1>14 DEF SweepColumns, Stages, Objects, Shape
<1>15. CASE FinishSync(y)
  <2>1. rows' \in [Objects -> Row]
    BY <1>15 DEF FinishSync, Row
  <2>2. job' \in [Syncs -> Job]
    BY <1>15, EmptyJob DEF FinishSync
  <2>4. job[y].found \subseteq Objects /\ job[y].keys \in BOOLEAN
    BY DEF Job
  <2>5. \A S : ShapesAgree(y, S) \in BOOLEAN /\ KeysAgree(y) \in BOOLEAN /\ Split(y) \in BOOLEAN
    BY DEF ShapesAgree, KeysAgree, Split
  <2>6. last' \in Result
    BY <1>15, EmptyJob, <2>4, <2>5 DEF FinishSync, Result
  <2>3. told' \subseteq Shape
    BY <1>15 DEF FinishSync, Appeared
  <2> QED BY <1>15, <2>1, <2>2, <2>3, <2>6 DEF FinishSync, Syncing, Advance, Stages
<1>16. CASE Fail(y)
  <2>1. Syncing' = Syncing \ {y} /\ stage' \in [Syncs -> Stages]
    BY <1>16 DEF Fail, Syncing, Stages
  <2>2. job' \in [Syncs -> Job]
    BY <1>16, EmptyJob DEF Fail
  <2> QED BY <1>16, <2>1, <2>2 DEF Fail
<1> QED BY <1>2, <1>4, <1>5, <1>6, <1>7, <1>9, <1>10, <1>11, <1>13, <1>14, <1>15, <1>16

LEMMA CatalogTypeStarts ==
  ASSUME CatalogInit
  PROVE  CatalogTypeOK
<1>1. [state |-> "none", seen |-> 0] \in Row
  BY CatalogAssumption DEF Row
<1>2. rows \in [Objects -> Row] /\ job \in [Syncs -> Job] /\ last \in Result
  BY <1>1, EmptyJob DEF CatalogInit
<1>3. stage \in [Syncs -> Stages] /\ crossed \subseteq Syncing
  BY DEF CatalogInit, Syncing, Stages
<1>4. /\ source \subseteq Objects /\ changes \in 0 .. MaxChanges /\ begun \in 0 .. MaxSyncs
      /\ told \subseteq Shape
  BY CatalogAssumption DEF CatalogInit, CatalogAssumption
<1>5. astray \in BOOLEAN
  BY DEF CatalogInit
<1> QED BY <1>2, <1>3, <1>4, <1>5 DEF CatalogTypeOK

(* The catalog is well typed, and of the syncs only running ones count as   *)
(* crossed.                                                                 *)
THEOREM CatalogTypeCorrect == CatalogSpec => []CatalogTypeOK
<1>1. CatalogInit => CatalogTypeOK
  BY CatalogTypeStarts
<1>2. CatalogTypeOK /\ [CatalogNext]_catalog => CatalogTypeOK'
  BY CatalogTyped
<1> QED BY <1>1, <1>2, PTL DEF CatalogSpec
-----------------------------------------------------------------------------
(* The steps of a sync between its beginning and its end.                   *)
Work(y) ==
  \/ SnapshotTables(y) \/ SnapshotColumns(y) \/ Introspect(y) \/ Record(y)
  \/ ForeignKeys(y) \/ StoredKeys(y) \/ RecordForeignKey(y)
  \/ MarkForeignKeysGone(y) \/ SweepColumns(y)

LEMMA WorkStands ==
  ASSUME CatalogTypeOK, NEW y \in Syncs, Work(y)
  PROVE  /\ y \in Syncing /\ Syncing' = Syncing
         /\ \A z \in Syncs \ {y} : stage'[z] = stage[z] /\ job'[z] = job[z]
         /\ UNCHANGED <<begun, crossed, last, told, astray>>
<1> USE DEF CatalogTypeOK
<1>1. ASSUME NEW from \in Stages \ {"idle"}, NEW to \in Stages \ {"idle"}, Advance(y, from, to)
      PROVE  /\ y \in Syncing /\ Syncing' = Syncing
             /\ \A z \in Syncs \ {y} : stage'[z] = stage[z]
  BY <1>1 DEF Advance, Syncing
<1> USE DEF Stages
<1>2. CASE SnapshotTables(y) \/ SnapshotColumns(y) \/ StoredKeys(y)
  BY <1>1, <1>2 DEF SnapshotTables, SnapshotColumns, StoredKeys, Snapshot
<1>3. CASE Introspect(y)
  BY <1>1, <1>3 DEF Introspect
<1>4. CASE ForeignKeys(y)
  BY <1>1, <1>4 DEF ForeignKeys
<1>5. CASE Record(y) \/ RecordForeignKey(y)
  BY <1>5 DEF Record, RecordForeignKey, Store, Syncing
<1>6. CASE MarkForeignKeysGone(y) \/ SweepColumns(y)
  BY <1>1, <1>6 DEF MarkForeignKeysGone, SweepColumns, Sweep
<1> QED BY <1>2, <1>3, <1>4, <1>5, <1>6 DEF Work

LEMMA EndStands ==
  ASSUME CatalogTypeOK, NEW y \in Syncs, FinishSync(y) \/ Fail(y)
  PROVE  /\ y \in Syncing /\ Syncing' = Syncing \ {y} /\ crossed' = crossed \ {y}
         /\ job'[y] = NoJob
         /\ \A z \in Syncs \ {y} : stage'[z] = stage[z] /\ job'[z] = job[z]
         /\ UNCHANGED begun
BY DEF CatalogTypeOK, FinishSync, Fail, Advance, Syncing

LEMMA BeginStands ==
  ASSUME CatalogTypeOK, NEW y \in Syncs, BeginSync(y)
  PROVE  /\ y \notin Syncing /\ Syncing' = Syncing \cup {y}
         /\ crossed' = IF Syncing = {} THEN {} ELSE crossed \cup Syncing'
         /\ job'[y] = [NoJob EXCEPT !.began = begun'] /\ stage'[y] = "begun"
         /\ \A z \in Syncs \ {y} : stage'[z] = stage[z] /\ job'[z] = job[z]
BY DEF CatalogTypeOK, BeginSync, Advance, Syncing

LEMMA CatalogSteps ==
  ASSUME [CatalogNext]_catalog
  PROVE  \/ Change \/ UNCHANGED catalog
         \/ \E y \in Syncs : BeginSync(y) \/ Work(y) \/ FinishSync(y) \/ Fail(y)
BY DEF CatalogNext, Work

LEMMA Idle ==
  ASSUME Change \/ UNCHANGED catalog
  PROVE  UNCHANGED <<begun, rows, stage, job, crossed, last, told, astray>> /\ Syncing' = Syncing
BY DEF Change, catalog, Syncing

LEMMA SolitudeHolds ==
  ASSUME CatalogTypeOK, Solitude, [CatalogNext]_catalog
  PROVE  Solitude'
<1>1. CASE Change \/ UNCHANGED catalog
  BY <1>1, Idle DEF Solitude, Lone
<1>2. ASSUME NEW y \in Syncs, BeginSync(y)
      PROVE  Solitude'
  BY <1>2, BeginStands DEF Solitude, Lone, BeginSync, NoResult
<1>3. ASSUME NEW y \in Syncs, Work(y)
      PROVE  Solitude'
  BY <1>3, WorkStands DEF Solitude, Lone
<1>4. ASSUME NEW y \in Syncs, FinishSync(y) \/ Fail(y)
      PROVE  Solitude'
  <2>1. \A z \in Syncs : Lone(z)' => Syncing' = {z}
    BY <1>4, EndStands DEF Solitude, Lone
  <2>2. Fail(y) => last' = last
    BY DEF Fail
  <2>3. ASSUME FinishSync(y), y \in crossed
        PROVE  ~last'.alone
    <3>1. last' = NoResult
      BY <2>3 DEF FinishSync
    <3> QED BY <3>1 DEF NoResult
  <2>4. y \notin crossed => Syncing' = {}
    BY <1>4, EndStands DEF Solitude, Lone
  <2> QED BY <1>4, <2>1, <2>2, <2>3, <2>4, EndStands DEF Solitude
<1> QED BY <1>1, <1>2, <1>3, <1>4, CatalogSteps

LEMMA LoneSteps ==
  ASSUME CatalogTypeOK, Solitude, [CatalogNext]_catalog, NEW y \in Syncs, Lone(y)'
  PROVE  \/ BeginSync(y) /\ Syncing = {}
         \/ Lone(y) /\ Syncing = {y} /\ (Work(y) \/ Change \/ UNCHANGED catalog)
<1>1. CASE Change \/ UNCHANGED catalog
  BY <1>1, Idle DEF Solitude, Lone
<1>2. ASSUME NEW z \in Syncs, BeginSync(z)
      PROVE  z = y /\ Syncing = {}
  BY <1>2, BeginStands DEF Lone
<1>3. ASSUME NEW z \in Syncs, Work(z)
      PROVE  Lone(y) /\ Syncing = {y} /\ z = y
  BY <1>3, WorkStands DEF Solitude, Lone
<1>4. ASSUME NEW z \in Syncs, FinishSync(z) \/ Fail(z)
      PROVE  FALSE
  BY <1>4, EndStands DEF Solitude, Lone
<1> QED BY <1>1, <1>2, <1>3, <1>4, CatalogSteps
LEMMA TypedParts ==
  ASSUME CatalogTypeOK
  PROVE  /\ begun \in Int /\ \A o \in Objects : rows[o].seen \in Int
         /\ \A o \in Objects : rows[o] = [state |-> rows[o].state, seen |-> rows[o].seen]
         /\ \A o \in Objects : rows[o].state \in {"none", "live", "gone"}
         /\ \A y \in Syncs : /\ job[y].began \in Int
                             /\ job[y].found \subseteq Objects /\ job[y].stored \subseteq Objects
                             /\ job[y].swept \subseteq Objects /\ job[y].keys \in BOOLEAN
                             /\ job[y].before \in States
                             /\ job[y] \in Job
BY CatalogAssumption DEF CatalogTypeOK, Job, Row

(* What happens to a row: nothing, it is marked gone, or a sync stores it.  *)
LEMMA RowSteps ==
  ASSUME CatalogTypeOK, [CatalogNext]_catalog, NEW o \in Objects
  PROVE  \/ rows'[o] = rows[o]
         \/ rows[o].state = "live" /\ rows'[o].state = "gone" /\ rows'[o].seen = rows[o].seen
         \/ \E y \in Syncs :
              /\ rows'[o] = [state |-> "live", seen |-> job[y].began]
              /\ o \in Columns => TableOf[o] \in job[y].stored
<1>1. CASE Change \/ UNCHANGED catalog
  BY <1>1, Idle
<1>2. ASSUME NEW y \in Syncs, BeginSync(y) \/ Fail(y)
      PROVE  rows' = rows
  BY <1>2 DEF BeginSync, Fail
<1>3. ASSUME NEW y \in Syncs,
             SnapshotTables(y) \/ SnapshotColumns(y) \/ StoredKeys(y) \/ Introspect(y) \/ ForeignKeys(y)
      PROVE  rows' = rows
  BY <1>3 DEF SnapshotTables, SnapshotColumns, StoredKeys, Snapshot, Introspect, ForeignKeys
<1>4. ASSUME NEW y \in Syncs, Record(y) \/ RecordForeignKey(y), rows'[o] # rows[o]
      PROVE  /\ rows'[o] = [state |-> "live", seen |-> job[y].began]
             /\ o \in Columns => TableOf[o] \in job[y].stored
  BY <1>4, CatalogAssumption
     DEF CatalogTypeOK, Record, RecordForeignKey, Store, Stored, Left
<1>5. ASSUME NEW y \in Syncs, NEW S, rows'[o] # rows[o],
             rows' = [x \in Objects |->
               IF x \in Stale(y, S) THEN [rows[x] EXCEPT !.state = "gone"] ELSE rows[x]]
      PROVE  rows[o].state = "live" /\ rows'[o].state = "gone" /\ rows'[o].seen = rows[o].seen
  <2>1. o \in Stale(y, S) /\ rows'[o] = [rows[o] EXCEPT !.state = "gone"] /\ rows[o] \in Row
    BY <1>5 DEF CatalogTypeOK
  <2> QED BY <2>1 DEF Stale, Row
<1>6. ASSUME NEW y \in Syncs, MarkForeignKeysGone(y) \/ SweepColumns(y) \/ FinishSync(y),
             rows'[o] # rows[o]
      PROVE  rows[o].state = "live" /\ rows'[o].state = "gone" /\ rows'[o].seen = rows[o].seen
  BY <1>5, <1>6 DEF MarkForeignKeysGone, SweepColumns, Sweep, FinishSync
<1> QED BY <1>1, <1>2, <1>3, <1>4, <1>6, CatalogSteps DEF Work

(* What a step of a sync changes of its job.                                *)
Same(y, fields) == \A f \in fields : job'[y][f] = job[y][f]

LEMMA SnapshotJob ==
  ASSUME CatalogTypeOK, NEW y \in Syncs, NEW S, NEW from, NEW to, Snapshot(y, S, from, to)
  PROVE  /\ job'[y].before = [o \in Objects |-> IF o \in S THEN rows[o].state ELSE job[y].before[o]]
         /\ Same(y, {"began", "found", "stored", "swept", "keys"})
         /\ stage[y] = from /\ stage'[y] = to /\ rows' = rows
<1>1. job[y] \in Job /\ stage[y] = from /\ stage'[y] = to /\ rows' = rows
  BY DEF CatalogTypeOK, Snapshot, Advance
<1> DEFINE b == [o \in Objects |-> IF o \in S THEN rows[o].state ELSE job[y].before[o]]
<1>2. job'[y] = [job[y] EXCEPT !.before = b]
  BY DEF CatalogTypeOK, Snapshot
<1> HIDE DEF b
<1>3. job'[y].before = b /\ Same(y, {"began", "found", "stored", "swept", "keys"})
  BY <1>1, <1>2 DEF Job, Same
<1> QED BY <1>1, <1>3 DEF b

LEMMA FoundJob ==
  ASSUME CatalogTypeOK, NEW y \in Syncs
  PROVE  /\ Introspect(y) =>
              /\ job'[y].found = source \cap Shape
              /\ Same(y, {"began", "before", "stored", "swept", "keys"})
         /\ ForeignKeys(y) /\ stage'[y] = "keys found" =>
              /\ job'[y].found = job[y].found \cup (source \cap KeyRows) /\ job'[y].keys
              /\ Same(y, {"began", "before", "stored", "swept"})
         /\ ForeignKeys(y) => job' = job \/ stage'[y] = "keys found"
<1>1. job[y] \in Job
  BY DEF CatalogTypeOK
<1>2. ASSUME Introspect(y)
      PROVE  /\ job'[y].found = source \cap Shape
             /\ Same(y, {"began", "before", "stored", "swept", "keys"})
  <2>1. job'[y] = [job[y] EXCEPT !.found = source \cap Shape]
    BY <1>2 DEF CatalogTypeOK, Introspect
  <2> QED BY <1>1, <2>1 DEF Job, Same
<1>3. ASSUME ForeignKeys(y), stage'[y] = "keys found"
      PROVE  /\ job'[y].found = job[y].found \cup (source \cap KeyRows) /\ job'[y].keys
             /\ Same(y, {"began", "before", "stored", "swept"})
  <2>1. job' = [job EXCEPT ![y].found = @ \cup (source \cap KeyRows), ![y].keys = TRUE]
    BY <1>3 DEF CatalogTypeOK, ForeignKeys, Advance
  <2>2. job'[y] = [job[y] EXCEPT !.found = job[y].found \cup (source \cap KeyRows), !.keys = TRUE]
    BY <2>1 DEF CatalogTypeOK
  <2> QED BY <1>1, <2>2 DEF Job, Same
<1>4. ForeignKeys(y) => job' = job \/ stage'[y] = "keys found"
  BY DEF ForeignKeys, Advance, CatalogTypeOK
<1> QED BY <1>2, <1>3, <1>4

LEMMA StoreJob ==
  ASSUME CatalogTypeOK, NEW y \in Syncs, NEW o \in Objects, Store(y, o)
  PROVE  /\ job'[y].stored = job[y].stored \cup {o}
         /\ Same(y, {"began", "before", "found", "swept", "keys"})
         /\ rows'[o] = [state |-> "live", seen |-> job[y].began]
         /\ \A x \in Objects \ {o} : rows'[x] = rows[x]
         /\ stage' = stage
<1>1. job[y] \in Job
  BY DEF CatalogTypeOK
<1>2. job'[y] = [job[y] EXCEPT !.stored = job[y].stored \cup {o}]
  BY DEF CatalogTypeOK, Store
<1>3. /\ job'[y].stored = job[y].stored \cup {o}
      /\ Same(y, {"began", "before", "found", "swept", "keys"})
  BY <1>1, <1>2 DEF Job, Same
<1> QED BY <1>3 DEF Store, Stored, CatalogTypeOK

LEMMA SweepRows ==
  ASSUME CatalogTypeOK, NEW y \in Syncs, NEW S,
         rows' = [o \in Objects |->
           IF o \in Stale(y, S) THEN [rows[o] EXCEPT !.state = "gone"] ELSE rows[o]]
  PROVE  \A o \in Objects :
           /\ o \in Stale(y, S) => rows'[o].state = "gone" /\ rows'[o].seen = rows[o].seen
           /\ o \notin Stale(y, S) => rows'[o] = rows[o]
<1> SUFFICES ASSUME NEW o \in Objects
             PROVE  /\ o \in Stale(y, S) => rows'[o].state = "gone" /\ rows'[o].seen = rows[o].seen
                    /\ o \notin Stale(y, S) => rows'[o] = rows[o]
  OBVIOUS
<1>1. rows'[o] = IF o \in Stale(y, S) THEN [rows[o] EXCEPT !.state = "gone"] ELSE rows[o]
  OBVIOUS
<1> HIDE DEF Stale
<1>2. rows[o] \in Row
  BY DEF CatalogTypeOK
<1> QED BY <1>1, <1>2 DEF Row

LEMMA SweepJob ==
  ASSUME CatalogTypeOK, NEW y \in Syncs, NEW S, NEW from, NEW to, Sweep(y, S, from, to)
  PROVE  /\ job'[y].swept = job[y].swept \cup Stale(y, S)
         /\ Same(y, {"began", "before", "found", "stored", "keys"})
         /\ stage[y] = from /\ stage'[y] = to
         /\ \A o \in Objects :
              /\ o \in Stale(y, S) => rows'[o].state = "gone" /\ rows'[o].seen = rows[o].seen
              /\ o \notin Stale(y, S) => rows'[o] = rows[o]
<1>1. job[y] \in Job /\ stage[y] = from /\ stage'[y] = to
  BY DEF CatalogTypeOK, Sweep, Advance
<1>2. job'[y] = [job[y] EXCEPT !.swept = job[y].swept \cup Stale(y, S)]
  BY DEF CatalogTypeOK, Sweep
<1>3. /\ job'[y].swept = job[y].swept \cup Stale(y, S)
      /\ Same(y, {"began", "before", "found", "stored", "keys"})
  BY <1>1, <1>2 DEF Job, Same
<1>4. \A o \in Objects :
        /\ o \in Stale(y, S) => rows'[o].state = "gone" /\ rows'[o].seen = rows[o].seen
        /\ o \notin Stale(y, S) => rows'[o] = rows[o]
  BY SweepRows DEF Sweep
<1> QED BY <1>1, <1>3, <1>4

LEMMA JobSteps ==
  ASSUME CatalogTypeOK, NEW z \in Syncs, Work(z), NEW y \in Syncs
  PROVE  /\ job'[y].began = job[y].began
         /\ ~(Record(z) \/ RecordForeignKey(z)) => job'[y].stored = job[y].stored
<1> SUFFICES ASSUME y = z
             PROVE  /\ job'[y].began = job[y].began
                    /\ ~(Record(z) \/ RecordForeignKey(z)) => job'[y].stored = job[y].stored
  BY WorkStands
<1>1. CASE SnapshotTables(z) \/ SnapshotColumns(z) \/ StoredKeys(z)
  BY <1>1, SnapshotJob DEF SnapshotTables, SnapshotColumns, StoredKeys, Same
<1>2. CASE Introspect(z) \/ ForeignKeys(z)
  BY <1>2, FoundJob DEF Same
<1>3. CASE Record(z) \/ RecordForeignKey(z)
  BY <1>3, StoreJob, TypedParts DEF Record, RecordForeignKey, Left, Same
<1>4. CASE MarkForeignKeysGone(z) \/ SweepColumns(z)
  BY <1>4, SweepJob DEF MarkForeignKeysGone, SweepColumns, Same
<1> QED BY <1>1, <1>2, <1>3, <1>4 DEF Work

LEMMA TimesHold ==
  ASSUME CatalogTypeOK, Times, [CatalogNext]_catalog
  PROVE  Times'
<1> USE DEF Times
<1>1. begun' >= begun /\ begun' \in Int
  <2>1. CASE \E y \in Syncs : BeginSync(y)
    BY <2>1, TypedParts DEF BeginSync
  <2> QED BY <2>1, TypedParts, CatalogSteps, Idle, WorkStands, EndStands
<1>2. \A o \in Objects : rows'[o].seen <= begun'
  <2> SUFFICES ASSUME NEW o \in Objects
               PROVE  rows'[o].seen <= begun'
    OBVIOUS
  <2>1. rows'[o].seen = rows[o].seen \/ \E y \in Syncs : rows'[o].seen = job[y].began
    <3>1. CASE \E y \in Syncs : rows'[o] = [state |-> "live", seen |-> job[y].began]
      BY <3>1
    <3> QED BY <3>1, RowSteps
  <2> QED BY <1>1, <2>1, TypedParts
<1>3. ASSUME NEW y \in Syncs
      PROVE  job'[y].began <= begun'
  <2>1. job'[y].began \in {job[y].began, 0, begun'}
    <3>1. CASE Change \/ UNCHANGED catalog
      BY <3>1, Idle
    <3>2. ASSUME NEW z \in Syncs, BeginSync(z)
          PROVE  job'[y].began \in {job[y].began, begun'}
      BY <3>2, BeginStands DEF NoJob
    <3>3. ASSUME NEW z \in Syncs, FinishSync(z) \/ Fail(z)
          PROVE  job'[y].began \in {job[y].began, 0}
      BY <3>3, EndStands DEF NoJob
    <3>4. ASSUME NEW z \in Syncs, Work(z)
          PROVE  job'[y].began = job[y].began
      BY <3>4, JobSteps
    <3> QED BY <3>1, <3>2, <3>3, <3>4, CatalogSteps
  <2>2. 0 <= begun'
    BY <1>1, CatalogAssumption DEF CatalogTypeOK
  <2> QED BY <1>1, <2>1, <2>2, TypedParts
<1> QED BY <1>2, <1>3

LEMMA TabledHolds ==
  ASSUME CatalogTypeOK, Tabled, [CatalogNext]_catalog
  PROVE  Tabled'
<1> USE DEF Tabled
<1>1. ASSUME NEW o \in Objects, rows[o].state # "none"
      PROVE  rows'[o].state # "none"
  <2>1. CASE \E y \in Syncs : rows'[o] = [state |-> "live", seen |-> job[y].began]
    BY <2>1
  <2> QED BY <1>1, <2>1, RowSteps
<1>2. ASSUME NEW y \in Syncs, NEW o \in job'[y].stored
      PROVE  o \in job[y].stored \/ rows'[o].state # "none"
  <2>1. CASE Change \/ UNCHANGED catalog
    BY <1>2, <2>1, Idle
  <2>2. ASSUME NEW z \in Syncs, BeginSync(z)
        PROVE  o \in job[y].stored
    BY <1>2, <2>2, BeginStands DEF NoJob
  <2>3. ASSUME NEW z \in Syncs, FinishSync(z) \/ Fail(z)
        PROVE  o \in job[y].stored
    BY <1>2, <2>3, EndStands DEF NoJob
  <2>4. ASSUME NEW z \in Syncs, Record(z) \/ RecordForeignKey(z), o \notin job[y].stored
        PROVE  rows'[o].state = "live"
    <3>1. PICK x \in Objects : Store(z, x)
      BY <2>4, TypedParts DEF Record, RecordForeignKey, Left
    <3>2. job'[y].stored \subseteq job[y].stored \cup {x}
      BY <3>1 DEF Store, CatalogTypeOK, Job
    <3>3. x = o
      BY <1>2, <2>4, <3>2
    <3> QED BY <3>1, <3>3 DEF Store, Stored, CatalogTypeOK
  <2>5. ASSUME NEW z \in Syncs, Work(z), ~(Record(z) \/ RecordForeignKey(z))
        PROVE  job'[y].stored = job[y].stored
    BY <2>5, JobSteps
  <2> QED BY <1>2, <2>1, <2>2, <2>3, <2>4, <2>5, CatalogSteps
<1>3. ASSUME NEW y \in Syncs, NEW o \in job'[y].stored
      PROVE  rows'[o].state # "none"
  BY <1>1, <1>2, <1>3, TypedParts
<1>4. ASSUME NEW x \in Columns, rows'[x].state # "none"
      PROVE  rows'[TableOf[x]].state # "none"
  <2>1. x \in Objects /\ TableOf[x] \in Objects
    BY CatalogAssumption DEF Objects, Shape
  <2>2. rows[x].state # "none" \/ \E y \in Syncs : TableOf[x] \in job[y].stored
    BY <1>4, <2>1, RowSteps
  <2> QED BY <1>1, <2>1, <2>2
<1> QED BY <1>3, <1>4
-----------------------------------------------------------------------------
(* The job of a sync that runs alone.                                       *)

LoneFacts(y) == Stamped(y) /\ FoundSoFar(y) /\ Remembered(y) /\ SweptMissing(y)

LEMMA LoneBegins ==
  ASSUME CatalogTypeOK, Times, NEW y \in Syncs, BeginSync(y)
  PROVE  LoneFacts(y)'
<1>1. stage'[y] = "begun" /\ begun' = begun + 1 /\ rows' = rows
  BY BeginStands DEF BeginSync
<1>2. /\ job'[y].began = begun' /\ job'[y].found = {} /\ job'[y].stored = {}
      /\ job'[y].swept = {} /\ job'[y].keys = FALSE
      /\ job'[y].before = [o \in Objects |-> "none"]
  BY BeginStands DEF NoJob
<1>3. Stamped(y)'
  BY <1>1, <1>2, TypedParts DEF Stamped, Times
<1>4. FoundSoFar(y)'
  BY <1>1, <1>2 DEF FoundSoFar, Early, Late, ReadingTables
<1>5. Remembered(y)'
  BY <1>1, <1>2 DEF Remembered, ReadingTables, Objects, Shape
<1>6. SweptMissing(y)'
  BY <1>1, <1>2 DEF SweptMissing, SweptKeys, SweptColumns, Late
<1> QED BY <1>3, <1>4, <1>5, <1>6 DEF LoneFacts

(* Until the sweeps nothing is swept, and until the source is read nothing  *)
(* is stored.                                                               *)
LEMMA NothingYet ==
  ASSUME CatalogTypeOK, NEW y \in Syncs, LoneFacts(y)
  PROVE  /\ stage[y] \notin Late => job[y].swept = {}
         /\ stage[y] \in {"begun", "tables", "known"} => job[y].stored = {}
BY DEF LoneFacts, SweptMissing, SweptKeys, SweptColumns, Late, Stamped, FoundSoFar

LEMMA LoneSnapshots ==
  ASSUME CatalogTypeOK, Tabled, NEW y \in Syncs, LoneFacts(y),
         SnapshotTables(y) \/ SnapshotColumns(y) \/ StoredKeys(y)
  PROVE  LoneFacts(y)'
<1> DEFINE X == {x \in Columns : job[y].before[TableOf[x]] # "none"}
<1>1. /\ Same(y, {"began", "found", "stored", "swept", "keys"}) /\ rows' = rows /\ begun' = begun
      /\ stage[y] \notin Late /\ stage'[y] \notin Late
  <2>1. \/ Snapshot(y, Tables, "begun", "tables") \/ Snapshot(y, X, "tables", "known")
        \/ Snapshot(y, KeyRows, "keys found", "keys known")
    BY DEF SnapshotTables, SnapshotColumns, StoredKeys
  <2>2. begun' = begun
    BY <2>1 DEF Snapshot
  <2>3. Same(y, {"began", "found", "stored", "swept", "keys"}) /\ rows' = rows
    <3>1. CASE Snapshot(y, Tables, "begun", "tables")
      BY <3>1, SnapshotJob
    <3>2. CASE Snapshot(y, X, "tables", "known")
      BY <3>2, SnapshotJob
    <3>3. CASE Snapshot(y, KeyRows, "keys found", "keys known")
      BY <3>3, SnapshotJob
    <3> QED BY <2>1, <3>1, <3>2, <3>3
  <2>4. stage[y] \notin Late /\ stage'[y] \notin Late
    BY <2>1 DEF Snapshot, Advance, CatalogTypeOK, Late
  <2> QED BY <2>2, <2>3, <2>4
<1>2. Stamped(y)'
  BY <1>1 DEF LoneFacts, Stamped, Same
<1>3. job'[y].swept = {} /\ SweptMissing(y)'
  BY <1>1, NothingYet DEF SweptMissing, SweptKeys, SweptColumns, Late, Same
<1>4. CASE SnapshotTables(y)
  <2>1. /\ stage[y] = "begun" /\ stage'[y] = "tables"
        /\ \A o \in Objects :
             job'[y].before[o] = IF o \in Tables THEN rows[o].state ELSE job[y].before[o]
    <3>1. Snapshot(y, Tables, "begun", "tables")
      BY <1>4 DEF SnapshotTables
    <3>2. /\ job'[y].before = [o \in Objects |-> IF o \in Tables THEN rows[o].state ELSE job[y].before[o]]
          /\ stage[y] = "begun" /\ stage'[y] = "tables"
      BY <3>1, SnapshotJob
    <3> QED BY <3>2
  <2>2. FoundSoFar(y)'
    BY <1>1, <2>1 DEF LoneFacts, FoundSoFar, Same, Early, Late, ReadingTables
  <2>3. Remembered(y)'
    BY <1>1, <2>1, <2>2, CatalogAssumption
       DEF LoneFacts, Remembered, Kept, ReadingTables, Objects, Shape, FoundSoFar, Early, Same
  <2> QED BY <1>2, <1>3, <2>2, <2>3 DEF LoneFacts
<1>5. CASE SnapshotColumns(y)
  <2>1. /\ stage[y] = "tables" /\ stage'[y] = "known"
        /\ \A o \in Objects :
             job'[y].before[o] = IF o \in X THEN rows[o].state ELSE job[y].before[o]
    <3>1. Snapshot(y, X, "tables", "known")
      BY <1>5 DEF SnapshotColumns
    <3>2. /\ job'[y].before = [o \in Objects |-> IF o \in X THEN rows[o].state ELSE job[y].before[o]]
          /\ stage[y] = "tables" /\ stage'[y] = "known"
      BY <3>1, SnapshotJob
    <3> QED BY <3>2
  <2>2. FoundSoFar(y)'
    BY <1>1, <2>1 DEF LoneFacts, FoundSoFar, Same, Early, Late, ReadingTables
  <2>3. job[y].stored = {} /\ job[y].swept = {}
    BY <2>1, NothingYet DEF Late
  <2>4. \A t \in Tables : rows[t].state = job[y].before[t] /\ t \in Objects /\ t \notin X
    BY <2>1, <2>3, CatalogAssumption DEF LoneFacts, Remembered, Kept, Objects, Shape
  <2>5. \A x \in Columns : job[y].before[x] = "none" /\ x \in Objects /\ TableOf[x] \in Tables
    BY <2>1, CatalogAssumption DEF LoneFacts, Remembered, ReadingTables, Objects, Shape
  <2>6. ASSUME NEW x \in Columns
        PROVE  job'[y].before[x] = rows[x].state
    <3>1. CASE x \in X
      BY <2>1, <2>5, <3>1
    <3>2. CASE x \notin X
      BY <2>1, <2>4, <2>5, <3>2 DEF Tabled
    <3> QED BY <3>1, <3>2
  <2>7. Kept(y, Tables)' /\ Kept(y, Columns)'
    BY <1>1, <2>1, <2>4, <2>6 DEF Kept
  <2>8. ~job'[y].keys
    BY <2>1, <2>2 DEF FoundSoFar, Early
  <2>9. Remembered(y)'
    BY <2>1, <2>7, <2>8 DEF Remembered, ReadingTables
  <2> QED BY <1>2, <1>3, <2>2, <2>9 DEF LoneFacts
<1>6. CASE StoredKeys(y)
  <2>1. /\ stage[y] = "keys found" /\ stage'[y] = "keys known"
        /\ \A o \in Objects :
             job'[y].before[o] = IF o \in KeyRows THEN rows[o].state ELSE job[y].before[o]
    <3>1. Snapshot(y, KeyRows, "keys found", "keys known")
      BY <1>6 DEF StoredKeys
    <3>2. /\ job'[y].before = [o \in Objects |-> IF o \in KeyRows THEN rows[o].state ELSE job[y].before[o]]
          /\ stage[y] = "keys found" /\ stage'[y] = "keys known"
      BY <3>1, SnapshotJob
    <3> QED BY <3>2
  <2>2. FoundSoFar(y)'
    BY <1>1, <2>1 DEF LoneFacts, FoundSoFar, Same, Early, Late, ReadingTables
  <2>3. Kept(y, Tables)' /\ Kept(y, Columns)' /\ Kept(y, KeyRows)'
    BY <1>1, <2>1, CatalogAssumption
       DEF LoneFacts, Remembered, Kept, ReadingTables, Objects, Shape, Same
  <2>4. Remembered(y)'
    BY <2>1, <2>3 DEF Remembered, ReadingTables
  <2> QED BY <1>2, <1>3, <2>2, <2>4 DEF LoneFacts
<1> QED BY <1>4, <1>5, <1>6

LEMMA LoneFinds ==
  ASSUME CatalogTypeOK, NEW y \in Syncs, LoneFacts(y), Introspect(y) \/ ForeignKeys(y)
  PROVE  LoneFacts(y)'
<1>1. /\ Same(y, {"began", "before", "stored", "swept"}) /\ rows' = rows /\ begun' = begun
      /\ stage[y] \in {"known", "recording"} /\ stage'[y] # "columns swept"
      /\ stage'[y] \notin ReadingTables
  BY FoundJob DEF Introspect, ForeignKeys, Same, Advance, CatalogTypeOK, ReadingTables
<1>2. job[y].found \subseteq job'[y].found
  BY FoundJob DEF Introspect, Advance, LoneFacts, FoundSoFar, Same, ForeignKeys
<1>3. Stamped(y)'
  BY <1>1, <1>2 DEF LoneFacts, Stamped, Same
<1>4. FoundSoFar(y)'
  <2>1. CASE Introspect(y)
    <3>1. stage[y] = "known" /\ stage'[y] = "recording"
      BY <2>1 DEF Introspect, Advance, CatalogTypeOK
    <3> QED BY <2>1, <3>1, FoundJob DEF LoneFacts, FoundSoFar, Same, Early, Late, ReadingTables
  <2>2. CASE ForeignKeys(y) /\ stage'[y] = "keys found"
    <3>1. /\ stage[y] = "recording" /\ job[y].found \cap Shape \subseteq job[y].stored
          /\ job[y].found \subseteq Shape /\ job[y].stored \subseteq job[y].found
      BY <2>2 DEF ForeignKeys, Advance, Left, LoneFacts, FoundSoFar, Stamped
    <3>2. KeyRows \cap Shape = {}
      BY CatalogAssumption DEF Shape
    <3> QED BY <2>2, <3>1, <3>2, FoundJob DEF FoundSoFar, Same, Early, Late, ReadingTables
  <2>3. CASE ForeignKeys(y) /\ stage'[y] # "keys found"
    <3>1. /\ stage[y] = "recording" /\ job[y].found \cap Shape \subseteq job[y].stored
          /\ job[y].found \subseteq Shape /\ job' = job /\ stage'[y] = "keys"
      BY <2>3 DEF ForeignKeys, Advance, Left, LoneFacts, FoundSoFar, CatalogTypeOK
    <3> QED BY <2>3, <3>1 DEF LoneFacts, FoundSoFar, Early, Late, ReadingTables
  <2> QED BY <2>1, <2>2, <2>3
<1>5. ~job[y].keys /\ job[y].swept = {}
  BY <1>1, NothingYet DEF LoneFacts, FoundSoFar, Early, Late
<1>6. job'[y].keys => stage'[y] = "keys found"
  BY <1>5, FoundJob DEF Introspect, ForeignKeys, Same
<1>7. Remembered(y)'
  BY <1>1, <1>6 DEF LoneFacts, Remembered, Kept, Same, ReadingTables
<1>8. SweptMissing(y)'
  BY <1>1, <1>5, <1>6 DEF SweptMissing, SweptKeys, SweptColumns, Late, Same
<1> QED BY <1>3, <1>4, <1>7, <1>8 DEF LoneFacts
LEMMA LoneStores ==
  ASSUME CatalogTypeOK, NEW y \in Syncs, LoneFacts(y), Record(y) \/ RecordForeignKey(y)
  PROVE  LoneFacts(y)'
<1>1. PICK o \in Objects : Store(y, o) /\ o \in job[y].found
  BY TypedParts DEF Record, RecordForeignKey, Left
<1>2. /\ job'[y].stored = job[y].stored \cup {o}
      /\ Same(y, {"began", "before", "found", "swept", "keys"})
      /\ rows'[o] = [state |-> "live", seen |-> job[y].began]
      /\ \A x \in Objects \ {o} : rows'[x] = rows[x]
      /\ stage' = stage /\ begun' = begun
  BY <1>1, StoreJob DEF Store
<1>3. stage[y] \in {"recording", "keys known"} /\ stage[y] \notin Late
  BY DEF Record, RecordForeignKey, Late
<1>4. Stamped(y)'
  BY <1>1, <1>2, TypedParts DEF LoneFacts, Stamped, Same
<1>5. FoundSoFar(y)'
  BY <1>2, <1>3 DEF LoneFacts, FoundSoFar, Same, Early, Late, ReadingTables
<1>6. job[y].swept = {}
  BY <1>3, NothingYet
<1>7. \A S : S \subseteq Objects /\ Kept(y, S) => Kept(y, S)'
  BY <1>2 DEF Kept, Same
<1>8. Remembered(y)'
  <2>1. Tables \subseteq Objects /\ Columns \subseteq Objects /\ KeyRows \subseteq Objects
    BY DEF Objects, Shape
  <2>2. Kept(y, Tables) /\ Kept(y, Columns) /\ (job[y].keys => Kept(y, KeyRows))
    BY <1>3 DEF LoneFacts, Remembered, ReadingTables
  <2>3. Kept(y, Tables)' /\ Kept(y, Columns)' /\ (job'[y].keys => Kept(y, KeyRows)')
    BY <1>2, <2>1, <2>2 DEF Same, Kept
  <2> QED BY <1>2, <1>3, <2>3 DEF Remembered, ReadingTables
<1>9. SweptMissing(y)'
  BY <1>2, <1>3, <1>6 DEF SweptMissing, SweptKeys, SweptColumns, Same, Late
<1> QED BY <1>4, <1>5, <1>8, <1>9 DEF LoneFacts

(* What a lone sync finds stale is what its snapshot had and it has not     *)
(* stored again.                                                            *)
LEMMA StaleIsMissing ==
  ASSUME CatalogTypeOK, NEW y \in Syncs, LoneFacts(y), NEW S \in SUBSET Objects, Kept(y, S),
         S \cap job[y].found \subseteq job[y].stored, S \cap job[y].swept = {}
  PROVE  Stale(y, S) = Missing(y, S)
<1> SUFFICES ASSUME NEW o \in S
             PROVE  o \in Stale(y, S) <=> o \in Missing(y, S)
  BY DEF Stale, Missing
<1>1. o \in Objects /\ o \notin job[y].swept /\ (o \in job[y].found <=> o \in job[y].stored)
  BY DEF LoneFacts, Stamped
<1>2. CASE o \in job[y].stored
  BY <1>1, <1>2, TypedParts DEF Stale, Missing, LoneFacts, Stamped
<1>3. CASE o \notin job[y].stored
  <2>1. rows[o].state = job[y].before[o] /\ rows[o].seen < job[y].began
    BY <1>1, <1>3 DEF LoneFacts, Stamped, Kept
  <2> QED BY <1>1, <1>3, <2>1 DEF Stale, Missing
<1> QED BY <1>2, <1>3

LEMMA LoneSweeps ==
  ASSUME CatalogTypeOK, NEW y \in Syncs, LoneFacts(y), MarkForeignKeysGone(y) \/ SweepColumns(y)
  PROVE  LoneFacts(y)'
<1> USE CatalogAssumption
<1>1. CASE MarkForeignKeysGone(y)
  <2>1. /\ job'[y].swept = job[y].swept \cup Stale(y, KeyRows)
        /\ Same(y, {"began", "before", "found", "stored", "keys"})
        /\ stage[y] = "keys known" /\ stage'[y] = "keys" /\ begun' = begun
        /\ \A o \in Objects :
             /\ o \in Stale(y, KeyRows) => rows'[o].state = "gone" /\ rows'[o].seen = rows[o].seen
             /\ o \notin Stale(y, KeyRows) => rows'[o] = rows[o]
    <3>1. Sweep(y, KeyRows, "keys known", "keys")
      BY <1>1 DEF MarkForeignKeysGone
    <3>2. begun' = begun
      BY <3>1 DEF Sweep
    <3>3. job'[y].swept = job[y].swept \cup Stale(y, KeyRows)
      BY <3>1, SweepJob
    <3>4. Same(y, {"began", "before", "found", "stored", "keys"})
      BY <3>1, SweepJob
    <3>5. stage[y] = "keys known" /\ stage'[y] = "keys"
      BY <3>1 DEF Sweep, Advance, CatalogTypeOK
    <3>6. \A o \in Objects :
            /\ o \in Stale(y, KeyRows) => rows'[o].state = "gone" /\ rows'[o].seen = rows[o].seen
            /\ o \notin Stale(y, KeyRows) => rows'[o] = rows[o]
      <4>1. rows' = [o \in Objects |->
              IF o \in Stale(y, KeyRows) THEN [rows[o] EXCEPT !.state = "gone"] ELSE rows[o]]
        BY <3>1 DEF Sweep
      <4> SUFFICES ASSUME NEW o \in Objects
                   PROVE  /\ o \in Stale(y, KeyRows) =>
                               rows'[o].state = "gone" /\ rows'[o].seen = rows[o].seen
                          /\ o \notin Stale(y, KeyRows) => rows'[o] = rows[o]
        OBVIOUS
      <4>2. rows'[o] = IF o \in Stale(y, KeyRows) THEN [rows[o] EXCEPT !.state = "gone"] ELSE rows[o]
        BY <4>1
      <4>3. rows[o] \in Row
        BY DEF CatalogTypeOK
      <4> QED BY <4>2, <4>3 DEF Row
    <3> QED BY <3>2, <3>3, <3>4, <3>5, <3>6
  <2>2. job[y].swept = {} /\ job[y].keys /\ Kept(y, KeyRows) /\ Kept(y, Tables) /\ Kept(y, Columns)
    BY <2>1, NothingYet DEF LoneFacts, FoundSoFar, Remembered, Late, ReadingTables
  <2>3. KeyRows \cap job[y].found \subseteq job[y].stored /\ KeyRows \subseteq Objects
    BY <1>1 DEF MarkForeignKeysGone, Left, Objects
  <2>4. Stale(y, KeyRows) = Missing(y, KeyRows)
    BY <2>2, <2>3, StaleIsMissing
  <2>5. \A o \in Missing(y, KeyRows) : o \in KeyRows /\ o \in Objects /\ o \notin job[y].stored
    BY <2>3 DEF Missing, LoneFacts, Stamped
  <2>6. Stamped(y)'
    BY <2>1, <2>4, <2>5, TypedParts DEF LoneFacts, Stamped, Same
  <2>7. FoundSoFar(y)'
    <3>1. job[y].found \subseteq job[y].stored
      BY <2>1, <2>3, TypedParts DEF LoneFacts, FoundSoFar, Early, Objects
    <3> QED BY <2>1, <2>2, <3>1 DEF FoundSoFar, Same, Early, Late, ReadingTables
  <2>8. Kept(y, Tables)' /\ Kept(y, Columns)' /\ Kept(y, KeyRows)'
    BY <2>1, <2>2, <2>4, <2>5 DEF Kept, Same, Objects, Shape
  <2>9. Remembered(y)'
    BY <2>1, <2>8 DEF Remembered, ReadingTables
  <2>10. SweptMissing(y)'
    <3>1. job'[y].swept = Missing(y, KeyRows) /\ Missing(y, KeyRows)' = Missing(y, KeyRows)
      BY <2>1, <2>2, <2>4 DEF Missing, Same
    <3>2. \A o \in job'[y].swept : rows'[o].state = "gone"
      BY <2>1, <2>4, <2>5, <3>1
    <3>3. job'[y].keys
      BY <2>1, <2>2 DEF Same
    <3>4. SweptKeys(y)' = Missing(y, KeyRows) /\ SweptColumns(y)' = {}
      BY <2>1, <3>1, <3>3 DEF SweptKeys, SweptColumns, Late
    <3> QED BY <3>1, <3>2, <3>4 DEF SweptMissing
  <2> QED BY <2>6, <2>7, <2>9, <2>10 DEF LoneFacts
<1>2. CASE SweepColumns(y)
  <2>1. /\ job'[y].swept = job[y].swept \cup Stale(y, Columns)
        /\ Same(y, {"began", "before", "found", "stored", "keys"})
        /\ stage[y] = "keys" /\ stage'[y] = "columns swept" /\ begun' = begun
        /\ \A o \in Objects :
             /\ o \in Stale(y, Columns) => rows'[o].state = "gone" /\ rows'[o].seen = rows[o].seen
             /\ o \notin Stale(y, Columns) => rows'[o] = rows[o]
    <3>1. Sweep(y, Columns, "keys", "columns swept")
      BY <1>2 DEF SweepColumns
    <3>2. begun' = begun
      BY <3>1 DEF Sweep
    <3>3. job'[y].swept = job[y].swept \cup Stale(y, Columns)
      BY <3>1, SweepJob
    <3>4. Same(y, {"began", "before", "found", "stored", "keys"})
      BY <3>1, SweepJob
    <3>5. stage[y] = "keys" /\ stage'[y] = "columns swept"
      BY <3>1 DEF Sweep, Advance, CatalogTypeOK
    <3>6. \A o \in Objects :
            /\ o \in Stale(y, Columns) => rows'[o].state = "gone" /\ rows'[o].seen = rows[o].seen
            /\ o \notin Stale(y, Columns) => rows'[o] = rows[o]
      <4>1. rows' = [o \in Objects |->
              IF o \in Stale(y, Columns) THEN [rows[o] EXCEPT !.state = "gone"] ELSE rows[o]]
        BY <3>1 DEF Sweep
      <4> SUFFICES ASSUME NEW o \in Objects
                   PROVE  /\ o \in Stale(y, Columns) =>
                               rows'[o].state = "gone" /\ rows'[o].seen = rows[o].seen
                          /\ o \notin Stale(y, Columns) => rows'[o] = rows[o]
        OBVIOUS
      <4>2. rows'[o] = IF o \in Stale(y, Columns) THEN [rows[o] EXCEPT !.state = "gone"] ELSE rows[o]
        BY <4>1
      <4>3. rows[o] \in Row
        BY DEF CatalogTypeOK
      <4> QED BY <4>2, <4>3 DEF Row
    <3> QED BY <3>2, <3>3, <3>4, <3>5, <3>6
  <2>2. job[y].found \subseteq job[y].stored /\ Kept(y, Tables) /\ Kept(y, Columns)
    BY <2>1 DEF LoneFacts, FoundSoFar, Remembered, Late, ReadingTables
  <2>3. job[y].swept = SweptKeys(y) /\ job[y].swept \subseteq KeyRows
    BY <2>1 DEF LoneFacts, SweptMissing, SweptKeys, SweptColumns, Missing
  <2>4. Columns \subseteq Objects /\ Columns \cap job[y].swept = {}
    BY <2>3 DEF Objects, Shape
  <2>5. Stale(y, Columns) = Missing(y, Columns)
    BY <2>2, <2>4, StaleIsMissing
  <2>6. \A o \in Missing(y, Columns) : o \in Columns /\ o \in Objects /\ o \notin job[y].stored
    BY <2>4 DEF Missing, LoneFacts, Stamped
  <2>7. Stamped(y)'
    BY <2>1, <2>5, <2>6, TypedParts DEF LoneFacts, Stamped, Same
  <2>8. FoundSoFar(y)'
    BY <2>1 DEF LoneFacts, FoundSoFar, Same, Early, Late, ReadingTables
  <2>9. Kept(y, Tables)' /\ Kept(y, Columns)'
    BY <2>1, <2>2, <2>5, <2>6 DEF Kept, Same, Objects, Shape
  <2>10. job[y].keys => Kept(y, KeyRows)'
    <3>1. job[y].keys => Kept(y, KeyRows)
      BY <2>1 DEF LoneFacts, Remembered
    <3> QED BY <2>1, <2>5, <2>6, <3>1 DEF Kept, Same, Objects, Shape
  <2>11. Remembered(y)'
    BY <2>1, <2>9, <2>10 DEF Remembered, ReadingTables, Same
  <2>12. SweptMissing(y)'
    <3>1. Missing(y, KeyRows)' = Missing(y, KeyRows) /\ Missing(y, Columns)' = Missing(y, Columns)
      BY <2>1 DEF Missing, Same
    <3>2. SweptKeys(y)' = SweptKeys(y) /\ SweptColumns(y)' = Missing(y, Columns)
      BY <2>1, <3>1 DEF SweptKeys, SweptColumns, Late, Same
    <3>3. \A o \in job'[y].swept : rows'[o].state = "gone"
      <4>1. \A o \in job[y].swept : o \in Objects /\ rows[o].state = "gone"
        BY TypedParts DEF LoneFacts, SweptMissing
      <4> QED BY <2>1, <4>1, <2>6, <2>5
    <3> QED BY <2>1, <2>3, <2>5, <3>2, <3>3 DEF SweptMissing
  <2> QED BY <2>7, <2>8, <2>11, <2>12 DEF LoneFacts
<1> QED BY <1>1, <1>2

LEMMA LoneJobHolds ==
  ASSUME CatalogTypeOK, Solitude, Times, Tabled, LoneJob, [CatalogNext]_catalog
  PROVE  LoneJob'
<1> SUFFICES ASSUME NEW y \in Syncs, Lone(y)'
             PROVE  LoneFacts(y)'
  BY DEF LoneJob, LoneFacts
<1>1. CASE BeginSync(y)
  BY <1>1, LoneBegins
<1>2. CASE Lone(y) /\ Work(y)
  <2>1. LoneFacts(y)
    BY <1>2 DEF LoneJob, LoneFacts
  <2> QED BY <1>2, <2>1, LoneSnapshots, LoneFinds, LoneStores, LoneSweeps DEF Work
<1>3. CASE Lone(y) /\ (Change \/ UNCHANGED catalog)
  <2>1. LoneFacts(y)
    BY <1>3 DEF LoneJob, LoneFacts
  <2>2. begun' = begun /\ rows' = rows /\ stage' = stage /\ job' = job
    BY <1>3, Idle
  <2>3. Stamped(y)' /\ FoundSoFar(y)'
    BY <2>1, <2>2 DEF LoneFacts, Stamped, FoundSoFar
  <2>4. Remembered(y)' /\ SweptMissing(y)'
    BY <2>1, <2>2 DEF LoneFacts, Remembered, SweptMissing, Kept, SweptKeys, SweptColumns, Missing
  <2> QED BY <2>3, <2>4 DEF LoneFacts
<1> QED BY <1>1, <1>2, <1>3, LoneSteps
-----------------------------------------------------------------------------
(* The end of a sync that ran alone.                                        *)

LEMMA LoneEnds ==
  ASSUME CatalogTypeOK, NEW y \in Syncs, LoneFacts(y), FinishSync(y)
  PROVE  /\ job[y].found \subseteq job[y].stored
         /\ Stale(y, Tables) = Missing(y, Tables)
         /\ job[y].swept = SweptKeys(y) \cup Missing(y, Columns)
         /\ SweptKeys(y) = IF job[y].keys THEN Missing(y, KeyRows) ELSE {}
         /\ Kept(y, Tables) /\ Kept(y, Columns) /\ (job[y].keys => Kept(y, KeyRows))
         /\ \A o \in Objects :
              /\ o \in Missing(y, Tables) => rows'[o].state = "gone"
              /\ o \notin Missing(y, Tables) => rows'[o] = rows[o]
<1> USE CatalogAssumption
<1>1. stage[y] = "columns swept"
  BY DEF FinishSync, Advance
<1>2. /\ job[y].found \subseteq job[y].stored
      /\ Kept(y, Tables) /\ Kept(y, Columns) /\ (job[y].keys => Kept(y, KeyRows))
  BY <1>1 DEF LoneFacts, FoundSoFar, Remembered, Late, ReadingTables
<1>3. SweptKeys(y) = IF job[y].keys THEN Missing(y, KeyRows) ELSE {}
  BY <1>1 DEF SweptKeys, Late
<1>4. job[y].swept = SweptKeys(y) \cup Missing(y, Columns)
  BY <1>1 DEF LoneFacts, SweptMissing, SweptColumns
<1>5. Tables \in SUBSET Objects /\ Tables \cap job[y].swept = {}
  BY <1>3, <1>4 DEF Missing, Objects, Shape
<1>6. Stale(y, Tables) = Missing(y, Tables)
  BY <1>2, <1>5, StaleIsMissing
<1>7. ASSUME NEW o \in Objects
      PROVE  /\ o \in Missing(y, Tables) => rows'[o].state = "gone"
             /\ o \notin Missing(y, Tables) => rows'[o] = rows[o]
  <2>1. rows'[o] = IF o \in Missing(y, Tables) THEN [rows[o] EXCEPT !.state = "gone"] ELSE rows[o]
    BY <1>6 DEF FinishSync
  <2>2. rows[o] \in Row
    BY DEF CatalogTypeOK
  <2> QED BY <2>1, <2>2 DEF Row
<1> QED BY <1>2, <1>3, <1>4, <1>6, <1>7

(* It leaves what it found.                                                 *)
LEMMA LoneLeaves ==
  ASSUME CatalogTypeOK, NEW y \in Syncs, LoneFacts(y), FinishSync(y)
  PROVE  /\ Known' \cap Shape = job[y].found \cap Shape
         /\ job[y].keys => Known' \cap KeyRows = job[y].found \cap KeyRows
<1> USE CatalogAssumption
<1>1. /\ job[y].found \subseteq job[y].stored
      /\ job[y].swept = SweptKeys(y) \cup Missing(y, Columns)
      /\ SweptKeys(y) = IF job[y].keys THEN Missing(y, KeyRows) ELSE {}
      /\ Kept(y, Tables) /\ Kept(y, Columns) /\ (job[y].keys => Kept(y, KeyRows))
      /\ \A o \in Objects : o \in Missing(y, Tables) => rows'[o].state = "gone"
      /\ \A o \in Objects : o \notin Missing(y, Tables) => rows'[o] = rows[o]
  BY LoneEnds
<1>2. ASSUME NEW o \in Objects, o \in job[y].found
      PROVE  rows'[o].state = "live"
  <2>1. o \in job[y].stored /\ o \notin Missing(y, Tables)
    BY <1>1, <1>2 DEF Missing
  <2>2. rows[o].state = "live"
    BY <2>1 DEF LoneFacts, Stamped
  <2> QED BY <1>1, <2>1, <2>2
<1>3. \A o \in Objects : o \notin job[y].found => o \notin job[y].stored
  BY DEF LoneFacts, Stamped
<1>4. \A o \in job[y].swept : o \in Objects /\ rows[o].state = "gone"
  BY TypedParts DEF LoneFacts, SweptMissing
<1>5. ASSUME NEW o \in Tables, o \notin job[y].found
      PROVE  rows'[o].state # "live"
  <2>1. o \in Objects /\ o \notin job[y].swept
    BY <1>1 DEF Objects, Shape, Missing
  <2>2. rows[o].state = job[y].before[o]
    BY <1>1, <1>3, <1>5, <2>1 DEF Kept
  <2> QED BY <1>1, <1>5, <2>1, <2>2 DEF Missing
<1>6. ASSUME NEW o \in Columns, o \notin job[y].found
      PROVE  rows'[o].state # "live"
  <2>1. o \in Objects /\ o \notin Missing(y, Tables)
    BY DEF Objects, Shape, Missing
  <2>2. CASE o \in job[y].swept
    BY <1>1, <1>4, <2>1, <2>2
  <2>3. CASE o \notin job[y].swept
    BY <1>1, <1>3, <1>6, <2>1, <2>3 DEF Kept, Missing
  <2> QED BY <2>2, <2>3
<1>7. ASSUME job[y].keys, NEW o \in KeyRows, o \notin job[y].found
      PROVE  rows'[o].state # "live"
  <2>1. o \in Objects /\ o \notin Missing(y, Tables)
    BY DEF Objects, Shape, Missing
  <2>2. CASE o \in job[y].swept
    BY <1>1, <1>4, <2>1, <2>2
  <2>3. CASE o \notin job[y].swept
    BY <1>1, <1>3, <1>7, <2>1, <2>3 DEF Kept, Missing
  <2> QED BY <2>2, <2>3
<1> QED BY <1>2, <1>5, <1>6, <1>7, TypedParts DEF Known, Objects, Shape

(* Its sweeps agree with its report.                                        *)
LEMMA LoneAgrees ==
  ASSUME CatalogTypeOK, NEW y \in Syncs, LoneFacts(y), FinishSync(y)
  PROVE  /\ ShapesAgree(y, job[y].swept \cup Stale(y, Tables))
         /\ KeysAgree(y) \/ Split(y)
<1> USE CatalogAssumption
<1>1. /\ job[y].swept = SweptKeys(y) \cup Missing(y, Columns)
      /\ SweptKeys(y) = IF job[y].keys THEN Missing(y, KeyRows) ELSE {}
      /\ Stale(y, Tables) = Missing(y, Tables)
  BY LoneEnds
<1>2. (job[y].swept \cup Stale(y, Tables)) \cap Shape = Missing(y, Shape)
  BY <1>1 DEF Missing, Shape
<1>3. ASSUME job[y].keys, ~Split(y)
      PROVE  Counted(y) = job[y].swept \cap KeyRows
  <2>1. job[y].swept \cap KeyRows = Missing(y, KeyRows)
    BY <1>1, <1>3 DEF Missing
  <2>2. ASSUME NEW o \in Counted(y)
        PROVE  o \in Missing(y, KeyRows)
    BY <1>3 DEF Counted, Split, Missing
  <2>3. ASSUME NEW o \in Missing(y, KeyRows)
        PROVE  o \in Counted(y)
    BY DEF Counted, Missing
  <2> QED BY <2>1, <2>2, <2>3
<1>4. ShapesAgree(y, job[y].swept \cup Stale(y, Tables))
  BY <1>2 DEF ShapesAgree
<1>5. KeysAgree(y) \/ Split(y)
  BY <1>3 DEF KeysAgree
<1> QED BY <1>4, <1>5

LEMMA LastResult ==
  ASSUME CatalogTypeOK, Solitude, LoneJob, NEW y \in Syncs, FinishSync(y)
  PROVE  \/ last' = NoResult
         \/ /\ LoneFacts(y)
            /\ last'.found = job[y].found /\ last'.keys = job[y].keys
            /\ last'.shapesAgree = ShapesAgree(y, job[y].swept \cup Stale(y, Tables))
            /\ last'.keysAgree = KeysAgree(y) /\ last'.split = Split(y)
<1>1. CASE y \in crossed
  BY <1>1 DEF FinishSync
<1>2. CASE y \notin crossed
  <2>1. LoneFacts(y)
    BY <1>2, EndStands DEF LoneJob, LoneFacts, Lone
  <2> QED BY <1>2, <2>1 DEF FinishSync
<1> QED BY <1>1, <1>2

LEMMA LastStands ==
  ASSUME CatalogTypeOK, Solitude, [CatalogNext]_catalog
  PROVE  \/ last' = NoResult
         \/ last' = last /\ (last.alone => rows' = rows)
         \/ \E y \in Syncs : FinishSync(y)
<1>1. CASE Change \/ UNCHANGED catalog
  BY <1>1, Idle
<1>2. ASSUME NEW y \in Syncs, BeginSync(y)
      PROVE  last' = NoResult
  BY <1>2 DEF BeginSync
<1>3. ASSUME NEW y \in Syncs, Work(y)
      PROVE  last' = last /\ ~last.alone
  BY <1>3, WorkStands DEF Solitude
<1>4. ASSUME NEW y \in Syncs, Fail(y)
      PROVE  last' = last /\ rows' = rows
  BY <1>4 DEF Fail
<1> QED BY <1>1, <1>2, <1>3, <1>4, CatalogSteps

LEMMA ResultsHold ==
  ASSUME CatalogTypeOK, Solitude, LoneJob, LoneSyncHeals, DisagreementMeansCrossing,
         [CatalogNext]_catalog
  PROVE  LoneSyncHeals' /\ DisagreementMeansCrossing'
<1>1. CASE last' = NoResult
  BY <1>1 DEF NoResult, LoneSyncHeals, DisagreementMeansCrossing
<1>2. CASE last' = last /\ (last.alone => rows' = rows)
  BY <1>2 DEF LoneSyncHeals, DisagreementMeansCrossing, Known
<1>3. ASSUME NEW y \in Syncs, FinishSync(y), last' # NoResult
      PROVE  LoneSyncHeals' /\ DisagreementMeansCrossing'
  <2>1. /\ LoneFacts(y)
        /\ last'.found = job[y].found /\ last'.keys = job[y].keys
        /\ last'.shapesAgree = ShapesAgree(y, job[y].swept \cup Stale(y, Tables))
        /\ last'.keysAgree = KeysAgree(y) /\ last'.split = Split(y)
    BY <1>3, LastResult
  <2>2. LoneSyncHeals'
    BY <1>3, <2>1, LoneLeaves DEF LoneSyncHeals
  <2>3. DisagreementMeansCrossing'
    BY <1>3, <2>1, LoneAgrees DEF DisagreementMeansCrossing
  <2> QED BY <2>2, <2>3
<1> QED BY <1>1, <1>2, <1>3, LastStands
-----------------------------------------------------------------------------
(* The reports.                                                             *)

ToldOf(y) == IF stage[y] \in ReadingTables THEN Known \cap Shape
             ELSE {o \in Shape : job[y].before[o] = "live"}

LEMMA ToldWhileWorking ==
  ASSUME CatalogTypeOK, Tabled, NEW y \in Syncs, LoneFacts(y), Work(y)
  PROVE  ToldOf(y)' = ToldOf(y)
<1> USE CatalogAssumption
<1>1. CASE SnapshotTables(y)
  <2>1. stage[y] = "begun" /\ stage'[y] = "tables" /\ rows' = rows
    BY <1>1 DEF SnapshotTables, Snapshot, Advance, CatalogTypeOK
  <2> QED BY <2>1 DEF ToldOf, ReadingTables, Known
<1>2. CASE SnapshotColumns(y)
  <2>1. stage[y] = "tables" /\ stage'[y] = "known" /\ rows' = rows
    BY <1>2 DEF SnapshotColumns, Snapshot, Advance, CatalogTypeOK
  <2>2. LoneFacts(y)'
    BY <1>2, LoneSnapshots
  <2>3. job'[y].stored = {} /\ job'[y].swept = {}
    BY <2>1, <2>2 DEF LoneFacts, SweptMissing, SweptKeys, SweptColumns, Late, Stamped, FoundSoFar
  <2>4. \A o \in Shape : job'[y].before[o] = rows[o].state /\ o \in Objects
    BY <2>1, <2>2, <2>3 DEF LoneFacts, Remembered, Kept, ReadingTables, Shape, Objects
  <2> QED BY <2>1, <2>4 DEF ToldOf, ReadingTables, Known
<1>3. ASSUME ~SnapshotTables(y), ~SnapshotColumns(y)
      PROVE  /\ stage[y] \notin ReadingTables /\ stage'[y] \notin ReadingTables
             /\ \A o \in Shape : job'[y].before[o] = job[y].before[o]
  <2>1. CASE Introspect(y)
    <3>1. stage[y] = "known" /\ stage'[y] = "recording"
      BY <2>1 DEF Introspect, Advance, CatalogTypeOK
    <3> QED BY <2>1, <3>1, FoundJob DEF Same, ReadingTables
  <2>2. CASE ForeignKeys(y)
    <3>1. stage[y] = "recording" /\ stage'[y] \in {"keys", "keys found"}
      BY <2>2 DEF ForeignKeys, Advance, CatalogTypeOK
    <3> QED BY <2>2, <3>1, FoundJob DEF Same, ReadingTables
  <2>3. CASE Record(y) \/ RecordForeignKey(y)
    <3>1. stage[y] \in {"recording", "keys known"}
      BY <2>3 DEF Record, RecordForeignKey
    <3>2. PICK o \in Objects : Store(y, o)
      BY <2>3, TypedParts DEF Record, RecordForeignKey, Left
    <3> QED BY <3>1, <3>2, StoreJob DEF Same, ReadingTables
  <2>4. CASE StoredKeys(y)
    <3>1. Snapshot(y, KeyRows, "keys found", "keys known")
      BY <2>4 DEF StoredKeys
    <3>2. /\ job'[y].before = [o \in Objects |-> IF o \in KeyRows THEN rows[o].state ELSE job[y].before[o]]
          /\ stage[y] = "keys found" /\ stage'[y] = "keys known"
      BY <3>1, SnapshotJob
    <3> QED BY <3>2 DEF ReadingTables, Objects, Shape
  <2>5. CASE MarkForeignKeysGone(y)
    <3>1. Sweep(y, KeyRows, "keys known", "keys")
      BY <2>5 DEF MarkForeignKeysGone
    <3>2. Same(y, {"began", "before", "found", "stored", "keys"})
      BY <3>1, SweepJob
    <3>3. stage[y] = "keys known" /\ stage'[y] = "keys"
      BY <3>1 DEF Sweep, Advance, CatalogTypeOK
    <3> QED BY <3>2, <3>3 DEF Same, ReadingTables
  <2>6. CASE SweepColumns(y)
    <3>1. Sweep(y, Columns, "keys", "columns swept")
      BY <2>6 DEF SweepColumns
    <3>2. Same(y, {"began", "before", "found", "stored", "keys"})
      BY <3>1, SweepJob
    <3>3. stage[y] = "keys" /\ stage'[y] = "columns swept"
      BY <3>1 DEF Sweep, Advance, CatalogTypeOK
    <3> QED BY <3>2, <3>3 DEF Same, ReadingTables
  <2> QED BY <1>3, <2>1, <2>2, <2>3, <2>4, <2>5, <2>6 DEF Work
<1> QED BY <1>1, <1>2, <1>3 DEF ToldOf

LEMMA ToldBeforeHolds ==
  ASSUME CatalogTypeOK, Solitude, Tabled, LoneJob, ToldBefore, [CatalogNext]_catalog
  PROVE  ToldBefore'
<1> SUFFICES ASSUME ~astray'
             PROVE  /\ crossed' = {}
                    /\ Syncing' = {} => told' = Known' \cap Shape
                    /\ \A y \in Syncing' : told' = ToldOf(y)'
  BY DEF ToldBefore, ToldOf
<1>1. ASSUME ~astray
      PROVE  /\ crossed = {}
             /\ Syncing = {} => told = Known \cap Shape
             /\ \A y \in Syncing : told = ToldOf(y)
             /\ \A y \in Syncing : y \in Syncs /\ Lone(y) /\ LoneFacts(y) /\ Syncing = {y}
  <2>1. /\ crossed = {}
        /\ Syncing = {} => told = Known \cap Shape
        /\ \A y \in Syncing : told = ToldOf(y)
    BY <1>1 DEF ToldBefore, ToldOf
  <2>2. \A y \in Syncing : y \in Syncs /\ Lone(y)
    BY <2>1 DEF Lone, Syncing
  <2> QED BY <2>1, <2>2 DEF Solitude, LoneJob, LoneFacts
<1>2. CASE Change \/ UNCHANGED catalog
  <2>1. UNCHANGED <<rows, stage, job, crossed, told, astray>> /\ Syncing' = Syncing
    BY <1>2, Idle
  <2>2. Known' = Known /\ \A y : ToldOf(y)' = ToldOf(y)
    BY <2>1 DEF Known, ToldOf
  <2> QED BY <1>1, <2>1, <2>2
<1>3. ASSUME NEW y \in Syncs, BeginSync(y)
      PROVE  crossed' = {} /\ Syncing' = {y} /\ told' = ToldOf(y)'
  <2>1. astray' = (astray \/ Syncing # {}) /\ told' = told /\ rows' = rows
    BY <1>3 DEF BeginSync
  <2>2. Syncing = {} /\ ~astray
    BY <2>1
  <2>3. crossed' = {} /\ Syncing' = {y} /\ stage'[y] = "begun"
    BY <1>3, <2>2, BeginStands
  <2> QED BY <1>1, <2>1, <2>2, <2>3 DEF ToldOf, ReadingTables, Known
<1>4. ASSUME NEW y \in Syncs, Work(y)
      PROVE  crossed' = {} /\ Syncing' = {y} /\ told' = ToldOf(y)'
  <2>1. y \in Syncing /\ Syncing' = Syncing /\ UNCHANGED <<crossed, told, astray>>
    BY <1>4, WorkStands
  <2> QED BY <1>1, <1>4, <2>1, ToldWhileWorking
<1>5. ASSUME NEW y \in Syncs, FinishSync(y)
      PROVE  crossed' = {} /\ Syncing' = {} /\ told' = Known' \cap Shape
  <2>1. astray' = astray /\ told' = (told \cup Appeared(y, Shape)) \ Missing(y, Shape)
    BY <1>5 DEF FinishSync
  <2>2. y \in Syncing /\ Syncing' = Syncing \ {y} /\ crossed' = crossed \ {y}
    BY <1>5, EndStands
  <2>3. LoneFacts(y) /\ told = ToldOf(y) /\ Syncing' = {} /\ crossed' = {}
    BY <1>1, <2>1, <2>2
  <2>4. stage[y] \notin ReadingTables
    BY <1>5 DEF FinishSync, Advance, ReadingTables
  <2>5. told' = job[y].found \cap Shape
    BY <2>1, <2>3, <2>4 DEF ToldOf, Appeared, Missing
  <2> QED BY <1>5, <2>3, <2>5, LoneLeaves
<1>6. ASSUME NEW y \in Syncs, Fail(y)
      PROVE  crossed' = {} /\ Syncing' = {} /\ told' = Known' \cap Shape
  <2>1. /\ astray' = (astray \/ job[y].stored \cup job[y].swept # {})
        /\ told' = told /\ rows' = rows
    BY <1>6 DEF Fail
  <2>2. ~astray /\ job[y].stored = {} /\ job[y].swept = {}
    BY <2>1
  <2>3. y \in Syncing /\ Syncing' = Syncing \ {y} /\ crossed' = crossed \ {y}
    BY <1>6, EndStands
  <2>4. LoneFacts(y) /\ told = ToldOf(y) /\ Syncing' = {} /\ crossed' = {}
    BY <1>1, <2>2, <2>3
  <2>5. CASE stage[y] \in ReadingTables
    BY <2>1, <2>4, <2>5 DEF ToldOf, Known
  <2>6. CASE stage[y] \notin ReadingTables
    <3>1. Kept(y, Tables) /\ Kept(y, Columns)
      BY <2>4, <2>6 DEF LoneFacts, Remembered, ReadingTables
    <3>2. \A o \in Shape : rows[o].state = job[y].before[o] /\ o \in Objects
      BY <2>2, <3>1 DEF Kept, Shape, Objects
    <3> QED BY <2>1, <2>4, <2>6, <3>2 DEF ToldOf, Known
  <2> QED BY <2>5, <2>6
<1> QED BY <1>2, <1>3, <1>4, <1>5, <1>6, CatalogSteps
-----------------------------------------------------------------------------
LEMMA CatalogStarts ==
  ASSUME CatalogInit
  PROVE  CatalogIInv
<1>1. Syncing = {} /\ Known = {} /\ \A y \in Syncs : ~Lone(y)
  BY DEF CatalogInit, Syncing, Known, Lone
<1>2. CatalogTypeOK
  BY CatalogTypeStarts
<1>3. Solitude /\ LoneJob
  BY <1>1 DEF CatalogInit, Solitude, LoneJob
<1>4. Times
  BY CatalogAssumption DEF CatalogInit, Times, NoJob
<1>5. Tabled
  BY CatalogAssumption DEF CatalogInit, Tabled, NoJob, Objects, Shape
<1>6. ToldBefore
  BY <1>1 DEF CatalogInit, ToldBefore
<1>7. LoneSyncHeals /\ DisagreementMeansCrossing
  BY DEF CatalogInit, NoResult, LoneSyncHeals, DisagreementMeansCrossing
<1> QED BY <1>2, <1>3, <1>4, <1>5, <1>6, <1>7 DEF CatalogIInv

LEMMA CatalogKept ==
  ASSUME CatalogIInv, [CatalogNext]_catalog
  PROVE  CatalogIInv'
BY CatalogTyped, SolitudeHolds, TimesHold, TabledHolds, LoneJobHolds, ToldBeforeHolds, ResultsHold
   DEF CatalogIInv

LEMMA CatalogInvariant == CatalogSpec => []CatalogIInv
<1>1. CatalogInit => CatalogIInv
  BY CatalogStarts
<1>2. CatalogIInv /\ [CatalogNext]_catalog => CatalogIInv'
  BY CatalogKept
<1> QED BY <1>1, <1>2, PTL DEF CatalogSpec

(* Sync: a sync that ran alone leaves the catalog with exactly what it      *)
(* found, whatever earlier syncs that crossed each other or failed half-way *)
(* have left behind, and whatever the source did meanwhile.                 *)
THEOREM ALoneSyncHeals == CatalogSpec => []LoneSyncHeals
<1>1. CatalogIInv => LoneSyncHeals
  BY DEF CatalogIInv
<1> QED BY <1>1, CatalogInvariant, PTL

(* The report of Sync: as long as no two syncs have crossed and none failed *)
(* after writing, adding what is added and removing what is removed gives   *)
(* the tables and columns of the catalog.                                   *)
THEOREM TheReportsTellTheStory == CatalogSpec => []ReportsTellTheStory
<1>1. CatalogIInv => ReportsTellTheStory
  BY DEF CatalogIInv, ToldBefore, ReportsTellTheStory
<1> QED BY <1>1, CatalogInvariant, PTL

(* The cross-checks of Sync: of a sync that ran alone the report never says *)
(* that another may have been running, except for a relationship that lost  *)
(* some of its columns and kept others.                                     *)
THEOREM ADisagreementMeansCrossing == CatalogSpec => []DisagreementMeansCrossing
<1>1. CatalogIInv => DisagreementMeansCrossing
  BY DEF CatalogIInv
<1> QED BY <1>1, CatalogInvariant, PTL
==============================================================================
