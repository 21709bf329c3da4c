---------------------------- MODULE SecretsProofs -----------------------------
(***************************************************************************)
(* Proofs about SecretsAtRest, for any processes, keys and rows.           *)
(*                                                                         *)
(* That no provider is lost rests on where the keys are: every process     *)
(* that works seals with a key of the present configuration, because a     *)
(* previous key is dropped only when everybody runs with the new ones, and *)
(* a process that still looks at the key file will find a key there that   *)
(* the configuration has too.                                              *)
(***************************************************************************)
EXTENDS SecretsAtRest, TLAPS

AtTheFile == {"reading", "creating", "awaiting", "writing"}

\* What a process has read is the row as it is, or the row has a later version.
ReadsAreTrue ==
  \A p \in Processes : \A r \in job[p].left :
    /\ job[p].read[r].version <= rows[r].version
    /\ job[p].read[r].version = rows[r].version => job[p].read[r] = rows[r]

\* One process writes the file, which is empty until then.
OneWriter ==
  /\ \A p \in Processes : pc[p] = "writing" => file = Blank /\ conf.primary = NoKey
  /\ \A p, q \in Processes : pc[p] = "writing" /\ pc[q] = "writing" => p = q

\* Whoever looks at the file was started without a key; if there is one by now,
\* the file's is among those that are read with.
FileIsKnown(p) ==
  pc[p] \in AtTheFile =>
    /\ ring[p].conf.primary = NoKey
    /\ conf.primary = NoKey \/ (file \in Keys /\ file \in KeysOf(conf))

\* The key of a process that works: the configured one or the file's, and one
\* of those that are read with.
RingIsKnown(p) ==
  pc[p] \in Working =>
    /\ ring[p].primary \in KeysOf(conf)
    /\ ring[p].primary = IF ring[p].conf.primary = NoKey THEN file ELSE ring[p].conf.primary

NothingToDrop == conf.primary = NoKey => conf.previous = {}

SealsAreKnown == \A r \in Providers : rows[r].seal \in KeysOf(conf) \cup {NoKey, Plain}

KeysInv ==
  /\ NothingToDrop /\ OneWriter /\ SealsAreKnown
  /\ \A p \in Processes : FileIsKnown(p) /\ RingIsKnown(p)

\* A row that is not there holds nothing, and neither does one without a seal.
EmptyIsEmpty == \A r \in Rows : rows[r].version = 0 => rows[r].secret = 0

IInv == TypeOK /\ ReadsAreTrue /\ NoSecretIsTurnedBack /\ EmptyIsEmpty /\ KeysInv
-----------------------------------------------------------------------------
(* What the helpers return.                                                 *)

LEMMA RowsAreRows ==
  ASSUME TypeOK
  PROVE  /\ \A r \in Rows : rows[r] \in Row /\ latest[r] \in 0 .. MaxWrites
         /\ \A r \in Rows : rows[r].version \in 0 .. MaxVersion /\ rows[r].secret \in 0 .. MaxWrites
                            /\ rows[r].seal \in Keys \cup {NoKey, Plain}
         /\ Providers \subseteq Rows
BY DEF TypeOK, Row, Rows

LEMMA JobsAreJobs ==
  ASSUME TypeOK, NEW p \in Processes
  PROVE  /\ job[p] \in Job /\ job[p].left \subseteq Providers
         /\ job[p].read \in [Providers -> Row]
         /\ \A r \in Providers :
              /\ job[p].read[r].version \in 0 .. MaxVersion
              /\ job[p].read[r].secret \in 0 .. MaxWrites
              /\ job[p].read[r].seal \in Keys \cup {NoKey, Plain}
<1>1. job[p] \in Job
  BY DEF TypeOK
<1>2. job[p].left \subseteq Providers /\ job[p].read \in [Providers -> Row]
  BY <1>1 DEF Job
<1> QED BY <1>1, <1>2 DEF Row

LEMMA NoRowIsARow == NoRow \in Row /\ NoRow.seal = NoKey /\ NoRow.secret = 0 /\ NoRow.version = 0
BY SecretsAssumption DEF NoRow, Row

LEMMA NoJobIsAJob == NoJob \in Job /\ NoJob.left = {}
BY NoRowIsARow DEF NoJob, Job

LEMMA RingsAreRings ==
  ASSUME TypeOK, NEW p \in Processes
  PROVE  /\ ring[p] \in Ring /\ ring[p].primary \in Keys \cup {NoKey}
         /\ ring[p].conf \in Conf
         /\ ring[p].conf.primary \in Keys \cup {NoKey}
         /\ ring[p].conf.previous \in SUBSET Keys
<1>1. ring[p] \in Ring
  BY DEF TypeOK
<1>2. ring[p].primary \in Keys \cup {NoKey} /\ ring[p].conf \in Conf
  BY <1>1 DEF Ring
<1> QED BY <1>1, <1>2 DEF Conf

LEMMA KeysAreKeys ==
  ASSUME TypeOK
  PROVE  /\ KeysOf(conf) \subseteq Keys
         /\ conf.primary \in Keys \cup {NoKey} /\ conf.previous \in SUBSET Keys
         /\ conf.primary # NoKey => conf.primary \in KeysOf(conf)
BY SecretsAssumption DEF TypeOK, Conf, KeysOf

(* A sealed secret is a row, sealed with a key that is read with.           *)
LEMMA SealedIsKnown ==
  ASSUME IInv, NEW p \in Processes, pc[p] \in Working,
         NEW secret \in 0 .. MaxWrites, NEW version \in 0 .. MaxVersion
  PROVE  /\ Sealed(p, secret, version) \in Row
         /\ Sealed(p, secret, version).seal \in KeysOf(conf)
         /\ Sealed(p, secret, version).secret = secret
         /\ Sealed(p, secret, version).version = version
<1>1. ring[p].primary \in KeysOf(conf) /\ ring[p].primary \in Keys
  BY KeysAreKeys DEF IInv, KeysInv, RingIsKnown
<1> QED BY <1>1 DEF Sealed, Row

(* Rows only get later versions, and what a job has to write it has read    *)
(* before or just now.                                                      *)
LEMMA ReadsStay ==
  ASSUME IInv, TypeOK',
         \A p \in Processes : \A r \in job'[p].left :
           \/ r \in job[p].left /\ job'[p].read = job[p].read
           \/ job'[p].read[r] = rows'[r],
         \A r \in Rows : rows'[r] = rows[r] \/ rows'[r].version > rows[r].version
  PROVE  ReadsAreTrue'
<1> SUFFICES ASSUME NEW p \in Processes, NEW r \in job'[p].left
             PROVE  /\ job'[p].read[r].version <= rows'[r].version
                    /\ job'[p].read[r].version = rows'[r].version => job'[p].read[r] = rows'[r]
  BY DEF ReadsAreTrue
<1>1. job'[p] \in Job
  BY DEF TypeOK
<1>2. r \in Rows
  BY <1>1 DEF Job, Rows
<1>3. rows[r].version \in Nat /\ rows'[r].version \in Nat
  <2>1. rows'[r] \in Row /\ rows[r] \in Row
    BY <1>2 DEF TypeOK, IInv
  <2> QED BY <2>1 DEF Row
<1>4. CASE job'[p].read[r] = rows'[r]
  BY <1>3, <1>4
<1>5. CASE r \in job[p].left /\ job'[p].read = job[p].read
  <2>1. /\ job[p].read[r].version <= rows[r].version
        /\ job[p].read[r].version = rows[r].version => job[p].read[r] = rows[r]
    BY <1>5 DEF IInv, ReadsAreTrue
  <2>2. job[p].read[r].version \in Nat
    BY <1>5, JobsAreJobs DEF IInv
  <2> QED BY <1>2, <1>3, <1>5, <2>1, <2>2
<1> QED BY <1>4, <1>5

(* A step of one process that leaves the file and the configuration.        *)
LEMMA KeysStay ==
  ASSUME IInv, NEW p \in Processes, UNCHANGED <<file, conf>>, SealsAreKnown',
         \A q \in Processes \ {p} : pc'[q] = pc[q] /\ ring'[q] = ring[q],
         pc'[p] # "writing" \/ pc[p] = "writing",
         FileIsKnown(p)', RingIsKnown(p)'
  PROVE  KeysInv'
<1>1. NothingToDrop'
  BY DEF IInv, KeysInv, NothingToDrop
<1>2. OneWriter'
  BY DEF IInv, KeysInv, OneWriter
<1>3. ASSUME NEW q \in Processes \ {p}
      PROVE  FileIsKnown(q)' /\ RingIsKnown(q)'
  BY <1>3 DEF IInv, KeysInv, FileIsKnown, RingIsKnown, KeysOf
<1> QED BY <1>1, <1>2, <1>3 DEF KeysInv

LEMMA SealsStay ==
  ASSUME IInv, UNCHANGED <<file, conf, rows>>
  PROVE  SealsAreKnown'
BY DEF IInv, KeysInv, SealsAreKnown, KeysOf
-----------------------------------------------------------------------------
(* The steps of a process that starts or stops.                             *)

LEMMA StartKeeps ==
  ASSUME IInv, NEW p \in Processes, Start(p)
  PROVE  IInv'
<1> USE DEF Start, Goto, store
<1>1. conf \in Conf /\ conf.primary \in Keys \cup {NoKey}
  BY KeysAreKeys DEF IInv, TypeOK
<1>2. TypeOK'
  BY <1>1 DEF IInv, TypeOK, Ring, Steps, Working
<1>3. pc'[p] = IF conf.primary = NoKey THEN "reading" ELSE "up"
  BY DEF IInv, TypeOK
<1>4. ring'[p] = [primary |-> conf.primary, conf |-> conf]
  BY DEF IInv, TypeOK
<1>5. FileIsKnown(p)' /\ RingIsKnown(p)'
  BY <1>3, <1>4, KeysAreKeys DEF IInv, FileIsKnown, RingIsKnown, AtTheFile, Working, KeysOf
<1>6. \A q \in Processes \ {p} : pc'[q] = pc[q] /\ ring'[q] = ring[q]
  BY DEF IInv, TypeOK
<1>7. KeysInv'
  BY <1>3, <1>5, <1>6, KeysStay, SealsStay
<1>8. ReadsAreTrue'
  BY <1>2, ReadsStay
<1>9. NoSecretIsTurnedBack' /\ EmptyIsEmpty'
  BY DEF IInv, NoSecretIsTurnedBack, EmptyIsEmpty
<1> QED BY <1>2, <1>7, <1>8, <1>9 DEF IInv

LEMMA ReadFileKeeps ==
  ASSUME IInv, NEW p \in Processes, ReadFile(p) \/ AwaitKey(p)
  PROVE  IInv'
<1> USE DEF ReadFile, AwaitKey, Goto, HasKey, store
<1>1. pc[p] \in AtTheFile /\ pc[p] # "writing"
  BY DEF AtTheFile
<1>2. FileIsKnown(p)
  BY DEF IInv, KeysInv
<1>3. TypeOK'
  BY RingsAreRings DEF IInv, TypeOK, Ring, Steps, Working
<1>4. \A q \in Processes \ {p} : pc'[q] = pc[q] /\ ring'[q] = ring[q]
  BY DEF IInv, TypeOK
<1>5. ring'[p].conf = ring[p].conf
  BY DEF IInv, TypeOK, Ring
<1>6. \/ pc'[p] = "up" /\ file \in Keys /\ ring'[p].primary = file
      \/ pc'[p] \in {"awaiting", "creating", "down"}
  BY DEF IInv, TypeOK, Ring
<1>7. FileIsKnown(p)' /\ RingIsKnown(p)'
  BY <1>1, <1>2, <1>5, <1>6, SecretsAssumption
  DEF FileIsKnown, RingIsKnown, AtTheFile, Working, KeysOf
<1>8. KeysInv'
  BY <1>4, <1>6, <1>7, KeysStay, SealsStay
<1>9. ReadsAreTrue'
  BY <1>3, ReadsStay
<1>10. NoSecretIsTurnedBack' /\ EmptyIsEmpty'
  BY DEF IInv, NoSecretIsTurnedBack, EmptyIsEmpty
<1> QED BY <1>3, <1>8, <1>9, <1>10 DEF IInv

LEMMA CreateFileKeeps ==
  ASSUME IInv, NEW p \in Processes, CreateFile(p)
  PROVE  IInv'
<1> USE DEF CreateFile, Goto, store
<1>1. FileIsKnown(p) /\ pc[p] = "creating"
  BY DEF IInv, KeysInv
<1>2. TypeOK'
  BY DEF IInv, TypeOK, Steps
<1>3. ReadsAreTrue'
  BY <1>2, ReadsStay
<1>4. NoSecretIsTurnedBack' /\ EmptyIsEmpty'
  BY DEF IInv, NoSecretIsTurnedBack, EmptyIsEmpty
<1>5. KeysInv'
  <2>1. CASE file # NoKey
    <3>1. pc'[p] = "awaiting" /\ UNCHANGED file
      BY <2>1 DEF IInv, TypeOK
    <3>2. FileIsKnown(p)' /\ RingIsKnown(p)'
      BY <1>1, <3>1 DEF FileIsKnown, RingIsKnown, AtTheFile, Working, KeysOf
    <3>3. \A q \in Processes \ {p} : pc'[q] = pc[q] /\ ring'[q] = ring[q]
      BY DEF IInv, TypeOK
    <3> QED BY <3>1, <3>2, <3>3, KeysStay, SealsStay
  <2>2. CASE file = NoKey
    <3>1. pc'[p] = "writing" /\ file' = Blank /\ UNCHANGED <<conf, ring, rows>>
      BY <2>2 DEF IInv, TypeOK
    <3>2. \A q \in Processes \ {p} : pc'[q] = pc[q]
      BY DEF IInv, TypeOK
    <3>3. conf.primary = NoKey
      BY <1>1, <2>2, SecretsAssumption DEF FileIsKnown, AtTheFile
    <3>4. KeysOf(conf)' = KeysOf(conf)
      BY <2>2, <3>1, SecretsAssumption DEF KeysOf
    <3>5. OneWriter'
      <4>1. \A q \in Processes : pc[q] # "writing"
        BY <2>2, SecretsAssumption DEF IInv, KeysInv, OneWriter
      <4> QED BY <3>1, <3>2, <3>3, <4>1 DEF OneWriter
    <3>6. ASSUME NEW q \in Processes
          PROVE  FileIsKnown(q)' /\ RingIsKnown(q)'
      <4>1. FileIsKnown(q) /\ RingIsKnown(q)
        BY <3>6 DEF IInv, KeysInv
      <4>2. ~(pc[q] \in Working /\ ring[q].conf.primary = NoKey)
        BY <2>2, <4>1, KeysAreKeys, SecretsAssumption DEF IInv, RingIsKnown
      <4>3. FileIsKnown(q)'
        BY <1>1, <3>1, <3>2, <3>3, <4>1 DEF FileIsKnown, AtTheFile
      <4>4. RingIsKnown(q)'
        BY <3>1, <3>2, <3>4, <4>1, <4>2 DEF RingIsKnown, Working
      <4> QED BY <4>3, <4>4
    <3> QED BY <3>1, <3>4, <3>5, <3>6 DEF IInv, KeysInv, SealsAreKnown, NothingToDrop
  <2> QED BY <2>1, <2>2
<1> QED BY <1>2, <1>3, <1>4, <1>5 DEF IInv

LEMMA WriteFileKeeps ==
  ASSUME IInv, NEW p \in Processes, WriteFile(p)
  PROVE  IInv'
<1> USE DEF WriteFile, Goto, HasKey, store
<1>1. PICK k \in Fresh : file' = k /\ ring' = [ring EXCEPT ![p].primary = k]
  OBVIOUS
<1>2. k \in Keys
  BY DEF Fresh
<1>3. /\ pc[p] = "writing" /\ file = Blank /\ conf.primary = NoKey
      /\ FileIsKnown(p) /\ UNCHANGED <<conf, rows>>
  BY DEF IInv, KeysInv, OneWriter
<1>4. TypeOK'
  BY <1>1, <1>2, RingsAreRings DEF IInv, TypeOK, Ring, Steps, Working
<1>5. /\ pc'[p] = "up" /\ ring'[p].primary = k /\ ring'[p].conf = ring[p].conf
      /\ \A q \in Processes \ {p} : pc'[q] = pc[q] /\ ring'[q] = ring[q]
  BY <1>1 DEF IInv, TypeOK, Ring
<1>6. KeysOf(conf)' = KeysOf(conf) \cup {k} /\ file' = k
  BY <1>1, <1>2, <1>3, SecretsAssumption DEF KeysOf
<1>7. OneWriter'
  BY <1>3, <1>5 DEF IInv, KeysInv, OneWriter
<1>8. ASSUME NEW q \in Processes
      PROVE  FileIsKnown(q)' /\ RingIsKnown(q)'
  <2>1. FileIsKnown(q) /\ RingIsKnown(q)
    BY <1>8 DEF IInv, KeysInv
  <2>2. CASE q = p
    BY <1>3, <1>5, <1>6, <2>2 DEF FileIsKnown, RingIsKnown, AtTheFile
  <2>3. CASE q # p
    <3>1. ~(pc[q] \in Working /\ ring[q].conf.primary = NoKey)
      BY <1>3, <2>1, KeysAreKeys, SecretsAssumption DEF IInv, RingIsKnown
    <3> QED BY <1>3, <1>5, <1>6, <2>1, <2>3, <3>1 DEF FileIsKnown, RingIsKnown
  <2> QED BY <2>2, <2>3
<1>9. KeysInv'
  BY <1>3, <1>6, <1>7, <1>8 DEF IInv, KeysInv, SealsAreKnown, NothingToDrop
<1>10. ReadsAreTrue'
  BY <1>3, <1>4, ReadsStay
<1>11. NoSecretIsTurnedBack' /\ EmptyIsEmpty'
  BY DEF IInv, NoSecretIsTurnedBack, EmptyIsEmpty
<1> QED BY <1>4, <1>9, <1>10, <1>11 DEF IInv

LEMMA StopKeeps ==
  ASSUME IInv, NEW p \in Processes, Stop(p)
  PROVE  IInv'
<1> USE DEF Stop, store
<1>1. TypeOK'
  BY NoJobIsAJob DEF IInv, TypeOK, Steps
<1>2. pc'[p] = "down" /\ \A q \in Processes \ {p} : pc'[q] = pc[q] /\ ring'[q] = ring[q]
  BY DEF IInv, TypeOK
<1>3. FileIsKnown(p)' /\ RingIsKnown(p)'
  BY <1>2 DEF FileIsKnown, RingIsKnown, AtTheFile, Working
<1>4. KeysInv'
  BY <1>2, <1>3, KeysStay, SealsStay
<1>5. \A q \in Processes : job'[q].left = {} \/ job'[q] = job[q]
  BY NoJobIsAJob DEF IInv, TypeOK
<1>6. ReadsAreTrue'
  BY <1>1, <1>5, ReadsStay
<1>7. NoSecretIsTurnedBack' /\ EmptyIsEmpty'
  BY DEF IInv, NoSecretIsTurnedBack, EmptyIsEmpty
<1> QED BY <1>1, <1>4, <1>6, <1>7 DEF IInv
-----------------------------------------------------------------------------
(* The steps that read and write the rows, and the operator's.              *)

(* A process at work goes on to other work with the same keys.              *)
LEMMA WorkGoesOn ==
  ASSUME IInv, NEW p \in Processes, UNCHANGED <<file, conf, ring>>,
         pc[p] \in Working, NEW w \in Working,
         pc' = [pc EXCEPT ![p] = w] \/ (pc' = pc /\ pc[p] = w),
         SealsAreKnown'
  PROVE  KeysInv' /\ pc' \in [Processes -> Steps]
<1>1. pc'[p] = w /\ pc' \in [Processes -> Steps] /\ \A q \in Processes \ {p} : pc'[q] = pc[q]
  BY DEF IInv, TypeOK, Steps
<1>2. RingIsKnown(p)' /\ FileIsKnown(p)'
  BY <1>1 DEF IInv, KeysInv, RingIsKnown, FileIsKnown, KeysOf, Working, AtTheFile
<1>3. w # "writing"
  BY DEF Working
<1> QED BY <1>1, <1>2, <1>3, KeysStay

(* A row is written: sealed, or without a secret.                           *)
LEMMA WrittenIsKnown ==
  ASSUME IInv, UNCHANGED <<file, conf>>, NEW r \in Rows, NEW row \in Row,
         rows' = [rows EXCEPT ![r] = row],
         row.seal \in KeysOf(conf) \cup {NoKey, Plain} \/ row.seal = rows[r].seal
  PROVE  SealsAreKnown' /\ rows' \in [Rows -> Row]
BY RowsAreRows DEF IInv, TypeOK, KeysInv, SealsAreKnown, KeysOf

(* The secret that a row is given is the latest, or it is the one it had.   *)
LEMMA SecretsStay ==
  ASSUME IInv, NEW r \in Rows, NEW row \in Row, rows' = [rows EXCEPT ![r] = row],
         row.version > 0,
         \/ row.secret = rows[r].secret /\ UNCHANGED latest
         \/ latest' = [latest EXCEPT ![r] = row.secret]
  PROVE  NoSecretIsTurnedBack' /\ EmptyIsEmpty'
<1> SUFFICES ASSUME NEW x \in Rows
             PROVE  rows'[x].secret = latest'[x] /\ (rows'[x].version = 0 => rows'[x].secret = 0)
  BY DEF NoSecretIsTurnedBack, EmptyIsEmpty
<1>1. rows[x].secret = latest[x] /\ (rows[x].version = 0 => rows[x].secret = 0)
  BY DEF IInv, NoSecretIsTurnedBack, EmptyIsEmpty
<1>2. row.version \in Nat
  BY DEF Row
<1> QED BY <1>1, <1>2 DEF IInv, TypeOK

LEMMA CreateKeeps ==
  ASSUME IInv, NEW p \in Processes, NEW r \in Rows, Create(p, r)
  PROVE  IInv'
<1>1. /\ pc[p] = "up" /\ rows[r].version = 0 /\ UNCHANGED <<file, conf, pc, ring, job>>
      /\ "up" \in Working /\ pc[p] \in Working
  BY DEF Create, Working
<1>2. 1 \in 0 .. MaxVersion
  BY SecretsAssumption
<1>3. PICK row \in Row :
        /\ rows' = [rows EXCEPT ![r] = row]
        /\ row.version = 1
        /\ row.seal \in KeysOf(conf) \cup {NoKey, Plain}
        /\ \/ row.secret = 0 /\ UNCHANGED <<writes, latest>>
           \/ /\ writes' \in 0 .. MaxWrites
              /\ latest' = [latest EXCEPT ![r] = writes'] /\ row.secret = writes'
  <2>1. CASE rows' = [rows EXCEPT ![r] = [NoRow EXCEPT !.version = 1]] /\ UNCHANGED <<writes, latest>>
    <3>1. [NoRow EXCEPT !.version = 1] = [seal |-> NoKey, secret |-> 0, version |-> 1]
      BY DEF NoRow
    <3>2. [seal |-> NoKey, secret |-> 0, version |-> 1] \in Row
      BY <1>2, SecretsAssumption DEF Row
    <3> QED BY <2>1, <3>1, <3>2
  <2>2. CASE /\ writes < MaxWrites /\ writes' = writes + 1
             /\ latest' = [latest EXCEPT ![r] = writes']
             /\ rows' = [rows EXCEPT ![r] = Sealed(p, writes', 1)]
    <3>1. writes' \in 0 .. MaxWrites
      BY <2>2, SecretsAssumption DEF IInv, TypeOK
    <3> DEFINE row == Sealed(p, writes', 1)
    <3>2. row \in Row /\ row.version = 1 /\ row.seal \in KeysOf(conf) /\ row.secret = writes'
      BY <1>1, <1>2, <3>1, SealedIsKnown
    <3>3. rows' = [rows EXCEPT ![r] = row]
      BY <2>2
    <3> HIDE DEF row
    <3> QED BY <2>2, <3>1, <3>2, <3>3
  <2> QED BY <2>1, <2>2 DEF Create
<1>4. SealsAreKnown' /\ rows' \in [Rows -> Row]
  BY <1>1, <1>3, WrittenIsKnown
<1>5. KeysInv' /\ pc' \in [Processes -> Steps]
  BY <1>1, <1>4, WorkGoesOn
<1>6. TypeOK'
  BY <1>1, <1>3, <1>4, <1>5 DEF IInv, TypeOK
<1>7. \A x \in Rows : rows'[x] = rows[x] \/ rows'[x].version > rows[x].version
  BY <1>1, <1>3 DEF IInv, TypeOK
<1>8. ReadsAreTrue'
  BY <1>1, <1>6, <1>7, ReadsStay
<1>9. NoSecretIsTurnedBack' /\ EmptyIsEmpty'
  <2>1. rows[r].secret = 0
    BY <1>1 DEF IInv, EmptyIsEmpty
  <2>2. \/ row.secret = rows[r].secret /\ UNCHANGED latest
        \/ latest' = [latest EXCEPT ![r] = row.secret]
    BY <1>3, <2>1
  <2>3. row.version > 0
    BY <1>3
  <2> QED BY <1>3, <2>2, <2>3, SecretsStay
<1> QED BY <1>5, <1>6, <1>8, <1>9 DEF IInv

LEMMA EditKeeps ==
  ASSUME IInv, NEW p \in Processes, NEW r \in Providers, Edit(p, r)
  PROVE  IInv'
<1> USE DEF Edit, Goto, store
<1> DEFINE new == [read |-> [NoJob.read EXCEPT ![r] = rows[r]], left |-> {r}]
<1>1. new.read \in [Providers -> Row] /\ new.read[r] = rows[r]
  BY NoRowIsARow, RowsAreRows DEF IInv, NoJob
<1>2. new \in Job
  BY <1>1 DEF Job
<1>3. "up" \in Working /\ "editing" \in Working
  BY DEF Working
<1>4. KeysInv' /\ pc' \in [Processes -> Steps]
  BY <1>3, WorkGoesOn, SealsStay
<1>5. TypeOK'
  BY <1>2, <1>4 DEF IInv, TypeOK
<1>6. \A q \in Processes : \A x \in job'[q].left :
        \/ x \in job[q].left /\ job'[q].read = job[q].read
        \/ job'[q].read[x] = rows'[x]
  BY <1>1 DEF IInv, TypeOK
<1>7. ReadsAreTrue'
  BY <1>5, <1>6, ReadsStay
<1>8. NoSecretIsTurnedBack' /\ EmptyIsEmpty'
  BY DEF IInv, NoSecretIsTurnedBack, EmptyIsEmpty
<1> QED BY <1>4, <1>5, <1>7, <1>8 DEF IInv

LEMMA ListSecretsKeeps ==
  ASSUME IInv, NEW p \in Processes, ListSecrets(p)
  PROVE  IInv'
<1> USE DEF ListSecrets, Goto, store
<1> DEFINE new == [read |-> [r \in Providers |-> rows[r]],
                   left |-> {r \in Providers : NeedsRewrap(p, rows[r])}]
<1>1. new.read \in [Providers -> Row] /\ \A r \in Providers : new.read[r] = rows[r]
  BY RowsAreRows DEF IInv
<1>2. new \in Job /\ new.left \subseteq Providers
  BY <1>1 DEF Job
<1>3. "up" \in Working /\ "rewrapping" \in Working
  BY DEF Working
<1>4. KeysInv' /\ pc' \in [Processes -> Steps]
  BY <1>3, WorkGoesOn, SealsStay
<1>5. job' = [job EXCEPT ![p] = new]
  OBVIOUS
<1> HIDE DEF new
<1>6. TypeOK'
  BY <1>2, <1>4, <1>5 DEF IInv, TypeOK
<1>7. \A q \in Processes : \A x \in job'[q].left :
        \/ x \in job[q].left /\ job'[q].read = job[q].read
        \/ job'[q].read[x] = rows'[x]
  BY <1>1, <1>2, <1>5 DEF IInv, TypeOK
<1>8. ReadsAreTrue'
  BY <1>6, <1>7, ReadsStay
<1>9. NoSecretIsTurnedBack' /\ EmptyIsEmpty'
  BY DEF IInv, NoSecretIsTurnedBack, EmptyIsEmpty
<1> QED BY <1>4, <1>6, <1>8, <1>9 DEF IInv

(* A row that is written back as it was read, under a later version.        *)
LEMMA CurrentIsRead ==
  ASSUME IInv, NEW p \in Processes, NEW r \in job[p].left, Current(p, r)
  PROVE  /\ r \in Rows /\ job[p].read[r] = rows[r]
         /\ rows[r].secret \in 0 .. MaxWrites
         /\ rows[r].version + 1 \in 0 .. MaxVersion
         /\ rows[r].version + 1 > rows[r].version /\ rows[r].version + 1 > 0
<1>1. r \in Rows
  BY JobsAreJobs, RowsAreRows DEF IInv
<1>2. rows[r].version \in 0 .. MaxVersion /\ rows[r].secret \in 0 .. MaxWrites
  BY <1>1, RowsAreRows DEF IInv
<1>3. job[p].read[r] = rows[r]
  BY DEF Current, IInv, ReadsAreTrue
<1> QED BY <1>1, <1>2, <1>3, SecretsAssumption DEF Current

LEMMA UpdateKeeps ==
  ASSUME IInv, NEW p \in Processes, NEW r \in Providers, Update(p, r)
  PROVE  IInv'
<1>1. /\ r \in job[p].left /\ pc[p] = "editing" /\ pc' = [pc EXCEPT ![p] = "up"]
      /\ job' = [job EXCEPT ![p] = NoJob] /\ UNCHANGED <<file, conf, ring>>
      /\ "up" \in Working /\ pc[p] \in Working
  BY DEF Update, Finish, Goto, Working
<1>2. \A q \in Processes : job'[q].left = {} \/ job'[q] = job[q]
  BY <1>1, NoJobIsAJob DEF IInv, TypeOK
<1>3. job' \in [Processes -> Job]
  BY <1>1, NoJobIsAJob DEF IInv, TypeOK
<1>4. CASE UNCHANGED store
  <2>1. KeysInv' /\ pc' \in [Processes -> Steps]
    BY <1>1, <1>4, WorkGoesOn, SealsStay DEF store
  <2>2. TypeOK'
    BY <1>1, <1>3, <1>4, <2>1 DEF IInv, TypeOK, store
  <2>3. ReadsAreTrue'
    BY <1>2, <1>4, <2>2, ReadsStay DEF store
  <2>4. NoSecretIsTurnedBack' /\ EmptyIsEmpty'
    BY <1>4 DEF IInv, NoSecretIsTurnedBack, EmptyIsEmpty, store
  <2> QED BY <2>1, <2>2, <2>3, <2>4 DEF IInv
<1>5. CASE Current(p, r)
  <2>1. PICK row \in Row :
          /\ rows' = [rows EXCEPT ![r] = row] /\ row.version = rows[r].version + 1
          /\ row.seal \in KeysOf(conf) \cup {NoKey, Plain} \/ row.seal = rows[r].seal
          /\ \/ row.secret = rows[r].secret /\ UNCHANGED <<writes, latest>>
             \/ /\ writes' \in 0 .. MaxWrites /\ row.secret = writes'
                /\ latest' = [latest EXCEPT ![r] = row.secret]
    <3>1. CASE job[p].read[r].seal = NoKey /\ rows' = [rows EXCEPT ![r].version = @ + 1]
               /\ UNCHANGED <<writes, latest>>
      <4> DEFINE row == [rows[r] EXCEPT !.version = @ + 1]
      <4>1. row \in Row /\ row.version = rows[r].version + 1 /\ row.seal = rows[r].seal
            /\ row.secret = rows[r].secret
        BY <1>1, <1>5, CurrentIsRead, RowsAreRows DEF IInv, Row
      <4> QED BY <3>1, <4>1
    <3>2. CASE /\ rows' = [rows EXCEPT ![r] = Sealed(p, job[p].read[r].secret, @.version + 1)]
               /\ UNCHANGED <<writes, latest>>
      <4> DEFINE row == Sealed(p, rows[r].secret, rows[r].version + 1)
      <4>1. rows' = [rows EXCEPT ![r] = row]
        BY <1>1, <1>5, <3>2, CurrentIsRead
      <4>2. row \in Row /\ row.version = rows[r].version + 1 /\ row.seal \in KeysOf(conf)
            /\ row.secret = rows[r].secret
        BY <1>1, <1>5, CurrentIsRead, SealedIsKnown
      <4> QED BY <3>2, <4>1, <4>2
    <3>3. CASE /\ writes < MaxWrites /\ writes' = writes + 1
               /\ latest' = [latest EXCEPT ![r] = writes']
               /\ rows' = [rows EXCEPT ![r] = Sealed(p, writes', @.version + 1)]
      <4> DEFINE row == Sealed(p, writes', rows[r].version + 1)
      <4>1. writes' \in 0 .. MaxWrites
        BY <3>3, SecretsAssumption DEF IInv, TypeOK
      <4>2. row \in Row /\ row.version = rows[r].version + 1 /\ row.seal \in KeysOf(conf)
            /\ row.secret = writes'
        BY <1>1, <1>5, <4>1, CurrentIsRead, SealedIsKnown
      <4> QED BY <3>3, <4>1, <4>2
    <3> QED BY <1>5, <3>1, <3>2, <3>3 DEF Update
  <2>2. r \in Rows /\ rows[r].version + 1 > 0 /\ rows[r].version + 1 > rows[r].version
    BY <1>1, <1>5, CurrentIsRead
  <2>3. SealsAreKnown' /\ rows' \in [Rows -> Row]
    BY <1>1, <2>1, <2>2, WrittenIsKnown
  <2>4. KeysInv' /\ pc' \in [Processes -> Steps]
    BY <1>1, <2>3, WorkGoesOn
  <2>5. writes' \in 0 .. MaxWrites /\ latest' \in [Rows -> 0 .. MaxWrites]
    BY <2>1 DEF IInv, TypeOK
  <2>6. TypeOK'
    BY <1>1, <1>3, <2>3, <2>4, <2>5 DEF IInv, TypeOK
  <2>7. \A x \in Rows : rows'[x] = rows[x] \/ rows'[x].version > rows[x].version
    BY <2>1, <2>2 DEF IInv, TypeOK
  <2>8. ReadsAreTrue'
    BY <1>2, <2>6, <2>7, ReadsStay
  <2>9. NoSecretIsTurnedBack' /\ EmptyIsEmpty'
    BY <2>1, <2>2, SecretsStay
  <2> QED BY <2>4, <2>6, <2>8, <2>9 DEF IInv
<1> QED BY <1>4, <1>5 DEF Update

LEMMA RewrapKeeps ==
  ASSUME IInv, NEW p \in Processes, NEW r \in Providers, Rewrap(p, r)
  PROVE  IInv'
<1>1. /\ r \in job[p].left /\ pc[p] = "rewrapping" /\ pc[p] \in Working /\ Current(p, r)
      /\ job' = [job EXCEPT ![p].left = @ \ {r}]
      /\ UNCHANGED <<file, conf, writes, latest, pc, ring>>
  BY DEF Rewrap, Working
<1> DEFINE row == Sealed(p, rows[r].secret, rows[r].version + 1)
<1>2. r \in Rows /\ rows[r].version + 1 > 0 /\ rows[r].version + 1 > rows[r].version
  BY <1>1, CurrentIsRead
<1>3. rows' = [rows EXCEPT ![r] = row]
  BY <1>1, CurrentIsRead DEF Rewrap
<1>4. row \in Row /\ row.version = rows[r].version + 1 /\ row.seal \in KeysOf(conf)
      /\ row.secret = rows[r].secret
  BY <1>1, CurrentIsRead, SealedIsKnown
<1> HIDE DEF row
<1>5. SealsAreKnown' /\ rows' \in [Rows -> Row]
  BY <1>1, <1>2, <1>3, <1>4, WrittenIsKnown
<1>6. KeysInv' /\ pc' \in [Processes -> Steps]
  BY <1>1, <1>5, WorkGoesOn
<1>7. job' \in [Processes -> Job]
      /\ \A q \in Processes : job'[q].left \subseteq job[q].left /\ job'[q].read = job[q].read
  <2>1. job[p] \in Job /\ [job[p] EXCEPT !.left = @ \ {r}] \in Job
    BY DEF IInv, TypeOK, Job
  <2>2. job' = [job EXCEPT ![p] = [job[p] EXCEPT !.left = @ \ {r}]]
    BY <1>1
  <2>3. [job[p] EXCEPT !.left = @ \ {r}].left \subseteq job[p].left
        /\ [job[p] EXCEPT !.left = @ \ {r}].read = job[p].read
    BY <2>1 DEF Job
  <2> QED BY <2>1, <2>2, <2>3 DEF IInv, TypeOK
<1>8. TypeOK'
  BY <1>1, <1>5, <1>6, <1>7 DEF IInv, TypeOK
<1>9. \A x \in Rows : rows'[x] = rows[x] \/ rows'[x].version > rows[x].version
  BY <1>2, <1>3, <1>4 DEF IInv, TypeOK
<1>10. ReadsAreTrue'
  BY <1>7, <1>8, <1>9, ReadsStay
<1>11. NoSecretIsTurnedBack' /\ EmptyIsEmpty'
  BY <1>1, <1>2, <1>3, <1>4, SecretsStay
<1> QED BY <1>6, <1>8, <1>10, <1>11 DEF IInv

LEMMA RewrapEndsKeeps ==
  ASSUME IInv, NEW p \in Processes, RewrapEnds(p)
  PROVE  IInv'
<1>1. /\ pc[p] = "rewrapping" /\ pc' = [pc EXCEPT ![p] = "up"]
      /\ job' = [job EXCEPT ![p] = NoJob] /\ UNCHANGED <<file, conf, store, ring>>
      /\ "up" \in Working /\ pc[p] \in Working
  BY DEF RewrapEnds, Finish, Goto, Working
<1>2. \A q \in Processes : job'[q].left = {} \/ job'[q] = job[q]
  BY <1>1, NoJobIsAJob DEF IInv, TypeOK
<1>3. KeysInv' /\ pc' \in [Processes -> Steps]
  BY <1>1, WorkGoesOn, SealsStay DEF store
<1>4. TypeOK'
  BY <1>1, <1>3, NoJobIsAJob DEF IInv, TypeOK, store
<1>5. ReadsAreTrue'
  BY <1>1, <1>2, <1>4, ReadsStay DEF store
<1>6. NoSecretIsTurnedBack' /\ EmptyIsEmpty'
  BY <1>1 DEF IInv, NoSecretIsTurnedBack, EmptyIsEmpty, store
<1> QED BY <1>3, <1>4, <1>5, <1>6 DEF IInv

LEMMA RotateKeeps ==
  ASSUME IInv, Rotate
  PROVE  IInv'
<1> USE DEF Rotate, store
<1>1. PICK k \in Fresh : conf' = [primary |-> k, previous |-> KeysOf(conf)]
  OBVIOUS
<1>2. k \in Keys /\ k # NoKey
  BY SecretsAssumption DEF Fresh
<1>3. conf'.primary = k /\ conf'.previous = KeysOf(conf) /\ conf' \in Conf
  BY <1>1, <1>2, KeysAreKeys DEF IInv, Conf
<1>4. KeysOf(conf)' = KeysOf(conf) \cup {k}
  BY <1>2, <1>3 DEF KeysOf
<1>5. TypeOK'
  BY <1>3 DEF IInv, TypeOK
<1>6. conf.primary = NoKey => file \in Keys \/ \A p \in Processes : pc[p] = "down"
  OBVIOUS
<1>7. OneWriter'
  BY <1>6, SecretsAssumption DEF IInv, KeysInv, OneWriter
<1>8. ASSUME NEW p \in Processes
      PROVE  FileIsKnown(p)' /\ RingIsKnown(p)'
  <2>1. FileIsKnown(p) /\ RingIsKnown(p)
    BY <1>8 DEF IInv, KeysInv
  <2>2. CASE conf.primary = NoKey /\ \A q \in Processes : pc[q] = "down"
    BY <2>2 DEF FileIsKnown, RingIsKnown, AtTheFile, Working
  <2>3. CASE conf.primary = NoKey /\ file \in Keys
    <3>1. file \in KeysOf(conf)
      BY <2>3 DEF KeysOf
    <3> QED BY <1>4, <2>1, <2>3, <3>1 DEF FileIsKnown, RingIsKnown
  <2>4. CASE conf.primary # NoKey
    BY <1>4, <2>1, <2>4 DEF FileIsKnown, RingIsKnown
  <2> QED BY <1>6, <2>2, <2>3, <2>4
<1>9. KeysInv'
  BY <1>2, <1>3, <1>4, <1>7, <1>8 DEF IInv, KeysInv, SealsAreKnown, NothingToDrop
<1>10. ReadsAreTrue'
  BY <1>5, ReadsStay
<1>11. NoSecretIsTurnedBack' /\ EmptyIsEmpty'
  BY DEF IInv, NoSecretIsTurnedBack, EmptyIsEmpty
<1> QED BY <1>5, <1>9, <1>10, <1>11 DEF IInv

LEMMA DropPreviousKeeps ==
  ASSUME IInv, DropPrevious
  PROVE  IInv'
<1> USE DEF DropPrevious, store
<1>1. conf \in Conf /\ conf.primary \in Keys
  BY KeysAreKeys DEF IInv, TypeOK, KeysInv, NothingToDrop
<1>2. conf'.primary = conf.primary /\ conf'.previous = {} /\ conf' \in Conf
  BY <1>1 DEF Conf
<1>3. KeysOf(conf)' = {conf.primary}
  BY <1>1, <1>2, SecretsAssumption DEF KeysOf
<1>4. TypeOK'
  BY <1>2 DEF IInv, TypeOK
<1>5. SealsAreKnown'
  BY <1>3 DEF StatusIsClean, SealsAreKnown
<1>6. ASSUME NEW p \in Processes
      PROVE  FileIsKnown(p)' /\ RingIsKnown(p)'
  <2>1. FileIsKnown(p) /\ RingIsKnown(p)
    BY <1>6 DEF IInv, KeysInv
  <2>2. pc[p] = "down" \/ ring[p].conf.primary = conf.primary
    BY DEF AllRestarted
  <2>3. FileIsKnown(p)'
    BY <1>1, <2>1, <2>2, SecretsAssumption DEF FileIsKnown, AtTheFile
  <2>4. RingIsKnown(p)'
    BY <1>1, <1>3, <2>1, <2>2, SecretsAssumption DEF RingIsKnown, Working
  <2> QED BY <2>3, <2>4
<1>7. NothingToDrop' /\ OneWriter'
  BY <1>1, <1>2, SecretsAssumption DEF IInv, KeysInv, NothingToDrop, OneWriter
<1>8. KeysInv'
  BY <1>5, <1>6, <1>7 DEF KeysInv
<1>9. ReadsAreTrue'
  BY <1>4, ReadsStay
<1>10. NoSecretIsTurnedBack' /\ EmptyIsEmpty'
  BY DEF IInv, NoSecretIsTurnedBack, EmptyIsEmpty
<1> QED BY <1>4, <1>8, <1>9, <1>10 DEF IInv
-----------------------------------------------------------------------------
(* The invariant, and what follows from it.                                 *)

LEMMA InitHolds == Init => IInv
<1> SUFFICES ASSUME Init
             PROVE  IInv
  OBVIOUS
<1> USE DEF Init
<1>1. NoRow \in Row /\ Legacy \in Row /\ Legacy.secret = 0 /\ Legacy.version = 1
      /\ Legacy.seal = Plain
  BY NoRowIsARow, SecretsAssumption DEF Legacy, Row
<1>2. \A r \in Rows : rows[r] \in Row /\ rows[r].secret = 0 /\ rows[r].seal \in {NoKey, Plain}
  BY <1>1, NoRowIsARow
<1>3. NotConfigured \in Conf /\ NotConfigured.primary = NoKey /\ NotConfigured.previous = {}
  BY DEF NotConfigured, Conf
<1>4. TypeOK
  BY <1>2, <1>3, NoJobIsAJob, SecretsAssumption DEF TypeOK, Ring, Steps
<1>5. ReadsAreTrue
  BY NoJobIsAJob DEF ReadsAreTrue
<1>6. NoSecretIsTurnedBack /\ EmptyIsEmpty
  BY <1>2 DEF NoSecretIsTurnedBack, EmptyIsEmpty
<1>7. SealsAreKnown
  BY <1>2 DEF SealsAreKnown, Rows
<1>8. KeysInv
  BY <1>3, <1>7 DEF KeysInv, NothingToDrop, OneWriter, FileIsKnown, RingIsKnown, AtTheFile, Working
<1> QED BY <1>4, <1>5, <1>6, <1>8 DEF IInv

LEMMA NextPreserves == IInv /\ [Next]_vars => IInv'
<1> SUFFICES ASSUME IInv, [Next]_vars
             PROVE  IInv'
  OBVIOUS
<1>1. CASE UNCHANGED vars
  <2>1. UNCHANGED <<file, conf, rows, writes, latest, pc, ring, job>>
    BY <1>1 DEF vars, store
  <2> QED BY <2>1 DEF IInv, TypeOK, ReadsAreTrue, NoSecretIsTurnedBack, EmptyIsEmpty, KeysInv,
     NothingToDrop, OneWriter, SealsAreKnown, FileIsKnown, RingIsKnown, KeysOf
<1>2. ASSUME NEW p \in Processes,
             Start(p) \/ ReadFile(p) \/ CreateFile(p) \/ WriteFile(p) \/ AwaitKey(p) \/ Stop(p)
      PROVE  IInv'
  BY <1>2, StartKeeps, ReadFileKeeps, CreateFileKeeps, WriteFileKeeps, StopKeeps
<1>3. ASSUME NEW p \in Processes, NEW r \in Rows, Create(p, r)
      PROVE  IInv'
  BY <1>3, CreateKeeps
<1>4. ASSUME NEW p \in Processes, NEW r \in Providers, Edit(p, r) \/ Update(p, r) \/ Rewrap(p, r)
      PROVE  IInv'
  BY <1>4, EditKeeps, UpdateKeeps, RewrapKeeps
<1>5. ASSUME NEW p \in Processes, ListSecrets(p) \/ RewrapEnds(p)
      PROVE  IInv'
  BY <1>5, ListSecretsKeeps, RewrapEndsKeeps
<1>6. CASE Rotate \/ DropPrevious
  BY <1>6, RotateKeeps, DropPreviousKeeps
<1> QED BY <1>1, <1>2, <1>3, <1>4, <1>5, <1>6 DEF Next

THEOREM Inductive == Spec => []IInv
BY InitHolds, NextPreserves, PTL DEF Spec

(* The files, the configuration, the rows and the processes of              *)
(* SecretsAtRest keep their types.                                          *)
THEOREM TypeCorrect == Spec => []TypeOK
<1>1. IInv => TypeOK
  BY DEF IInv
<1> QED BY <1>1, Inductive, PTL

(* Neither a rewrap nor an edit puts back a secret that was replaced after  *)
(* it was read.                                                             *)
THEOREM SecretsMoveOn == Spec => []NoSecretIsTurnedBack
<1>1. IInv => NoSecretIsTurnedBack
  BY DEF IInv
<1> QED BY <1>1, Inductive, PTL

(* However keys are made and replaced, every client secret can be read with *)
(* the keys of the present configuration.                                   *)
THEOREM ProvidersStayReadable == Spec => []NoProviderIsLost
<1>1. ASSUME IInv
      PROVE  NoProviderIsLost
  <2>1. \A r \in Providers : ~Lost(r)
    BY <1>1, SecretsAssumption DEF IInv, KeysInv, SealsAreKnown, Lost
  <2>2. ASSUME NEW p \in Processes, pc[p] \in Working, ring[p].conf = conf, NEW r \in Providers
        PROVE  CanOpen(p, rows[r].seal)
    <3>1. rows[r].seal \in KeysOf(conf) \cup {NoKey, Plain}
      BY <1>1 DEF IInv, KeysInv, SealsAreKnown
    <3>2. ring[p].primary = IF conf.primary = NoKey THEN file ELSE conf.primary
      BY <1>1, <2>2 DEF IInv, KeysInv, RingIsKnown
    <3> QED BY <2>2, <3>1, <3>2 DEF CanOpen, KeysOf
  <2> QED BY <2>1, <2>2 DEF NoProviderIsLost
<1> QED BY <1>1, Inductive, PTL
==============================================================================
