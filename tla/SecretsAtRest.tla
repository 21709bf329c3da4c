---------------------------- MODULE SecretsAtRest -----------------------------
(***************************************************************************)
(* The secrets that are stored sealed, the master keys that seal them, and *)
(* how a key comes to be and is replaced: Resolve, generate and awaitKey   *)
(* of internal/secrets/resolve.go, the keyring of secrets.go, the sealing  *)
(* decorator of internal/store/repo/secrets.go, pivot secrets rewrap, and  *)
(* the handlers and commands that write a provider's client secret or a    *)
(* connection's password.                                                  *)
(*                                                                         *)
(* A process is a server with one request at work, or a command; it keeps  *)
(* the keyring that its configuration gave it when it started.  The        *)
(* operator replaces a key in the steps of docs/operations/secrets.md.  A  *)
(* secret is the number of the write that set it; 0 is what an instance    *)
(* from before there was encryption held.  A deleted provider needs no     *)
(* secret any more and is left out.                                        *)
(***************************************************************************)
EXTENDS Integers, FiniteSets

CONSTANTS
  Processes,
  Keys, NoKey, Blank,        \* a key is what its fingerprint names
  Providers, Connections,    \* the rows that hold a secret
  Plain,                     \* how a secret is stored that is not sealed
  MaxWrites, MaxVersion      \* bounds on secrets set and on changes of a row

ASSUME SecretsAssumption ==
  /\ Keys \cap {NoKey, Blank, Plain} = {}
  /\ NoKey # Blank /\ NoKey # Plain
  /\ Providers \cap Connections = {}
  /\ MaxWrites \in Nat /\ MaxVersion \in Nat \ {0}

VARIABLES
  file,            \* the key file: NoKey is none, Blank one without a key yet
  conf,            \* what a process that starts now is configured with
  rows, writes,    \* the columns that hold secrets; how many secrets were set
  latest,          \* the secret that each row was last given
  pc, ring, job    \* of the processes

store == <<rows, writes, latest>>
vars == <<file, conf, store, pc, ring, job>>

Rows == Providers \cup Connections

\* Without a configured key the key file has it.
Conf == [primary : Keys \cup {NoKey}, previous : SUBSET Keys]
NotConfigured == [primary |-> NoKey, previous |-> {}]

\* conf is the configuration the process was started with.
Ring == [primary : Keys \cup {NoKey}, conf : Conf]

\* A row without a secret has no seal; one of version 0 is not there.
Row == [seal : Keys \cup {NoKey, Plain}, secret : 0 .. MaxWrites, version : 0 .. MaxVersion]
NoRow == [seal |-> NoKey, secret |-> 0, version |-> 0]
Legacy == [seal |-> Plain, secret |-> 0, version |-> 1]

\* The rows an update or a rewrap has read, and those it has still to write.
Job == [read : [Providers -> Row], left : SUBSET Providers]
NoJob == [read |-> [r \in Providers |-> NoRow], left |-> {}]

Working == {"up", "editing", "rewrapping"}
Steps == Working \cup {"down", "reading", "creating", "writing", "awaiting"}

Init ==
  /\ file = NoKey
  /\ conf = NotConfigured
  /\ rows \in [Rows -> {NoRow, Legacy}] /\ \A r \in Connections : rows[r] = NoRow
  /\ writes = 0
  /\ latest = [r \in Rows |-> 0]
  /\ pc = [p \in Processes |-> "down"]
  /\ ring = [p \in Processes |-> [primary |-> NoKey, conf |-> NotConfigured]]
  /\ job = [p \in Processes |-> NoJob]

Goto(p, from, to) == pc[p] = from /\ pc' = [pc EXCEPT ![p] = to]

\* The keys that configuration c reads with.
KeysOf(c) == c.previous \cup ({IF c.primary = NoKey THEN file ELSE c.primary} \cap Keys)
CanOpen(p, seal) == seal \in {NoKey, Plain, ring[p].primary} \cup ring[p].conf.previous

Used == {file, conf.primary} \cup conf.previous
        \cup {ring[p].primary : p \in Processes} \cup {rows[r].seal : r \in Rows}
Fresh == Keys \ Used

-----------------------------------------------------------------------------
(* A process starts: the keyring.                                           *)

Start(p) ==
  /\ IF conf.primary = NoKey THEN Goto(p, "down", "reading") ELSE Goto(p, "down", "up")
  /\ ring' = [ring EXCEPT ![p] = [primary |-> conf.primary, conf |-> conf]]
  /\ UNCHANGED <<file, conf, store, job>>

HasKey(p, k) == ring' = [ring EXCEPT ![p].primary = k]

\* Resolve reads the file: a key, a file that a sibling is about to fill, or none.
ReadFile(p) ==
  /\ \/ file \in Keys /\ Goto(p, "reading", "up") /\ HasKey(p, file)
     \/ file = Blank /\ Goto(p, "reading", "awaiting") /\ UNCHANGED ring
     \/ file = NoKey /\ Goto(p, "reading", "creating") /\ UNCHANGED ring
  /\ UNCHANGED <<file, conf, store, job>>

\* Mutant: a file that has appeared meanwhile is truncated.
CreateFile_Truncates(p) ==
  /\ file' = Blank
  /\ Goto(p, "creating", "writing")
  /\ UNCHANGED <<conf, store, ring, job>>
\* generate: O_EXCL lets one of them create the file.
CreateFile(p) ==
  /\ IF file = NoKey THEN file' = Blank /\ Goto(p, "creating", "writing")
     ELSE Goto(p, "creating", "awaiting") /\ UNCHANGED file
  /\ UNCHANGED <<conf, store, ring, job>>

WriteFile(p) ==
  /\ Goto(p, "writing", "up")
  /\ \E k \in Fresh : file' = k /\ HasKey(p, k)
  /\ UNCHANGED <<conf, store, job>>

\* awaitKey, which stops waiting in the end.
AwaitKey(p) ==
  /\ \/ file \in Keys /\ Goto(p, "awaiting", "up") /\ HasKey(p, file)
     \/ file \notin Keys /\ Goto(p, "awaiting", "down") /\ UNCHANGED ring
  /\ UNCHANGED <<file, conf, store, job>>

\* A command ends, a server is stopped, or the process dies, wherever it is.
Stop(p) ==
  /\ pc[p] # "down"
  /\ pc' = [pc EXCEPT ![p] = "down"]
  /\ job' = [job EXCEPT ![p] = NoJob]
  /\ UNCHANGED <<file, conf, store, ring>>

-----------------------------------------------------------------------------
(* Secrets are written.                                                     *)

\* The decorator: Encrypt seals with the primary key of the process.
Sealed(p, secret, version) == [seal |-> ring[p].primary, secret |-> secret, version |-> version]

\* Create, with or without a secret.
Create(p, r) ==
  /\ pc[p] = "up" /\ rows[r].version = 0
  /\ \/ /\ rows' = [rows EXCEPT ![r] = [NoRow EXCEPT !.version = 1]]
        /\ UNCHANGED <<writes, latest>>
     \/ /\ writes < MaxWrites /\ writes' = writes + 1
        /\ latest' = [latest EXCEPT ![r] = writes']
        /\ rows' = [rows EXCEPT ![r] = Sealed(p, writes', 1)]
  /\ UNCHANGED <<file, conf, pc, ring, job>>

Finish(p, from) ==
  /\ Goto(p, from, "up")
  /\ job' = [job EXCEPT ![p] = NoJob]

\* handleAdminUpdate reads the provider; one that cannot be opened cannot be
\* edited.  A form that is older than the row is refused later and changes
\* nothing.
Edit(p, r) ==
  /\ rows[r].version > 0 /\ CanOpen(p, rows[r].seal)
  /\ Goto(p, "up", "editing")
  /\ job' = [job EXCEPT ![p] = [read |-> [NoJob.read EXCEPT ![r] = rows[r]], left |-> {r}]]
  /\ UNCHANGED <<file, conf, store, ring>>

\* Mutant: the row's version is not looked at.
Current_Any(p, r) == rows[r].version < MaxVersion
\* The versioned UPDATE finds the row as it was read.
Current(p, r) == rows[r].version = job[p].read[r].version /\ rows[r].version < MaxVersion

\* It stores a new secret, or the one it has read.
Update(p, r) ==
  /\ r \in job[p].left
  /\ Finish(p, "editing")
  /\ \/ /\ Current(p, r)
        /\ IF job[p].read[r].seal = NoKey
           THEN rows' = [rows EXCEPT ![r].version = @ + 1]
           ELSE rows' = [rows EXCEPT ![r] = Sealed(p, job[p].read[r].secret, @.version + 1)]
        /\ UNCHANGED <<writes, latest>>
     \/ /\ Current(p, r)
        /\ writes < MaxWrites /\ writes' = writes + 1
        /\ latest' = [latest EXCEPT ![r] = writes']
        /\ rows' = [rows EXCEPT ![r] = Sealed(p, writes', @.version + 1)]
     \/ ~Current(p, r) /\ UNCHANGED store
  /\ UNCHANGED <<file, conf, ring>>

-----------------------------------------------------------------------------
(* pivot secrets rewrap.                                                    *)

NeedsRewrap(p, row) == row.seal \notin {NoKey, ring[p].primary}

\* storedSecrets: the providers of every organization.
ListSecrets(p) ==
  /\ Goto(p, "up", "rewrapping")
  /\ job' = [job EXCEPT ![p] =
       [read |-> [r \in Providers |-> rows[r]],
        left |-> {r \in Providers : NeedsRewrap(p, rows[r])}]]
  /\ UNCHANGED <<file, conf, store, ring>>

Rewrap(p, r) ==
  /\ pc[p] = "rewrapping" /\ r \in job[p].left
  /\ CanOpen(p, job[p].read[r].seal) /\ Current(p, r)
  /\ rows' = [rows EXCEPT ![r] = Sealed(p, job[p].read[r].secret, @.version + 1)]
  /\ job' = [job EXCEPT ![p].left = @ \ {r}]
  /\ UNCHANGED <<file, conf, writes, latest, pc, ring>>

\* It is done, or the first failure ends it: a secret that cannot be opened,
\* or a row that has changed.
RewrapEnds(p) ==
  /\ \/ job[p].left = {}
     \/ \E r \in job[p].left : ~CanOpen(p, job[p].read[r].seal) \/ ~Current(p, r)
  /\ Finish(p, "rewrapping")
  /\ UNCHANGED <<file, conf, store, ring>>

-----------------------------------------------------------------------------
(* The operator.                                                            *)

\* The first step: a new key is the primary one and what there was is kept for
\* reading.  Nobody replaces a key that is only just being made.
Rotate ==
  /\ conf.primary # NoKey \/ file \in Keys \/ \A p \in Processes : pc[p] = "down"
  /\ conf.primary = NoKey => file # Blank
  /\ \E k \in Fresh : conf' = [primary |-> k, previous |-> KeysOf(conf)]
  /\ UNCHANGED <<file, store, pc, ring, job>>

\* What pivot secrets status counts.
StatusIsClean == \A r \in Providers : rows[r].seal \in {NoKey, conf.primary}
AllRestarted == \A p \in Processes : pc[p] = "down" \/ ring[p].conf = conf

\* Mutant: not every server was restarted with the new key.
DropPrevious_Hasty ==
  /\ conf.previous # {} /\ StatusIsClean
  /\ conf' = [conf EXCEPT !.previous = {}]
  /\ UNCHANGED <<file, store, pc, ring, job>>
\* The last step: everything runs with the new key and status reports nothing
\* on an older one.
DropPrevious ==
  /\ conf.previous # {} /\ StatusIsClean /\ AllRestarted
  /\ conf' = [conf EXCEPT !.previous = {}]
  /\ UNCHANGED <<file, store, pc, ring, job>>

Next ==
  \/ \E p \in Processes :
       \/ Start(p) \/ ReadFile(p) \/ CreateFile(p) \/ WriteFile(p) \/ AwaitKey(p) \/ Stop(p)
       \/ \E r \in Rows : Create(p, r)
       \/ \E r \in Providers : Edit(p, r) \/ Update(p, r) \/ Rewrap(p, r)
       \/ ListSecrets(p) \/ RewrapEnds(p)
  \/ Rotate
  \/ DropPrevious

Spec == Init /\ [][Next]_vars

-----------------------------------------------------------------------------
(* Properties.                                                              *)

TypeOK ==
  /\ file \in Keys \cup {NoKey, Blank}
  /\ conf \in Conf
  /\ rows \in [Rows -> Row]
  /\ writes \in 0 .. MaxWrites
  /\ latest \in [Rows -> 0 .. MaxWrites]
  /\ pc \in [Processes -> Steps]
  /\ ring \in [Processes -> Ring]
  /\ job \in [Processes -> Job]

Lost(r) == rows[r].seal \in Keys \ KeysOf(conf)

\* However many processes start on a fresh instance at once, and whoever writes
\* while a key is being replaced, no client secret is ever sealed with a key
\* that the operator does not have, and every process that was started since
\* the last change of the configuration can read all of them.
NoProviderIsLost ==
  /\ \A r \in Providers : ~Lost(r)
  /\ \A p \in Processes : pc[p] \in Working /\ ring[p].conf = conf =>
       \A r \in Providers : CanOpen(p, rows[r].seal)

\* A rewrap reads the secrets once and writes each later, and so does an edit
\* that keeps the secret: neither ever puts back one that was replaced
\* meanwhile.
NoSecretIsTurnedBack == \A r \in Rows : rows[r].secret = latest[r]

\* docs/operations/secrets.md: keep the old key until status reports nothing
\* on it, and only then drop it.
NothingIsLost == \A r \in Rows : ~Lost(r)
==============================================================================
