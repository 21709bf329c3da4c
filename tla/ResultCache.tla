---------------------------- MODULE ResultCache ------------------------------
(***************************************************************************)
(* internal/query/cache.go and what internal/query/executor.go and         *)
(* logged_stream.go do with it: one process's cache of query results, the  *)
(* executions that fill it and are answered from it, and the edits of      *)
(* connections that are meant to empty it.                                 *)
(*                                                                         *)
(* An entry is found by a key: a digest of the connection, the caller's    *)
(* policy fingerprint, the statement with its row cap (one "question"      *)
(* here) and the connection's generation.  An edit commits to the          *)
(* database, then its goroutine publishes the change event, and the cache  *)
(* bumps the generation.  Another process may edit the connection too: its *)
(* events stay in that process and this cache hears nothing.               *)
(*                                                                         *)
(*   idle      no execution                                                *)
(*   planned   the connection has been read                                *)
(*   keyed     the key has been derived                                    *)
(*   running   missed: the source is answering                             *)
(*   uncached  could not be keyed: the source is answering                 *)
(*   hit       being answered from an entry                                *)
(*                                                                         *)
(* An answer carries where it came from, which the code does not keep: for *)
(* whom and of what, the version of the connection it was read through,    *)
(* the newest edit the cache had been told of when its key was derived,    *)
(* and when it was stored.                                                 *)
(***************************************************************************)
EXTENDS Integers, Sequences, FiniteSets, FiniteSetsExt, Functions

CONSTANTS
  Conns, Prints, Questions,
  Executions,                \* identities, used again when they are over
  Sizes,                     \* estimated bytes of a result
  MaxBytes, MaxEntryBytes,   \* of the whole cache, of one entry
  TTL,
  MaxNow, MaxVersion         \* bounds on the clock and on edits

ASSUME CacheAssumption ==
  /\ Sizes \subseteq Nat
  /\ MaxBytes \in Nat \ {0}
  /\ MaxEntryBytes \in Nat \ {0}
  /\ TTL \in Nat \ {0}
  /\ MaxNow \in Nat
  /\ MaxVersion \in Nat

VARIABLES
  entries,      \* [keys stored -> Entry]: the map
  order,        \* Seq(keys): the list, most recently used first
  bytes,        \* what the cache thinks it holds
  generation,   \* [Conns -> Nat]
  version,      \* [Conns -> Nat]: the connection's row in the database
  unpublished,  \* [Conns -> SUBSET Nat]: edits committed here, event not out
  announced,    \* [Conns -> Nat]: newest edit this cache has been told of
  now,
  pc, job       \* [Executions -> ...]

cacheVars == <<entries, order, bytes>>
editVars  == <<generation, version, unpublished, announced>>
vars == <<entries, order, bytes, generation, version, unpublished, announced,
          now, pc, job>>

Keys == [conn : Conns, print : Prints, question : Questions, gen : Nat]

Answers == [conn : Conns, print : Prints, question : Questions, version : Nat,
            keyedAt : Nat, storedAt : Nat, whole : BOOLEAN]
Entries == [bytes : Nat, expires : Nat, answer : Answers]

(* Planned: c and q, the version that was read, and the newest edit         *)
(* announced by then.  Keyed: also the caller's print, the key, and the     *)
(* newest edit announced by then.  A hit: also the answer and the time.     *)
NoJob == [stage |-> "none"]
Jobs ==
  {NoJob}
  \cup [stage : {"planned"}, conn : Conns, question : Questions,
        version : Nat, informed : Nat]
  \cup [stage : {"keyed"}, conn : Conns, question : Questions, version : Nat,
        informed : Nat, print : Prints, key : Keys, keyedAt : Nat]
  \cup [stage : {"hit"}, conn : Conns, question : Questions, informed : Nat,
        print : Prints, answer : Answers, at : Nat]

Init ==
  /\ entries = [k \in {} |-> 0]
  /\ order = << >>
  /\ bytes = 0
  /\ generation = [c \in Conns |-> 0]
  /\ version = [c \in Conns |-> 0]
  /\ unpublished = [c \in Conns |-> {}]
  /\ announced = [c \in Conns |-> 0]
  /\ now = 0
  /\ pc = [x \in Executions |-> "idle"]
  /\ job = [x \in Executions |-> NoJob]

-----------------------------------------------------------------------------
(* The key and the map.                                                     *)

(* Mutant: the generation is left out of the key.                           *)
KeyOf_NoGeneration(c, p, q, g) ==
  [conn |-> c, print |-> p, question |-> q, gen |-> 0]
KeyOf(c, p, q, g) == [conn |-> c, print |-> p, question |-> q, gen |-> g]

(* The sum of a list of sizes.                                              *)
Total(sizes) ==
  LET upto[i \in 0 .. Len(sizes)] == IF i = 0 THEN 0 ELSE upto[i - 1] + sizes[i]
  IN  upto[Len(sizes)]

(* What the entries of a list of keys hold together.                        *)
Weight(list) == Total([i \in 1 .. Len(list) |-> entries[list[i]].bytes])

(* The list with the element of k, if it has one, taken out.                *)
Without(k) ==
  IF k \in Range(order)
  THEN LET at == CHOOSE i \in DOMAIN order : order[i] = k
       IN  [i \in 1 .. Len(order) - 1 |-> IF i < at THEN order[i] ELSE order[i + 1]]
  ELSE order

(* removeLocked: out of the list, out of the map, and its bytes given back. *)
Remove(k) ==
  /\ entries' = Restrict(entries, DOMAIN entries \ {k})
  /\ order' = Without(k)
  /\ bytes' = bytes - entries[k].bytes

(* The n least recently used.                                               *)
Back(list, n) == SubSeq(list, Len(list) - n + 1, Len(list))

(* How many keys at the back of the list have to go for the total to fit.   *)
Surplus(list, total) ==
  LET Fits(n) == n = Len(list) \/ total - Weight(Back(list, n)) <= MaxBytes
  IN  CHOOSE n \in 0 .. Len(list) : Fits(n) /\ \A m \in 0 .. n - 1 : ~Fits(m)

(* Mutant: the entry being replaced is not removed first, so its bytes stay *)
(* counted.                                                                 *)
Put_CountsTwice(k, e) ==
  LET list == Without(k)
      total == bytes + e.bytes
      surplus == Surplus(list, total)
      kept == SubSeq(list, 1, Len(list) - surplus)
  IN  /\ order' = <<k>> \o kept
      /\ entries' = [x \in Range(kept) \cup {k} |-> IF x = k THEN e ELSE entries[x]]
      /\ bytes' = total - Weight(Back(list, surplus))

(* Put, for a result within both budgets: whatever has the key goes, the    *)
(* entry goes to the front, and the list is evicted from the back until the *)
(* total fits.  The new entry fits by itself, so it stays.                  *)
Put(k, e) ==
  LET list == Without(k)
      total == bytes + e.bytes
                 - (IF k \in DOMAIN entries THEN entries[k].bytes ELSE 0)
      surplus == Surplus(list, total)
      kept == SubSeq(list, 1, Len(list) - surplus)
  IN  /\ order' = <<k>> \o kept
      /\ entries' = [x \in Range(kept) \cup {k} |-> IF x = k THEN e ELSE entries[x]]
      /\ bytes' = total - Weight(Back(list, surplus))

-----------------------------------------------------------------------------
(* Executions.                                                              *)

Become(x, where, j) ==
  /\ pc' = [pc EXCEPT ![x] = where]
  /\ job' = [job EXCEPT ![x] = j]

(* plan reads the connection's row.                                         *)
Plan(x) ==
  /\ pc[x] = "idle"
  /\ \E c \in Conns, q \in Questions :
       Become(x, "planned",
         [stage |-> "planned", conn |-> c, question |-> q,
          version |-> version[c], informed |-> announced[c]])
  /\ UNCHANGED <<cacheVars, editVars, now>>

(* cacheKey: resolve the caller's policy set, then derive the key from the  *)
(* generation as it is by now.                                              *)
MakeKey(x) ==
  /\ pc[x] = "planned"
  /\ LET j == job[x]
     IN  \E p \in Prints :
           Become(x, "keyed",
             [stage |-> "keyed", conn |-> j.conn, question |-> j.question,
              version |-> j.version, informed |-> j.informed, print |-> p,
              key |-> KeyOf(j.conn, p, j.question, generation[j.conn]),
              keyedAt |-> announced[j.conn]])
  /\ UNCHANGED <<cacheVars, editVars, now>>

(* The policy set does not resolve: there is no key, and the query runs     *)
(* without the cache.                                                       *)
Unkeyed(x) ==
  /\ pc[x] = "planned"
  /\ Become(x, "uncached", NoJob)
  /\ UNCHANGED <<cacheVars, editVars, now>>

Present(x) == job[x].key \in DOMAIN entries
Expired(k) == now > entries[k].expires

Served(x) ==
  LET j == job[x]
  IN  [stage |-> "hit", conn |-> j.conn, question |-> j.question,
       informed |-> j.informed, print |-> j.print,
       answer |-> entries[j.key].answer, at |-> now]

(* Mutant: a hit starts the entry's time to live again.                     *)
Hit_Renews(x) ==
  /\ pc[x] = "keyed" /\ Present(x) /\ ~Expired(job[x].key)
  /\ order' = <<job[x].key>> \o Without(job[x].key)
  /\ entries' = [entries EXCEPT ![job[x].key].expires = now + TTL]
  /\ Become(x, "hit", Served(x))
  /\ UNCHANGED <<bytes, editVars, now>>
(* Get finds the entry and moves it to the front.                           *)
Hit(x) ==
  /\ pc[x] = "keyed" /\ Present(x) /\ ~Expired(job[x].key)
  /\ order' = <<job[x].key>> \o Without(job[x].key)
  /\ Become(x, "hit", Served(x))
  /\ UNCHANGED <<entries, bytes, editVars, now>>

(* Get finds it too old, and removes it.                                    *)
Expire(x) ==
  /\ pc[x] = "keyed" /\ Present(x) /\ Expired(job[x].key)
  /\ Remove(job[x].key)
  /\ Become(x, "running", job[x])
  /\ UNCHANGED <<editVars, now>>

Miss(x) ==
  /\ pc[x] = "keyed" /\ ~Present(x)
  /\ Become(x, "running", job[x])
  /\ UNCHANGED <<cacheVars, editVars, now>>

AnswerOf(x, whole) ==
  LET j == job[x]
  IN  [conn |-> j.conn, print |-> j.print, question |-> j.question,
       version |-> j.version, keyedAt |-> j.keyedAt, storedAt |-> now,
       whole |-> whole]

Storable(size) == size <= MaxEntryBytes /\ size <= MaxBytes

(* Close of a stream that missed.  Only a result that was read to its end,  *)
(* and is within the budget, is stored; tee has dropped one that outgrew    *)
(* the entry's budget.  Otherwise the caller stopped early, or the source   *)
(* or the closing failed.                                                   *)
Finish(x) ==
  /\ pc[x] = "running"
  /\ \/ \E size \in Sizes :
          IF Storable(size)
          THEN Put(job[x].key, [bytes |-> size, expires |-> now + TTL,
                                answer |-> AnswerOf(x, TRUE)])
          ELSE UNCHANGED cacheVars
     \/ UNCHANGED cacheVars
  /\ Become(x, "idle", NoJob)
  /\ UNCHANGED <<editVars, now>>

(* Close of a stream served from an entry, or run without the cache: there  *)
(* is nothing to store.                                                     *)
Done(x) ==
  /\ pc[x] \in {"hit", "uncached"}
  /\ Become(x, "idle", NoJob)
  /\ UNCHANGED <<cacheVars, editVars, now>>

-----------------------------------------------------------------------------
(* The rest of the world.                                                   *)

(* Update of a connection, in this process: the row is written, the event   *)
(* not yet published.                                                       *)
Edit(c) ==
  /\ version[c] < MaxVersion
  /\ version' = [version EXCEPT ![c] = @ + 1]
  /\ unpublished' = [unpublished EXCEPT ![c] = @ \cup {version[c] + 1}]
  /\ UNCHANGED <<cacheVars, generation, announced, now, pc, job>>

(* The same in another process.                                             *)
EditElsewhere(c) ==
  /\ version[c] < MaxVersion
  /\ version' = [version EXCEPT ![c] = @ + 1]
  /\ UNCHANGED <<cacheVars, generation, unpublished, announced, now, pc, job>>

(* emit calls the handler Watch subscribed, which calls Invalidate.         *)
(* Mutant: the generation is a mark that the connection was edited, not a   *)
(* count.                                                                   *)
Publish_Marks(c) ==
  \E v \in unpublished[c] :
    /\ unpublished' = [unpublished EXCEPT ![c] = @ \ {v}]
    /\ announced' = [announced EXCEPT ![c] = Max({announced[c], v})]
    /\ generation' = [generation EXCEPT ![c] = 1]
    /\ UNCHANGED <<cacheVars, version, now, pc, job>>
Publish(c) ==
  \E v \in unpublished[c] :
    /\ unpublished' = [unpublished EXCEPT ![c] = @ \ {v}]
    /\ announced' = [announced EXCEPT ![c] = Max({announced[c], v})]
    /\ generation' = [generation EXCEPT ![c] = @ + 1]
    /\ UNCHANGED <<cacheVars, version, now, pc, job>>

Tick ==
  /\ now < MaxNow
  /\ now' = now + 1
  /\ UNCHANGED <<cacheVars, editVars, pc, job>>

Next ==
  \/ \E x \in Executions :
       Plan(x) \/ MakeKey(x) \/ Unkeyed(x) \/ Hit(x) \/ Expire(x) \/ Miss(x) \/ Finish(x) \/ Done(x)
  \/ \E c \in Conns : Edit(c) \/ EditElsewhere(c) \/ Publish(c)
  \/ Tick

Spec == Init /\ [][Next]_vars

-----------------------------------------------------------------------------
(* Every variable keeps its type; what bytes is, BookkeepingAgrees says.      *)
TypeOK ==
  /\ DOMAIN entries \subseteq Keys
  /\ \A k \in DOMAIN entries : entries[k] \in Entries
  /\ order \in Seq(Keys)
  /\ generation \in [Conns -> Nat]
  /\ version \in [Conns -> Nat]
  /\ unpublished \in [Conns -> SUBSET Nat]
  /\ announced \in [Conns -> Nat]
  /\ now \in Nat
  /\ pc \in [Executions -> {"idle", "planned", "keyed", "running", "uncached", "hit"}]
  /\ DOMAIN job = Executions /\ \A x \in Executions : job[x] \in Jobs

ListIsTheMap ==
  /\ Range(order) = DOMAIN entries
  /\ \A i, j \in DOMAIN order : order[i] = order[j] => i = j

BytesAddUp ==
  /\ bytes = Weight(order)
  /\ bytes <= MaxBytes

(* The list, the map and the running total are kept by separate statements  *)
(* of Get, Put and removeLocked.  Through replacements, evictions and       *)
(* expiries list and map hold the same keys, each once, and the total is    *)
(* what the entries add up to and within the cache's limit.                 *)
BookkeepingAgrees == ListIsTheMap /\ BytesAddUp

Being(x) == pc[x] = "hit"

SameAudience ==
  \A x \in Executions : Being(x) =>
    /\ job[x].answer.conn = job[x].conn
    /\ job[x].answer.print = job[x].print
    /\ job[x].answer.question = job[x].question

WholeResultsOnly ==
  \A x \in Executions : Being(x) => job[x].answer.whole

TrustIsBounded ==
  \A x \in Executions : Being(x) => job[x].at <= job[x].answer.storedAt + TTL

(* Nobody is answered with what another policy set, another connection or   *)
(* another question produced, with a result that was not read to its end,   *)
(* or, however often its entry is hit, with one stored longer ago than the  *)
(* time to live.                                                            *)
AnswersAreSound == SameAudience /\ WholeResultsOnly /\ TrustIsBounded

(* An execution that read its connection after an edit was announced is     *)
(* never answered with a result whose key was derived before that           *)
(* announcement.                                                            *)
AnnouncedEditsHide ==
  \A x \in Executions : Being(x) => job[x].answer.keyedAt >= job[x].informed

(* So the only answers older than an announced edit come from executions    *)
(* that were under way across the announcement: they had read the           *)
(* connection before the edit and derived their key after it was announced. *)
OnlyStraddlersAreStale ==
  \A x \in Executions :
    (Being(x) /\ job[x].answer.version < job[x].informed)
      => job[x].answer.version < job[x].answer.keyedAt
==============================================================================
