---------------------------- MODULE Authorization ----------------------------
(***************************************************************************)
(* Who may do what: role assignments and group membership in the database, *)
(* the resolver that reads them in several statements, and the in-process  *)
(* cache of its decisions.  internal/authz (cache.go, graph.go, store.go), *)
(* the role handlers of internal/api/roles.go and the statements behind    *)
(* them in internal/store/repo.                                            *)
(*                                                                         *)
(* One permission of one organization and the relation that carries it are *)
(* followed, the administrator's.  A user may be asked about in two ways:  *)
(* Check decides the permission, and Grants, on which the result cache     *)
(* keys its answers, lists relations, of which this one is there or not.   *)
(* Each is cached in a half of its own.                                    *)
(* The role handlers invalidate the cache after a write; nothing else that *)
(* writes relationships does.  A group's parent is changed by nothing the  *)
(* program runs.                                                           *)
(*                                                                         *)
(* Every write of a relationship has a number.  A write is quiet until the *)
(* cache has been told of it, and the code keeps neither.                  *)
(***************************************************************************)
EXTENDS Integers, FiniteSets, Functions

CONSTANTS
  Users, Groups,
  NoGroup,
  Parent,                    \* [Groups -> Groups \cup {NoGroup}]
  MaxDepth,                  \* maxGroupDepth
  Founder,                   \* the administrator that setup made
  Checks, Handlers,          \* calls of Check or Grants, of the role handlers
  TTL,
  Slowest,                   \* ticks that a resolution takes, at most
  MaxNow, MaxWrites          \* bounds on the clock and on writes

ASSUME AuthorizationAssumption ==
  /\ NoGroup \notin Groups \cup Users
  /\ Parent \in [Groups -> Groups \cup {NoGroup}]
  /\ MaxDepth \in Nat \ {0}
  /\ Founder \in Users
  /\ TTL \in Nat \ {0}
  /\ Slowest \in Nat
  /\ MaxNow \in Nat
  /\ MaxWrites \in Nat

VARIABLES
  grants,          \* who holds the role: users, and groups for their members
  members,         \* SUBSET (Groups \X Users)
  writes, quiet,   \* the last write, and those the cache was not told of
  entries,         \* [questions with an entry -> Entries]
  generation,
  now,
  pc, job,         \* of the calls of Check and Grants
  hpc, hjob        \* of the handlers

graph == <<grants, members, writes>>
cache == <<entries, generation>>
checks == <<pc, job>>
handlers == <<hpc, hjob>>
vars == <<graph, quiet, cache, now, checks, handlers>>

Subjects == Users \cup Groups
Questions == {"check", "grants"} \X Users
Who(q) == q[2]
Writes == 1 .. MaxWrites

\* What an answer rests on: the last write when its reading began, and when
\* that was.
Entries == [allowed : BOOLEAN, expires : Nat, began : Nat, since : Nat]

Jobs == [question : Questions, gen : Nat, told : SUBSET Writes, direct : SUBSET Groups,
         allowed : BOOLEAN, began : Nat, since : Nat, at : Nat]
Idle == [question |-> <<"check", Founder>>, gen |-> 0, told |-> {},
         direct |-> {}, allowed |-> FALSE, began |-> 0, since |-> 0, at |-> 0]

Init ==
  /\ grants = {Founder}
  /\ members = {}
  /\ writes = 0
  /\ quiet = {}
  /\ entries = [q \in {} |-> 0]
  /\ generation = 0
  /\ now = 0
  /\ pc = [c \in Checks |-> "idle"]
  /\ job = [c \in Checks |-> Idle]
  /\ hpc = [h \in Handlers |-> "idle"]
  /\ hjob = [h \in Handlers |-> [subject |-> Founder, write |-> 0]]

-----------------------------------------------------------------------------
(* The graph.                                                               *)

\* expand: level by level up the parents, each group once.
Climb(direct) ==
  LET level[n \in 0 .. MaxDepth] ==
        IF n = 0 THEN [queue |-> direct, seen |-> direct]
        ELSE LET below == level[n - 1]
                 up == {Parent[g] : g \in below.queue}
                         \ ({NoGroup} \cup below.seen)
             IN  [queue |-> up, seen |-> below.seen \cup up]
  IN  level[MaxDepth]

TooDeep(direct) == Climb(direct).queue # {}

\* The user and every group whose members the user is one of.
SpeaksFor(u, direct) == {u} \cup Climb(direct).seen

GroupsOf(u) == {g \in Groups : <<g, u>> \in members}

\* What a resolver that read the whole graph at once would answer.
May(u) == SpeaksFor(u, GroupsOf(u)) \cap grants # {}

-----------------------------------------------------------------------------
(* Check and Grants.                                                        *)

Goto(c, from, to) == pc[c] = from /\ pc' = [pc EXCEPT ![c] = to]

\* key, grantKey: the generation is read with the key, before the lookup.  The
\* latter's also names it, which adds nothing: Invalidate empties both halves.
MakeKey(c) ==
  /\ Goto(c, "idle", "keyed")
  /\ \E q \in Questions :
       job' = [job EXCEPT ![c] =
         [Idle EXCEPT !.question = q, !.gen = generation, !.told = (1 .. writes) \ quiet]]
  /\ UNCHANGED <<graph, quiet, cache, now, handlers>>

\* Mutant: a decision, too, is still good at the very moment it expires.
Live_AtExpiry(q) == q \in DOMAIN entries /\ entries[q].expires >= now
\* lookup and lookupGrants, which differ at that moment.
Live(q) ==
  /\ q \in DOMAIN entries
  /\ \/ entries[q].expires > now
     \/ q[1] = "grants" /\ entries[q].expires = now

Hit(c) ==
  /\ Goto(c, "keyed", "answered")
  /\ Live(job[c].question)
  /\ LET e == entries[job[c].question] IN
       job' = [job EXCEPT ![c] = [@ EXCEPT
         !.allowed = e.allowed, !.began = e.began, !.since = e.since, !.at = now]]
  /\ UNCHANGED <<graph, quiet, cache, now, handlers>>

Miss(c) ==
  /\ Goto(c, "keyed", "missed")
  /\ ~Live(job[c].question)
  /\ UNCHANGED <<graph, quiet, cache, now, job, handlers>>

\* GroupsForUser, the first statement of the resolver.
ReadGroups(c) ==
  /\ Goto(c, "missed", "expanded")
  /\ job' = [job EXCEPT ![c] = [@ EXCEPT
       !.direct = GroupsOf(Who(job[c].question)), !.began = writes, !.since = now]]
  /\ UNCHANGED <<graph, quiet, cache, now, handlers>>

\* RelationsOn, the last.
ReadRelations(c) ==
  /\ ~TooDeep(job[c].direct)
  /\ Goto(c, "expanded", "resolved")
  /\ job' = [job EXCEPT ![c].allowed =
       SpeaksFor(Who(job[c].question), job[c].direct) \cap grants # {}]
  /\ UNCHANGED <<graph, quiet, cache, now, handlers>>

\* A statement fails, or the nesting is too deep: the caller is refused and
\* the cache left alone.
Unavailable(c) ==
  /\ \E from \in {"missed", "expanded"} : Goto(c, from, "idle")
  /\ job' = [job EXCEPT ![c] = Idle]
  /\ UNCHANGED <<graph, quiet, cache, now, handlers>>

Remember(c) ==
  [q \in DOMAIN entries \cup {job[c].question} |->
     IF q = job[c].question
     THEN [allowed |-> job[c].allowed, expires |-> now + TTL,
           began |-> job[c].began, since |-> job[c].since]
     ELSE entries[q]]

\* Mutant: stored whatever happened to the generation meanwhile.
Store_Always(c) ==
  /\ Goto(c, "resolved", "answered")
  /\ job' = [job EXCEPT ![c].at = now]
  /\ entries' = Remember(c)
  /\ UNCHANGED <<graph, quiet, generation, now, handlers>>
\* store, storeGrants, unless a write was announced since the key was made.
Store(c) ==
  /\ Goto(c, "resolved", "answered")
  /\ job' = [job EXCEPT ![c].at = now]
  /\ entries' = IF job[c].gen = generation THEN Remember(c) ELSE entries
  /\ UNCHANGED <<graph, quiet, generation, now, handlers>>

Answer(c) ==
  /\ Goto(c, "answered", "idle")
  /\ job' = [job EXCEPT ![c] = Idle]
  /\ UNCHANGED <<graph, quiet, cache, now, handlers>>

-----------------------------------------------------------------------------
(* The role handlers, each as it runs for a caller who may call it.         *)

\* A relationship is written; the cache does not know.
Write ==
  /\ writes < MaxWrites
  /\ writes' = writes + 1
  /\ quiet' = quiet \cup {writes + 1}

Handle(h, from, to, subject, write) ==
  /\ hpc[h] = from
  /\ hpc' = [hpc EXCEPT ![h] = to]
  /\ hjob' = [hjob EXCEPT ![h] = [subject |-> subject, write |-> write]]

\* handleGrant, for a user or a group of the organization.
Grant(h) ==
  /\ Write
  /\ \E s \in Subjects :
       /\ Handle(h, "idle", "written", s, writes + 1)
       /\ grants' = grants \cup {s}
  /\ UNCHANGED <<members, cache, now, checks>>

\* Mutant: the last administrator is refused only when there is none.
Count_OffByOne(h) ==
  /\ Cardinality(grants) > 0
  /\ \E s \in Subjects : Handle(h, "idle", "counted", s, writes)
  /\ UNCHANGED <<graph, quiet, cache, now, checks>>
\* handleRevoke counts the assignments, and refuses at one.
Count(h) ==
  /\ Cardinality(grants) > 1
  /\ \E s \in Subjects : Handle(h, "idle", "counted", s, writes)
  /\ UNCHANGED <<graph, quiet, cache, now, checks>>

\* And deletes, whether or not there is such an assignment.
Revoke(h) ==
  /\ Write
  /\ Handle(h, "counted", "written", hjob[h].subject, writes + 1)
  /\ grants' = grants \ {hjob[h].subject}
  /\ UNCHANGED <<members, cache, now, checks>>

\* Or the statement fails.
GiveUp(h) ==
  /\ Handle(h, "counted", "idle", Founder, 0)
  /\ UNCHANGED <<graph, quiet, cache, now, checks>>

\* Mutant: only the generation moves.
Invalidate_KeepsEntries(h) ==
  /\ Handle(h, "written", "idle", Founder, 0)
  /\ generation' = generation + 1
  /\ quiet' = quiet \ {hjob[h].write}
  /\ UNCHANGED <<graph, entries, now, checks>>
Invalidate(h) ==
  /\ Handle(h, "written", "idle", Founder, 0)
  /\ generation' = generation + 1
  /\ entries' = [q \in {} |-> 0]
  /\ quiet' = quiet \ {hjob[h].write}
  /\ UNCHANGED <<graph, now, checks>>

-----------------------------------------------------------------------------
(* Everybody else.                                                          *)

\* A single sign-on adds its user to a group, or takes the user out of one.
SyncGroup ==
  /\ Write
  /\ \E g \in Groups, u \in Users :
       members' = IF <<g, u>> \in members THEN members \ {<<g, u>>}
                                          ELSE members \cup {<<g, u>>}
  /\ UNCHANGED <<grants, cache, now, checks, handlers>>

\* An assignment made or taken without a word to this cache, or a thought for
\* the last administrator: pivot admin grant-role and revoke-role, in another
\* process; the default role of a user single sign-on provisions; a role
\* handler's statement that was carried out and answered by an error.
Unannounced ==
  /\ Write
  /\ \E s \in Subjects :
       grants' = IF s \in grants THEN grants \ {s} ELSE grants \cup {s}
  /\ UNCHANGED <<members, cache, now, checks, handlers>>

\* No resolution takes longer than Slowest.
Tick ==
  /\ now < MaxNow
  /\ \A c \in Checks :
       pc[c] \in {"expanded", "resolved"} => now < job[c].since + Slowest
  /\ now' = now + 1
  /\ UNCHANGED <<graph, quiet, cache, checks, handlers>>

Next ==
  \/ \E c \in Checks : \/ MakeKey(c) \/ Hit(c) \/ Miss(c) \/ ReadGroups(c)
                       \/ ReadRelations(c) \/ Unavailable(c) \/ Store(c) \/ Answer(c)
  \/ \E h \in Handlers : Grant(h) \/ Count(h) \/ Revoke(h) \/ GiveUp(h) \/ Invalidate(h)
  \/ SyncGroup \/ Unannounced \/ Tick

Spec == Init /\ [][Next]_vars
-----------------------------------------------------------------------------
TypeOK ==
  /\ grants \subseteq Subjects
  /\ members \subseteq Groups \X Users
  /\ writes \in 0 .. MaxWrites
  /\ quiet \subseteq 1 .. writes
  /\ DOMAIN entries \subseteq Questions
  /\ \A q \in DOMAIN entries : entries[q] \in Entries
  /\ generation \in Nat
  /\ now \in 0 .. MaxNow
  /\ pc \in [Checks -> {"idle", "keyed", "missed", "expanded", "resolved", "answered"}]
  /\ job \in [Checks -> Jobs]
  /\ hpc \in [Handlers -> {"idle", "counted", "written"}]
  /\ hjob \in [Handlers -> [subject : Subjects, write : 0 .. MaxWrites]]

(* Whatever the cache holds is the truth of the graph as it is now, unless  *)
(* the graph was written since by somebody who has not told the cache, or   *)
(* not yet: a decision pieced together from statements on both sides of an  *)
(* announced write never stays.                                             *)
CachedIsTrue ==
  \A q \in DOMAIN entries :
    \/ entries[q].allowed = May(Who(q))
    \/ \E w \in quiet : w > entries[q].began

(* A change the role endpoints have answered for is seen by every check     *)
(* that begins afterwards, from the cache or not.                           *)
AnsweredChangesAreSeen ==
  \A c \in Checks : pc[c] = "answered" =>
    \A w \in job[c].told : w <= job[c].began

(* However a change was made, and told to the cache or not, it takes effect *)
(* in less than the time to live and one slow resolution: no decision is    *)
(* acted on that was read before then.  Grants are good for a moment more.  *)
ChangesTakeEffect ==
  \A c \in Checks : pc[c] = "answered" =>
    \/ job[c].at - job[c].since < TTL + Slowest
    \/ job[c].question[1] = "grants" /\ job[c].at - job[c].since = TTL + Slowest

RevokesTheLast(h) ==
  hpc[h] = "counted" /\ hpc'[h] = "written" /\ grants # {} /\ grants' = {}

(* The revoke endpoint takes the last administrator only when another write *)
(* has come between its count and its delete.                               *)
TheLastNeedsARace ==
  [][\A h \in Handlers : RevokesTheLast(h) => writes > hjob[h].write]_vars
==============================================================================
