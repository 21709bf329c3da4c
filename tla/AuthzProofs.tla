---------------------------- MODULE AuthzProofs ------------------------------
(***************************************************************************)
(* What holds of Authorization for any users, groups, checks and handlers, *)
(* however slow a resolution and however long entries live.                *)
(*                                                                         *)
(* A check carries the generation its key was made in.  While that is the  *)
(* cache's, no write has been announced since, so whatever was written     *)
(* after the check began to read is still quiet (ReadersKnow), and so it   *)
(* is of what the check then stores (EntriesKnow).                         *)
(***************************************************************************)
EXTENDS Authorization, FiniteSetTheorems, TLAPS

(* No write after the n-th was announced.                                   *)
AllQuietSince(n) == \A w \in 1 .. writes : w > n => w \in quiet

(* The answer is the graph's, or would be but for a quiet write.            *)
TrueBut(answer, u, n) == answer = May(u) \/ \E w \in quiet : w > n

Reading(c) == pc[c] \in {"expanded", "resolved"}
Current(c) == Reading(c) /\ job[c].gen = generation

NumbersFit ==
  /\ \A c \in Checks :
       /\ job[c].gen <= generation
       /\ job[c].began <= writes
       /\ job[c].told \subseteq (1 .. writes) \ quiet
  /\ \A q \in DOMAIN entries : entries[q].began <= writes

EntriesKnow == \A q \in DOMAIN entries : AllQuietSince(entries[q].began)
ReadersKnow == \A c \in Checks : Current(c) => AllQuietSince(job[c].began)

ToldIsRead ==
  \A c \in Checks : Reading(c) \/ pc[c] = "answered" =>
    \A w \in job[c].told : w <= job[c].began

ReadersAreTrue ==
  \A c \in Checks : Current(c) =>
    /\ pc[c] = "expanded" => \/ job[c].direct = GroupsOf(Who(job[c].question))
                             \/ \E w \in quiet : w > job[c].began
    /\ pc[c] = "resolved" => TrueBut(job[c].allowed, Who(job[c].question), job[c].began)

(* Entries are filed before they are too old, and readers are not slow.     *)
Timely ==
  /\ \A q \in DOMAIN entries : entries[q].expires <= entries[q].since + Slowest + TTL
  /\ \A c \in Checks : Reading(c) => job[c].since <= now /\ now <= job[c].since + Slowest

(* What was counted is still there while nothing was written.               *)
CountsHold ==
  \A h \in Handlers :
    /\ hjob[h].write <= writes
    /\ hpc[h] = "counted" /\ hjob[h].write = writes => Cardinality(grants) > 1

AnswersFit == /\ NumbersFit /\ EntriesKnow /\ ReadersKnow /\ ToldIsRead
              /\ ReadersAreTrue /\ CachedIsTrue

IInv == TypeOK /\ AnswersFit /\ Timely /\ ChangesTakeEffect /\ CountsHold
-----------------------------------------------------------------------------
(* May and GroupsOf depend on nothing but the graph.                        *)
LEMMA GraphKept ==
  ASSUME UNCHANGED <<grants, members>>, NEW u
  PROVE  May(u)' = May(u) /\ GroupsOf(u)' = GroupsOf(u)
<1>1. GroupsOf(u)' = GroupsOf(u)  BY DEF GroupsOf
<1>2. May(u)' = May(u)  BY <1>1 DEF May
<1> QED  BY <1>1, <1>2

(* The program starts as IInv says.                                         *)
LEMMA InitFits == Init => IInv
<1> SUFFICES ASSUME Init PROVE IInv
  OBVIOUS
<1> USE AuthorizationAssumption DEF Init
<1>1. TypeOK
  <2>1. Idle \in Jobs
    BY DEF Idle, Jobs, Questions
  <2> QED  BY <2>1 DEF TypeOK, Subjects
<1>2. NumbersFit /\ EntriesKnow /\ CachedIsTrue
  BY DEF NumbersFit, EntriesKnow, CachedIsTrue, Idle
<1>3. ReadersKnow /\ ToldIsRead /\ ReadersAreTrue /\ Timely /\ ChangesTakeEffect
  BY DEF ReadersKnow, ToldIsRead, ReadersAreTrue, Timely, ChangesTakeEffect, Current, Reading
<1>4. CountsHold
  BY DEF CountsHold
<1> QED  BY <1>1, <1>2, <1>3, <1>4 DEF IInv, AnswersFit
-----------------------------------------------------------------------------
(* Types.                                                                   *)

GraphType == /\ grants \subseteq Subjects
             /\ members \subseteq Groups \X Users
             /\ writes \in 0 .. MaxWrites
             /\ quiet \subseteq 1 .. writes
CacheType == /\ DOMAIN entries \subseteq Questions
             /\ \A q \in DOMAIN entries : entries[q] \in Entries
             /\ generation \in Nat
Stages == {"idle", "keyed", "missed", "expanded", "resolved", "answered"}
CheckType == pc \in [Checks -> Stages] /\ job \in [Checks -> Jobs]
HandlerType == /\ hpc \in [Handlers -> {"idle", "counted", "written"}]
               /\ hjob \in [Handlers -> [subject : Subjects, write : 0 .. MaxWrites]]

TypesOK == GraphType /\ CacheType /\ CheckType /\ HandlerType /\ now \in 0 .. MaxNow

(* TypeOK has five parts.                                                   *)
LEMMA TypeParts == (TypeOK <=> TypesOK) /\ (TypeOK <=> TypesOK)'
BY DEF TypeOK, TypesOK, GraphType, CacheType, CheckType, HandlerType, Stages

(* A step of a check keeps the types.                                       *)
LEMMA CheckTypes ==
  ASSUME TypeOK, NEW c \in Checks,
         \/ MakeKey(c) \/ Hit(c) \/ Miss(c) \/ ReadGroups(c)
         \/ ReadRelations(c) \/ Unavailable(c) \/ Store(c) \/ Answer(c)
  PROVE  TypeOK'
<1> USE DEF graph, cache, handlers
<1>0. GraphType /\ CacheType /\ CheckType /\ HandlerType /\ now \in 0 .. MaxNow
  BY TypeParts DEF TypesOK
<1>1. UNCHANGED <<grants, members, writes, quiet, now, hpc, hjob>>
  BY DEF MakeKey, Hit, Miss, ReadGroups, ReadRelations, Unavailable, Store, Answer
<1>2. GraphType' /\ HandlerType' /\ now' \in 0 .. MaxNow
  BY <1>0, <1>1 DEF GraphType, HandlerType
<1>3. pc' \in [Checks -> Stages]
  BY <1>0 DEF CheckType, Stages, MakeKey, Hit, Miss, ReadGroups, ReadRelations, Unavailable, Store, Answer, Goto
<1>4. Idle \in Jobs
  BY AuthorizationAssumption DEF Idle, Jobs, Questions
<1>5. CacheType'
  <2>1. CASE UNCHANGED entries /\ UNCHANGED generation
    BY <1>0, <2>1 DEF CacheType
  <2>2. CASE Store(c) /\ entries' = Remember(c)
    <3>1. job[c] \in Jobs /\ now \in Nat /\ TTL \in Nat
      BY <1>0, AuthorizationAssumption DEF CheckType
    <3>2. \A q \in DOMAIN Remember(c) : q \in Questions /\ Remember(c)[q] \in Entries
      BY <1>0, <3>1 DEF CacheType, Remember, Entries, Jobs
    <3> QED  BY <1>0, <2>2, <3>2 DEF CacheType, Store
  <2> QED  BY <2>1, <2>2 DEF MakeKey, Hit, Miss, ReadGroups, ReadRelations, Unavailable, Store, Answer
<1>6. job' \in [Checks -> Jobs]
  <2>1. CASE MakeKey(c)
    <3>1. PICK q \in Questions : job' = [job EXCEPT ![c] = [Idle EXCEPT
            !.question = q, !.gen = generation, !.told = (1 .. writes) \ quiet]]
      BY <2>1 DEF MakeKey
    <3>2. (1 .. writes) \ quiet \in SUBSET Writes /\ generation \in Nat
      BY <1>0, AuthorizationAssumption DEF GraphType, CacheType, Writes
    <3>3. [Idle EXCEPT !.question = q, !.gen = generation,
                       !.told = (1 .. writes) \ quiet] \in Jobs
      BY <1>4, <3>2 DEF Jobs
    <3> QED  BY <1>0, <3>1, <3>3 DEF CheckType
  <2>2. CASE Hit(c)
    <3>1. entries[job[c].question] \in Entries /\ now \in Nat
      BY <1>0, <2>2 DEF Hit, Live, CacheType
    <3> DEFINE e == entries[job[c].question]
    <3>2. [job[c] EXCEPT !.allowed = e.allowed, !.began = e.began,
                         !.since = e.since, !.at = now] \in Jobs
      BY <1>0, <3>1 DEF Jobs, Entries, CheckType
    <3> QED  BY <1>0, <2>2, <3>2 DEF Hit, CheckType
  <2>3. CASE ReadGroups(c)
    <3>1. GroupsOf(Who(job[c].question)) \in SUBSET Groups /\ writes \in Nat /\ now \in Nat
      BY <1>0 DEF GroupsOf, GraphType
    <3>2. [job[c] EXCEPT !.direct = GroupsOf(Who(job[c].question)), !.began = writes,
                         !.since = now] \in Jobs
      BY <1>0, <3>1 DEF Jobs, CheckType
    <3> QED  BY <1>0, <2>3, <3>2 DEF ReadGroups, CheckType
  <2>4. CASE ReadRelations(c) \/ Store(c)
    <3>1. now \in Nat
      BY <1>0
    <3>2. \A b \in BOOLEAN : [job[c] EXCEPT !.allowed = b] \in Jobs
      BY <1>0 DEF Jobs, CheckType
    <3>3. [job[c] EXCEPT !.at = now] \in Jobs
      BY <1>0, <3>1 DEF Jobs, CheckType
    <3> QED  BY <1>0, <2>4, <3>2, <3>3 DEF ReadRelations, Store, CheckType
  <2>5. CASE Miss(c) \/ Unavailable(c) \/ Answer(c)
    BY <1>0, <1>4, <2>5 DEF Miss, Unavailable, Answer, checks, CheckType
  <2> QED  BY <2>1, <2>2, <2>3, <2>4, <2>5
<1> QED  BY <1>2, <1>3, <1>5, <1>6, TypeParts DEF CheckType, TypesOK

(* And every other step does.                                               *)
LEMMA OtherTypes ==
  ASSUME TypeOK,
         \/ \E h \in Handlers : \/ Grant(h) \/ Count(h) \/ Revoke(h) \/ GiveUp(h)
                                \/ Invalidate(h)
         \/ SyncGroup \/ Unannounced \/ Tick \/ UNCHANGED vars
  PROVE  TypeOK'
<1> USE DEF graph, cache, checks, handlers, vars
<1>0. GraphType /\ CacheType /\ CheckType /\ HandlerType /\ now \in 0 .. MaxNow
  BY TypeParts DEF TypesOK
<1>1. UNCHANGED <<pc, job>>
  BY DEF Grant, Count, Revoke, GiveUp, Invalidate, SyncGroup, Unannounced, Tick
<1>2. CheckType'
  BY <1>0, <1>1 DEF CheckType
<1>3. CacheType' /\ now' \in 0 .. MaxNow
  BY <1>0, AuthorizationAssumption DEF CacheType, Grant, Count, Revoke, GiveUp, Invalidate, SyncGroup, Unannounced, Tick
<1>4. GraphType' /\ HandlerType'
  <2>1. HandlerType'
    <3>1. CASE UNCHANGED <<hpc, hjob>>
      BY <1>0, <3>1 DEF HandlerType
    <3>2. ASSUME NEW h \in Handlers, NEW from, NEW to \in {"idle", "counted", "written"},
                 NEW s \in Subjects, NEW w \in 0 .. MaxWrites, Handle(h, from, to, s, w)
          PROVE  HandlerType'
      BY <1>0, <3>2 DEF HandlerType, Handle
    <3>3. Founder \in Subjects /\ 0 \in 0 .. MaxWrites /\ writes \in 0 .. MaxWrites
      BY <1>0, AuthorizationAssumption DEF Subjects, GraphType
    <3>4. Write => writes + 1 \in 0 .. MaxWrites
      BY <3>3, AuthorizationAssumption DEF Write
    <3>5. \A h \in Handlers : hjob[h].subject \in Subjects
      BY <1>0 DEF HandlerType
    <3>6. ASSUME NEW h \in Handlers, Grant(h) PROVE HandlerType'
      BY <3>2, <3>4, <3>6 DEF Grant
    <3>7. ASSUME NEW h \in Handlers, Count(h) PROVE HandlerType'
      BY <3>2, <3>3, <3>7 DEF Count
    <3>8. ASSUME NEW h \in Handlers, Revoke(h) PROVE HandlerType'
      BY <3>2, <3>4, <3>5, <3>8 DEF Revoke
    <3>9. ASSUME NEW h \in Handlers, GiveUp(h) \/ Invalidate(h) PROVE HandlerType'
      BY <3>2, <3>3, <3>9 DEF GiveUp, Invalidate
    <3> QED  BY <3>1, <3>6, <3>7, <3>8, <3>9 DEF SyncGroup, Unannounced, Tick
  <2>2. (writes \in 0 .. MaxWrites /\ quiet \subseteq 1 .. writes)'
    <3>1. CASE Write
      BY <1>0, <3>1, AuthorizationAssumption DEF GraphType, Write
    <3>2. CASE writes' = writes /\ quiet' \subseteq quiet
      BY <1>0, <3>2 DEF GraphType
    <3> QED  BY <3>1, <3>2 DEF Grant, Count, Revoke, GiveUp, Invalidate, SyncGroup, Unannounced, Tick
  <2>3. grants' \subseteq Subjects /\ members' \subseteq Groups \X Users
    <3>1. CASE UNCHANGED members /\ \E s \in Subjects : grants' \in {grants \cup {s}, grants \ {s}}
      BY <1>0, <3>1 DEF GraphType
    <3>2. CASE UNCHANGED grants /\ \E g \in Groups, u \in Users :
                 members' \in {members \cup {<<g, u>>}, members \ {<<g, u>>}}
      BY <1>0, <3>2 DEF GraphType
    <3>3. CASE UNCHANGED <<grants, members>>
      BY <1>0, <3>3 DEF GraphType
    <3>4. ASSUME NEW h \in Handlers, Grant(h) \/ Revoke(h)
          PROVE  UNCHANGED members /\ \E s \in Subjects : grants' \in {grants \cup {s}, grants \ {s}}
      BY <1>0, <3>4 DEF Grant, Revoke, HandlerType
    <3>5. SyncGroup => UNCHANGED grants /\ \E g \in Groups, u \in Users :
                 members' \in {members \cup {<<g, u>>}, members \ {<<g, u>>}}
      BY DEF SyncGroup
    <3>6. Unannounced => UNCHANGED members /\ \E s \in Subjects : grants' \in {grants \cup {s}, grants \ {s}}
      BY DEF Unannounced
    <3> QED  BY <3>1, <3>2, <3>3, <3>4, <3>5, <3>6 DEF Count, GiveUp, Invalidate, Tick
  <2> QED  BY <2>1, <2>2, <2>3 DEF GraphType
<1> QED  BY <1>2, <1>3, <1>4, TypeParts DEF TypesOK

(* Every step keeps the types.                                              *)
LEMMA TypeStep == TypeOK /\ [Next]_vars => TypeOK'
BY CheckTypes, OtherTypes DEF Next
-----------------------------------------------------------------------------
(* What is remembered, read and told.                                       *)

(* A write leaves it all as it was: the write is quiet.                     *)
LEMMA WriteKeepsAnswers ==
  ASSUME TypeOK, AnswersFit, Write, UNCHANGED <<entries, generation, pc, job>>
  PROVE  AnswersFit'
<1> USE DEF TypeOK, Write, AnswersFit
<1>0. writes \in Nat
  BY AuthorizationAssumption
<1>1. NumbersFit'
  BY <1>0 DEF NumbersFit, Jobs, Entries
<1>2. (EntriesKnow /\ ReadersKnow /\ ToldIsRead)'
  BY <1>0 DEF EntriesKnow, ReadersKnow, ToldIsRead, AllQuietSince, Current, Reading
<1>3. \A n \in Nat : n <= writes => \E w \in quiet' : w > n
  BY <1>0
<1>4. CachedIsTrue'
  BY <1>3 DEF NumbersFit, CachedIsTrue, Entries
<1>5. ReadersAreTrue'
  BY <1>3 DEF NumbersFit, ReadersAreTrue, TrueBut, Current, Reading, Jobs
<1> QED  BY <1>1, <1>2, <1>4, <1>5

(* An announcement empties the cache, and no reader is current any more.    *)
LEMMA AnnouncementKeepsAnswers ==
  ASSUME TypeOK, AnswersFit, NEW h \in Handlers, Invalidate(h)
  PROVE  AnswersFit'
<1> USE DEF TypeOK, Invalidate, AnswersFit, graph, checks
<1>0. generation \in Nat /\ generation' = generation + 1 /\ quiet' \subseteq quiet
  OBVIOUS
<1>1. NumbersFit'
  BY <1>0 DEF NumbersFit, Jobs
<1>2. \A c \in Checks : job[c].gen # generation'
  BY <1>0 DEF NumbersFit, Jobs
<1>3. (EntriesKnow /\ ReadersKnow /\ ToldIsRead /\ ReadersAreTrue /\ CachedIsTrue)'
  BY <1>2 DEF EntriesKnow, ReadersKnow, ToldIsRead, ReadersAreTrue, CachedIsTrue, Current, Reading
<1> QED  BY <1>1, <1>3

(* Nor does a step that touches none of it.                                 *)
LEMMA OthersKeepAnswers ==
  ASSUME AnswersFit, UNCHANGED <<grants, members, writes, quiet, entries, generation, pc, job>>
  PROVE  AnswersFit'
<1>1. \A u : May(u)' = May(u) /\ GroupsOf(u)' = GroupsOf(u)
  BY GraphKept
<1> QED  BY <1>1 DEF AnswersFit, NumbersFit, EntriesKnow, ReadersKnow, ToldIsRead, ReadersAreTrue,
            CachedIsTrue, AllQuietSince, TrueBut, Current, Reading

(* A check reads from then on what is true then, and files what it read     *)
(* only while it is current.                                                *)
LEMMA CheckKeepsAnswers ==
  ASSUME TypeOK, TypeOK', AnswersFit, NEW c \in Checks,
         \/ MakeKey(c) \/ Hit(c) \/ Miss(c) \/ ReadGroups(c)
         \/ ReadRelations(c) \/ Unavailable(c) \/ Store(c) \/ Answer(c)
  PROVE  AnswersFit'
<1> USE DEF graph, cache, handlers, AnswersFit
<1>0. /\ UNCHANGED <<grants, members, writes, quiet, generation>>
      /\ generation \in Nat /\ writes \in Nat
      /\ \A d \in Checks : d # c => job'[d] = job[d] /\ pc'[d] = pc[d]
  <2>1. UNCHANGED <<grants, members, writes, quiet, generation>>
    BY DEF MakeKey, Hit, Miss, ReadGroups, ReadRelations, Unavailable, Store, Answer
  <2>2. \A d \in Checks : d # c => pc'[d] = pc[d]
    BY DEF MakeKey, Hit, Miss, ReadGroups, ReadRelations, Unavailable, Store, Answer, Goto, TypeOK
  <2>3. \A d \in Checks : d # c => job'[d] = job[d]
    BY DEF MakeKey, Hit, Miss, ReadGroups, ReadRelations, Unavailable, Store, Answer, TypeOK
  <2>4. generation \in Nat /\ writes \in Nat
    BY AuthorizationAssumption DEF TypeOK
  <2> QED  BY <2>1, <2>2, <2>3, <2>4
<1>1. \A u : May(u)' = May(u) /\ GroupsOf(u)' = GroupsOf(u)
  BY <1>0, GraphKept
<1> DEFINE j == job'[c]
<1>2. /\ j.gen <= generation /\ j.began <= writes /\ j.told \subseteq (1 .. writes) \ quiet
      /\ Reading(c)' \/ pc'[c] = "answered" => \A w \in j.told : w <= j.began
      /\ Current(c)' => /\ AllQuietSince(j.began)
                        /\ pc'[c] = "expanded" => \/ j.direct = GroupsOf(Who(j.question))
                                                  \/ \E w \in quiet : w > j.began
                        /\ pc'[c] = "resolved" => TrueBut(j.allowed, Who(j.question), j.began)
  <2>1. CASE MakeKey(c)
    <3>1. PICK q \in Questions : job' = [job EXCEPT ![c] = [Idle EXCEPT
            !.question = q, !.gen = generation, !.told = (1 .. writes) \ quiet]]
      BY <2>1 DEF MakeKey
    <3>2. j = [Idle EXCEPT !.question = q, !.gen = generation, !.told = (1 .. writes) \ quiet]
      BY <3>1 DEF TypeOK
    <3>3. pc'[c] = "keyed"
      BY <2>1 DEF MakeKey, Goto, TypeOK
    <3> QED  BY <1>0, <3>2, <3>3 DEF Idle, Reading, Current
  <2>2. CASE Hit(c)
    <3> DEFINE e == entries[job[c].question]
    <3>1. j = [job[c] EXCEPT !.allowed = e.allowed, !.began = e.began, !.since = e.since, !.at = now]
      BY <2>2 DEF Hit, TypeOK
    <3>2. job[c] \in Jobs /\ j.gen = job[c].gen /\ j.told = job[c].told /\ j.began = e.began
      BY <3>1 DEF TypeOK, Jobs
    <3>3. pc'[c] = "answered" /\ job[c].question \in DOMAIN entries
      BY <2>2 DEF Hit, Goto, TypeOK, Live
    <3>4. e.began <= writes /\ AllQuietSince(e.began) /\ e.began \in Nat
      BY <3>3 DEF NumbersFit, EntriesKnow, TypeOK, Entries
    <3>5. \A w \in job[c].told : w <= e.began
      BY <1>0, <3>4 DEF AllQuietSince, NumbersFit
    <3> QED  BY <1>0, <3>2, <3>3, <3>4, <3>5 DEF NumbersFit, Reading, Current
  <2>3. CASE Miss(c)
    <3>1. j = job[c] /\ pc'[c] = "missed"
      BY <2>3 DEF Miss, Goto, TypeOK
    <3> QED  BY <1>0, <3>1 DEF NumbersFit, Reading, Current
  <2>4. CASE ReadGroups(c)
    <3>1. j = [job[c] EXCEPT !.direct = GroupsOf(Who(job[c].question)), !.began = writes, !.since = now]
      BY <2>4 DEF ReadGroups, TypeOK
    <3>2. /\ job[c] \in Jobs /\ j.gen = job[c].gen /\ j.told = job[c].told /\ j.question = job[c].question
          /\ j.began = writes /\ j.direct = GroupsOf(Who(j.question))
      BY <3>1 DEF TypeOK, Jobs
    <3>3. pc'[c] = "expanded"
      BY <2>4 DEF ReadGroups, Goto, TypeOK
    <3> QED  BY <1>0, <3>2, <3>3 DEF NumbersFit, AllQuietSince
  <2>5. CASE ReadRelations(c)
    <3> DEFINE a == SpeaksFor(Who(job[c].question), job[c].direct) \cap grants # {}
    <3>1. j = [job[c] EXCEPT !.allowed = a]
      BY <2>5 DEF ReadRelations, TypeOK
    <3>2. /\ job[c] \in Jobs /\ j.gen = job[c].gen /\ j.told = job[c].told /\ j.question = job[c].question
          /\ j.began = job[c].began /\ j.allowed = a
      BY <3>1 DEF TypeOK, Jobs
    <3>3. pc[c] = "expanded" /\ pc'[c] = "resolved"
      BY <2>5 DEF ReadRelations, Goto, TypeOK
    <3>4. job[c].direct = GroupsOf(Who(job[c].question)) => a = May(Who(job[c].question))
      BY DEF May
    <3>5. Current(c)' => Current(c)
      BY <1>0, <3>2, <3>3 DEF Current, Reading
    <3> QED  BY <1>0, <3>2, <3>3, <3>4, <3>5
             DEF NumbersFit, ReadersKnow, ReadersAreTrue, ToldIsRead, TrueBut, Reading
  <2>6. CASE Store(c)
    <3>1. j = [job[c] EXCEPT !.at = now]
      BY <2>6 DEF Store, TypeOK
    <3>2. job[c] \in Jobs /\ j.gen = job[c].gen /\ j.told = job[c].told /\ j.began = job[c].began
      BY <3>1 DEF TypeOK, Jobs
    <3>3. pc[c] = "resolved" /\ pc'[c] = "answered"
      BY <2>6 DEF Store, Goto, TypeOK
    <3> QED  BY <1>0, <3>2, <3>3 DEF NumbersFit, ToldIsRead, Reading, Current
  <2>7. CASE Unavailable(c) \/ Answer(c)
    <3>1. j = Idle /\ pc'[c] = "idle"
      BY <2>7 DEF Unavailable, Answer, Goto, TypeOK
    <3> QED  BY <1>0, <3>1 DEF Idle, Reading, Current
  <2> QED  BY <2>1, <2>2, <2>3, <2>4, <2>5, <2>6, <2>7
<1>3. \A q \in DOMAIN entries' :
        /\ entries'[q].began <= writes /\ AllQuietSince(entries'[q].began)
        /\ TrueBut(entries'[q].allowed, Who(q), entries'[q].began)
  <2>1. CASE entries' = entries
    BY <2>1 DEF NumbersFit, EntriesKnow, CachedIsTrue, TrueBut
  <2>2. CASE Store(c) /\ job[c].gen = generation /\ entries' = Remember(c)
    <3>1. Current(c) /\ pc[c] = "resolved"
      BY <2>2 DEF Store, Goto, Current, Reading
    <3>2. /\ job[c].began <= writes /\ AllQuietSince(job[c].began)
          /\ TrueBut(job[c].allowed, Who(job[c].question), job[c].began)
      BY <3>1 DEF NumbersFit, ReadersKnow, ReadersAreTrue
    <3> QED  BY <2>2, <3>2 DEF Remember, NumbersFit, EntriesKnow, CachedIsTrue, TrueBut
  <2> QED  BY <2>1, <2>2 DEF MakeKey, Hit, Miss, ReadGroups, ReadRelations, Unavailable, Store, Answer
<1>4. \A n : /\ AllQuietSince(n)' <=> AllQuietSince(n)
             /\ \A a, u : TrueBut(a, u, n)' <=> TrueBut(a, u, n)
  BY <1>0, <1>1 DEF AllQuietSince, TrueBut
<1>5. \A d \in Checks : d # c => (Current(d)' <=> Current(d)) /\ (Reading(d)' <=> Reading(d))
  BY <1>0 DEF Current, Reading
<1>6. NumbersFit' /\ EntriesKnow' /\ CachedIsTrue'
  BY <1>0, <1>2, <1>3, <1>4 DEF NumbersFit, EntriesKnow, CachedIsTrue, TrueBut
<1>7. ReadersKnow' /\ ToldIsRead'
  BY <1>0, <1>2, <1>4, <1>5 DEF ReadersKnow, ToldIsRead
<1>8. ReadersAreTrue'
  BY <1>0, <1>1, <1>2, <1>4, <1>5 DEF ReadersAreTrue
<1> QED  BY <1>6, <1>7, <1>8

(* AnswersFit is kept by every step.                                        *)
LEMMA AnswersStep == TypeOK /\ AnswersFit /\ [Next]_vars => AnswersFit'
<1> SUFFICES ASSUME TypeOK, AnswersFit, [Next]_vars PROVE AnswersFit'
  OBVIOUS
<1>1. TypeOK'
  BY TypeStep
<1>2. CASE \E c \in Checks : \/ MakeKey(c) \/ Hit(c) \/ Miss(c) \/ ReadGroups(c)
                            \/ ReadRelations(c) \/ Unavailable(c) \/ Store(c) \/ Answer(c)
  BY <1>1, <1>2, CheckKeepsAnswers
<1>3. CASE \E h \in Handlers : Invalidate(h)
  BY <1>3, AnnouncementKeepsAnswers
<1>4. CASE (\E h \in Handlers : Grant(h) \/ Revoke(h)) \/ SyncGroup \/ Unannounced
  BY <1>4, WriteKeepsAnswers DEF Grant, Revoke, SyncGroup, Unannounced, cache, checks
<1>5. CASE (\E h \in Handlers : Count(h) \/ GiveUp(h)) \/ Tick \/ UNCHANGED vars
  BY <1>5, OthersKeepAnswers DEF Count, GiveUp, Tick, vars, graph, cache, checks
<1> QED  BY <1>2, <1>3, <1>4, <1>5 DEF Next
-----------------------------------------------------------------------------
(* How old an answer is.                                                    *)

(* The clock waits for readers, and an entry lives from its reader's end.   *)
LEMMA TimelyStep ==
  TypeOK /\ Timely /\ ChangesTakeEffect /\ [Next]_vars => Timely' /\ ChangesTakeEffect'
<1> SUFFICES ASSUME TypeOK, Timely, ChangesTakeEffect, [Next]_vars
             PROVE  Timely' /\ ChangesTakeEffect'
  OBVIOUS
<1> USE DEF graph, cache, checks, handlers
<1>0. /\ now \in Nat /\ TTL \in Nat /\ TTL > 0 /\ Slowest \in Nat
      /\ \A c \in Checks : job[c] \in Jobs
      /\ \A q \in DOMAIN entries : entries[q] \in Entries
  BY AuthorizationAssumption DEF TypeOK
<1> DEFINE InTime(c) ==
      /\ Reading(c) => job[c].since <= now /\ now <= job[c].since + Slowest
      /\ pc[c] = "answered" =>
           \/ job[c].at - job[c].since < TTL + Slowest
           \/ job[c].question[1] = "grants" /\ job[c].at - job[c].since = TTL + Slowest
<1>1. ASSUME NEW c \in Checks,
             \/ MakeKey(c) \/ Hit(c) \/ Miss(c) \/ ReadGroups(c)
             \/ ReadRelations(c) \/ Unavailable(c) \/ Store(c) \/ Answer(c)
      PROVE  Timely' /\ ChangesTakeEffect'
  <2>1. /\ now' = now
        /\ \A d \in Checks : d # c => pc'[d] = pc[d]
    BY <1>1 DEF MakeKey, Hit, Miss, ReadGroups, ReadRelations, Unavailable, Store, Answer, Goto, TypeOK
  <2>2. \A d \in Checks : d # c => job'[d] = job[d]
    BY <1>1 DEF MakeKey, Hit, Miss, ReadGroups, ReadRelations, Unavailable, Store, Answer, TypeOK
  <2>3. InTime(c)'
    <3>1. CASE Hit(c)
      <4> DEFINE e == entries[job[c].question]
      <4>1. /\ e \in Entries /\ e.expires <= e.since + Slowest + TTL
            /\ e.expires > now \/ (job[c].question[1] = "grants" /\ e.expires = now)
        BY <1>0, <3>1 DEF Hit, Live, Timely
      <4>2. /\ pc'[c] = "answered" /\ job'[c].since = e.since /\ job'[c].at = now
            /\ job'[c].question = job[c].question
        BY <1>0, <3>1 DEF Hit, Goto, TypeOK, Jobs
      <4>3. e.since \in Nat /\ e.expires \in Nat
        BY <4>1 DEF Entries
      <4>4. now - e.since < TTL + Slowest
            \/ (job[c].question[1] = "grants" /\ now - e.since = TTL + Slowest)
        <5>1. CASE e.expires > now
          BY <1>0, <4>1, <4>3, <5>1
        <5>2. CASE job[c].question[1] = "grants" /\ e.expires = now
          <6>1. now - e.since <= TTL + Slowest
            BY <1>0, <4>1, <4>3, <5>2
          <6> QED  BY <1>0, <4>3, <5>2, <6>1
        <5> QED  BY <4>1, <5>1, <5>2
      <4> QED  BY <4>2, <4>4 DEF Reading
    <3>2. CASE ReadGroups(c)
      <4>1. pc'[c] = "expanded" /\ job'[c].since = now
        BY <1>0, <3>2 DEF ReadGroups, Goto, TypeOK, Jobs
      <4> QED  BY <1>0, <2>1, <4>1
    <3>3. CASE ReadRelations(c)
      <4>1. Reading(c) /\ pc'[c] = "resolved" /\ job'[c].since = job[c].since
        BY <1>0, <3>3 DEF ReadRelations, Goto, TypeOK, Jobs, Reading
      <4> QED  BY <2>1, <4>1 DEF Timely
    <3>4. CASE Store(c)
      <4>1. /\ Reading(c) /\ pc'[c] = "answered"
            /\ job'[c].since = job[c].since /\ job'[c].at = now
        BY <1>0, <3>4 DEF Store, Goto, TypeOK, Jobs, Reading
      <4>2. job[c].since \in Nat
        BY <1>0 DEF Jobs
      <4> QED  BY <1>0, <2>1, <4>1, <4>2 DEF Timely, Reading
    <3>5. CASE MakeKey(c) \/ Miss(c) \/ Unavailable(c) \/ Answer(c)
      <4>1. pc'[c] \in {"keyed", "missed", "idle"}
        BY <3>5 DEF MakeKey, Miss, Unavailable, Answer, Goto, TypeOK
      <4> QED  BY <4>1 DEF Reading
    <3> QED  BY <1>1, <3>1, <3>2, <3>3, <3>4, <3>5
  <2>4. \A q \in DOMAIN entries' : entries'[q].expires <= entries'[q].since + Slowest + TTL
    <3>1. CASE entries' = entries
      BY <3>1 DEF Timely
    <3>2. CASE Store(c) /\ entries' = Remember(c)
      <4>1. now <= job[c].since + Slowest /\ job[c].since \in Nat
        BY <1>0, <3>2 DEF Store, Goto, Timely, Reading, Jobs
      <4> QED  BY <1>0, <3>2, <4>1 DEF Remember, Timely
    <3> QED  BY <1>1, <3>1, <3>2 DEF MakeKey, Hit, Miss, ReadGroups, ReadRelations, Unavailable, Store, Answer
  <2>5. \A d \in Checks : d # c => InTime(d)'
    BY <2>1, <2>2 DEF Timely, ChangesTakeEffect, Reading
  <2> QED  BY <2>3, <2>4, <2>5 DEF Timely, ChangesTakeEffect
<1>2. CASE Tick
  BY <1>0, <1>2 DEF Tick, Timely, ChangesTakeEffect, Reading, Jobs
<1>3. CASE UNCHANGED <<pc, job, now>> /\ (entries' = entries \/ DOMAIN entries' = {})
  BY <1>3 DEF Timely, ChangesTakeEffect, Reading
<1> QED  BY <1>1, <1>2, <1>3 DEF Next, vars, Grant, Count, Revoke, GiveUp, Invalidate, SyncGroup, Unannounced
-----------------------------------------------------------------------------
(* The last administrator.                                                  *)

(* What a handler counted is there until something is written.              *)
LEMMA CountsStep == TypeOK /\ CountsHold /\ [Next]_vars => CountsHold'
<1> SUFFICES ASSUME TypeOK, CountsHold, [Next]_vars PROVE CountsHold'
  OBVIOUS
<1> USE DEF graph, handlers
<1>0. writes \in Nat /\ \A h \in Handlers : hjob[h].write \in Nat
  BY AuthorizationAssumption DEF TypeOK
<1>1. CASE UNCHANGED <<grants, writes, hpc, hjob>>
  BY <1>1 DEF CountsHold
<1>2. CASE SyncGroup \/ Unannounced
  BY <1>0, <1>2 DEF CountsHold, SyncGroup, Unannounced, Write
<1>3. ASSUME NEW h \in Handlers, Grant(h) \/ Revoke(h) PROVE CountsHold'
  <2>1. writes' = writes + 1 /\ hpc'[h] = "written" /\ hjob'[h].write = writes + 1
    BY <1>3 DEF Grant, Revoke, Handle, Write, TypeOK
  <2>2. \A k \in Handlers : k # h => hpc'[k] = hpc[k] /\ hjob'[k] = hjob[k]
    BY <1>3 DEF Grant, Revoke, Handle, TypeOK
  <2> QED  BY <1>0, <2>1, <2>2 DEF CountsHold
<1>4. ASSUME NEW h \in Handlers, Count(h) PROVE CountsHold'
  <2>1. UNCHANGED <<grants, writes>> /\ Cardinality(grants) > 1 /\ hjob'[h].write = writes
    BY <1>4 DEF Count, Handle, TypeOK
  <2>2. \A k \in Handlers : k # h => hpc'[k] = hpc[k] /\ hjob'[k] = hjob[k]
    BY <1>4 DEF Count, Handle, TypeOK
  <2> QED  BY <1>0, <2>1, <2>2 DEF CountsHold
<1>5. ASSUME NEW h \in Handlers, GiveUp(h) \/ Invalidate(h) PROVE CountsHold'
  <2>1. UNCHANGED <<grants, writes>> /\ hpc'[h] = "idle" /\ hjob'[h].write = 0
    BY <1>5 DEF GiveUp, Invalidate, Handle, TypeOK
  <2>2. \A k \in Handlers : k # h => hpc'[k] = hpc[k] /\ hjob'[k] = hjob[k]
    BY <1>5 DEF GiveUp, Invalidate, Handle, TypeOK
  <2> QED  BY <1>0, <2>1, <2>2 DEF CountsHold
<1> QED  BY <1>1, <1>2, <1>3, <1>4, <1>5
         DEF Next, vars, MakeKey, Hit, Miss, ReadGroups, ReadRelations, Unavailable, Store, Answer, Tick

(* Whoever takes the last counted more, so somebody wrote meanwhile.        *)
LEMMA TheLastStep ==
  ASSUME TypeOK, CountsHold, [Next]_vars, NEW h \in Handlers, RevokesTheLast(h)
  PROVE  writes > hjob[h].write
<1> USE DEF RevokesTheLast, graph, handlers
<1>1. Revoke(h)
  <2>1. ASSUME NEW k \in Handlers, k # h, hpc' = [hpc EXCEPT ![k] = hpc'[k]] PROVE FALSE
    BY <2>1 DEF TypeOK
  <2>2. ASSUME NEW k \in Handlers, Grant(k) \/ Count(k) \/ Revoke(k) \/ GiveUp(k) \/ Invalidate(k)
        PROVE  hpc' = [hpc EXCEPT ![k] = hpc'[k]]
    BY <2>2 DEF Grant, Count, Revoke, GiveUp, Invalidate, Handle, TypeOK
  <2>3. ~Grant(h) /\ ~Count(h) /\ ~GiveUp(h) /\ ~Invalidate(h)
    BY DEF Grant, Count, GiveUp, Invalidate, Handle, TypeOK
  <2> QED  BY <2>1, <2>2, <2>3 DEF Next, vars, MakeKey, Hit, Miss, ReadGroups, ReadRelations,
              Unavailable, Store, Answer, SyncGroup, Unannounced, Tick
<1>2. grants = {hjob[h].subject}
  BY <1>1 DEF Revoke
<1>3. Cardinality(grants) = 1
  BY <1>2, FS_Singleton
<1>4. writes \in Nat /\ hjob[h].write \in Nat
  BY AuthorizationAssumption DEF TypeOK
<1> QED  BY <1>3, <1>4 DEF CountsHold
-----------------------------------------------------------------------------
(* IInv holds throughout.                                                   *)
LEMMA Inductive == Spec => []IInv
<1>1. IInv /\ [Next]_vars => IInv'
  BY TypeStep, AnswersStep, TimelyStep, CountsStep DEF IInv
<1> QED  BY InitFits, <1>1, PTL DEF Spec

(* The variables keep their types.                                          *)
THEOREM TypeCorrect == Spec => []TypeOK
<1>1. IInv => TypeOK
  BY DEF IInv
<1> QED  BY Inductive, <1>1, PTL

(* What the cache holds is true, but for writes it has not been told of.    *)
THEOREM CacheIsTrue == Spec => []CachedIsTrue
<1>1. IInv => CachedIsTrue
  BY DEF IInv, AnswersFit
<1> QED  BY Inductive, <1>1, PTL

(* A check that begins after a role endpoint has answered sees its change.  *)
THEOREM AnsweredIsSeen == Spec => []AnsweredChangesAreSeen
<1>1. IInv => AnsweredChangesAreSeen
  BY DEF IInv, AnswersFit, ToldIsRead, AnsweredChangesAreSeen
<1> QED  BY Inductive, <1>1, PTL

(* No answer is older than the time to live and one resolution.             *)
THEOREM ChangesAreTimely == Spec => []ChangesTakeEffect
<1>1. IInv => ChangesTakeEffect
  BY DEF IInv
<1> QED  BY Inductive, <1>1, PTL

(* The revoke endpoint takes the last administrator only in a race.         *)
THEOREM LastNeedsARace == Spec => TheLastNeedsARace
<1>1. IInv /\ [Next]_vars => [\A h \in Handlers : RevokesTheLast(h) => writes > hjob[h].write]_vars
  BY TheLastStep DEF IInv
<1> QED  BY Inductive, <1>1, PTL DEF Spec, TheLastNeedsARace
==============================================================================
