---------------------------- MODULE CacheProofs ------------------------------
(***************************************************************************)
(* What holds of ResultCache for any connections, policy sets, questions,  *)
(* executions, sizes and budgets: list, map and total agree, nobody is     *)
(* answered across policy sets or with part of a result, and nothing keyed *)
(* before an announced edit is served to an execution planned after it.    *)
(*                                                                         *)
(* The argument for the last one: a key names its connection's generation, *)
(* and between two derivations that read the same generation nothing has   *)
(* been announced, so everything filed or looked up under one generation   *)
(* was keyed at the same newest announcement (Contemporaries).             *)
(***************************************************************************)
EXTENDS ResultCache, SequenceTheorems, WellFoundedInduction, TLAPS

Planned == [stage : {"planned"}, conn : Conns, question : Questions,
            version : Nat, informed : Nat]
WithKey == [stage : {"keyed"}, conn : Conns, question : Questions, version : Nat,
            informed : Nat, print : Prints, key : Keys, keyedAt : Nat]
BeingHit == [stage : {"hit"}, conn : Conns, question : Questions, informed : Nat,
             print : Prints, answer : Answers, at : Nat]

Shapes ==
  /\ order \in Seq(Keys)
  /\ generation \in [Conns -> Nat]
  /\ version \in [Conns -> Nat]
  /\ unpublished \in [Conns -> SUBSET Nat]
  /\ announced \in [Conns -> Nat]
  /\ now \in Nat
  /\ pc \in [Executions -> {"idle", "planned", "keyed", "running", "uncached", "hit"}]
  /\ DOMAIN job = Executions
  /\ \A x \in Executions :
       /\ pc[x] \in {"idle", "uncached"} => job[x] = NoJob
       /\ pc[x] = "planned" => job[x] \in Planned
       /\ pc[x] \in {"keyed", "running"} => job[x] \in WithKey
       /\ pc[x] = "hit" => job[x] \in BeingHit

(* An entry's answer is what its key says, and keyed no later than now.     *)
EntriesFit ==
  \A k \in DOMAIN entries :
    /\ entries[k] \in Entries
    /\ entries[k].expires <= entries[k].answer.storedAt + TTL
    /\ entries[k].answer.conn = k.conn
    /\ entries[k].answer.print = k.print
    /\ entries[k].answer.question = k.question
    /\ entries[k].answer.whole
    /\ k.gen <= generation[k.conn]
    /\ k.gen = generation[k.conn] => entries[k].answer.keyedAt = announced[k.conn]

HasKey(x) == pc[x] \in {"keyed", "running"}

KeysFit ==
  \A x \in Executions :
    /\ pc[x] = "planned" => job[x].informed <= announced[job[x].conn]
    /\ HasKey(x) =>
         /\ job[x].key.conn = job[x].conn
         /\ job[x].key.print = job[x].print
         /\ job[x].key.question = job[x].question
         /\ job[x].informed <= job[x].keyedAt
         /\ job[x].key.gen <= generation[job[x].conn]
         /\ job[x].key.gen = generation[job[x].conn]
              => job[x].keyedAt = announced[job[x].conn]

(* One generation, one announcement.                                        *)
Contemporaries ==
  \A x \in Executions : HasKey(x) =>
    /\ \A k \in DOMAIN entries :
         (k.conn = job[x].conn /\ k.gen = job[x].key.gen)
           => entries[k].answer.keyedAt = job[x].keyedAt
    /\ \A y \in Executions :
         (HasKey(y) /\ job[y].conn = job[x].conn /\ job[y].key.gen = job[x].key.gen)
           => job[y].keyedAt = job[x].keyedAt

HitsFit ==
  \A x \in Executions : pc[x] = "hit" =>
    /\ job[x].answer.conn = job[x].conn
    /\ job[x].answer.print = job[x].print
    /\ job[x].answer.question = job[x].question
    /\ job[x].answer.whole
    /\ job[x].answer.keyedAt >= job[x].informed
    /\ job[x].at <= job[x].answer.storedAt + TTL

IInv == /\ Shapes /\ ListIsTheMap /\ EntriesFit /\ KeysFit /\ Contemporaries
        /\ HitsFit
-----------------------------------------------------------------------------
(* The list.                                                                *)

(* Max of two numbers is one of them and no smaller than either.            *)
LEMMA MaxOfTwo ==
  ASSUME NEW a \in Nat, NEW b \in Nat
  PROVE  Max({a, b}) \in Nat /\ Max({a, b}) >= a
<1>1. \E m \in {a, b} : \A n \in {a, b} : n <= m
  <2>1. CASE a <= b  BY <2>1
  <2>2. CASE b <= a  BY <2>2
  <2> QED BY <2>1, <2>2
<1> QED BY <1>1 DEF Max

(* A set of numbers that is not empty has a least one.                      *)
LEMMA LeastOf ==
  ASSUME NEW S \in SUBSET Nat, S # {}
  PROVE  \E n \in S : \A m \in S : n <= m
<1> DEFINE R == OpToRel(<, Nat)
<1>1. PICK n \in S : \A m \in S : <<m, n>> \notin R
  <2> HIDE DEF R
  <2>1. IsWellFoundedOn(R, Nat)
    BY NatLessThanWellFounded DEF R
  <2> QED BY <2>1, WFMin
<1>2. \A a, b \in Nat : <<a, b>> \notin R => b <= a
  BY DEF OpToRel
<1> HIDE DEF R
<1> QED BY <1>1, <1>2

(* Taking a key out of the list leaves every other key, each once, and      *)
(* nothing else.                                                            *)
LEMMA WithoutKeepsTheRest ==
  ASSUME order \in Seq(Keys), NEW k,
         \A i, j \in DOMAIN order : order[i] = order[j] => i = j
  PROVE  /\ Without(k) \in Seq(Keys)
         /\ Range(Without(k)) = Range(order) \ {k}
         /\ \A i, j \in DOMAIN Without(k) :
              Without(k)[i] = Without(k)[j] => i = j
<1> DEFINE at == CHOOSE i \in DOMAIN order : order[i] = k
           cut == [i \in 1 .. Len(order) - 1 |->
                     IF i < at THEN order[i] ELSE order[i + 1]]
<1>0. Len(order) \in Nat /\ DOMAIN order = 1 .. Len(order)
      /\ \A i \in 1 .. Len(order) : order[i] \in Keys
  OBVIOUS
<1>1. CASE k \notin Range(order)
  BY <1>1 DEF Without, Range
<1>2. CASE k \in Range(order)
  <2>1. at \in DOMAIN order /\ order[at] = k
    BY <1>2 DEF Range
  <2>2. Without(k) = cut
    BY <1>2 DEF Without
  <2> HIDE DEF at
  <2>3. Len(order) - 1 \in Nat
    BY <1>0, <2>1
  <2>4. cut \in Seq(Keys)
    <3>1. \A i \in 1 .. Len(order) - 1 : cut[i] \in Keys
      BY <1>0, <2>1
    <3>2. cut \in [1 .. Len(order) - 1 -> Keys]
      BY <3>1
    <3> QED BY <3>2, <2>3
  <2>5. DOMAIN cut = 1 .. Len(order) - 1
    OBVIOUS
  <2>6. Range(cut) = Range(order) \ {k}
    <3>1. ASSUME NEW i \in 1 .. Len(order) - 1
          PROVE  cut[i] \in Range(order) \ {k}
      BY <1>0, <2>1 DEF Range
    <3>2. ASSUME NEW i \in DOMAIN order, order[i] # k
          PROVE  order[i] \in Range(cut)
      <4>1. i # at
        BY <3>2, <2>1
      <4>2. CASE i < at
        <5>1. i \in 1 .. Len(order) - 1 /\ cut[i] = order[i]
          BY <4>2, <1>0, <2>1
        <5> QED BY <5>1, <2>5 DEF Range
      <4>3. CASE i > at
        <5>1. i - 1 \in 1 .. Len(order) - 1 /\ cut[i - 1] = order[i]
          BY <4>3, <1>0, <2>1
        <5> QED BY <5>1, <2>5 DEF Range
      <4> QED BY <4>1, <4>2, <4>3, <1>0, <2>1
    <3> HIDE DEF cut
    <3> QED BY <3>1, <3>2, <2>5 DEF Range
  <2>7. \A i, j \in DOMAIN cut : cut[i] = cut[j] => i = j
    BY <1>0, <2>1
  <2> QED BY <2>2, <2>4, <2>6, <2>7
<1> QED BY <1>1, <1>2

(* At most the whole list has to go, and what stays fits unless all goes.   *)
LEMMA SurplusWithinTheList ==
  ASSUME NEW list \in Seq(Keys), NEW total
  PROVE  /\ Surplus(list, total) \in 0 .. Len(list)
         /\ \/ Surplus(list, total) = Len(list)
            \/ total - Weight(Back(list, Surplus(list, total))) <= MaxBytes
<1> DEFINE Fits(n) == n = Len(list) \/ total - Weight(Back(list, n)) <= MaxBytes
           Good == {n \in 0 .. Len(list) : Fits(n)}
<1>1. Good \in SUBSET Nat /\ Good # {}
  <2>1. Len(list) \in Nat
    OBVIOUS
  <2>2. Len(list) \in Good
    BY <2>1
  <2> QED BY <2>2, <2>1
<1>2. PICK n \in Good : \A m \in Good : n <= m
  <2> HIDE DEF Good
  <2> QED BY <1>1, LeastOf
<1>3. n \in 0 .. Len(list) /\ Fits(n)
  BY <1>2
<1>4. \A m \in 0 .. n - 1 : ~Fits(m)
  <2> SUFFICES ASSUME NEW m \in 0 .. n - 1, Fits(m) PROVE FALSE
    OBVIOUS
  <2>1. m \in 0 .. Len(list) /\ m < n
    BY <1>3
  <2>2. m \in Good
    BY <2>1
  <2> HIDE DEF Good
  <2> QED BY <2>1, <2>2, <1>2, <1>3
<1> DEFINE s == CHOOSE i \in 0 .. Len(list) : Fits(i) /\ \A m \in 0 .. i - 1 : ~Fits(m)
<1>5. s \in 0 .. Len(list) /\ Fits(s)
  <2> HIDE DEF Fits
  <2> QED BY <1>3, <1>4
<1>6. Surplus(list, total) = s
  BY DEF Surplus
<1> HIDE DEF s
<1> QED BY <1>5, <1>6

(* Putting a key at the front of a list it is not in.                       *)
LEMMA AtTheFront ==
  ASSUME NEW list \in Seq(Keys), NEW k \in Keys, k \notin Range(list),
         \A i, j \in DOMAIN list : list[i] = list[j] => i = j
  PROVE  /\ <<k>> \o list \in Seq(Keys)
         /\ Range(<<k>> \o list) = Range(list) \cup {k}
         /\ \A i, j \in DOMAIN (<<k>> \o list) :
              (<<k>> \o list)[i] = (<<k>> \o list)[j] => i = j
<1> DEFINE new == <<k>> \o list
<1>1. /\ new \in Seq(Keys)
      /\ DOMAIN new = 1 .. Len(list) + 1
      /\ new[1] = k
      /\ \A i \in 2 .. Len(list) + 1 : new[i] = list[i - 1]
  OBVIOUS
<1>2. Len(list) \in Nat /\ DOMAIN list = 1 .. Len(list)
  OBVIOUS
<1> HIDE DEF new
<1>3. ASSUME NEW i \in 1 .. Len(list) + 1
      PROVE  new[i] \in Range(list) \cup {k}
  <2>1. CASE i = 1  BY <2>1, <1>1
  <2>2. CASE i # 1
    <3>1. i \in 2 .. Len(list) + 1 /\ i - 1 \in DOMAIN list
      BY <2>2, <1>2
    <3> QED BY <3>1, <1>1 DEF Range
  <2> QED BY <2>1, <2>2
<1>4. ASSUME NEW i \in DOMAIN list
      PROVE  list[i] \in Range(new)
  <2>1. i + 1 \in 2 .. Len(list) + 1 /\ i + 1 - 1 = i
    BY <1>2
  <2>2. new[i + 1] = list[i] /\ i + 1 \in DOMAIN new
    BY <2>1, <1>1
  <2> QED BY <2>2 DEF Range
<1>5. k \in Range(new)
  BY <1>1, <1>2 DEF Range
<1>6. Range(new) = Range(list) \cup {k}
  BY <1>1, <1>3, <1>4, <1>5 DEF Range
<1>7. ASSUME NEW i \in DOMAIN new, NEW j \in DOMAIN new, new[i] = new[j]
      PROVE  i = j
  <2>1. ASSUME NEW n \in 2 .. Len(list) + 1
        PROVE  n - 1 \in DOMAIN list /\ new[n] # k
    <3>1. n - 1 \in DOMAIN list
      BY <1>2
    <3>2. list[n - 1] \in Range(list) /\ new[n] = list[n - 1]
      BY <3>1, <1>1 DEF Range
    <3> QED BY <3>1, <3>2
  <2>2. CASE i = 1 \/ j = 1
    <3>1. new[i] = k /\ new[j] = k
      BY <2>2, <1>1, <1>7
    <3>2. \A n \in DOMAIN new : n = 1 \/ n \in 2 .. Len(list) + 1
      BY <1>1, <1>2
    <3> QED BY <3>1, <3>2, <2>1
  <2>3. CASE i # 1 /\ j # 1
    <3>1. i \in 2 .. Len(list) + 1 /\ j \in 2 .. Len(list) + 1
      BY <2>3, <1>1, <1>2
    <3>2. list[i - 1] = list[j - 1]
      BY <3>1, <1>1, <1>7
    <3>3. i - 1 = j - 1
      BY <3>2, <3>1, <2>1
    <3> QED BY <3>1, <3>3
  <2> QED BY <2>2, <2>3
<1> QED BY <1>1, <1>6, <1>7 DEF new

(* What Put leaves: its own entry, and of the others some, as they were.    *)
LEMMA PutKeepsSome ==
  ASSUME order \in Seq(Keys), ListIsTheMap, NEW k \in Keys, NEW e, Put(k, e)
  PROVE  /\ order' \in Seq(Keys)
         /\ ListIsTheMap'
         /\ k \in DOMAIN entries' /\ entries'[k] = e
         /\ \A x \in DOMAIN entries' \ {k} :
              x \in DOMAIN entries /\ entries'[x] = entries[x]
<1> DEFINE list == Without(k)
           total == bytes + e.bytes
                      - (IF k \in DOMAIN entries THEN entries[k].bytes ELSE 0)
           n == Surplus(list, total)
           kept == SubSeq(list, 1, Len(list) - n)
<1>1. /\ list \in Seq(Keys)
      /\ Range(list) = Range(order) \ {k}
      /\ \A i, j \in DOMAIN list : list[i] = list[j] => i = j
  BY WithoutKeepsTheRest DEF ListIsTheMap
<1> HIDE DEF list
<1>2. n \in 0 .. Len(list)
  BY <1>1, SurplusWithinTheList
<1>3. /\ order' = <<k>> \o kept
      /\ entries' = [x \in Range(kept) \cup {k} |-> IF x = k THEN e ELSE entries[x]]
  BY DEF Put, list
<1> HIDE DEF n
<1>4. /\ kept \in Seq(Keys)
      /\ DOMAIN kept = 1 .. Len(list) - n
      /\ \A i \in 1 .. Len(list) - n : i \in DOMAIN list /\ kept[i] = list[i]
  BY <1>1, <1>2
<1> HIDE DEF kept
<1>5. Range(kept) \subseteq Range(order) \ {k}
  BY <1>1, <1>4 DEF Range
<1>6. \A i, j \in DOMAIN kept : kept[i] = kept[j] => i = j
  BY <1>1, <1>4
<1>7. /\ order' \in Seq(Keys)
      /\ Range(order') = Range(kept) \cup {k}
      /\ \A i, j \in DOMAIN order' : order'[i] = order'[j] => i = j
  BY <1>3, <1>4, <1>5, <1>6, AtTheFront
<1>8. DOMAIN entries' = Range(kept) \cup {k}
  BY <1>3
<1>9. ListIsTheMap'
  BY <1>7, <1>8 DEF ListIsTheMap, Range
<1>10. /\ entries'[k] = e
       /\ \A x \in DOMAIN entries' \ {k} :
            x \in DOMAIN entries /\ entries'[x] = entries[x]
  BY <1>3, <1>5, <1>8 DEF ListIsTheMap
<1> QED BY <1>7, <1>8, <1>9, <1>10

(* What Get leaves of the list when it moves a key to the front.            *)
LEMMA MoveToFrontKeepsTheMap ==
  ASSUME order \in Seq(Keys), ListIsTheMap, NEW k \in DOMAIN entries,
         order' = <<k>> \o Without(k), entries' = entries
  PROVE  order' \in Seq(Keys) /\ ListIsTheMap'
<1>1. /\ Without(k) \in Seq(Keys)
      /\ Range(Without(k)) = Range(order) \ {k}
      /\ \A i, j \in DOMAIN Without(k) : Without(k)[i] = Without(k)[j] => i = j
  BY WithoutKeepsTheRest DEF ListIsTheMap
<1>2. k \in Keys
  BY DEF ListIsTheMap, Range
<1>3. /\ order' \in Seq(Keys)
      /\ Range(order') = (Range(order) \ {k}) \cup {k}
      /\ \A i, j \in DOMAIN order' : order'[i] = order'[j] => i = j
  BY <1>1, <1>2, AtTheFront
<1> QED BY <1>3 DEF ListIsTheMap, Range

(* What an expiry leaves.                                                   *)
LEMMA RemoveKeepsTheRest ==
  ASSUME order \in Seq(Keys), ListIsTheMap, NEW k \in DOMAIN entries, Remove(k)
  PROVE  /\ order' \in Seq(Keys)
         /\ ListIsTheMap'
         /\ \A x \in DOMAIN entries' :
              x \in DOMAIN entries /\ entries'[x] = entries[x]
<1>1. /\ Without(k) \in Seq(Keys)
      /\ Range(Without(k)) = Range(order) \ {k}
      /\ \A i, j \in DOMAIN Without(k) : Without(k)[i] = Without(k)[j] => i = j
  BY WithoutKeepsTheRest DEF ListIsTheMap
<1>2. entries' = [x \in DOMAIN entries \ {k} |-> entries[x]] /\ order' = Without(k)
  BY DEF Remove, Restrict
<1>3. Range(order') = DOMAIN entries'
  <2>1. Range(order') = Range(order) \ {k}
    BY <1>1, <1>2
  <2>2. DOMAIN entries' = DOMAIN entries \ {k}
    BY <1>2
  <2> QED BY <2>1, <2>2 DEF ListIsTheMap
<1>4. ListIsTheMap'
  BY <1>1, <1>2, <1>3 DEF ListIsTheMap, Range
<1> QED BY <1>1, <1>2, <1>4
-----------------------------------------------------------------------------
(* The total.  That a list of sizes adds up, and in one way, is all that is *)
(* shown by the least place of a counterexample (LeastOf); the rest splits  *)
(* lists and adds.                                                          *)

(* What two lists one after the other are.                                  *)
LEMMA Joined ==
  ASSUME NEW S, NEW a \in Seq(S), NEW b \in Seq(S)
  PROVE  /\ a \o b \in Seq(S) /\ Len(a \o b) = Len(a) + Len(b)
         /\ \A i \in 1 .. Len(a) : (a \o b)[i] = a[i]
         /\ \A i \in Len(a) + 1 .. Len(a) + Len(b) : (a \o b)[i] = b[i - Len(a)]
<1>1. /\ a \o b \in Seq(S) /\ Len(a \o b) = Len(a) + Len(b)
      /\ \A i \in 1 .. Len(a) + Len(b) :
           (a \o b)[i] = IF i <= Len(a) THEN a[i] ELSE b[i - Len(a)]
  BY ConcatProperties, Zenon
<1>2. Len(a) \in Nat /\ Len(b) \in Nat
  OBVIOUS
<1>3. \A i \in 1 .. Len(a) : i \in 1 .. Len(a) + Len(b) /\ i <= Len(a)
  BY <1>2
<1>4. \A i \in Len(a) + 1 .. Len(a) + Len(b) : i \in 1 .. Len(a) + Len(b) /\ ~(i <= Len(a))
  BY <1>2
<1> QED BY <1>1, <1>3, <1>4, Zenon

(* g says how far the sizes add up, one by one from the front.              *)
AddsUp(g, sizes) ==
  g = [i \in 0 .. Len(sizes) |-> IF i = 0 THEN 0 ELSE g[i - 1] + sizes[i]]

(* They add up in one way only: otherwise take the first place of two that  *)
(* differ.                                                                  *)
LEMMA OneWayToAddUp ==
  ASSUME NEW sizes \in Seq(Nat), NEW g, AddsUp(g, sizes), NEW h, AddsUp(h, sizes)
  PROVE  g = h
<1> DEFINE N == Len(sizes)
           Wrong == {i \in 0 .. N : g[i] # h[i]}
<1>0. N \in Nat
  OBVIOUS
<1> HIDE DEF N
<1>1. /\ \A i \in 0 .. N : g[i] = IF i = 0 THEN 0 ELSE g[i - 1] + sizes[i]
      /\ \A i \in 0 .. N : h[i] = IF i = 0 THEN 0 ELSE h[i - 1] + sizes[i]
  BY DEF AddsUp, N
<1>2. ASSUME Wrong # {} PROVE FALSE
  <2>1. PICK n \in Wrong : \A m \in Wrong : n <= m
    <3>1. Wrong \in SUBSET Nat
      BY <1>0
    <3> HIDE DEF Wrong
    <3> QED BY <3>1, <1>2, LeastOf
  <2>2. n # 0 /\ n \in 1 .. N
    BY <1>0, <1>1, <2>1
  <2>3. n - 1 \in 0 .. N /\ n - 1 \notin Wrong
    BY <1>0, <2>1, <2>2
  <2>4. g[n - 1] = h[n - 1]
    BY <2>3
  <2> QED BY <1>0, <1>1, <2>1, <2>2, <2>4
<1>3. \A i \in 0 .. N : g[i] = h[i]
  BY <1>2
<1>4. /\ g = [i \in 0 .. N |-> g[i]]
      /\ h = [i \in 0 .. N |-> h[i]]
  BY DEF AddsUp, N
<1> QED BY <1>3, <1>4

(* And there is a way: otherwise take the first place it fails to reach.    *)
LEMMA AWayToAddUp ==
  ASSUME NEW sizes \in Seq(Nat)
  PROVE  \E g \in [0 .. Len(sizes) -> Nat] : AddsUp(g, sizes)
<1> DEFINE N == Len(sizes)
           Part(g, n) == /\ g \in [0 .. n -> Nat] /\ g[0] = 0
                         /\ \A i \in 1 .. n : g[i] = g[i - 1] + sizes[i]
           Hard == {n \in 0 .. N : \A g \in [0 .. n -> Nat] : ~Part(g, n)}
<1>0. N \in Nat /\ \A i \in 1 .. N : sizes[i] \in Nat
  OBVIOUS
<1> HIDE DEF N
<1>1. ASSUME Hard # {} PROVE FALSE
  <2>1. PICK n \in Hard : \A m \in Hard : n <= m
    <3>1. Hard \in SUBSET Nat
      BY <1>0
    <3> HIDE DEF Hard
    <3> QED BY <3>1, <1>1, LeastOf
  <2>2. n # 0
    <3>1. Part([i \in 0 .. 0 |-> 0], 0)
      OBVIOUS
    <3> HIDE DEF Part
    <3>2. [i \in 0 .. 0 |-> 0] \in [0 .. 0 -> Nat]
      OBVIOUS
    <3> QED BY <3>1, <3>2, <2>1
  <2>3. n - 1 \in 0 .. N /\ n \in 1 .. N
    BY <1>0, <2>1, <2>2
  <2>4. n - 1 \notin Hard
    <3>1. ~(n <= n - 1)
      BY <1>0, <2>3
    <3> HIDE DEF Hard
    <3> QED BY <2>1, <3>1
  <2>5. PICK g \in [0 .. n - 1 -> Nat] : Part(g, n - 1)
    BY <2>3, <2>4
  <2> DEFINE f == [i \in 0 .. n |-> IF i = n THEN g[n - 1] + sizes[n] ELSE g[i]]
  <2>6. g[n - 1] + sizes[n] \in Nat
    BY <1>0, <2>3, <2>5
  <2>7. f \in [0 .. n -> Nat] /\ f[0] = 0
    BY <1>0, <2>3, <2>5, <2>6
  <2>8. ASSUME NEW i \in 1 .. n PROVE f[i] = f[i - 1] + sizes[i]
    <3>1. CASE i = n
      BY <3>1, <1>0, <2>3
    <3>2. CASE i # n
      <4>1. i \in 1 .. n - 1 /\ i - 1 # n /\ i - 1 \in 0 .. n
        BY <3>2, <1>0, <2>3
      <4> QED BY <4>1, <3>2, <2>5
    <3> QED BY <3>1, <3>2
  <2> HIDE DEF f
  <2>9. Part(f, n)
    BY <2>7, <2>8
  <2> HIDE DEF Part
  <2> QED BY <2>1, <2>7, <2>9
<1>2. N \notin Hard
  BY <1>1
<1>3. PICK g \in [0 .. N -> Nat] : Part(g, N)
  BY <1>0, <1>2
<1>4. g = [i \in 0 .. N |-> IF i = 0 THEN 0 ELSE g[i - 1] + sizes[i]]
  <2>1. \A i \in 0 .. N : g[i] = IF i = 0 THEN 0 ELSE g[i - 1] + sizes[i]
    BY <1>0, <1>3
  <2> QED BY <2>1
<1> QED BY <1>4 DEF AddsUp, N

(* Total is where it ends.                                                  *)
LEMMA TotalIsTheEnd ==
  ASSUME NEW sizes \in Seq(Nat)
  PROVE  \A g : AddsUp(g, sizes) => /\ Total(sizes) = g[Len(sizes)]
                                   /\ Total(sizes) \in Nat
<1> DEFINE upto == CHOOSE f : AddsUp(f, sizes)
<1>1. Total(sizes) = upto[Len(sizes)]
  BY DEF Total, AddsUp
<1>2. PICK g \in [0 .. Len(sizes) -> Nat] : AddsUp(g, sizes)
  BY AWayToAddUp
<1>3. AddsUp(upto, sizes)
  BY <1>2
<1> HIDE DEF upto
<1>4. upto = g
  BY <1>2, <1>3, OneWayToAddUp
<1>5. Total(sizes) = g[Len(sizes)] /\ g[Len(sizes)] \in Nat
  BY <1>1, <1>2, <1>4
<1> QED BY <1>2, <1>5, OneWayToAddUp

(* Its values.                                                              *)
LEMMA TotalIsNat ==
  ASSUME NEW sizes \in Seq(Nat)
  PROVE  Total(sizes) \in Nat
BY AWayToAddUp, TotalIsTheEnd

LEMMA TotalOfNone == Total(<< >>) = 0
<1>0. << >> \in Seq(Nat) /\ Len(<< >>) = 0
  OBVIOUS
<1>1. PICK g \in [0 .. 0 -> Nat] : AddsUp(g, << >>)
  BY <1>0, AWayToAddUp
<1>2. Total(<< >>) = g[0]
  BY <1>0, <1>1, TotalIsTheEnd
<1> QED BY <1>1, <1>2 DEF AddsUp

LEMMA TotalOfOne ==
  ASSUME NEW n \in Nat
  PROVE  Total(<<n>>) = n
<1>1. <<n>> \in Seq(Nat) /\ Len(<<n>>) = 1 /\ <<n>>[1] = n
  OBVIOUS
<1>2. PICK g \in [0 .. 1 -> Nat] : AddsUp(g, <<n>>)
  BY <1>1, AWayToAddUp
<1>3. Total(<<n>>) = g[1]
  BY <1>1, <1>2, TotalIsTheEnd
<1>4. g[0] = 0 /\ g[1] = g[0] + n
  BY <1>1, <1>2 DEF AddsUp
<1> QED BY <1>3, <1>4

(* What two lists hold together.                                            *)
LEMMA TotalOfBoth ==
  ASSUME NEW a \in Seq(Nat), NEW b \in Seq(Nat)
  PROVE  Total(a \o b) = Total(a) + Total(b)
<1> DEFINE A == Len(a)
           B == Len(b)
<1>0. /\ A \in Nat /\ B \in Nat /\ a \o b \in Seq(Nat) /\ Len(a \o b) = A + B
      /\ \A i \in 1 .. A : (a \o b)[i] = a[i]
      /\ \A i \in A + 1 .. A + B : (a \o b)[i] = b[i - A]
  OBVIOUS
<1>1. PICK g \in [0 .. A -> Nat] : AddsUp(g, a)
  BY AWayToAddUp
<1>2. PICK h \in [0 .. B -> Nat] : AddsUp(h, b)
  BY AWayToAddUp
<1>3. Total(a) = g[A] /\ Total(b) = h[B]
  BY <1>1, <1>2, TotalIsTheEnd
<1>4. \A i \in 0 .. A : g[i] = IF i = 0 THEN 0 ELSE g[i - 1] + a[i]
  BY <1>1 DEF AddsUp
<1>5. \A i \in 0 .. B : h[i] = IF i = 0 THEN 0 ELSE h[i - 1] + b[i]
  BY <1>2 DEF AddsUp
<1> DEFINE f == [i \in 0 .. A + B |-> IF i <= A THEN g[i] ELSE g[A] + h[i - A]]
<1> HIDE DEF A, B
<1>6. /\ \A i \in 0 .. A : f[i] = g[i]
      /\ \A i \in 0 .. B : f[A + i] = g[A] + h[i]
      /\ f = [i \in 0 .. A + B |-> f[i]]
  <2>1. h[0] = 0 /\ g[A] \in Nat
    BY <1>0, <1>1, <1>5
  <2>2. ASSUME NEW i \in 0 .. B PROVE f[A + i] = g[A] + h[i]
    <3>1. CASE i = 0
      <4>1. A + 0 = A /\ A \in 0 .. A + B /\ A <= A
        BY <1>0
      <4>2. f[A] = g[A]
        BY <4>1
      <4> HIDE DEF f
      <4> QED BY <2>1, <3>1, <4>1, <4>2
    <3>2. CASE i # 0
      <4> DEFINE n == A + i
      <4>1. n \in 0 .. A + B /\ ~(n <= A) /\ n - A = i
        BY <1>0, <3>2
      <4> HIDE DEF n
      <4>2. f[n] = g[A] + h[n - A]
        BY <4>1
      <4> HIDE DEF f
      <4>3. f[n] = g[A] + h[i]
        BY <4>1, <4>2
      <4> QED BY <4>3 DEF n
    <3> QED BY <3>1, <3>2
  <2>3. ASSUME NEW i \in 0 .. A PROVE f[i] = g[i]
    <3>1. i \in 0 .. A + B /\ i <= A
      BY <1>0
    <3> QED BY <3>1
  <2>4. f = [i \in 0 .. A + B |-> f[i]]
    OBVIOUS
  <2> HIDE DEF f
  <2> QED BY <2>2, <2>3, <2>4
<1> HIDE DEF f
<1>7. ASSUME NEW i \in 0 .. A + B
      PROVE  f[i] = IF i = 0 THEN 0 ELSE f[i - 1] + (a \o b)[i]
  <2>1. CASE i = 0
    <3>1. 0 \in 0 .. A /\ g[0] = 0
      BY <1>0, <1>4
    <3> QED BY <2>1, <3>1, <1>6
  <2>2. CASE i \in 1 .. A
    <3>1. i - 1 \in 0 .. A /\ i \in 0 .. A /\ i # 0
      BY <2>2, <1>0
    <3>2. f[i] = g[i] /\ f[i - 1] = g[i - 1] /\ g[i] = g[i - 1] + a[i]
      BY <3>1, <1>4, <1>6
    <3> QED BY <2>2, <3>1, <3>2, <1>0
  <2>3. CASE i \in A + 1 .. A + B
    <3> DEFINE n == i - A
    <3>1. n \in 1 .. B /\ n \in 0 .. B /\ n - 1 \in 0 .. B /\ n # 0 /\ i # 0
          /\ A + n = i /\ A + (n - 1) = i - 1
      BY <2>3, <1>0
    <3> HIDE DEF n
    <3>2. f[i] = g[A] + h[n] /\ f[i - 1] = g[A] + h[n - 1]
      BY <3>1, <1>6
    <3>3. h[n] = h[n - 1] + b[n]
      BY <3>1, <1>5
    <3>4. g[A] \in Nat /\ h[n - 1] \in Nat /\ b[n] \in Nat
      <4>1. b[n] \in Nat
        BY <3>1 DEF B
      <4> QED BY <4>1, <3>1, <1>0, <1>1, <1>2
    <3>5. (a \o b)[i] = b[n]
      BY <2>3, <1>0 DEF n
    <3> QED BY <3>1, <3>2, <3>3, <3>4, <3>5
  <2>4. i = 0 \/ i \in 1 .. A \/ i \in A + 1 .. A + B
    BY <1>0
  <2> QED BY <2>1, <2>2, <2>3, <2>4
<1>8. f[A + B] = g[A] + h[B]
  <2>1. B \in 0 .. B
    BY <1>0
  <2> QED BY <2>1, <1>6
<1>9. AddsUp(f, a \o b)
  BY <1>0, <1>6, <1>7 DEF AddsUp
<1>10. Total(a \o b) = f[A + B]
  BY <1>0, <1>9, TotalIsTheEnd
<1> QED BY <1>3, <1>8, <1>10 DEF A, B

(* The same of lists of keys: what their entries in es hold together.       *)
Bulk(list, es) == Total([i \in 1 .. Len(list) |-> es[list[i]].bytes])
Sized(list, es) == \A i \in 1 .. Len(list) : es[list[i]].bytes \in Nat

(* What holds of totals holds of lists of keys.                             *)
LEMMA BulkOfBoth ==
  ASSUME NEW a \in Seq(Keys), NEW b \in Seq(Keys), NEW es, Sized(a, es), Sized(b, es)
  PROVE  /\ Bulk(a, es) \in Nat /\ Bulk(b, es) \in Nat
         /\ Bulk(a \o b, es) = Bulk(a, es) + Bulk(b, es)
         /\ Sized(a \o b, es)
<1> DEFINE A == Len(a)
           B == Len(b)
           As == [i \in 1 .. A |-> es[a[i]].bytes]
           Bs == [i \in 1 .. B |-> es[b[i]].bytes]
           Cs == [i \in 1 .. Len(a \o b) |-> es[(a \o b)[i]].bytes]
<1>0. /\ A \in Nat /\ B \in Nat /\ Len(a \o b) = A + B
      /\ \A i \in 1 .. A : (a \o b)[i] = a[i]
      /\ \A i \in A + 1 .. A + B : (a \o b)[i] = b[i - A]
  OBVIOUS
<1>1. As \in Seq(Nat) /\ Len(As) = A /\ Bs \in Seq(Nat) /\ Len(Bs) = B
  BY <1>0 DEF Sized
<1>2. /\ As \o Bs \in Seq(Nat) /\ Len(As \o Bs) = A + B
      /\ \A i \in 1 .. A : (As \o Bs)[i] = As[i]
      /\ \A i \in A + 1 .. A + B : (As \o Bs)[i] = Bs[i - A]
  <2> HIDE DEF As, Bs, A, B
  <2>1. /\ As \o Bs \in Seq(Nat) /\ Len(As \o Bs) = Len(As) + Len(Bs)
        /\ \A i \in 1 .. Len(As) : (As \o Bs)[i] = As[i]
        /\ \A i \in Len(As) + 1 .. Len(As) + Len(Bs) : (As \o Bs)[i] = Bs[i - Len(As)]
    BY <1>1, Joined, Zenon
  <2> QED BY <1>1, <2>1, Zenon
<1>3. ASSUME NEW i \in 1 .. A + B
      PROVE  (As \o Bs)[i] = es[(a \o b)[i]].bytes
  <2>1. CASE i \in 1 .. A
    <3>1. (As \o Bs)[i] = As[i] /\ (a \o b)[i] = a[i]
      BY <2>1, <1>0, <1>2
    <3>2. As[i] = es[a[i]].bytes
      BY <2>1
    <3> QED BY <3>1, <3>2
  <2>2. CASE i \in A + 1 .. A + B
    <3>1. (As \o Bs)[i] = Bs[i - A] /\ (a \o b)[i] = b[i - A]
      BY <2>2, <1>0, <1>2
    <3>2. i - A \in 1 .. B
      BY <2>2, <1>0
    <3>3. Bs[i - A] = es[b[i - A]].bytes
      BY <3>2
    <3> QED BY <3>1, <3>3
  <2>3. i \in 1 .. A \/ i \in A + 1 .. A + B
    BY <1>0
  <2> QED BY <2>1, <2>2, <2>3
<1> HIDE DEF As, Bs, A, B
<1>4. As \o Bs = Cs
  <2>1. As \o Bs = [i \in 1 .. A + B |-> (As \o Bs)[i]]
    <3>1. As \o Bs \in [1 .. A + B -> Nat]
      BY <1>2, LenProperties
    <3> QED BY <3>1
  <2> QED BY <1>0, <1>3, <2>1
<1>5. Sized(a \o b, es)
  <2>1. \A i \in 1 .. A + B : (As \o Bs)[i] \in Nat
    BY <1>0, <1>2
  <2> QED BY <1>0, <1>3, <2>1 DEF Sized
<1> HIDE DEF Cs
<1>6. Total(Cs) = Total(As) + Total(Bs) /\ Total(As) \in Nat /\ Total(Bs) \in Nat
  BY <1>1, <1>4, TotalOfBoth, TotalIsNat
<1> QED BY <1>5, <1>6 DEF Bulk, As, Bs, Cs, A, B

LEMMA BulkOfOne ==
  ASSUME NEW k \in Keys, NEW es, es[k].bytes \in Nat
  PROVE  Bulk(<<k>>, es) = es[k].bytes /\ Sized(<<k>>, es)
<1> DEFINE one == [i \in 1 .. Len(<<k>>) |-> es[<<k>>[i]].bytes]
<1>1. one = <<es[k].bytes>>
  OBVIOUS
<1>2. Sized(<<k>>, es)
  BY DEF Sized
<1> HIDE DEF one
<1>3. Total(one) = es[k].bytes
  BY <1>1, TotalOfOne
<1> QED BY <1>2, <1>3 DEF Bulk, one

LEMMA BulkOfNone == ASSUME NEW es PROVE Bulk(<< >>, es) = 0 /\ Sized(<< >>, es)
<1>1. [i \in 1 .. Len(<< >>) |-> es[<< >>[i]].bytes] = << >>
  OBVIOUS
<1>2. Bulk(<< >>, es) = Total(<< >>)
  BY <1>1 DEF Bulk
<1>3. Sized(<< >>, es)
  BY DEF Sized
<1> QED BY <1>2, <1>3, TotalOfNone

(* It depends on the entries of the keys in the list and on no others.      *)
LEMMA BulkIsOfItsKeys ==
  ASSUME NEW list \in Seq(Keys), NEW es, NEW fs,
         \A i \in 1 .. Len(list) : es[list[i]] = fs[list[i]]
  PROVE  Bulk(list, es) = Bulk(list, fs)
<1>1. [i \in 1 .. Len(list) |-> es[list[i]].bytes] = [i \in 1 .. Len(list) |-> fs[list[i]].bytes]
  OBVIOUS
<1> QED BY <1>1 DEF Bulk

(* A list is its front and its back.                                        *)
LEMMA FrontAndBack ==
  ASSUME NEW list \in Seq(Keys), NEW n \in 0 .. Len(list)
  PROVE  /\ SubSeq(list, 1, Len(list) - n) \in Seq(Keys) /\ Back(list, n) \in Seq(Keys)
         /\ list = SubSeq(list, 1, Len(list) - n) \o Back(list, n)
         /\ \A i \in 1 .. Len(list) - n : SubSeq(list, 1, Len(list) - n)[i] = list[i]
         /\ \A i \in 1 .. n : Back(list, n)[i] = list[Len(list) - n + i]
         /\ Len(SubSeq(list, 1, Len(list) - n)) = Len(list) - n
         /\ Len(Back(list, n)) = n
<1> DEFINE N == Len(list)
           front == SubSeq(list, 1, N - n)
           back == SubSeq(list, N - n + 1, N)
<1>1. N \in Nat /\ n \in Nat /\ N - n \in Nat /\ N - n \in 1 - 1 .. N
  OBVIOUS
<1>2. \A i \in 1 .. N : list[i] \in Keys
  OBVIOUS
<1>3. /\ front \in Seq(Keys) /\ Len(front) = N - n
      /\ \A i \in 1 .. N - n : front[i] = list[i]
  BY <1>1
<1>4. /\ back \in Seq(Keys) /\ Len(back) = n
      /\ \A i \in 1 .. n : back[i] = list[N - n + i]
  BY <1>1
<1>5. front \o back = SubSeq(list, 1, N)
  <2> DEFINE k == N - n
  <2>1. 1 \in 1 .. Len(list) + 1 /\ k \in 1 - 1 .. Len(list) /\ N \in k .. Len(list)
    BY <1>1
  <2> HIDE DEF k
  <2>2. SubSeq(list, 1, k) \o SubSeq(list, k + 1, N) = SubSeq(list, 1, N)
    BY <2>1, ConcatAdjacentSubSeq, Zenon
  <2> QED BY <2>2 DEF k
<1>6. list = front \o back
  BY <1>5, SubSeqFull
<1> QED BY <1>3, <1>4, <1>6 DEF Back

(* Taking a key out of the list takes its bytes out of what the list holds. *)
LEMMA LighterWithout ==
  ASSUME order \in Seq(Keys), NEW k \in Range(order), Sized(order, entries)
  PROVE  Bulk(Without(k), entries) = Bulk(order, entries) - entries[k].bytes
<1> DEFINE N == Len(order)
           at == CHOOSE i \in DOMAIN order : order[i] = k
           a == SubSeq(order, 1, at - 1)
           n == N - at
           b == Back(order, n)
<1>0. N \in Nat /\ DOMAIN order = 1 .. N /\ \A i \in 1 .. N : order[i] \in Keys
  OBVIOUS
<1>1. at \in 1 .. N /\ order[at] = k /\ k \in Keys
  BY <1>0 DEF Range
<1>2. Without(k) = [i \in 1 .. N - 1 |-> IF i < at THEN order[i] ELSE order[i + 1]]
  BY DEF Without
<1> HIDE DEF at, N
<1>3. /\ a \in Seq(Keys) /\ Len(a) = at - 1
      /\ \A i \in 1 .. at - 1 : a[i] = order[i]
  BY <1>0, <1>1 DEF N
<1>4. /\ b \in Seq(Keys) /\ Len(b) = N - at
      /\ \A i \in 1 .. N - at : b[i] = order[at + i]
      /\ order = SubSeq(order, 1, at) \o b
  <2>1. n \in 0 .. Len(order) /\ Len(order) - n = at /\ n = N - at
    BY <1>0, <1>1 DEF N
  <2> HIDE DEF n
  <2>2. /\ b \in Seq(Keys) /\ Len(b) = n
        /\ \A i \in 1 .. n : b[i] = order[Len(order) - n + i]
        /\ order = SubSeq(order, 1, Len(order) - n) \o b
    BY <2>1, FrontAndBack
  <2> QED BY <2>1, <2>2
<1>5. order = (a \o <<k>>) \o b
  <2>1. 1 \in 1 .. Len(order) /\ at \in 1 .. Len(order)
    BY <1>0, <1>1 DEF N
  <2>2. SubSeq(order, 1, at) = a \o <<order[at]>>
    BY <2>1, SubSeqRecursiveSecond
  <2> QED BY <1>1, <1>4, <2>2
<1> HIDE DEF a, b
<1>6. Without(k) = a \o b
  <2>1. /\ a \o b \in Seq(Keys) /\ Len(a \o b) = N - 1
        /\ \A i \in 1 .. at - 1 : (a \o b)[i] = a[i]
        /\ \A i \in at .. N - 1 : (a \o b)[i] = b[i - (at - 1)]
    <3>1. /\ a \o b \in Seq(Keys) /\ Len(a \o b) = Len(a) + Len(b)
          /\ \A i \in 1 .. Len(a) : (a \o b)[i] = a[i]
          /\ \A i \in Len(a) + 1 .. Len(a) + Len(b) : (a \o b)[i] = b[i - Len(a)]
      BY <1>3, <1>4, Joined, Zenon
    <3>2. Len(a) = at - 1 /\ Len(a) + 1 = at /\ Len(a) + Len(b) = N - 1
      BY <1>0, <1>1, <1>3, <1>4
    <3> QED BY <3>1, <3>2, Zenon
  <2>2. ASSUME NEW i \in 1 .. N - 1
        PROVE  (a \o b)[i] = IF i < at THEN order[i] ELSE order[i + 1]
    <3>1. CASE i < at
      <4>1. i \in 1 .. at - 1
        BY <3>1, <1>0, <1>1
      <4> QED BY <3>1, <4>1, <2>1, <1>3
    <3>2. CASE ~(i < at)
      <4> DEFINE j == i - (at - 1)
      <4>1. i \in at .. N - 1 /\ j \in 1 .. N - at /\ at + j = i + 1
        BY <3>2, <1>0, <1>1
      <4>2. (a \o b)[i] = b[j]
        BY <4>1, <2>1
      <4> HIDE DEF j
      <4>3. b[j] = order[at + j]
        BY <4>1, <1>4
      <4> QED BY <3>2, <4>1, <4>2, <4>3
    <3> QED BY <3>1, <3>2
  <2>3. a \o b = [i \in 1 .. N - 1 |-> (a \o b)[i]]
    <3>1. a \o b \in [1 .. N - 1 -> Keys]
      BY <2>1, LenProperties
    <3> QED BY <3>1
  <2> QED BY <2>2, <2>3, <1>2
<1>7. Sized(a, entries) /\ Sized(b, entries) /\ entries[k].bytes \in Nat
  <2>1. \A i \in 1 .. at - 1 : i \in 1 .. N
    BY <1>0, <1>1
  <2>2. \A i \in 1 .. N - at : at + i \in 1 .. N
    BY <1>0, <1>1
  <2> QED BY <2>1, <2>2, <1>1, <1>3, <1>4 DEF Sized, N
<1>8. Bulk(<<k>>, entries) = entries[k].bytes /\ Sized(<<k>>, entries) /\ <<k>> \in Seq(Keys)
  BY <1>1, <1>7, BulkOfOne
<1>9. /\ Bulk(a \o <<k>>, entries) = Bulk(a, entries) + entries[k].bytes
      /\ Sized(a \o <<k>>, entries) /\ a \o <<k>> \in Seq(Keys)
  <2>1. a \o <<k>> \in Seq(Keys)
    BY <1>3, <1>8, ConcatProperties
  <2>2. /\ Bulk(a \o <<k>>, entries) = Bulk(a, entries) + Bulk(<<k>>, entries)
        /\ Sized(a \o <<k>>, entries)
    BY <1>3, <1>7, <1>8, BulkOfBoth, Zenon
  <2> QED BY <1>8, <2>1, <2>2
<1>10. Bulk(order, entries) = Bulk(a \o <<k>>, entries) + Bulk(b, entries)
  BY <1>4, <1>5, <1>7, <1>9, BulkOfBoth
<1>11. Bulk(Without(k), entries) = Bulk(a, entries) + Bulk(b, entries)
       /\ Bulk(a, entries) \in Nat /\ Bulk(b, entries) \in Nat
  BY <1>3, <1>4, <1>6, <1>7, BulkOfBoth
<1> QED BY <1>7, <1>9, <1>10, <1>11

(* Putting a key in front adds its bytes.                                   *)
LEMMA BulkInFront ==
  ASSUME NEW k \in Keys, NEW list \in Seq(Keys), NEW es,
         Sized(list, es), es[k].bytes \in Nat
  PROVE  /\ Bulk(<<k>> \o list, es) = es[k].bytes + Bulk(list, es)
         /\ Bulk(list, es) \in Nat
<1>1. Bulk(<<k>>, es) = es[k].bytes /\ Sized(<<k>>, es) /\ <<k>> \in Seq(Keys)
  BY BulkOfOne
<1>2. /\ Bulk(<<k>> \o list, es) = Bulk(<<k>>, es) + Bulk(list, es)
      /\ Bulk(list, es) \in Nat
  BY <1>1, BulkOfBoth, Zenon
<1> QED BY <1>1, <1>2

(* Every entry has a size.                                                  *)
LEMMA ListsOfEntriesAreSized ==
  ASSUME NEW list \in Seq(Keys), NEW es, Range(list) \subseteq DOMAIN es,
         \A k \in DOMAIN es : es[k].bytes \in Nat
  PROVE  Sized(list, es)
<1>1. DOMAIN list = 1 .. Len(list)
  OBVIOUS
<1>2. \A i \in 1 .. Len(list) : list[i] \in DOMAIN es
  BY <1>1 DEF Range
<1> QED BY <1>2 DEF Sized

(* What the total depends on of the invariant.                               *)
Balanced == order \in Seq(Keys) /\ ListIsTheMap /\ EntriesFit /\ BytesAddUp

(* The total as it stands, and without one key, be it there or not.         *)
LEMMA TheTotal ==
  ASSUME Balanced
  PROVE  /\ bytes = Bulk(order, entries) /\ bytes \in Nat /\ bytes <= MaxBytes
         /\ Sized(order, entries)
         /\ \A k \in DOMAIN entries : entries[k].bytes \in Nat
<1>1. \A k \in DOMAIN entries : entries[k].bytes \in Nat
  BY DEF Balanced, EntriesFit, Entries
<1>2. Range(order) \subseteq DOMAIN entries
  BY DEF Balanced, ListIsTheMap
<1>3. Sized(order, entries)
  BY <1>1, <1>2, ListsOfEntriesAreSized DEF Balanced
<1>4. Bulk(order, entries) \in Nat
  <2>1. order \in Seq(Keys)
    BY DEF Balanced
  <2> QED BY <2>1, <1>3, BulkOfBoth, Zenon
<1> QED BY <1>1, <1>3, <1>4 DEF Balanced, BytesAddUp, Weight, Bulk

LEMMA TheTotalWithout ==
  ASSUME Balanced, NEW k \in Keys
  PROVE  /\ Without(k) \in Seq(Keys) /\ Sized(Without(k), entries)
         /\ Range(Without(k)) = DOMAIN entries \ {k}
         /\ Bulk(Without(k), entries) \in Nat
         /\ Bulk(Without(k), entries)
              = bytes - (IF k \in DOMAIN entries THEN entries[k].bytes ELSE 0)
<1>1. /\ Without(k) \in Seq(Keys)
      /\ Range(Without(k)) = DOMAIN entries \ {k}
  BY WithoutKeepsTheRest DEF Balanced, ListIsTheMap
<1>2. Sized(Without(k), entries)
  BY <1>1, TheTotal, ListsOfEntriesAreSized
<1>3. Bulk(Without(k), entries) \in Nat
  BY <1>1, <1>2, BulkOfBoth, Zenon
<1>4. CASE k \in DOMAIN entries
  <2>1. k \in Range(order) /\ order \in Seq(Keys)
    BY <1>4 DEF Balanced, ListIsTheMap
  <2>2. Bulk(Without(k), entries) = Bulk(order, entries) - entries[k].bytes
    BY <2>1, TheTotal, LighterWithout
  <2> QED BY <1>1, <1>2, <1>3, <1>4, <2>2, TheTotal
<1>5. CASE k \notin DOMAIN entries
  <2>1. Without(k) = order
    BY <1>5 DEF Balanced, ListIsTheMap, Without
  <2> QED BY <1>1, <1>2, <1>3, <1>5, <2>1, TheTotal
<1> QED BY <1>4, <1>5

(* Moving a key to the front moves no bytes.                                *)
LEMMA MoveToFrontAddsUp ==
  ASSUME Balanced, NEW k \in DOMAIN entries, order' = <<k>> \o Without(k),
         entries' = entries, bytes' = bytes
  PROVE  BytesAddUp'
<1>1. k \in Keys
  BY DEF Balanced, ListIsTheMap, Range
<1>2. /\ Without(k) \in Seq(Keys) /\ Sized(Without(k), entries)
      /\ Bulk(Without(k), entries) = bytes - entries[k].bytes
  BY <1>1, TheTotalWithout
<1>3. /\ entries[k].bytes \in Nat /\ bytes \in Nat /\ bytes <= MaxBytes
  BY TheTotal
<1>4. Bulk(order', entries) = entries[k].bytes + Bulk(Without(k), entries)
  BY <1>1, <1>2, <1>3, BulkInFront, Zenon
<1>5. Bulk(order', entries') = bytes'
  BY <1>2, <1>3, <1>4
<1> QED BY <1>3, <1>5 DEF BytesAddUp, Weight, Bulk

(* removeLocked takes off what the entry weighed.                           *)
LEMMA RemoveAddsUp ==
  ASSUME Balanced, NEW k \in DOMAIN entries, Remove(k)
  PROVE  BytesAddUp'
<1>1. k \in Keys
  BY DEF Balanced, ListIsTheMap, Range
<1>2. /\ Without(k) \in Seq(Keys) /\ Range(Without(k)) = DOMAIN entries \ {k}
      /\ Bulk(Without(k), entries) = bytes - entries[k].bytes
  BY <1>1, TheTotalWithout
<1>3. /\ entries' = [x \in DOMAIN entries \ {k} |-> entries[x]]
      /\ order' = Without(k) /\ bytes' = bytes - entries[k].bytes
  BY DEF Remove, Restrict
<1>4. \A i \in 1 .. Len(Without(k)) : entries'[Without(k)[i]] = entries[Without(k)[i]]
  <2>1. DOMAIN Without(k) = 1 .. Len(Without(k))
    BY <1>2
  <2>2. \A i \in 1 .. Len(Without(k)) : Without(k)[i] \in DOMAIN entries \ {k}
    BY <1>2, <2>1 DEF Range
  <2> QED BY <1>3, <2>2
<1>5. Bulk(order', entries') = bytes'
  BY <1>2, <1>3, <1>4, BulkIsOfItsKeys
<1>6. bytes' <= MaxBytes
  BY <1>3, TheTotal, CacheAssumption
<1> QED BY <1>5, <1>6 DEF BytesAddUp, Weight, Bulk

(* Put takes off what it replaces and what it evicts, and evicts until the  *)
(* rest fits.                                                               *)
LEMMA PutAddsUp ==
  ASSUME Balanced, NEW k \in Keys, NEW e, e.bytes \in Nat, e.bytes <= MaxBytes, Put(k, e)
  PROVE  BytesAddUp'
<1> DEFINE list == Without(k)
           total == bytes + e.bytes
                      - (IF k \in DOMAIN entries THEN entries[k].bytes ELSE 0)
           n == Surplus(list, total)
           kept == SubSeq(list, 1, Len(list) - n)
           back == Back(list, n)
<1>1. /\ list \in Seq(Keys) /\ Sized(list, entries)
      /\ Range(list) = DOMAIN entries \ {k}
      /\ Bulk(list, entries) \in Nat
      /\ Bulk(list, entries) = bytes - (IF k \in DOMAIN entries THEN entries[k].bytes ELSE 0)
  BY TheTotalWithout
<1>2. /\ order' = <<k>> \o kept
      /\ entries' = [x \in Range(kept) \cup {k} |-> IF x = k THEN e ELSE entries[x]]
      /\ bytes' = total - Bulk(back, entries)
  BY DEF Put, Weight, Bulk
<1>3. total = e.bytes + Bulk(list, entries)
  BY <1>1, TheTotal
<1> HIDE DEF list, total
<1>4. /\ n \in 0 .. Len(list)
      /\ n = Len(list) \/ total - Bulk(back, entries) <= MaxBytes
  BY <1>1, SurplusWithinTheList DEF Weight, Bulk
<1> HIDE DEF n
<1>5. /\ kept \in Seq(Keys) /\ back \in Seq(Keys) /\ list = kept \o back
      /\ Len(kept) = Len(list) - n /\ Len(back) = n
      /\ \A i \in 1 .. Len(list) - n : kept[i] = list[i]
      /\ \A i \in 1 .. n : back[i] = list[Len(list) - n + i]
  BY <1>1, <1>4, FrontAndBack
<1> HIDE DEF kept, back
<1>6. Sized(kept, entries) /\ Sized(back, entries)
  <2>1. Len(list) \in Nat
    BY <1>1
  <2>2. \A i \in 1 .. Len(list) - n : i \in 1 .. Len(list)
    BY <2>1, <1>4
  <2>3. \A i \in 1 .. n : Len(list) - n + i \in 1 .. Len(list)
    BY <2>1, <1>4
  <2> QED BY <1>1, <1>5, <2>2, <2>3 DEF Sized
<1>7. /\ Bulk(list, entries) = Bulk(kept, entries) + Bulk(back, entries)
      /\ Bulk(kept, entries) \in Nat /\ Bulk(back, entries) \in Nat
  BY <1>5, <1>6, BulkOfBoth, Zenon
<1>8. bytes' = e.bytes + Bulk(kept, entries)
  BY <1>2, <1>3, <1>7
<1>9. bytes' <= MaxBytes
  <2>1. CASE n = Len(list)
    <3>1. kept = << >>
      BY <2>1, <1>1, <1>5
    <3>2. Bulk(kept, entries) = 0
      BY <3>1, BulkOfNone, Zenon
    <3> QED BY <3>2, <1>8
  <2>2. CASE total - Bulk(back, entries) <= MaxBytes
    BY <2>2, <1>2
  <2> QED BY <2>1, <2>2, <1>4
<1>10. \A i \in 1 .. Len(kept) : /\ kept[i] \in Range(kept) /\ kept[i] # k
                                 /\ entries'[kept[i]] = entries[kept[i]]
  <2>1. DOMAIN kept = 1 .. Len(kept) /\ DOMAIN list = 1 .. Len(list) /\ Len(list) \in Nat
    BY <1>1, <1>5
  <2>2. ASSUME NEW i \in 1 .. Len(kept)
        PROVE  kept[i] \in Range(kept) /\ kept[i] # k
    <3>1. i \in 1 .. Len(list) /\ kept[i] = list[i]
      BY <2>1, <1>4, <1>5
    <3>2. list[i] \in Range(list)
      BY <2>1, <3>1 DEF Range
    <3> QED BY <1>1, <2>1, <3>1, <3>2 DEF Range
  <2> QED BY <1>2, <2>2
<1>11. Bulk(kept, entries') = Bulk(kept, entries)
  <2>1. \A i \in 1 .. Len(kept) : entries'[kept[i]] = entries[kept[i]]
    BY <1>10
  <2> QED BY <1>5, <2>1, BulkIsOfItsKeys, Zenon
<1>12. Sized(kept, entries')
  BY <1>6, <1>10 DEF Sized
<1>13. entries'[k] = e
  BY <1>2
<1>14. Bulk(<<k>> \o kept, entries') = e.bytes + Bulk(kept, entries')
  BY <1>5, <1>12, <1>13, BulkInFront
<1>15. Bulk(order', entries') = bytes'
  BY <1>2, <1>8, <1>11, <1>14
<1> QED BY <1>9, <1>15 DEF BytesAddUp, Weight, Bulk

-----------------------------------------------------------------------------
(* The steps.                                                               *)

(* A step of x is a step of nobody else.                                    *)
LEMMA OthersStay ==
  ASSUME Shapes, NEW x \in Executions, NEW where, NEW j, Become(x, where, j)
  PROVE  /\ pc'[x] = where /\ job'[x] = j /\ DOMAIN job' = Executions
         /\ \A y \in Executions \ {x} : pc'[y] = pc[y] /\ job'[y] = job[y]
BY DEF Become, Shapes

LEMMA PlanPreserves ==
  ASSUME IInv, NEW x \in Executions, Plan(x)
  PROVE  IInv'
<1>1. PICK c \in Conns, q \in Questions :
        Become(x, "planned",
          [stage |-> "planned", conn |-> c, question |-> q,
           version |-> version[c], informed |-> announced[c]])
  BY DEF Plan
<1> DEFINE new == [stage |-> "planned", conn |-> c, question |-> q,
                   version |-> version[c], informed |-> announced[c]]
<1>2. /\ pc'[x] = "planned" /\ job'[x] = new /\ DOMAIN job' = Executions
      /\ \A y \in Executions \ {x} : pc'[y] = pc[y] /\ job'[y] = job[y]
  BY <1>1, OthersStay DEF IInv
<1>3. UNCHANGED <<entries, order, bytes, generation, version, unpublished,
                  announced, now>>
  BY DEF Plan, cacheVars, editVars
<1>4. new \in Planned /\ new.conn = c /\ new.informed = announced[c]
      /\ announced[c] \in Nat
  BY DEF IInv, Shapes, Planned
<1>5. Shapes'
  BY <1>1, <1>2, <1>3, <1>4 DEF IInv, Shapes, Become
<1>6. ListIsTheMap' /\ EntriesFit'
  BY <1>3 DEF IInv, ListIsTheMap, EntriesFit
<1>7. KeysFit'
  BY <1>2, <1>3, <1>4 DEF IInv, KeysFit, HasKey
<1>8. Contemporaries'
  BY <1>2, <1>3 DEF IInv, Contemporaries, HasKey
<1>9. HitsFit'
  BY <1>2, <1>3 DEF IInv, HitsFit
<1> QED BY <1>5, <1>6, <1>7, <1>8, <1>9 DEF IInv

LEMMA MakeKeyPreserves ==
  ASSUME IInv, NEW x \in Executions, MakeKey(x)
  PROVE  IInv'
<1> DEFINE j == job[x]
           g == generation[j.conn]
           Keyed(p, k) ==
             [stage |-> "keyed", conn |-> j.conn, question |-> j.question,
              version |-> j.version, informed |-> j.informed,
              print |-> p, key |-> k, keyedAt |-> announced[j.conn]]
<1>1. PICK p \in Prints :
        Become(x, "keyed", Keyed(p, KeyOf(j.conn, p, j.question, g)))
  BY DEF MakeKey
<1> DEFINE k == KeyOf(j.conn, p, j.question, g)
           new == Keyed(p, k)
<1>3. /\ pc'[x] = "keyed" /\ job'[x] = new /\ DOMAIN job' = Executions
      /\ \A y \in Executions \ {x} : pc'[y] = pc[y] /\ job'[y] = job[y]
  BY <1>1, OthersStay DEF IInv
<1>4. UNCHANGED <<entries, order, bytes, generation, version, unpublished,
                  announced, now>>
  BY DEF MakeKey, cacheVars, editVars
<1>5. pc[x] = "planned" /\ j \in Planned /\ j.informed <= announced[j.conn]
  BY DEF MakeKey, IInv, Shapes, KeysFit
<1>6. /\ j.conn \in Conns /\ generation[j.conn] \in Nat
      /\ announced[j.conn] \in Nat
  BY <1>5 DEF IInv, Shapes, Planned
<1>7. k \in Keys
  BY <1>5, <1>6 DEF KeyOf, Keys, Planned
<1>8. new \in WithKey
  BY <1>5, <1>6, <1>7 DEF WithKey, Planned
<1>9. /\ new.conn = j.conn /\ new.print = p /\ new.question = j.question
      /\ new.informed = j.informed /\ new.key = k
      /\ new.keyedAt = announced[j.conn]
  OBVIOUS
<1>10. /\ k.conn = j.conn /\ k.print = p /\ k.question = j.question
       /\ k.gen = generation[j.conn]
  BY DEF KeyOf
<1> HIDE DEF k, new, Keyed
<1>11. Shapes'
  BY <1>1, <1>3, <1>4, <1>8 DEF IInv, Shapes, Become, new
<1>12. ListIsTheMap' /\ EntriesFit'
  BY <1>4 DEF IInv, ListIsTheMap, EntriesFit
<1>13. KeysFit'
  BY <1>3, <1>4, <1>5, <1>6, <1>9, <1>10 DEF IInv, KeysFit, HasKey
<1>14. Contemporaries'
  <2>1. HasKey(x)' => \A m \in DOMAIN entries :
          (m.conn = j.conn /\ m.gen = generation[j.conn])
             => entries[m].answer.keyedAt = announced[j.conn]
    BY DEF IInv, EntriesFit
  <2>2. \A y \in Executions \ {x} :
          (HasKey(y) /\ job[y].conn = j.conn /\ job[y].key.gen = generation[j.conn])
             => job[y].keyedAt = announced[j.conn]
    BY DEF IInv, KeysFit
  <2>3. \A y \in Executions \ {x} : HasKey(y)' <=> HasKey(y)
    BY <1>3 DEF HasKey
  <2>5. ASSUME NEW y \in Executions, HasKey(y)'
        PROVE  \A m \in DOMAIN entries :
                 (m.conn = job'[y].conn /\ m.gen = job'[y].key.gen)
                   => entries[m].answer.keyedAt = job'[y].keyedAt
    <3>1. CASE y = x
      BY <3>1, <2>1, <2>5, <1>3, <1>9, <1>10
    <3>2. CASE y # x
      BY <3>2, <2>3, <2>5, <1>3 DEF IInv, Contemporaries
    <3> QED BY <3>1, <3>2
  <2>6. ASSUME NEW y \in Executions, HasKey(y)', NEW z \in Executions, HasKey(z)',
               job'[z].conn = job'[y].conn, job'[z].key.gen = job'[y].key.gen
        PROVE  job'[z].keyedAt = job'[y].keyedAt
    <3>1. CASE y = x /\ z = x
      BY <3>1
    <3>2. CASE y = x /\ z # x
      BY <3>2, <2>2, <2>3, <2>6, <1>3, <1>9, <1>10
    <3>3. CASE y # x /\ z = x
      BY <3>3, <2>2, <2>3, <2>6, <1>3, <1>9, <1>10
    <3>4. CASE y # x /\ z # x
      BY <3>4, <2>3, <2>6, <1>3 DEF IInv, Contemporaries
    <3> QED BY <3>1, <3>2, <3>3, <3>4
  <2> QED BY <2>5, <2>6, <1>4 DEF Contemporaries
<1>15. HitsFit'
  BY <1>3 DEF IInv, HitsFit
<1> QED BY <1>11, <1>12, <1>13, <1>14, <1>15 DEF IInv

LEMMA UnkeyedPreserves ==
  ASSUME IInv, NEW x \in Executions, Unkeyed(x)
  PROVE  IInv'
<1>1. /\ Become(x, "uncached", NoJob)
      /\ UNCHANGED <<entries, order, bytes, generation, version, unpublished,
                     announced, now>>
  BY DEF Unkeyed, cacheVars, editVars
<1>2. /\ pc'[x] = "uncached" /\ DOMAIN job' = Executions
      /\ \A y \in Executions \ {x} : pc'[y] = pc[y] /\ job'[y] = job[y]
  BY <1>1, OthersStay DEF IInv
<1>3. \A y \in Executions : HasKey(y)' => y # x /\ HasKey(y)
  BY <1>2 DEF HasKey
<1>4. Shapes'
  BY <1>1, <1>2 DEF IInv, Shapes, Become
<1>5. ListIsTheMap' /\ EntriesFit'
  BY <1>1 DEF IInv, ListIsTheMap, EntriesFit
<1>6. KeysFit'
  BY <1>1, <1>2, <1>3 DEF IInv, KeysFit
<1>7. Contemporaries'
  BY <1>1, <1>2, <1>3 DEF IInv, Contemporaries
<1>8. HitsFit'
  BY <1>2 DEF IInv, HitsFit
<1> QED BY <1>4, <1>5, <1>6, <1>7, <1>8 DEF IInv

LEMMA HitPreserves ==
  ASSUME IInv, NEW x \in Executions, Hit(x)
  PROVE  IInv'
<1> DEFINE j == job[x]
           k == j.key
           new == Served(x)
<1>1. /\ pc[x] = "keyed" /\ k \in DOMAIN entries
      /\ order' = <<k>> \o Without(k)
      /\ Become(x, "hit", new)
      /\ UNCHANGED <<entries, bytes, generation, version, unpublished,
                     announced, now>>
  BY DEF Hit, Present, editVars
<1>2. /\ pc'[x] = "hit" /\ job'[x] = new /\ DOMAIN job' = Executions
      /\ \A y \in Executions \ {x} : pc'[y] = pc[y] /\ job'[y] = job[y]
  BY <1>1, OthersStay DEF IInv
<1>3. k \in Keys
  BY <1>1 DEF IInv, Shapes, ListIsTheMap, Range
<1>4. HasKey(x)
  BY <1>1 DEF HasKey
<1>5. j \in WithKey /\ entries[k].answer \in Answers /\ now \in Nat
  BY <1>1 DEF IInv, Shapes, EntriesFit, Entries
<1>6. /\ new.conn = j.conn /\ new.print = j.print /\ new.question = j.question
      /\ new.informed = j.informed /\ new.answer = entries[k].answer
  BY DEF Served
<1>7. new \in BeingHit
  BY <1>5 DEF BeingHit, WithKey, Served
<1>8. /\ k.conn = j.conn /\ k.print = j.print /\ k.question = j.question
      /\ j.informed <= j.keyedAt
  BY <1>4 DEF IInv, KeysFit
<1>9. entries[k].answer.keyedAt = j.keyedAt
  BY <1>1, <1>4, <1>8 DEF IInv, Contemporaries
<1> HIDE DEF new
<1>10. order' \in Seq(Keys) /\ ListIsTheMap'
  BY <1>1, MoveToFrontKeepsTheMap DEF IInv, Shapes
<1>11. Shapes'
  BY <1>1, <1>2, <1>7, <1>10 DEF IInv, Shapes, Become
<1>12. EntriesFit'
  BY <1>1 DEF IInv, EntriesFit
<1>13. KeysFit'
  BY <1>1, <1>2 DEF IInv, KeysFit, HasKey
<1>14. Contemporaries'
  <2>1. \A y \in Executions : HasKey(y)' => y # x /\ HasKey(y)
    BY <1>2 DEF HasKey
  <2> QED BY <2>1, <1>1, <1>2 DEF IInv, Contemporaries
<1>15. HitsFit'
  <2>1. /\ new.answer.conn = new.conn
        /\ new.answer.print = new.print
        /\ new.answer.question = new.question
        /\ new.answer.whole
    BY <1>1, <1>6, <1>8 DEF IInv, EntriesFit
  <2>2. new.answer.keyedAt >= new.informed
    BY <1>5, <1>6, <1>8, <1>9 DEF WithKey
  <2>4. new.at <= new.answer.storedAt + TTL
    <3>1. entries[k] \in Entries /\ entries[k].expires <= entries[k].answer.storedAt + TTL
      BY <1>1 DEF IInv, EntriesFit
    <3>2. ~(now > entries[k].expires)
      BY DEF Hit, Expired
    <3>3. new.at = now
      BY DEF new, Served
    <3> QED BY <3>1, <3>2, <3>3, <1>5, <1>6, CacheAssumption DEF Entries, Answers
  <2>3. ASSUME NEW y \in Executions, pc'[y] = "hit"
        PROVE  /\ job'[y].answer.conn = job'[y].conn
               /\ job'[y].answer.print = job'[y].print
               /\ job'[y].answer.question = job'[y].question
               /\ job'[y].answer.whole
               /\ job'[y].answer.keyedAt >= job'[y].informed
               /\ job'[y].at <= job'[y].answer.storedAt + TTL
    <3>1. CASE y = x
      BY <3>1, <1>2, <2>1, <2>2, <2>4
    <3>2. CASE y # x
      BY <3>2, <2>3, <1>2 DEF IInv, HitsFit
    <3> QED BY <3>1, <3>2
  <2> QED BY <2>3 DEF HitsFit
<1> QED BY <1>10, <1>11, <1>12, <1>13, <1>14, <1>15 DEF IInv

(* A miss: nothing is added to the map, and the job goes on as it was.      *)
LEMMA MissingPreserves ==
  ASSUME IInv, NEW x \in Executions, Miss(x) \/ Expire(x)
  PROVE  IInv'
<1>1. /\ pc[x] = "keyed" /\ Become(x, "running", job[x])
      /\ UNCHANGED <<generation, version, unpublished, announced, now>>
  BY DEF Miss, Expire, editVars
<1>2. /\ order' \in Seq(Keys) /\ ListIsTheMap'
      /\ \A k \in DOMAIN entries' : k \in DOMAIN entries /\ entries'[k] = entries[k]
  <2>1. CASE Miss(x)
    BY <2>1 DEF Miss, cacheVars, IInv, Shapes, ListIsTheMap
  <2>2. CASE Expire(x)
    BY <2>2, RemoveKeepsTheRest DEF Expire, Present, IInv, Shapes
  <2> QED BY <2>1, <2>2
<1>3. /\ pc'[x] = "running" /\ DOMAIN job' = Executions
      /\ \A y \in Executions : job'[y] = job[y]
      /\ \A y \in Executions \ {x} : pc'[y] = pc[y]
  BY <1>1, OthersStay DEF IInv
<1>4. Shapes'
  BY <1>1, <1>2, <1>3 DEF IInv, Shapes, Become
<1>5. EntriesFit'
  BY <1>1, <1>2 DEF IInv, EntriesFit
<1>6. \A y \in Executions : HasKey(y)' <=> HasKey(y)
  BY <1>1, <1>3 DEF HasKey
<1>7. KeysFit'
  BY <1>1, <1>3, <1>6 DEF IInv, KeysFit
<1>8. Contemporaries'
  BY <1>2, <1>3, <1>6 DEF IInv, Contemporaries
<1>9. HitsFit'
  BY <1>1, <1>3 DEF IInv, HitsFit
<1> QED BY <1>2, <1>4, <1>5, <1>7, <1>8, <1>9 DEF IInv

LEMMA FinishPreserves ==
  ASSUME IInv, NEW x \in Executions, Finish(x)
  PROVE  IInv'
<1> DEFINE j == job[x]
<1>1. /\ pc[x] = "running" /\ Become(x, "idle", NoJob)
      /\ UNCHANGED <<generation, version, unpublished, announced, now>>
  BY DEF Finish, editVars
<1>2. \/ UNCHANGED cacheVars
      \/ /\ HasKey(x)
         /\ \E size \in Sizes :
              Put(j.key, [bytes |-> size, expires |-> now + TTL,
                          answer |-> AnswerOf(x, TRUE)])
  <2>1. CASE UNCHANGED cacheVars
    BY <2>1
  <2>2. ASSUME NEW size \in Sizes,
               IF Storable(size)
               THEN Put(j.key, [bytes |-> size, expires |-> now + TTL,
                                answer |-> AnswerOf(x, TRUE)])
               ELSE UNCHANGED cacheVars
        PROVE  \/ UNCHANGED cacheVars
               \/ /\ HasKey(x)
                  /\ Put(j.key, [bytes |-> size, expires |-> now + TTL,
                                 answer |-> AnswerOf(x, TRUE)])
    BY <2>2, <1>1 DEF HasKey
  <2> QED BY <2>1, <2>2 DEF Finish
<1>3. /\ pc'[x] = "idle" /\ DOMAIN job' = Executions
      /\ \A y \in Executions \ {x} : pc'[y] = pc[y] /\ job'[y] = job[y]
  BY <1>1, OthersStay DEF IInv
<1>4. \A y \in Executions : HasKey(y)' => y # x /\ HasKey(y)
  BY <1>3 DEF HasKey
<1>5. j \in WithKey /\ now \in Nat
  BY <1>1 DEF IInv, Shapes
<1>6. /\ order' \in Seq(Keys) /\ ListIsTheMap'
      /\ \A k \in DOMAIN entries' :
           \/ k \in DOMAIN entries /\ entries'[k] = entries[k]
           \/ /\ HasKey(x) /\ k = j.key /\ entries'[k].answer = AnswerOf(x, TRUE)
              /\ \E size \in Sizes :
                   entries'[k] = [bytes |-> size, expires |-> now + TTL,
                                  answer |-> AnswerOf(x, TRUE)]
  <2>1. CASE UNCHANGED cacheVars
    BY <2>1 DEF cacheVars, IInv, Shapes, ListIsTheMap
  <2>2. ASSUME HasKey(x), NEW size \in Sizes,
               Put(j.key, [bytes |-> size, expires |-> now + TTL,
                           answer |-> AnswerOf(x, TRUE)])
        PROVE  <1>6!1 /\ <1>6!2
    <3> DEFINE e == [bytes |-> size, expires |-> now + TTL,
                     answer |-> AnswerOf(x, TRUE)]
    <3>1. j.key \in Keys
      BY <2>2, <1>5 DEF HasKey, WithKey
    <3>2. e.answer = AnswerOf(x, TRUE)
          /\ \E s \in Sizes : e = [bytes |-> s, expires |-> now + TTL,
                                    answer |-> AnswerOf(x, TRUE)]
      BY <2>2
    <3> HIDE DEF e
    <3>3. /\ order' \in Seq(Keys)
          /\ ListIsTheMap'
          /\ j.key \in DOMAIN entries' /\ entries'[j.key] = e
          /\ \A k \in DOMAIN entries' \ {j.key} :
               k \in DOMAIN entries /\ entries'[k] = entries[k]
      BY <2>2, <3>1, PutKeepsSome DEF IInv, Shapes, e
    <3> QED BY <2>2, <3>2, <3>3
  <2> QED BY <1>2, <2>1, <2>2
<1> DEFINE a == AnswerOf(x, TRUE)
<1>7. /\ a.conn = j.conn /\ a.print = j.print /\ a.question = j.question
      /\ a.keyedAt = j.keyedAt /\ a.whole
  BY DEF AnswerOf
<1>8. a \in Answers
  BY <1>5 DEF AnswerOf, Answers, WithKey
<1> HIDE DEF a
<1>9. Shapes'
  BY <1>1, <1>3, <1>6 DEF IInv, Shapes, Become
<1>10. EntriesFit'
  <2>1. HasKey(x) =>
          /\ j.key.conn = j.conn /\ j.key.print = j.print
          /\ j.key.question = j.question
          /\ j.key.gen <= generation[j.conn]
          /\ j.key.gen = generation[j.conn] => j.keyedAt = announced[j.conn]
    BY DEF IInv, KeysFit
  <2> DEFINE Fit(k, b, g, n) ==
                /\ b.conn = k.conn /\ b.print = k.print
                /\ b.question = k.question /\ b.whole
                /\ k.gen <= g[k.conn]
                /\ k.gen = g[k.conn] => b.keyedAt = n[k.conn]
  <2>2. \A k \in DOMAIN entries : Fit(k, entries[k].answer, generation, announced)
    BY DEF IInv, EntriesFit
  <2>3. HasKey(x) => Fit(j.key, a, generation, announced)
    BY <1>7, <1>8, <2>1
  <2>4. ASSUME NEW k \in DOMAIN entries'
        PROVE  Fit(k, entries'[k].answer, generation', announced')
    <3> HIDE DEF Fit
    <3> QED BY <1>1, <1>6, <2>2, <2>3 DEF a
  <2>5. ASSUME NEW size \in Sizes
        PROVE  LET e == [bytes |-> size, expires |-> now + TTL, answer |-> a]
               IN  e \in Entries /\ e.expires <= e.answer.storedAt + TTL
    <3>1. a.storedAt = now
      BY DEF a, AnswerOf
    <3> QED BY <3>1, <1>5, <1>8, CacheAssumption DEF Entries
  <2>6. ASSUME NEW k \in DOMAIN entries'
        PROVE  /\ entries'[k] \in Entries
               /\ entries'[k].expires <= entries'[k].answer.storedAt + TTL
    BY <1>6, <2>5 DEF a, IInv, EntriesFit
  <2> QED BY <2>4, <2>6 DEF EntriesFit
<1>11. KeysFit'
  BY <1>1, <1>3, <1>4 DEF IInv, KeysFit
<1>12. Contemporaries'
  <2>1. ASSUME NEW y \in Executions, HasKey(y)', NEW k \in DOMAIN entries',
               k.conn = job'[y].conn, k.gen = job'[y].key.gen
        PROVE  entries'[k].answer.keyedAt = job'[y].keyedAt
    <3>1. y # x /\ HasKey(y) /\ job'[y] = job[y]
      BY <1>3, <1>4, <2>1
    <3>2. CASE k \in DOMAIN entries /\ entries'[k] = entries[k]
      BY <3>1, <3>2, <2>1 DEF IInv, Contemporaries
    <3>3. CASE HasKey(x) /\ k = j.key /\ entries'[k].answer = a
      <4>1. j.key.conn = j.conn
        BY <3>3 DEF IInv, KeysFit
      <4>2. job[y].keyedAt = j.keyedAt
        BY <3>1, <3>3, <2>1, <4>1 DEF IInv, Contemporaries
      <4> QED BY <3>1, <3>3, <4>2, <1>7
    <3> QED BY <3>2, <3>3, <1>6 DEF a
  <2>2. ASSUME NEW y \in Executions, HasKey(y)', NEW z \in Executions, HasKey(z)',
               job'[z].conn = job'[y].conn, job'[z].key.gen = job'[y].key.gen
        PROVE  job'[z].keyedAt = job'[y].keyedAt
    BY <2>2, <1>3, <1>4 DEF IInv, Contemporaries
  <2> QED BY <2>1, <2>2 DEF Contemporaries
<1>13. HitsFit'
  BY <1>3 DEF IInv, HitsFit
<1> QED BY <1>6, <1>9, <1>10, <1>11, <1>12, <1>13 DEF IInv

LEMMA DonePreserves ==
  ASSUME IInv, NEW x \in Executions, Done(x)
  PROVE  IInv'
<1>1. /\ Become(x, "idle", NoJob)
      /\ UNCHANGED <<entries, order, bytes, generation, version, unpublished,
                     announced, now>>
  BY DEF Done, cacheVars, editVars
<1>2. /\ pc'[x] = "idle" /\ DOMAIN job' = Executions
      /\ \A y \in Executions \ {x} : pc'[y] = pc[y] /\ job'[y] = job[y]
  BY <1>1, OthersStay DEF IInv
<1>3. \A y \in Executions : HasKey(y)' => y # x /\ HasKey(y)
  BY <1>2 DEF HasKey
<1>4. Shapes'
  BY <1>1, <1>2 DEF IInv, Shapes, Become
<1>5. ListIsTheMap' /\ EntriesFit'
  BY <1>1 DEF IInv, ListIsTheMap, EntriesFit
<1>6. KeysFit'
  BY <1>1, <1>2, <1>3 DEF IInv, KeysFit
<1>7. Contemporaries'
  BY <1>1, <1>2, <1>3 DEF IInv, Contemporaries
<1>8. HitsFit'
  BY <1>2 DEF IInv, HitsFit
<1> QED BY <1>4, <1>5, <1>6, <1>7, <1>8 DEF IInv

(* Edits before they are announced, the clock and stuttering touch neither  *)
(* the cache nor an execution.                                              *)
LEMMA ElsewherePreserves ==
  ASSUME IInv,
         \/ \E c \in Conns : Edit(c) \/ EditElsewhere(c)
         \/ Tick
         \/ UNCHANGED vars
  PROVE  IInv'
<1>1. UNCHANGED <<entries, order, generation, announced, pc, job>>
  BY DEF Edit, EditElsewhere, Tick, cacheVars, editVars, vars
<1>2. /\ version' \in [Conns -> Nat]
      /\ unpublished' \in [Conns -> SUBSET Nat]
      /\ now' \in Nat
  <2>1. ASSUME NEW c \in Conns, Edit(c) \/ EditElsewhere(c)
        PROVE  /\ version' \in [Conns -> Nat]
               /\ unpublished' \in [Conns -> SUBSET Nat]
               /\ now' \in Nat
    <3>1. version[c] \in Nat
      BY DEF IInv, Shapes
    <3>2. version' = [version EXCEPT ![c] = @ + 1] /\ now' = now
      BY <2>1 DEF Edit, EditElsewhere
    <3>3. \/ unpublished' = unpublished
          \/ unpublished' = [unpublished EXCEPT ![c] = @ \cup {version[c] + 1}]
      BY <2>1 DEF Edit, EditElsewhere
    <3>4. version' \in [Conns -> Nat] /\ now' \in Nat
      BY <3>1, <3>2 DEF IInv, Shapes
    <3>5. unpublished' \in [Conns -> SUBSET Nat]
      <4>1. unpublished[c] \cup {version[c] + 1} \in SUBSET Nat
        BY <3>1 DEF IInv, Shapes
      <4> QED BY <4>1, <3>3 DEF IInv, Shapes
    <3> QED BY <3>4, <3>5
  <2>2. CASE Tick
    BY <2>2 DEF Tick, editVars, IInv, Shapes
  <2>3. CASE UNCHANGED vars
    BY <2>3 DEF vars, IInv, Shapes
  <2> QED BY <2>1, <2>2, <2>3
<1>3. Shapes'
  BY <1>1, <1>2 DEF IInv, Shapes
<1> QED BY <1>1, <1>3 DEF IInv, ListIsTheMap, EntriesFit, KeysFit, Contemporaries,
                          HitsFit, HasKey

(* An announcement opens a generation nothing has been filed under.         *)
LEMMA PublishPreserves ==
  ASSUME IInv, NEW c \in Conns, Publish(c)
  PROVE  IInv'
<1>1. PICK v \in unpublished[c] :
        /\ unpublished' = [unpublished EXCEPT ![c] = @ \ {v}]
        /\ announced' = [announced EXCEPT ![c] = Max({announced[c], v})]
        /\ generation' = [generation EXCEPT ![c] = @ + 1]
        /\ UNCHANGED <<entries, order, bytes, version, now, pc, job>>
  BY DEF Publish, cacheVars
<1>2. v \in Nat /\ announced[c] \in Nat
  BY DEF IInv, Shapes
<1>3. Max({announced[c], v}) \in Nat /\ Max({announced[c], v}) >= announced[c]
  BY <1>2, MaxOfTwo
<1> DEFINE top == Max({announced[c], v})
<1> HIDE DEF top
<1>4. /\ announced' \in [Conns -> Nat]
      /\ generation' \in [Conns -> Nat]
      /\ unpublished' \in [Conns -> SUBSET Nat]
  BY <1>1, <1>3 DEF IInv, Shapes, top
<1>5. \A d \in Conns :
        /\ announced'[d] >= announced[d]
        /\ generation'[d] >= generation[d]
        /\ d # c => announced'[d] = announced[d] /\ generation'[d] = generation[d]
        /\ d = c => generation'[d] > generation[d]
  BY <1>1, <1>3 DEF IInv, Shapes, top
<1>6. Shapes'
  BY <1>1, <1>4 DEF IInv, Shapes
<1>7. ListIsTheMap' /\ HitsFit' /\ Contemporaries'
  BY <1>1 DEF IInv, ListIsTheMap, HitsFit, Contemporaries, HasKey
<1>8. EntriesFit'
  <2>1. ASSUME NEW k \in DOMAIN entries
        PROVE  /\ k.gen <= generation'[k.conn]
               /\ k.gen = generation'[k.conn]
                    => entries[k].answer.keyedAt = announced'[k.conn]
    <3>1. k \in Keys
      BY DEF IInv, Shapes, ListIsTheMap, Range
    <3>2. k.conn \in Conns /\ k.gen \in Nat
      BY <3>1 DEF Keys
    <3>3. generation[k.conn] \in Nat /\ generation'[k.conn] \in Nat
      BY <3>2, <1>4 DEF IInv, Shapes
    <3> QED BY <3>2, <3>3, <1>5 DEF IInv, EntriesFit
  <2> QED BY <1>1, <2>1 DEF IInv, EntriesFit
<1>9. KeysFit'
  <2>1. ASSUME NEW x \in Executions, pc[x] = "planned"
        PROVE  job[x].informed <= announced'[job[x].conn]
    <3>1. job[x].conn \in Conns /\ job[x].informed \in Nat
      BY <2>1 DEF IInv, Shapes, Planned
    <3>2. announced[job[x].conn] \in Nat /\ announced'[job[x].conn] \in Nat
      BY <3>1, <1>4 DEF IInv, Shapes
    <3> QED BY <2>1, <3>1, <3>2, <1>5 DEF IInv, KeysFit
  <2>2. ASSUME NEW x \in Executions, HasKey(x)
        PROVE  /\ job[x].key.gen <= generation'[job[x].conn]
               /\ job[x].key.gen = generation'[job[x].conn]
                    => job[x].keyedAt = announced'[job[x].conn]
    <3>1. job[x].conn \in Conns /\ job[x].key \in Keys
      BY <2>2 DEF HasKey, IInv, Shapes, WithKey
    <3>2. job[x].key.gen \in Nat
      BY <3>1 DEF Keys
    <3>3. generation[job[x].conn] \in Nat /\ generation'[job[x].conn] \in Nat
      BY <3>1, <1>4 DEF IInv, Shapes
    <3> QED BY <2>2, <3>1, <3>2, <3>3, <1>5 DEF IInv, KeysFit
  <2>3. \A x \in Executions : HasKey(x)' <=> HasKey(x)
    BY <1>1 DEF HasKey
  <2> QED BY <1>1, <2>1, <2>2, <2>3 DEF IInv, KeysFit
<1> QED BY <1>6, <1>7, <1>8, <1>9 DEF IInv

-----------------------------------------------------------------------------
(* The invariant, and what follows from it.                                 *)

(* The inductive invariant of a cache that is shared, edited under and full.*)
THEOREM Inductive == Spec => []IInv
<1>1. Init => IInv
  <2> SUFFICES ASSUME Init PROVE IInv
    OBVIOUS
  <2>1. order \in Seq(Keys) /\ Range(order) = {} /\ DOMAIN entries = {}
    BY DEF Init, Range
  <2>2. Shapes
    BY <2>1 DEF Init, Shapes
  <2>3. ListIsTheMap
    BY <2>1 DEF Init, ListIsTheMap
  <2> QED BY <2>1, <2>2, <2>3 DEF Init, IInv, EntriesFit, KeysFit, Contemporaries,
                                  HitsFit, HasKey
<1>2. IInv /\ [Next]_vars => IInv'
  <2> SUFFICES ASSUME IInv, [Next]_vars PROVE IInv'
    OBVIOUS
  <2>1. ASSUME NEW x \in Executions, Plan(x) PROVE IInv'
    BY <2>1, PlanPreserves
  <2>2. ASSUME NEW x \in Executions, MakeKey(x) \/ Unkeyed(x) PROVE IInv'
    BY <2>2, MakeKeyPreserves, UnkeyedPreserves
  <2>3. ASSUME NEW x \in Executions, Hit(x) PROVE IInv'
    BY <2>3, HitPreserves
  <2>4. ASSUME NEW x \in Executions, Miss(x) \/ Expire(x) PROVE IInv'
    BY <2>4, MissingPreserves
  <2>5. ASSUME NEW x \in Executions, Finish(x) PROVE IInv'
    BY <2>5, FinishPreserves
  <2>6. ASSUME NEW x \in Executions, Done(x) PROVE IInv'
    BY <2>6, DonePreserves
  <2>7. ASSUME NEW c \in Conns, Publish(c) PROVE IInv'
    BY <2>7, PublishPreserves
  <2>8. CASE \/ \E c \in Conns : Edit(c) \/ EditElsewhere(c)
             \/ Tick
             \/ UNCHANGED vars
    BY <2>8, ElsewherePreserves
  <2> QED BY <2>1, <2>2, <2>3, <2>4, <2>5, <2>6, <2>7, <2>8 DEF Next
<1> QED BY <1>1, <1>2, PTL DEF Spec

(* What the statements that touch the cache do to the total.                *)
LEMMA TheTotalIsKept ==
  ASSUME IInv, BytesAddUp, [Next]_vars
  PROVE  BytesAddUp'
<1>1. Balanced
  BY DEF IInv, Shapes, Balanced
<1>2. CASE UNCHANGED cacheVars
  BY <1>2 DEF cacheVars, BytesAddUp, Weight
<1>3. ASSUME NEW x \in Executions, Hit(x)
      PROVE  BytesAddUp'
  <2> DEFINE k == job[x].key
  <2>1. k \in DOMAIN entries /\ order' = <<k>> \o Without(k)
        /\ entries' = entries /\ bytes' = bytes
    BY <1>3 DEF Hit, Present
  <2> HIDE DEF k
  <2> QED BY <1>1, <2>1, MoveToFrontAddsUp
<1>4. ASSUME NEW x \in Executions, Expire(x)
      PROVE  BytesAddUp'
  <2>1. job[x].key \in DOMAIN entries /\ Remove(job[x].key)
    BY <1>4 DEF Expire, Present
  <2> QED BY <1>1, <2>1, RemoveAddsUp
<1>5. ASSUME NEW x \in Executions, Finish(x)
      PROVE  BytesAddUp'
  <2>1. job[x].key \in Keys
    <3>1. job[x] \in WithKey
      BY <1>5 DEF Finish, IInv, Shapes
    <3> QED BY <3>1 DEF WithKey
  <2>2. ASSUME NEW size \in Sizes, Storable(size),
               Put(job[x].key, [bytes |-> size, expires |-> now + TTL,
                                answer |-> AnswerOf(x, TRUE)])
        PROVE  BytesAddUp'
    <3> DEFINE e == [bytes |-> size, expires |-> now + TTL, answer |-> AnswerOf(x, TRUE)]
    <3>1. e.bytes \in Nat /\ e.bytes <= MaxBytes /\ Put(job[x].key, e)
      BY <2>2, CacheAssumption DEF Storable
    <3> HIDE DEF e
    <3> QED BY <1>1, <2>1, <3>1, PutAddsUp
  <2> QED BY <1>2, <1>5, <2>2 DEF Finish
<1> QED BY <1>2, <1>3, <1>4, <1>5 DEF Next, vars, cacheVars, Plan, MakeKey, Unkeyed, Miss,
                                      Done, Edit, EditElsewhere, Publish, Tick

(* The list, the map and the total, which Get, Put and removeLocked keep by *)
(* separate statements: list and map hold the same keys, each once, and the *)
(* total is what their entries add up to and within the limit of the cache, *)
(* for any sizes and any limits.                                            *)
THEOREM TheBooksAgree == Spec => []BookkeepingAgrees
<1>1. Init => BytesAddUp
  <2> SUFFICES ASSUME Init PROVE BytesAddUp
    OBVIOUS
  <2>1. order = << >> /\ bytes = 0
    BY DEF Init
  <2>2. Bulk(order, entries) = 0
    BY <2>1, BulkOfNone
  <2> QED BY <2>1, <2>2, CacheAssumption DEF BytesAddUp, Weight, Bulk
<1>2. IInv /\ BytesAddUp /\ [Next]_vars => BytesAddUp'
  BY TheTotalIsKept
<1>3. IInv /\ BytesAddUp => BookkeepingAgrees
  BY DEF IInv, BookkeepingAgrees
<1> QED BY <1>1, <1>2, <1>3, Inductive, PTL DEF Spec

(* Every variable keeps its type.                                           *)
THEOREM TypeCorrect == Spec => []TypeOK
<1>1. ASSUME IInv PROVE TypeOK
  <2>1. DOMAIN entries \subseteq Keys
    BY <1>1 DEF IInv, Shapes, ListIsTheMap, Range
  <2>2. \A k \in DOMAIN entries : entries[k] \in Entries
    BY <1>1 DEF IInv, EntriesFit
  <2>3. \A x \in Executions : job[x] \in Jobs
    BY <1>1 DEF IInv, Shapes, Jobs, Planned, WithKey, BeingHit
  <2> QED BY <1>1, <2>1, <2>2, <2>3 DEF IInv, Shapes, TypeOK
<1> QED BY <1>1, Inductive, PTL

(* Nobody is answered with what another policy set, connection or question  *)
(* produced, with part of a result, or with one past its time to live.      *)
THEOREM SoundAnswers == Spec => []AnswersAreSound
<1>1. IInv => AnswersAreSound
  BY DEF IInv, HitsFit, AnswersAreSound, SameAudience, WholeResultsOnly,
         TrustIsBounded, Being
<1> QED BY <1>1, Inductive, PTL

(* Nothing keyed before an announced edit is served to an execution that    *)
(* was planned after the announcement.                                      *)
THEOREM AnnouncementsHide == Spec => []AnnouncedEditsHide
<1>1. IInv => AnnouncedEditsHide
  BY DEF IInv, HitsFit, AnnouncedEditsHide, Being
<1> QED BY <1>1, Inductive, PTL

(* A stale answer was stored by an execution that straddled the             *)
(* announcement of the edit.                                                *)
THEOREM StalenessNeedsAStraddler == Spec => []OnlyStraddlersAreStale
<1>1. IInv => OnlyStraddlersAreStale
  <2> SUFFICES ASSUME IInv, NEW x \in Executions, Being(x),
                      job[x].answer.version < job[x].informed
               PROVE  job[x].answer.version < job[x].answer.keyedAt
    BY DEF OnlyStraddlersAreStale
  <2>1. job[x] \in BeingHit /\ job[x].answer.keyedAt >= job[x].informed
    BY DEF IInv, Shapes, HitsFit, Being
  <2>2. /\ job[x].answer.version \in Nat /\ job[x].answer.keyedAt \in Nat
        /\ job[x].informed \in Nat
    BY <2>1 DEF BeingHit, Answers
  <2> QED BY <2>1, <2>2
<1> QED BY <1>1, Inductive, PTL
==============================================================================
