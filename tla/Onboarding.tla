------------------------------ MODULE Onboarding ------------------------------
(***************************************************************************)
(* How organizations and accounts come to be: the claiming of an instance  *)
(* and the first-user rule (internal/setup/setup.go), pivot admin          *)
(* create-user (internal/cli/admin.go), and single sign-on, which finds,   *)
(* links or creates an account and brings its address, attributes and      *)
(* groups up to date (Provision of internal/oidc/provision.go).            *)
(*                                                                         *)
(* Every call is a sequence of statements, each atomic, and calls          *)
(* interleave between them.  What the provider says, and whether it lets   *)
(* accounts be linked by address or made, is a choice of each sign-on.  A  *)
(* claimed group that does not exist here is left out: it is reported and  *)
(* changes nothing.                                                        *)
(***************************************************************************)
EXTENDS Integers, FiniteSets

CONSTANTS
  Requests, Servers,         \* a request is a call of one of the three kinds
  ServerOf,                  \* [Requests -> Servers], of setup requests and sign-ons
  Orgs,                      \* by their slugs
  Home,                      \* the organization whose identity provider it is
  Accounts, NoAccount,       \* each account is made once
  Emails, NoEmail,
  Subjects, NoSubject,       \* who the provider says has signed on
  Groups, Attributes,        \* the groups there are; names of attributes
  DefaultRole,               \* of accounts made by single sign-on
  MaxVersion                 \* bound on changes of an account's address

ASSUME OnboardingAssumption ==
  /\ ServerOf \in [Requests -> Servers]
  /\ Home \in Orgs
  /\ NoAccount \notin Accounts /\ NoEmail \notin Emails /\ NoSubject \notin Subjects
  /\ Groups \cap Attributes = {}
  /\ DefaultRole \in {"none", "member", "admin"}
  /\ MaxVersion \in Nat

VARIABLES
  orgs, accounts, link,      \* the tables
  stage, job,                \* of the calls
  claims,                    \* who has claimed what: <<server, organization>>
  settled,                   \* the latest sign-on, if it ran alone and is over
  headless,                  \* organizations whose first user, or its grant, failed
  stranded,                  \* accounts a sign-on made and could not finish
  stumbled                   \* a sign-on failed though it ran alone

history == <<claims, settled, headless, stranded, stumbled>>
onboarding == <<orgs, accounts, link, stage, job, history>>

Account == [org : Orgs, email : Emails, version : 0 .. MaxVersion,
            role : {"none", "member", "admin"}, made : {"call", "sign-on"},
            groups : SUBSET Groups, attributes : SUBSET Attributes]

\* email, groups and attributes: what was asked for, or claimed.  first: no user was
\* counted.  version: the account as read.  left: the attributes, and later the
\* memberships, that are still to be written.  crossed: another sign-on has
\* run beside this one.
Job == [kind : {"none", "setup", "command", "sign-on"},
        org : Orgs, email : Emails \cup {NoEmail}, first : BOOLEAN,
        account : Accounts \cup {NoAccount}, subject : Subjects \cup {NoSubject},
        version : 0 .. MaxVersion, groups : SUBSET Groups, attributes : SUBSET Attributes,
        left : SUBSET (Groups \cup Attributes), crossed : BOOLEAN]
NoJob == [kind |-> "none", org |-> Home, email |-> NoEmail, first |-> FALSE,
          account |-> NoAccount, subject |-> NoSubject, version |-> 0,
          groups |-> {}, attributes |-> {}, left |-> {}, crossed |-> FALSE]

Stages == {"idle", "claiming", "counting", "creating", "making admin",
          "looking up", "loading", "address", "matching", "provisioning", "linking",
          "linking new", "granting", "clearing", "setting", "grouping"}
Syncing == {"clearing", "setting", "grouping"}
MakingFirst == {"counting", "creating", "making admin"}

NotSettled == [account |-> NoAccount, groups |-> {}, attributes |-> {}]

OnboardingInit ==
  /\ orgs = {}
  /\ accounts = [a \in {} |-> 0]
  /\ link = [s \in {} |-> 0]
  /\ stage = [c \in Requests |-> "idle"]
  /\ job = [c \in Requests |-> NoJob]
  /\ claims = {} /\ settled = NotSettled
  /\ headless = {} /\ stranded = {} /\ stumbled = FALSE

Advance(c, from, to) == stage[c] = from /\ stage' = [stage EXCEPT ![c] = to]
Ends(c, from) ==
  /\ Advance(c, from, "idle")
  /\ job' = [job EXCEPT ![c] = NoJob]

Made == DOMAIN accounts
Members(o) == {a \in Made : accounts[a].org = o}
Taken(o, e) == \E a \in Members(o) : accounts[a].email = e

\* Users.Create: a new row, unless the address is taken.
NewAccount(a, o, e, how) ==
  accounts' = [x \in Made \cup {a} |->
    IF x = a THEN [org |-> o, email |-> e, version |-> 0, role |-> "none", made |-> how,
                   groups |-> {}, attributes |-> {}]
             ELSE accounts[x]]

\* Roles.Grant: a role is added to those there are; only the strongest is kept.
Promoted(a, role) ==
  [accounts EXCEPT ![a].role = IF @ = "admin" \/ role = "none" THEN @ ELSE role]

-----------------------------------------------------------------------------
(* Claiming an instance, and create-user.                                   *)

\* Status: whether there is an organization.
Initialized == orgs # {}

\* Mutant: the lock is not held over the check and the writes.
Initialize_Unlocked(c) ==
  /\ ~Initialized
  /\ Advance(c, "idle", "claiming")
  /\ \E e \in Emails :
       job' = [job EXCEPT ![c] = [NoJob EXCEPT !.kind = "setup", !.email = e]]
  /\ UNCHANGED <<orgs, accounts, link, history>>
\* The mutex of the process, and Status.  A refusal writes nothing.
Initialize(c) ==
  /\ \A d \in Requests : job[d].kind = "setup" => ServerOf[d] # ServerOf[c]
  /\ ~Initialized
  /\ Advance(c, "idle", "claiming")
  /\ \E e \in Emails :
       job' = [job EXCEPT ![c] = [NoJob EXCEPT !.kind = "setup", !.email = e]]
  /\ UNCHANGED <<orgs, accounts, link, history>>

\* The slug may be taken by now.
CreateOrganization(c, o) ==
  /\ IF o \in orgs THEN Ends(c, "claiming") /\ UNCHANGED <<orgs, claims>>
     ELSE /\ Advance(c, "claiming", "counting")
          /\ job' = [job EXCEPT ![c].org = o]
          /\ orgs' = orgs \cup {o}
          /\ claims' = claims \cup {<<ServerOf[c], o>>}
  /\ UNCHANGED <<accounts, link, settled, headless, stranded, stumbled>>

\* create-user, in an organization there is or one that --create-org makes.
CreateUserCommand(c, o, e) ==
  /\ Advance(c, "idle", "counting")
  /\ \/ o \in orgs /\ UNCHANGED orgs
     \/ o \notin orgs /\ orgs' = orgs \cup {o}
  /\ job' = [job EXCEPT ![c] = [NoJob EXCEPT !.kind = "command", !.org = o, !.email = e]]
  /\ UNCHANGED <<accounts, link, history>>

\* Whether this is the first user is decided before the user is created.
CountUsers(c) ==
  LET o == job[c].org IN
  /\ Advance(c, "counting", "creating")
  /\ job' = [job EXCEPT ![c].first = (Members(o) = {})]
  /\ headless' = IF Members(o) = {} THEN headless \ {o} ELSE headless
  /\ UNCHANGED <<orgs, accounts, link, claims, settled, stranded, stumbled>>

\* Mutant: the user is counted after it was created.
CreateUser_CountsItself(c) ==
  /\ ~Taken(job[c].org, job[c].email)
  /\ \E a \in Accounts \ Made : NewAccount(a, job[c].org, job[c].email, "call")
  /\ Ends(c, "creating")
  /\ UNCHANGED <<orgs, link, history>>
CreateUser(c) ==
  /\ IF Taken(job[c].org, job[c].email)
     THEN Ends(c, "creating") /\ UNCHANGED accounts
     ELSE \E a \in Accounts \ Made :
            /\ NewAccount(a, job[c].org, job[c].email, "call")
            /\ IF job[c].first
               THEN /\ Advance(c, "creating", "making admin")
                    /\ job' = [job EXCEPT ![c].account = a]
               ELSE Ends(c, "creating")
  /\ UNCHANGED <<orgs, link, history>>

MakeAdmin(c) ==
  /\ Ends(c, "making admin")
  /\ accounts' = Promoted(job[c].account, "admin")
  /\ UNCHANGED <<orgs, link, history>>

-----------------------------------------------------------------------------
(* Single sign-on: who it is.                                               *)

SigningOn == {c \in Requests : job[c].kind = "sign-on"}

\* The identity the provider vouches for.  The groups and attributes of it are
\* chosen where they are first looked at.
SignOn(c, s) ==
  /\ Home \in orgs
  /\ Advance(c, "idle", "looking up")
  /\ \E e \in Emails \cup {NoEmail} :
       job' = [d \in Requests |->
         IF d = c THEN [NoJob EXCEPT !.kind = "sign-on", !.subject = s, !.email = e,
                                     !.crossed = SigningOn # {}]
         ELSE IF d \in SigningOn THEN [job[d] EXCEPT !.crossed = TRUE] ELSE job[d]]
  /\ settled' = NotSettled
  /\ UNCHANGED <<orgs, accounts, link, claims, headless, stranded, stumbled>>

\* An unknown subject goes on to the address if the provider links by it (and
\* the address is verified), else to provisioning if the provider provisions.
FindFederatedIdentity(c) ==
  LET s == job[c].subject IN
  /\ IF s \in DOMAIN link
     THEN /\ Advance(c, "looking up", "loading")
          /\ job' = [job EXCEPT ![c].account = link[s]]
     ELSE \/ /\ job[c].email # NoEmail
             /\ Advance(c, "looking up", "matching") /\ UNCHANGED job
          \/ Advance(c, "looking up", "provisioning") /\ UNCHANGED job
          \/ Ends(c, "looking up")
  /\ UNCHANGED <<orgs, accounts, link, history>>

\* Mutant: an address that is missing is taken for a change.
LoadUser_NoAddress(c) ==
  LET a == accounts[job[c].account] IN
  /\ Advance(c, "loading", IF job[c].email = a.email THEN "clearing" ELSE "address")
  /\ job' = [job EXCEPT ![c].version = a.version]
  /\ UNCHANGED <<orgs, accounts, link, history>>
\* Users.Get of a linked account, and RecordFederatedLogin, whose failure is
\* only logged.
LoadUser(c) ==
  LET a == accounts[job[c].account] IN
  /\ Advance(c, "loading", IF job[c].email \in {NoEmail, a.email} THEN "clearing" ELSE "address")
  /\ job' = [job EXCEPT ![c].version = a.version]
  /\ UNCHANGED <<orgs, accounts, link, history>>

\* The sign-on fails, by what another call has done.
Collide(c, from) ==
  /\ Ends(c, from)
  /\ stumbled' = (stumbled \/ ~job[c].crossed)
  /\ UNCHANGED <<orgs, accounts, link, claims, settled, headless>>

\* syncEmail.  An address that is taken is left alone; a row that has changed
\* since it was read fails the login.
SyncEmail(c) ==
  LET a == job[c].account IN
  /\ stage[c] = "address"
  /\ \/ /\ accounts[a].version # job[c].version
        /\ Collide(c, "address") /\ UNCHANGED stranded
     \/ /\ accounts[a].version = job[c].version
        /\ Advance(c, "address", "clearing")
        /\ IF Taken(Home, job[c].email) THEN UNCHANGED accounts
           ELSE /\ accounts[a].version < MaxVersion
                /\ accounts' = [accounts EXCEPT ![a].email = job[c].email,
                                               ![a].version = @ + 1]
        /\ UNCHANGED <<orgs, link, job, history>>

\* GetByEmail.
MatchEmail(c) ==
  /\ \/ \E a \in Members(Home) :
          /\ accounts[a].email = job[c].email
          /\ Advance(c, "matching", "linking")
          /\ job' = [job EXCEPT ![c].account = a]
     \/ /\ ~Taken(Home, job[c].email)
        /\ \/ Advance(c, "matching", "provisioning") /\ UNCHANGED job
           \/ Ends(c, "matching")
  /\ UNCHANGED <<orgs, accounts, link, history>>

\* An address is needed, and a free one.
Provision(c) ==
  /\ IF job[c].email = NoEmail \/ Taken(Home, job[c].email)
     THEN Ends(c, "provisioning") /\ UNCHANGED <<accounts, headless>>
     ELSE \E a \in Accounts \ Made :
            /\ NewAccount(a, Home, job[c].email, "sign-on")
            /\ Advance(c, "provisioning", "linking new")
            /\ job' = [job EXCEPT ![c].account = a]
            /\ headless' = IF Members(Home) = {} THEN headless \cup {Home} ELSE headless
  /\ UNCHANGED <<orgs, link, claims, settled, stranded, stumbled>>

\* Mutant: a link that is there is replaced.
LinkFederatedIdentity_Replaces(c, from, to) ==
  LET s == job[c].subject IN
  /\ Advance(c, from, to)
  /\ link' = [x \in DOMAIN link \cup {s} |-> IF x = s THEN job[c].account ELSE link[x]]
  /\ UNCHANGED <<orgs, accounts, job, history>>
\* One link for each subject: the second of two first sign-ons fails, and what
\* it made stays.
LinkFederatedIdentity(c, from, to) ==
  LET s == job[c].subject IN
  IF s \in DOMAIN link
  THEN /\ Collide(c, from)
       /\ stranded' = IF from = "linking new" /\ job[c].crossed
                      THEN stranded \cup {job[c].account} ELSE stranded
  ELSE /\ Advance(c, from, to)
       /\ link' = [x \in DOMAIN link \cup {s} |-> IF x = s THEN job[c].account ELSE link[x]]
       /\ UNCHANGED <<orgs, accounts, job, history>>

\* Mutant: the default role is left out.
LinkNew_NoRole(c) == LinkFederatedIdentity(c, "linking new", "clearing")
LinkExisting(c) == LinkFederatedIdentity(c, "linking", "clearing")
LinkNew(c) == LinkFederatedIdentity(c, "linking new", "granting")

GrantDefaultRole(c) ==
  /\ Advance(c, "granting", "clearing")
  /\ accounts' = Promoted(job[c].account, DefaultRole)
  /\ UNCHANGED <<orgs, link, job, history>>

-----------------------------------------------------------------------------
(* Single sign-on: what the provider says of them.                          *)

\* Mutant: the attributes of earlier sign-ons are left.
ClearAttributes_Keeps(c) ==
  /\ Advance(c, "clearing", "setting")
  /\ \E K \in SUBSET Attributes : job' = [job EXCEPT ![c].attributes = K, ![c].left = K]
  /\ UNCHANGED <<orgs, accounts, link, history>>
\* syncAttributes: all that single sign-on wrote goes, then each is set.
ClearAttributes(c) ==
  /\ Advance(c, "clearing", "setting")
  /\ \E K \in SUBSET Attributes : job' = [job EXCEPT ![c].attributes = K, ![c].left = K]
  /\ accounts' = [accounts EXCEPT ![job[c].account].attributes = {}]
  /\ UNCHANGED <<orgs, link, history>>

SetAttribute(c, k) ==
  /\ stage[c] = "setting" /\ k \in job[c].left
  /\ job' = [job EXCEPT ![c].left = @ \ {k}]
  /\ accounts' = [accounts EXCEPT ![job[c].account].attributes = @ \cup {k}]
  /\ UNCHANGED <<orgs, link, stage, history>>

\* Mutant: every group that is not claimed is left, held or not.
ListGroups_All(c) ==
  LET have == accounts[job[c].account].groups IN
  /\ job[c].left = {}
  /\ Advance(c, "setting", "grouping")
  /\ \E G \in SUBSET Groups :
       job' = [job EXCEPT ![c].groups = G, ![c].left = (G \ have) \cup (Groups \ G)]
  /\ UNCHANGED <<orgs, accounts, link, history>>
\* ListForUser: what is claimed and not held is to be added, what is held and
\* not claimed to be removed.
ListGroups(c) ==
  LET have == accounts[job[c].account].groups IN
  /\ job[c].left = {}
  /\ Advance(c, "setting", "grouping")
  /\ \E G \in SUBSET Groups :
       job' = [job EXCEPT ![c].groups = G, ![c].left = (G \ have) \cup (have \ G)]
  /\ UNCHANGED <<orgs, accounts, link, history>>

\* AddMember takes no notice of a membership that is there already.
AddMember(c, g) ==
  /\ stage[c] = "grouping" /\ g \in job[c].left \cap job[c].groups
  /\ job' = [job EXCEPT ![c].left = @ \ {g}]
  /\ accounts' = [accounts EXCEPT ![job[c].account].groups = @ \cup {g}]
  /\ UNCHANGED <<orgs, link, stage, history>>

\* Additions come first.  A membership that has gone fails the login.
RemoveMember(c, g) ==
  LET a == job[c].account IN
  /\ stage[c] = "grouping" /\ g \in job[c].left
  /\ job[c].left \cap job[c].groups = {}
  /\ \/ /\ g \notin accounts[a].groups
        /\ Collide(c, "grouping") /\ UNCHANGED stranded
     \/ /\ g \in accounts[a].groups
        /\ job' = [job EXCEPT ![c].left = @ \ {g}]
        /\ accounts' = [accounts EXCEPT ![a].groups = @ \ {g}]
        /\ UNCHANGED <<orgs, link, stage, history>>

\* The session that follows is a step of Sessions.
SignedOn(c) ==
  /\ job[c].left = {}
  /\ Ends(c, "grouping")
  /\ settled' = IF job[c].crossed THEN NotSettled
                ELSE [account |-> job[c].account, groups |-> job[c].groups,
                      attributes |-> job[c].attributes]
  /\ UNCHANGED <<orgs, accounts, link, claims, headless, stranded, stumbled>>

-----------------------------------------------------------------------------
\* A statement fails, or the process dies.
Abort(c) ==
  LET a == job[c].account IN
  /\ stage[c] # "idle"
  /\ Ends(c, stage[c])
  /\ headless' = IF stage[c] \in MakingFirst THEN headless \cup {job[c].org} ELSE headless
  /\ stranded' = IF stage[c] \in {"linking new", "granting"} THEN stranded \cup {a} ELSE stranded
  /\ UNCHANGED <<orgs, accounts, link, claims, settled, stumbled>>

OnboardingNext ==
  \E c \in Requests :
    \/ Initialize(c)
    \/ \E o \in Orgs : CreateOrganization(c, o) \/ \E e \in Emails : CreateUserCommand(c, o, e)
    \/ CountUsers(c) \/ CreateUser(c) \/ MakeAdmin(c)
    \/ \E s \in Subjects : SignOn(c, s)
    \/ FindFederatedIdentity(c) \/ LoadUser(c) \/ SyncEmail(c) \/ MatchEmail(c)
    \/ Provision(c) \/ LinkExisting(c) \/ LinkNew(c) \/ GrantDefaultRole(c)
    \/ ClearAttributes(c) \/ \E k \in Attributes : SetAttribute(c, k)
    \/ ListGroups(c) \/ \E g \in Groups : AddMember(c, g) \/ RemoveMember(c, g)
    \/ SignedOn(c)
    \/ Abort(c)

OnboardingSpec == OnboardingInit /\ [][OnboardingNext]_onboarding

-----------------------------------------------------------------------------
(* Properties.                                                              *)

OnboardingTypeOK ==
  /\ orgs \subseteq Orgs
  /\ Made \subseteq Accounts /\ \A a \in Made : accounts[a] \in Account
  /\ DOMAIN link \subseteq Subjects /\ \A s \in DOMAIN link : link[s] \in Made
  /\ stage \in [Requests -> Stages]
  /\ job \in [Requests -> Job]
  /\ claims \subseteq Servers \X Orgs
  /\ settled.account \in Made \cup {NoAccount}
  /\ settled.groups \subseteq Groups /\ settled.attributes \subseteq Attributes
  /\ headless \subseteq Orgs /\ stranded \subseteq Made
  /\ stumbled \in BOOLEAN

\* However many setup forms are posted at once, one server claims the instance
\* once, whichever of the forms fails and wherever.
ClaimedOnce ==
  \A p \in Servers, o1, o2 \in Orgs : {<<p, o1>>, <<p, o2>>} \subseteq claims => o1 = o2

\* Every organization has an administrator, or a call is about to make one,
\* unless the call that made its first user failed on the way (and nobody has
\* tried again while it has no users), or single sign-on made the first user:
\* then the first-user rule finds none to make.
SomebodyAdministers ==
  \A o \in orgs :
    \/ \E a \in Members(o) : accounts[a].role = "admin"
    \/ o \in headless
    \/ \E c \in Requests : stage[c] \in MakingFirst /\ job[c].org = o

\* A sign-on writes to the account that its subject is linked to and to no
\* other, also when two first sign-ons of one subject have both found no link
\* and taken different ways.
SignsOnAsItself ==
  \A c \in Requests :
    stage[c] \in Syncing \cup {"loading", "address", "granting"} =>
      /\ job[c].subject \in DOMAIN link
      /\ link[job[c].subject] = job[c].account

\* An account that single sign-on made has a subject and the default role:
\* otherwise a sign-on is at it, or one failed there, or two first sign-ons of
\* one subject crossed each other.
NobodyIsStranded ==
  \A a \in Made : accounts[a].made = "sign-on" =>
    \/ /\ \E s \in DOMAIN link : link[s] = a
       /\ DefaultRole # "none" => accounts[a].role # "none"
    \/ a \in stranded
    \/ \E c \in Requests : stage[c] \in {"linking new", "granting"} /\ job[c].account = a

\* What the statements of a call leave behind when calls cross or fail between
\* them: an organization with its administrator, accounts with their roles.
NobodyIsForgotten == SomebodyAdministers /\ NobodyIsStranded

\* A sign-on that runs alone leaves exactly the groups and attributes that the
\* provider claims, whatever sign-ons that crossed or failed have left behind.
LoneSignOnSettles ==
  LET a == settled.account IN
  a # NoAccount => accounts[a].groups = settled.groups /\ accounts[a].attributes = settled.attributes

\* The conflicts that fail a login (a version, a link or a membership that is
\* not what was read) come of another login at the same time, never of what an
\* earlier one left.
CollisionsNeedCrossing == ~stumbled

\* A sign-on depends on those at the same time and on no earlier one.
SignOnsHeal == LoneSignOnSettles /\ CollisionsNeedCrossing
==============================================================================
