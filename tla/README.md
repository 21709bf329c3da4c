# Verification of pivot

TLA+ models of the concurrent core of pivot, the TLC configurations that check
them on small instances, and theorems about them that TLAPS proves for every
value of the constants.  Paths below are relative to the repository root;
`query/` stands for `internal/query/`, and so on.

Checking: `tlc -config MCGovernor.cfg MCGovernor` and so on for each line of
"The runs"; `tlapm GovernorProofs.tla` and so on for each module of proofs.
`PROJECT.json` lists the components, the runs, a mutant for every property, the
lines of code each definition translates, the hazards and the theorems.

## 1. Inventory

pivot is one Go binary that serves an HTTP API over a metadata database
(PostgreSQL, or SQLite for a single node) and runs queries against the
databases its users connect to.  Its state is in four places: the metadata
database, the memory of each server process, the sources, and the browser.
Several processes may share one metadata database: other servers, and the
`pivot` commands.

| Part | State | Operations | Talks to | What is hard |
|---|---|---|---|---|
| Query admission, `query/governor.go` | two families of semaphores, counters | `Admit`, the release it returns | called by the executor | two semaphores per call, wakeups that race timers and contexts, fairness between users |
| Result cache, `query/cache.go` | map, list, byte total, generation per connection | `Key`, `Get`, `tee`/`Put`, `Invalidate`, `Watch` | the executor; the change events of `store/repo/connections.go` | edits that commit, are announced and are read at different moments; four structures kept in step |
| Execution, `query/executor.go`, `query/logged_stream.go` | context, slot, connector, log row | `Run`, `RunPlan`, `Stream.Next`, `Close` | all the others of `query/` | giving everything back on each path of failure; settling a row once |
| Monitor and supervisor, `query/monitor.go`, `query/supervisor.go` | registry of running queries; heartbeats and requests in the log | `watch`, `unwatch`, `Kill`, `Run` | the log, from which `pivot queries` and other servers read | a kill that races the end of its query; telling a dead process from a quiet one |
| Authorization, `authz/` | assignments, groups, members in the database; a cache of decisions | `Check`, `Grants`, the role handlers of `api/roles.go` | every handler; single sign-on and `pivot admin` write behind its back | a decision read in several statements and kept; the last administrator |
| Accounts and sessions, `auth/` | users, credentials, sessions, failure counters | `Login`, `Authenticate`, `ChangePassword`, `SetPassword`, `Logout` | HTTP middleware, `pivot admin` | login against password change, the failure counter and its lock |
| Single sign-on, `oidc/` | identities, memberships; discovered providers | `Provision`, `discover`, `Forget` | authorization, accounts | a sequence of statements any of which fails, two sign-ons at once |
| Catalog, `catalog/` | tables, columns, snapshots | `Sync`, the sync job | connectors, jobs | two syncs of one connection; a sweep that relies on timestamps |
| Connectors, `connectors/` | pooled sessions of a source | `Stream`, `Introspect`, the watcher that cancels | executor, catalog | a KILL that reaches a session after its query has ended |
| First run, `setup/` | the first organization and user | `Complete` | accounts, roles | what a failure in the middle leaves |
| Secrets, `secrets/` | sealed values, the key file, the keyring of each process | resolve, seal, open, rewrap, status | identity providers, connections | two processes that both find no key; a replacement that is interrupted |
| Jobs, `jobs/` | River's tables | schedule, work | catalog | owned by the library |
| HTTP server, `api/` | listener, rate-limit buckets | routing, drain, `Allow` | everything | the order of shutdown; a bucket that is dropped and made anew |
| Configuration, logging, data types, policy, export, command line, web | none that is shared and changes | | | |

### What makes each part correct

* **Admission.** Neither limit is ever exceeded; no slot is leaked or returned
  twice on any path; no wakeup is lost; first come first served; a user at
  their own limit takes none of the source's capacity from others; every call
  returns.
* **Result cache.** No answer crosses policy sets; nothing partial, nothing
  past its time; an edit makes what was cached before it unreachable; the list,
  the map and the byte total agree.
* **Execution and supervision.** The source works only for what is on record
  and admitted; nothing is left behind; a row is settled once, as killed only if
  that was asked; a requested kill arrives; a live query does not look dead.
* **Authorization.** A cached decision is true of the graph as far as the cache
  was told; an answered change is seen by every later check; any change takes
  effect within a bound; somebody can always administer.
* **Accounts.** Once a password change has answered, no session made with the
  old password remains; the threshold brings a lock, and a lock lasts; expiry
  follows use; nobody gets more requests through than the rate.
* **Provisioning and setup.** An instance is claimed once; a sign-on writes to
  its own account; a failure part way leaves something the next attempt can
  finish.
* **Catalog.** A sync that runs alone leaves what it found, whatever earlier
  ones left; its report says what changed.
* **Connectors.** A KILL stops the query it was meant for or nothing; nothing
  runs on at the source that nobody would stop; no connection leaks.
* **Secrets.** No secret is sealed with a key nobody has; a replaced secret does
  not come back.

The hazards, each at the line where it bites and with the properties that would
catch it, are in `PROJECT.json`.  Those without a property say why.

## 2. Modules

| Module | Models |
|---|---|
| `Admission` | what admission promises: the abstract specification |
| `Governor` | `query/governor.go`; implements `Admission` |
| `ResultCache` | `query/cache.go` and its use by the executor |
| `ExecutionLog` | what the query log promises its readers: the abstract specification |
| `QueryLifecycle` | executor, logged stream, monitor, supervisor, the signal to stop; implements `ExecutionLog` |
| `Authorization` | `authz/`: both halves of the decision cache, resolver; role handlers and the other writers |
| `RateLimiter` | the token bucket of `api/ratelimit.go` |
| `LoginBrakes` | the rate limit, the failure counter and its lock; extends `RateLimiter` |
| `Sessions` | sessions and passwords: `auth/service.go`, `store/repo/sessions.go` |
| `Onboarding` | `setup/`, `pivot admin create-user`, and `Provision` of `oidc/provision.go` |
| `Catalog` | `catalog/` and `store/repo/catalog.go` |
| `SourceConnector` | `connectors/sqlbase.go`, `stream.go`, the KILL of `mysql.go` |
| `SecretsAtRest` | `secrets/`, `store/repo/secrets.go`, `cli/secrets.go` |
| `GovernorProofs`, `CacheProofs`, `LifecycleProofs`, `AuthzProofs`, `SessionsProofs`, `SecretsProofs` | theorems about the module each extends |
| `AccountProofs` | theorems about `LoginBrakes` with `RateLimiter`, and about `Onboarding` |
| `SourceProofs` | theorems about `SourceConnector`, and about `Catalog` |
| `MC` and a module's name | instances for TLC |

Operators named `X_Something` next to `X` are mutants: `X` with a plausible
bug.  No specification uses them; each property is shown to reject one.

Each repository call is one atomic step.  That is what the code relies on: each
is one SQL statement or one transaction.  A handler is the sequence of its
statements, and other calls come between them.  What a model keeps and the
code does not (history that a property compares) is named in the module.

### Governor

`pc[r]` says where the call of `Admit` for request `r` is, one value per
statement between which other goroutines may run.  A slot is a Go channel used
as a semaphore, and the model keeps the two things a channel keeps: how many
places are taken (`used`) and the queue of goroutines parked in a send
(`waitq`).  That a receive from a full channel hands the place to the first
parked sender in one step is what the Go runtime does; `Receive` models it.

| Code | Action |
|---|---|
| `Admit` is called | `Admit` |
| first `select` of `acquire` (with `default`) | `TryFast` |
| second `select`: a case is ready, or the goroutine parks | `Select` |
| woken by the timer, by the context | `Timeout`, `Abandon` |
| `releaseUser` after the second `acquire` failed | `ReleaseUser` from `refund` |
| `Admit` returns; the release runs | `Admitted`; `ReleaseConn`, then `ReleaseUser` |

The first `select` does not look at the context, so a caller who has left can
take a free slot: the model keeps that.  Not modelled: metrics and the text of
errors.

### ResultCache

`entries`, `order`, `bytes` and `generation` are the fields of the `Cache`.
`version` is the connection's row in the database; `unpublished` holds edits
that are committed and whose event is not yet out; `announced` and the `informed`,
`keyedAt` and `storedAt` fields of jobs and answers are history.  An execution
is a `Plan` (reads the connection), a `MakeKey` (fingerprint, then generation;
`Unkeyed` when the policy set does not resolve), a `Get` under the mutex
(`Hit`, `Expire` or `Miss`), and a `Close` (`Finish` or `Done`).  `Get` and `Put` are
one step each because each holds the mutex throughout.  Edits by other
processes are announced to nobody here (`EditElsewhere`).  The digest is
modelled as injective, the policy fingerprint as a value per policy set, and a
result as its estimated size.

### QueryLifecycle

One value of `pc` per statement of `execute`, `Close` and the failure paths, and
sets for what is held: `held` (slots), `open` (connectors), `watched` (the monitor),
`cause` (the query's context and why it was canceled), `row`, `asked` and `seen` (the
log).  The supervisor reads the requests (`Poll`), then looks each up under the
monitor's lock (`Lookup`) and calls its cancel after releasing it (`Kill`), so that
anything may happen in between.  `Beat` is one statement over all the rows
of the process.  `Record` covers a settlement that fails, which the code logs
and swallows.

`Signal` tells a process to stop: its supervisor returns from its loop at once,
with the signal's context (`cli/serve.go`), while the listener goes on for the
lame-duck period and then drains what is in flight (`Server.shutdown`).  From
then on queries run, and may begin, without heartbeats and out of reach of
kills.  When the drain's time is up what is left is cut off and the process
exits, which is `Crash` here, as is dying without notice: everything held in
memory is gone.

Time is counted in heartbeat intervals and `Tick` passes only when every
process that is up and not stopping has beaten, and no execution is between
writing its row and registering with the monitor: **punctuality of the ticker is
an assumption**, and `WatchedLookAlive` depends on it.

### Authorization

One relation, the administrator's, of one organization.  A question is a half
of the cache, `Check` or `Grants`, and a user.  An answer is the key (with the
generation, before the lookup), the lookup, the resolver's statements and the
store.  The two halves share the generation and are emptied together; they
differ in that a decision is good strictly before it expires and grants until
they do, so that a list of grants may be one moment older.  The group walk of
`graph.go` is the recursive function `Climb`, level by level up to `MaxDepth`; it
is read in one step after the memberships, since nothing the program runs
changes a group's parent, which the module takes as constant.  Each handler is
the sequence of its statements: `Grant` then `Invalidate`; `Count`, `Revoke`,
`Invalidate`.  `SyncGroup` and `Unannounced` are the writers that tell this
process's cache nothing.  Writes are numbered, and `quiet` holds those the cache
has not been told of.  `Slowest` bounds a resolution in `Tick`, as a request's
timeout does in the code.  Left out: who may call the handlers (anybody may,
here, which is more than the code allows), and two operations that no production
code calls, `RevokeAllForSubject` and the deletion of groups.

### RateLimiter and LoginBrakes

`Allow` holds the limiter's mutex, so it is one step, the due sweep of idle
buckets included.  Tokens are fractions of which `Unit` make one; the rounding of
floating point is left out, and so is the header that says when to come back.
`LoginBrakes` puts it in front of a login on one account: `Arrive` (the
middleware), `CheckLock` (the row read with the clock read at the start), `Verify`,
then `RecordFailedLogin` (one statement that bumps the count and clears the lock) and
`LockLogin` (another), or `ClearLoginAttempts`; beside them `pivot admin reset-password`
(`Reset`, then `Unlock`) and the sweep of old records.  `straddlers` are the
calls that were past the check when the lock was set.

### Sessions

A session is its row and, as history, the latest password its holder has proved
to know (`with`), whether its login straddled a change, and the start of its
latest use.  A password is the number of the write that stored it.  Login reads
the user and verifies (`Verify`), reads the clock (`StartSession`) and creates the
session in a later statement (`CreateSession`); a request is looked up, touched if the
touch interval has passed, and served (`Resolve`, `Touch`, `Serve`); a password change is
the read, the store and the revocation of the other sessions (`BeginChange`,
`SetPassword`, `RevokeOthers`), any of which fails; `Revoke` is a logout or one
of the two endpoints that end a session they name.  A change that
another overtakes is not prevented by the code, and not here.

### Onboarding

The tables of organizations, accounts and links, and calls that are a setup
request (under one mutex per server), a `create-user` command or a sign-on, each a
sequence of statements that may fail at any of them.  What the provider
claims is chosen anew by each sign-on.  `Provision` is complete: find the link,
else match by address or create, grant the default role, link; then the
address (with the version as read), the attributes (all deleted, then set one by
one), and the memberships.  The protocol with the provider comes before all of
it and is left out.

### Catalog

A sync reads the stored tables, then the stored columns, then the source, writes
what it saw row by row, does the same for the keys and marks gone those that are older
than its beginning, marks gone such columns and then such tables, and reports the
difference between its snapshot and what it saw (`BeginSync`, `SnapshotTables`,
`SnapshotColumns`, `Introspect`, `Record`, `ForeignKeys` to `MarkForeignKeysGone`,
`SweepColumns`, `FinishSync`).  A row carries the time the sync that stored it
last began.  The job and the command run the same `Sync` and may overlap; no two
begin at the same instant, and all clocks agree.  `told` follows the reports.

### SourceConnector

The dialect that cannot cancel by itself.  A call borrows a connection, asks for
its session, starts the watcher and runs its statement; `Wake`, `SendKill` and
`ExecuteKill`, `KillTimesOut` and `Dismiss` are the watcher's; the source finishes a statement, acts
on a KILL, or does neither.  A KILL that was abandoned may still arrive
(`LateKill`).  The driver closes the connection of a call whose context has ended, so
the pool opens another.  Dialects whose drivers cancel by themselves are the
source's steps in `QueryLifecycle`.

### SecretsAtRest

A process starts with the configuration of the moment (`Start`), resolves its
key, from it or from the key file (which it may find missing, empty or
finished: `ReadFile`, `CreateFile`, `WriteFile`, `AwaitKey`), and then works: it sets
secrets (`Create`), edits providers in a read and a write with the row's version (`Edit`,
`Update`), or rewraps (`ListSecrets`, `Rewrap`).  A
secret is the number of the write that set it, and a seal the key that made it.
The operator replaces the key in the documented steps (`Rotate`, `DropPrevious`).
Deleting a provider is left out, as a row that is gone needs no key.

## 3. The runs

| Run | Instance | States | Shows |
|---|---|---|---|
| `governor` | 4 requests of 3 users, one connection, 1 per user, 2 per connection, wait 1; no symmetry | 60 160 | limits, exact accounting, no lost wakeup, nobody takes a connection alone, refinement of `Admission`, every call returns, every waiter is served |
| `cache` | 2 executions, 2 policy sets, 1 connection, 2 edits, sizes 1 to 3 in 2 bytes, clock 2 | 2 785 491 | list, map and total agree; answers are whole, in time and for their audience; only straddlers are stale |
| `lifecycle` | 2 executions in one process, clock 2, stale after 1 | 3 378 068 | work is accounted for and nothing left behind; the watched look alive until their process stops; refinement of `ExecutionLog` |
| `lifecycle_live` | 2 executions, clock 0 | 359 404 | kills arrive; every execution ends |
| `authz` | 1 user, 2 nested groups, 1 check of either half, 2 handlers, 2 writes, clock 2, time to live 1 | 1 582 958 | what is cached is true; answered changes are seen; changes take effect in time; the last administrator needs a race |
| `login_brakes` | 2 calls, 1 address, burst 2, threshold 2, lock 1 capped at 3, clock 6 | 1 681 077 | the rate holds; the threshold locks; a lock yields only to straddlers |
| `sessions` | 2 calls, 2 sessions, timeouts 4, clock 5, 2 password changes | 4 082 931 | only straddlers outlive a change; the window follows use |
| `catalog` | a table, a column, a key of two columns; 2 syncs at once, 3 in all, 3 changes | 1 460 553 | a lone sync heals; reports add up; disagreement means crossing |
| `onboarding` | 2 calls, 2 organizations, 2 accounts, 2 addresses, 1 subject, 1 group, 1 attribute | 3 289 817 | claimed once; signs on as itself; nobody is forgotten; sign-ons heal |
| `connector` | 2 calls, 2 sessions, a pool of 2 | 77 937 | KILLs hit their own; no leak; nothing unattended; calls return; KILLs go through |
| `rotation` | 2 processes, 3 keys, 2 providers, 1 connection, 1 write, 3 versions | 1 530 247 | no provider is lost; no secret turned back |
| `rotation_doc` | 2 processes, 3 keys, 1 provider, 1 connection | violation | a connection's password is lost when the documented steps are followed |

### Bounds and why they are enough

* *Governor.* Four requests are the least with which a user queues behind
  themselves while two others queue behind the connection.  Requests are used
  again, so arrivals never end, and liveness is decided on the whole instance,
  without symmetry.  `Wait = 1` makes a timer due after one tick; a longer wait
  only adds states in which nothing is due.
* *ResultCache.* Two bytes hold two small entries or one large: a large entry
  evicts two, size 3 is refused.  Two edits are the least that can be announced
  in the wrong order.  A clock of 2 lets an entry of lifetime 1 be
  good, be at its limit and expire.
* *QueryLifecycle.* Two executions are the least for a poll that lists one while
  the other, or the same, ends.  Processes share no state but the log,
  whose rows each have one owner; the proofs cover any number of them.  A clock of
  2 lets a query go silent for longer than `StaleAfter = 1`.  Executions run once
  and the clock is bounded, so a run ends when all are over: `CHECK_DEADLOCK FALSE`.
* *Authorization.* A check touches the cache at its lookup and at its store,
  and an entry depends on nothing but the check that stored it, so a second
  concurrent check adds no behaviour to the first; checks follow each other
  without end.  Two writes let each handler write, or a change be undone while one is
  being answered for.  Two handlers are the least for the race of revocations.
  A clock of 2 reaches the age at which grants are used for the last time.
* *LoginBrakes.* Two calls are the least that can both be past the check when one
  of them sets the lock.  A clock of 6 lets a bucket be spent, dropped and made
  again, and a lock of 1 be doubled, capped at 3 and over.  A threshold of 2 with
  counts to 4 passes the cap.
* *Sessions.* Two calls let a login straddle a change, two touches overtake each other
  and two changes overlap; two password changes let the second come between the
  first's statements.  With timeouts of 4 and a clock of 5 a window slides,
  meets the cap and ends.
* *Catalog.* Two syncs at once and a third after them: the last one alone must put
  right what two that crossed left.  A key of two columns is the least that can lose
  one.  Syncs are numbered and changes counted, so a run ends: `CHECK_DEADLOCK FALSE`.
* *Onboarding.* Two calls of any two kinds; two accounts, so that two sign-ons of one
  subject can take different ones; two addresses, so that one can change.  One subject is
  enough because subjects meet only in an account found by address, which a
  `create-user` command also makes.
* *SourceConnector.* Two calls can hold both connections of a pool of two while a KILL
  needs a third; two sessions let a connection break and be replaced once.
* *SecretsAtRest.* Two processes are the least that both find no key; three keys
  allow two replacements, so that a process can be two behind.  Three versions let
  an edit and a rewrap read one version and write the next two.

Symmetry is used over identities that a model only compares, and in no run with
a liveness property.

### Fairness

* `Governor!LiveSpec` assumes that a goroutine that can run does (`Scheduling`,
  weak fairness of the code's own steps).  Timers (`Timers`) and the end of
  queries (`Releases`) are premises inside `CallsAreServed`: that every call
  returns needs only timers, and holds if no query ever ends; that a caller who
  stays is admitted needs only that queries end, and holds if no timer ever
  fires.  Nothing is assumed of callers.  Weak fairness of releases is enough
  because a parked sender is handed its place: the queue is the channel's.
* `QueryLifecycle!LiveSpec` assumes the supervisor's loop goes on while its process
  lives and is not stopping.  That sources answer and callers close is the premise
  `CodeRuns` of `EveryExecutionEnds` only.  Both callers of the executor,
  `api/queries.go` and `api/exports.go`, defer `Close`; that a source answers follows
  from the query timeout where one is configured, and is an assumption where none is.
* `SourceConnector!LiveSpec` assumes that a call's own statements run, that its
  context ends at some time (its timeout), and that its watcher reacts; strong fairness of
  `SendKill`, because the control connection it waits for is taken and given
  back in turn.  Nothing is assumed of the source: that KILLs time out is the
  premise of `EveryCallReturns`, and that the source acts on them that of
  `KillsGoThrough`.

### Divergences found

By a run:

1. `rotation_doc`: the documentation says to keep the old key until
   `pivot secrets status` reports nothing on it.  `rewrap` and `status` walk the identity
   providers only (`cli/secrets.go:279`), while the passwords of connections are
   sealed with the same keyring (`store/repo/secrets.go:145`).  Followed to the letter, the
   steps drop a key that a connection's password still needs.

Met while modelling; the models do what the code does, and the properties say
what does hold:

2. `Admit` says it waits "up to the queue timeout" (`query/governor.go:123`); it can
   wait for two, one per slot.
3. "Editing a connection makes everything cached from it unreachable"
   (`query/cache.go:460`).  An execution that read the connection before the edit and
   derived its key after the announcement stores the old connection's rows under the
   new generation.  `OnlyStraddlersAreStale`, which is proved, says that this is the
   only way.
4. A kill that lands while the source decides whether to answer is recorded as a
   cancellation, although "the query log records which" (`query/executor.go:36`).
5. A hit served from the cache is on record with an owner but not registered with
   the monitor, so a slow one in an otherwise idle process gets no heartbeat and
   reads as abandoned (`cli/queries.go:135`).
6. A row whose settlement failed is marked alive for as long as its process watches
   anything else.
7. A process that drains no longer beats, and the time after which a query counts as
   abandoned is no longer than the default shutdown timeout: a query may look
   abandoned in the last seconds of a drain.  `WatchedLookAlive` bounds it.
8. The count of administrators and the delete are two statements, so two revocations
   can remove the last two.  `TheLastNeedsARace`, which is proved, says that one by
   itself cannot.
9. A comment on setup (`setup/setup.go:160`) has a half-finished setup claimed
   again; once the organization exists, `setup/setup.go:102` and `:163` refuse.
   `SomebodyAdministers` counts these cases.
10. The catalog's cross-check of keys compares relationships with rows, so a key that
    loses one column of two is reported as interference by another sync; hence `split`
    in `DisagreementMeansCrossing`.
11. When a query ends and its context at once, the watcher's `select` may take either
    (`connectors/sqlbase.go:495`): the statement may run on.  `NothingRunsUnattended` names it.
12. The list of grants is good at the very moment it expires, a decision is not
    (`authz/cache.go:195` and `:232`).

## 4. What is proved

The theorems hold for every value of the constants that the module's assumption
allows: any finite set of requests and any positive limits; any connections, policy sets,
sizes and budgets; any number of queries, processes, calls, sessions, keys and rows.
Each rests on an invariant that every step keeps, `IInv` where a module of proofs has
one and `BrakesIInv`, `OnboardingIInv`, `ConnectorIInv`, `CatalogIInv` where it has two.

* **GovernorProofs.** `IInv` is `TypeOK`, `SlotAccounting`, `WorkConserving` and
  `QueuesAreTheParked` together.  None is inductive alone: that a receive
  which hands its place over keeps the count right needs the queue's head to be a
  request parked for that very slot, and that a place handed over or freed leaves
  nobody parked beside a free one needs the count to be exact.  From it: `SlotsAccountedFor`,
  `NoLostWakeup`, `QueuesExact`, `FootprintBounded`, `NobodyAlone`, the action property
  `FirstComeFirstServed`, and `Implements`: a granted request finds room under both
  limits, since those it finds there hold slots.
* **CacheProofs.** The crux is `Contemporaries`: everything filed or looked up
  under one generation was keyed at the same newest announcement, because between
  two derivations that read the same generation nothing has been announced.
  From it `AnnouncementsHide` and `StalenessNeedsAStraddler`; from the map's part
  of the invariant `SoundAnswers`.  `TheBooksAgree` adds the total.  The sum of a list is the
  end of a recursive function; that it exists and is one is shown by the first place where it
  would fail (`AWayToAddUp`, `OneWayToAddUp`), and from then on the proofs only split
  lists and add (`TotalOfBoth`): what a replacement takes out (`LighterWithout`), what an
  eviction cuts off the back (`FrontAndBack`), and that `Put` stops when the rest fits.
* **LifecycleProofs.** `Resources` says for each resource at exactly which statements
  it is held, `Rows` what the row says there, `Kills` that what is under way in the
  supervisor was asked for, and `Beats` how old a heartbeat can be in each part of an interval:
  a row is stamped in the interval in which its query becomes watched, beaten for in every
  later one until the process is told to stop, and no older then than one interval.
  From these the safety theorems and `KeepsThePromise`, the refinement of `ExecutionLog`.
* **AuthzProofs.** A check carries the generation of its key.  While that is still the
  cache's, nothing has been announced since, so every write after the check began
  to read is still quiet (`ReadersKnow`), and so it is of what the check stores
  (`EntriesKnow`).  `Timely` bounds an entry's expiry by the start of its reading, and
  `CountsHold` says that what a handler counted is still there while nothing was
  written.  From these `CacheIsTrue`, `AnsweredIsSeen`, `ChangesAreTimely`, `LastNeedsARace`.
* **AccountProofs, the brakes.** `Budget`: what a key was allowed since any moment, and what it may
  still spend, are together within the burst and what the rate has added.  The sweep
  keeps it because a bucket it drops was full by then, which is what
  `RateLimiterAssumption` says of the program's constants.  From it `RateHolds`.  `Straddling`
  says that under a lock whoever is past the check was there when it was set; from it
  `OnlyStraddlersYield`, and from the windows of the pending locks `ReachingItLocks`.
* **AccountProofs, onboarding.** `AllPlaced` says what each call has in hand at each
  statement, and that the account and the organization it names exist; `SignsOnAsItself` is
  inductive on top of it (`ASignOnIsItself`).  Around them, `OneClaimant` (under a
  server's mutex there is at most one form, and it has no organization before it has
  checked) gives `AServerClaimsOnce`; `Governed` (an organization that is not counted as
  headless has its administrator or a call about to make one, or is empty and
  a call is about to find that) and `NobodyIsStranded` give `NobodyLeftBehind`.
  For `ALoneSignOnHeals` the invariant follows a sign-on that nobody has crossed
  (`AloneHolds`): its subject has no link before it makes one, the version of the
  address is the one it read, and what it has left to write is the difference between
  the account and the claims, so that no write can collide.  `Lasting` is the
  lemma all of it leans on: no step unmakes an organization, an account or a link, or takes
  a role or the administrator from an account.
* **SessionsProofs.** Nobody has proved a password newer than the one in force, a clock
  reading is written within `Slowest`, and a touch belongs to the session it was read
  for.  From these `OldPasswordsEnd` and `TheWindowFollows`.
* **SourceProofs, the connector.** Every connection of the pool that is not idle has exactly one
  holder (`Holding`, `Apart`, `AllHeld`); a watcher watches the connection its call
  holds (`Watching`); a statement on a connection of the pool belongs to the holder,
  or the connection is broken (`StatementsBelong`).  From these `OwnIsHit`, `NothingLeaks`,
  `RunningIsAttended`.
* **SourceProofs, the catalog.** The invariant is about a sync that nobody has crossed:
  there is at most one (`Solitude`), rows carry times no later than the newest sync's
  (`Times`), and `LoneJob` says, statement by statement, what such a sync has done: the rows with
  its time are those it stored (`Stamped`), what it stored it found (`FoundSoFar`), what is
  neither stored nor swept is as its snapshot has it (`Remembered`), and what it swept is what
  it will name as missing (`SweptMissing`).  Columns and tables are swept apart and a column is only
  stored under a stored table, hence `Tabled`.  `ToldBefore` relates what the reports
  have said to the snapshot of the one sync that runs.  From these `ALoneSyncHeals`,
  `TheReportsTellTheStory`, `ADisagreementMeansCrossing`.
* **SecretsProofs.** Every working process seals with a key of the present
  configuration: a previous key is dropped only when everybody has restarted, and one
  that still looks at the key file will find a key the configuration has
  (`RingIsKnown`, `FileIsKnown`, `OneWriter`).  A row that was read is as it was or has a
  later version (`ReadsAreTrue`).  From these `ProvidersStayReadable` and `SecretsMoveOn`.

Every module with a proof has its type invariant as the theorem `TypeCorrect`, for the
second specification `CatalogTypeCorrect` and `OnboardingTypeCorrect`.  The
assumptions are those named `...Assumption` in the modules, and the runs evaluate them.

**Only model-checked:** the liveness properties (`CallsAreServed`,
`KillsArrive`, `EveryExecutionEnds`, `EveryCallReturns`, `KillsGoThrough`), as liveness
and fairness are beyond this prover.  Every safety property, action property
and refinement that a passing run checks is a theorem.

## 5. What is not modelled

The notes of `PROJECT.json` give the reason for each part.

* Libraries own the job queue (River), the OpenID protocol, encryption, the migrations
  (goose) and SQL.  The cache of discovered providers in `oidc/oidc.go` stores what a
  discovery that began before `Forget` brings back; it has no generation as the other
  caches have, and is not modelled.
* Export, configuration, logging, data types, policy and tenancy, routing, decoding, the
  web interface and packaging keep no state that changes under concurrency: they are
  sequential formatting, parsing and start-up.
* The generated queries (`store/gen`) and the adapter between the two engines are
  represented by the atomic steps of the modules that call them.
* Inside the modelled parts, statement validation, planning, the contents of rows,
  the rounding of floating point and the text of errors are abstracted.
* Clocks: each model has one.  Processes whose clocks disagree would matter to
  staleness (`cli/queries.go:151`) and to the catalog's sweep (`catalog/sync.go:194`), and
  the code states no bound on their difference.

## 6. Plan

Done: admission, the result cache, the life of an execution with its supervision and
its shutdown, authorization with both halves of its cache, the brakes on logins,
sessions, onboarding, the catalog, the connector's KILL, secrets at rest; proofs of all
that their runs check but liveness.  What would add most next:

1. A composition of `Governor`, `ResultCache` and `QueryLifecycle` along the executor, with
   admission abstracted to `Admission`.
2. The cache of discovered providers; optimistic versions of connections.
