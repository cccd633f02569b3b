# Verification of the Autonomous Multi-Agent Research System

TLA+ models of the backend under `src/backend/app`, TLC configurations that
check them on small instances, and TLAPS proofs of the properties that should
hold for every instance. Paths below are relative to `src/backend/app` unless
they say otherwise.

Run `tlc -workers 2 -config X.cfg M` for a configuration and `tlapm M.tla` for
a proof module. `PROJECT.json` lists runs, mutants, hazards, findings and
theorems, and maps every definition to the lines it models.

## 1. The system

A FastAPI process accepts research questions. Each becomes a *run*: a row in
the database and an asyncio task that drives a pipeline of agents, writes a
trace, and stores a report. Browsers follow the trace as server-sent events.

| Component | State | Operations | Interacts with | Hard part |
| --- | --- | --- | --- | --- |
| Run manager (`services/runs.py`) | `_tasks`, `_cancelled`, `_semaphore`, `_seq` | `submit`, `cancel`, `shutdown`, `_execute` and its handlers, `recover_orphaned_runs` | rows of the database, pipeline, bus, lifespan | a cancellation, failure, crash or delete at any await |
| Run API (`api/routes_runs.py`) | none of its own; a transaction per request | create, cancel, delete, read, stream | run manager, bus, database | status read before it is used; commit before submit |
| Transactions (`db.py`, `models.py`) | the committed rows | `session_scope`, `get_session` | everything | rollback, lost acknowledgements, a row that vanished, cascades |
| Lifespan (`main.py`) | phase of the process | start, recovery, drain, stop | run manager | hard cancellation after the drain |
| Event bus (`services/events.py`) | subscriber queues | `publish`, `close`, `subscribe`, `unsubscribe` | `_emit`, SSE connections | full queues, order of subscribe and close |
| SSE stream (`stream_events`) | replay, replayed numbers, queue | load, subscribe, replay, follow | bus, database, browser | the switch from replay to live events |
| Pipeline (`agents/*`) | budget, claims with verdict and support, debate round | plan, search, analyze, verify, debate, synthesize | model and search providers, run manager's flag | concurrent calls under one budget; partial failures |
| Rate limiter (`security/ratelimit.py`, `middleware.py`, `api/deps.py`) | buckets, time of the last sweep | `check`, `_sweep` | every request | one sweep for windows of different length |
| Sessions (`api/routes_auth.py`, `security/tokens.py`) | refresh-token families, login counters and locks | register, login, refresh, logout | browser client | each request reads, and commits later: concurrent rotations, lost counts, two first users |
| Search (`agents/searcher.py`, `providers/search.py`) | the numbered sources of a run | `search`, `_filter`, merge | pipeline, search providers | answers in any order decide what the refs mean |
| Citations (`services/citations.py`, `agents/analyst.py`) | the claims with their refs | binding and deduplicating claims, scrubbing refs | synthesizer, stored rows | refs that claims, report and rows must agree on |
| Model providers (`providers/llm.py`) | HTTP clients | `complete` with its retries | pipeline | retries against the time budget |
| Browser (`src/frontend/src`) | the pair of tokens, the user shown, requests in flight | requests with rotation, sign-in and -out, reload, `openTrace` | API | parallel 401 answers, lost answers |

What makes each correct:

* run manager: permits are conserved; a row never stays `running` without a
  task; a cancellation that reached its task in time is honoured; statuses move
  forward only; every task ends; a deleted run leaves nothing behind;
* bus and stream: in order, no gap, no repetition, complete at the end, and
  an end at all;
* pipeline: the budget is respected up to a bound, a supported claim has its
  support, no readable claim vanishes, cancellation stops, the pipeline ends;
* rate limiter: it behaves as one token bucket per key, whatever it forgets;
* sessions: a family has one live refresh token, a replay or a sign-out leaves
  none, the browser holds a live token, and is signed out for a reason only;
* accounts: users imply an administrator; the counter counts, or loses a bounded
  number; a lock is lifted by no success but one that had read an older lock;
* evidence: what a ref names does not depend on the order of the answers, every
  stored ref names one stored source, and a run is stored whole or not at all.

## 2. Modules

| Module | Models | Abstract specification |
| --- | --- | --- |
| `RunLifecycle` | `services/runs.py`, the writing handlers of `routes_runs.py`, `db.py` transactions, lifespan | `RunContract` |
| `TraceStream` | `_emit`, `EventBus`, `stream_events` | `TraceDelivery` |
| `Pipeline` | `agents/*`, `Budget`, `Agent.think` | |
| `RateLimiter` | `MemoryRateLimiter`, its two callers | `TokenBuckets` |
| `Sessions` | `refresh`, `logout` and `_issue_pair` of `routes_auth.py`, the client of `lib/api.ts`, `App.tsx` | |
| `Accounts` | `register` and `login` of `routes_auth.py` | |
| `Evidence` | `searcher.py`, `_filter`, `analyst.py`, `enforce_valid_refs`, `_persist` | |
| `MC...` | constants for TLC | |
| `RunLifecycleProofs`, `TraceStreamProofs`, `PipelineProofs`, `RateLimiterProofs`, `SessionsProofs`, `AccountsProofs`, `EvidenceProofs` | theorems | |
| `FoldTheorems` | induction over numbers and facts about folds, for the proofs | |

**RunLifecycle.** The unit of interleaving is the code between two awaits.
`pc[r]` is the await at which the task of run `r` is suspended: `waiting` is
the semaphore, `starting`, `persisting`, `cancelling`, `failing` and
`interrupted` are transactions (`_set_status`, `_persist`, `_fail`, the
`CancelledError` handler), `working` is a pipeline stage, `cancelNote` and
`failNote` the closing trace event, `final` and `closing` the finally clause.
A transaction is a read (`ReadRow`, `session.get`) and later a commit
(`Commit`), which may fail (`TxnError`, also after it was applied) or find the
row gone (`StaleCommit`). `row` is the committed status, `children` says whether
the run owns trace rows and whether a delete in flight has not seen some of
them. Of a cancellation that is answered 202 with a checkpoint ahead, `asked`
keeps the run, and `heard` keeps it if `manager.cancel` found the task
(`Reaches`). Requests are two steps as well: `CancelRead`/`CancelApply`,
`DeleteRequest`/`DeleteCommit`, `Create`/`Submit`. `Shutdown`, `CancelTasks` and
`Halt` are the lifespan's exit, `Crash` and `Restart` what an operator or the
container engine does; `InterruptBody` and `InterruptEdge` deliver a
`CancelledError` to a task, wherever it is.

**TraceStream.** One run's writer and its SSE connections. The lock of the bus
is never held across a suspension, so `publish`, `subscribe` and `close` are
steps; commit and publish are two steps, as are the load of the row, the
subscription and the history query. `cut` and `torn` are history variables: the
connections the bus will not tell of the end, and the events whose publication
was interrupted, or whose commit was applied without being acknowledged
(`Commit`). `SettleFails` is a final status that cannot be
written; `CloseSkipped` is a provider whose `aclose` raises in the finally
clause, so that nobody closes the bus.

**Pipeline.** The orchestrator's stages and checkpoints; the gathers of the
analyst (unbounded) and the verifier (four slots) as coroutines that pass the
budget check, wait, and are charged; verdict and support of each claim on a
small scale; the debate with its rounds. A model reply is any reply the parsing
code distinguishes. `ledger` counts how often a claim is in the list that is
handed on, which can be twice after the second judgement.

**RateLimiter.** Exact arithmetic: a token of key `k` is `W(k)` units and a unit
of time refills `L(k)` units. `Level(k)` is what a check at this moment would
find, and the refinement mapping to `TokenBuckets`. `Lasting` are the keys that
have filled up again before any caller's sweep may forget them: those whose window
is at most four times the shortest. With the shipped windows of 60 and 3600 seconds
they are the keys of the global limit, and the run quota is not among them.

**Sessions.** Both ends of a browser session. Pair `n` is the `n`-th access
token with the `n`-th refresh token; `family`, `revoked`, `stale` and `expired`
are the server's view, `held` and `user` the page's. `at[q]` is where a request
of the page is: on its way (`sent`), answered (`ok`, `denied`), in the refresh
that a 401 starts (`refreshing`, then `rotating` or `revoking` between the read
and the commit, then `granted` or `refused`), or without a usable answer
(`broken`). A refresh may be `refused` with a 401 or end `erred`, with an error
response; the latter also after a commit that was applied and not acknowledged
(`Committed`). The browser's code between two awaits is one step, so what a request
reads of `held` may be old when it is answered. `Break` loses an answer before
or after the server has acted, `Reload` loses all and starts over from
`sessionStorage`. `overlapped`, `torn`, `reused` and `closed` are history: the
circumstances the properties except, so that each says exactly which
interleavings the code does not survive.

**Accounts.** A handler reads (`RegisterRead`, `LoginRead`: `snap` is what the
session has loaded) and commits later, writing only the columns whose value
differs from the one loaded, as SQLAlchemy's unit of work does (`Write`). `audit`
counts the rows `login_failed`, the independent witness of the counter.

**Evidence.** The data path that `Pipeline` abstracts. A source's ref is its
place in `sources`, so the merge decides what every later number means. A claim's
text stands for its deduplication key, a report for the numbers its markers
cite. `Judge` takes over from `Pipeline` any outcome of debate and second judgement;
`listed` has one entry for each place of the two lists that `run` concatenates, so
that a claim refuted by the second judgement is there twice, as in the code
(`Handed`), and `ClaimRows` stores one row per entry. `Column` is the
`url[:2048]` of the row: two sources may become equal there, and the unique
constraint then refuses the transaction.

## 3. Runs

| Configuration | Expectation | What it shows | Bounds |
| --- | --- | --- | --- |
| `RunLifecycleSafety` | pass | types, permits, no stranded run, honoured cancellations, `RunContract` | 2 runs, 1 process, 1 permit, 1 checkpoint, 2 stops, 1 failing transaction, foreign keys enforced |
| `RunContention` | pass | every task that waits for the permit gets it and ends | 2 runs, 1 permit, no stop, foreign keys enforced |
| `RunLiveness` | pass | tasks end, rows do not stay running, cancellations show | 1 run, 2 checkpoints, 2 stops, no foreign keys |
| `RunQueuedOrphan` | violation of `NoRunStuckQueued` | a queued row survives a restart for ever | 1 run, 1 stop |
| `TraceStream` | pass | order, no repetition, no gap and a complete end but for torn events, end of streams, also when the last status or `aclose` fails | 2 clients, queues of 2, 3 events |
| `TraceStreamHangs` | violation of `EveryStreamEnds` | a client waits for ever: dropped, late, or of a run whose `aclose` raised (the trace TLC prints) | 1 client, queue of 2, 4 events |
| `Pipeline` | pass | bounded overshoot, verdict against support, every readable claim accounted for, a usable one once, cancellation, end | 2 questions, 2 claims, 2 slots, 2 rounds, scores 0..2, 12 calls |
| `RateLimiter` | pass | with the default windows: the keys of the global limit implement `TokenBuckets`, and the quota gains at most one full bucket for each period of sweeping | 1 user with two keys, limits of 3 and 2, windows of 2 and 120, sweeps every 11 and 13 units of half a minute |
| `RateLimiterSweep` | violation of `GrantsBounded` | with the default windows a sweep refills a run quota | as `RateLimiter` |
| `Sessions` | pass | one live token per family, replays and sign-outs end a session, the page keeps a live token and gives it up for a reason, each with the exceptions its comment names | 2 requests, 3 pairs, 1 lost answer or error |
| `Accounts` | pass | first administrator, exact counters alone, bounded losses together, locks stand | 2 addresses, 2 requests in hand, lock at the third failure for 2 units, 4 units of time |
| `Evidence` | pass | the merge does not depend on the order of answers, cited statements survive, refs resolve, all or nothing is stored | 2 queries with 2 results, 5 urls of 2 domains, 2 sub-questions with 1 claim, refs 1..3 |

Some passing properties are weaker than what a document says, because the code is.
For these the configurations below check the stronger statement, and TLC finds each
of them violated within seconds. They are counterexamples to look at beside the runs
above and are not in the list of runs of `PROJECT.json`, whose findings name them.

| Configuration | Violated | What the trace shows | Bounds |
| --- | --- | --- | --- |
| `RunCancelLost` | `AcceptedCancelHonoured` | a cancellation answered 202 before `submit` is forgotten | 1 run, no stop |
| `RunOrphans` | `NoOrphanChildren` | rows written during a delete outlive the run | 1 run, no foreign keys |
| `TraceStreamGap` | `EndIsWhole` | an event is committed, not published, and missing at the end | 1 client, queue of 2, 3 events |
| `PipelineCeiling` | `HardCeiling` | calls admitted together exceed the ceiling | as `Pipeline`, 2 calls |
| `SessionsReplay` | `ReplayEndsFamily` | a successor survives the replay of its family | 3 requests, 3 pairs, no lost answer |
| `AccountsLock` | `LockedInTime` | as many failures as lock an account do not lock it | 1 address, 2 requests in hand, lock at the third failure, 1 unit of time |
| `AccountsAdmins` | `OneAdmin` | two administrators by bootstrap | 2 addresses, 2 requests in hand, 1 unit of time |
| `EvidenceShell` | `MarkersResolve` | the shell of a deleted marker is stored | 1 query with 1 result, 1 sub-question with 1 claim, refs 1..3 |

Why the bounds are enough. Two runs and one permit make them compete; the
process stops twice, so that a stop also hits the recovery of another. A single
failing transaction reaches every error path, and a second one only repeats
it in a handler, where the row stays as it is until the next restart (this is
why `NoStrandedRun` assumes that none failed; `NoRunStuckRunning`
shows that the restart repairs what a stop leaves). One checkpoint stands for the
code's five because they are alike; `RunLiveness` has two so that a run passes
one and is stopped at the other. A queue of two overflows with three events and
a close. Scores 0..2 with a minimum of 2 and a fallback of 1 let a supported
claim drop below the minimum and a failed call land under it. The rate
limiter's two keys differ in kind, and either may trigger the sweep of the
other; a second user's keys would behave as these do. Two requests of a page
are what a replay, an overlapping rotation or a sign-out during a rotation takes;
three pairs are a login, a rotation and either a second rotation or a second
login. A successor that survives a replay takes three requests: the sign-out, the
rotation and the replay. In `Accounts` a lock at the third failure leaves room for a lost count
before it, four units of time let a lock run out. In `Evidence` one of the five
urls is blocked, three share a domain whose cap is two, and two of these are equal
in the column; a ref of 3 may exceed the number of sources.

`CHECK_DEADLOCK FALSE` everywhere: these systems may stop, with all runs
over, all streams closed, the pipeline ended or the clock at its bound.

Each violation run is a finding of `PROJECT.json`, with the line of the repository
it contradicts; so is each of the stronger statements that contradicts one, under the
passing property that states what is left (the orphan rows are a hazard there, since
no run with a property of its own shows them). `RateLimiterSweep` fails because `_sweep` judges every bucket by the
window of the caller: that is harmless for the lasting keys only.

What the code leaves open, and which property excepts or reports it:

* a cancellation between the commit of the queued row and `submit` is answered 202
  and forgotten (`AcceptedCancelHonoured`, violated; `CancelHonoured` speaks of those
  that reached the task);
* a run deleted while its task writes leaves rows behind unless foreign keys are
  enforced, which `db.py` does not ask of SQLite, the default (`NoOrphanChildren`,
  violated with `ForeignKeys = FALSE`);
* a queued run is not recovered after a stop (`NoRunStuckQueued`, violated);
* the recovery of one replica fails the rows of runs that another executes
  (`recover_orphaned_runs` knows no owner), so `RunContract` holds for one replica;
* an exception or a hard cancellation in a handler leaves the row `running` until
  the next restart (`NoStrandedRun` assumes that no transaction failed and that the
  process is not yet stopping);
* an event torn between commit and publication, by a timeout, a cancellation or a
  lost acknowledgement, never reaches a live client, which gets its end without it
  (`EndIsWhole`, violated; `EndIsComplete` and `TraceDelivery` except it);
* a dropped or late client, or any client of a run whose `aclose` raised, is not told
  of the end (`EveryStreamEnds`, violated);
* the budget is a soft ceiling (`HardCeiling`, violated): calls exceed it by less than
  the width of a gather (`BudgetOvershoot`). Tokens and seconds, which a single call
  may use in any number, are not counted in the model;
* claims whose reply cannot be read vanish (`ClaimsAccounted` excepts them), and a
  claim the second judgement refutes is stored twice (`StoredWhole` admits two rows);
* a commit that is applied and not acknowledged leaves the rows of a run that is then
  reported failed (`StoredWhole` speaks of the rows, not of the status);
* a key of the run quota is forgotten before it has refilled (`GrantsBounded`,
  violated; `GrantsUnderSweeps` bounds what it gains);
* overlapping logins lose counts: five failures do not lock (`LockedInTime`,
  violated). With two failed logins in hand at a time, an account with a limit of 5
  may see 14 failures before its lock, not 4: `CountBound`, which TLC finds tight.
  The code does not bound the requests in hand;
* a success that had read an older, expired lock lifts a new one (`LockStands`
  excepts it; its witness is any wrong login in hand);
* two first registrations make two administrators (`OneAdmin`, violated);
* two refreshes of one family in flight end it or leave two live tokens, and a
  successor may survive a replay (`ReplayEndsFamily`, violated);
* a sign-out revokes the token it presents and no other: a successor lives on where a
  refresh overlapped the sign-out, or where the answer of any refresh or sign-out of
  the family was lost (`SignOutComplete` excepts both, `HeldIsLive` as well);
* the page gives up its session on a transient error while it loads the session, on
  an error answer to a refresh, and on the 401 that follows a lost answer or an
  overlap (the reasons `SignOutExplained` lists);
* a marker inside another leaves, once deleted, a new one behind (`"[S1[S9]2]"`
  becomes `"[S12]"`), which is not looked at again (`MarkersResolve`, violated;
  `RefsResolve` excepts this shell);
* `refs_csv[:512]` may cut a list of more than a hundred refs (not modelled).

**Fairness.** `RunLifecycle!Fairness`: the event loop runs every task that can
run (weak fairness of `TaskStep`): a suspended task waits for the database,
for a model call bounded by `wait_for(..., run_timeout_seconds)`, or for the
semaphore. Weak fairness is enough for the semaphore because asyncio wakes
waiters when a permit is released and, within the bounds of the runs, the other
tasks end. A shutdown that has begun goes on (`CancelTasks`, `Halt`), and the
container is restarted (`restart: unless-stopped`,
`src/docker-compose.yml:42`). Users, shutdowns and crashes are not fair: they need
never happen. `TraceStream!FairSpec`: the writer goes on, and a client that is
connected reads; it need not connect or leave. `Pipeline!FairSpec`: a step that
can be taken is taken, since every provider call has a timeout; which of the
possible replies comes is open. `Sessions`, `Accounts` and `Evidence` state safety
and need no fairness.

Assumed of the browser in `Sessions`: one tab, and a request is given up only
when the server is done with it or it is `Break` that loses it: the server never acts after the page has given
up. No code
deactivates a user or deletes a refresh token.

Every property of a passing run has a mutant: a plausible slip of the code,
defined beside the operator it changes (the comments say "Fault"), under which
TLC finds the property violated.

## 4. Proofs

`RunLifecycleProofs` proves, for any finite set of runs, any replicas and any
bounds, `TypeOK`, `PermitsAccounted`, `NoStrandedRun`, `CancelHonoured` and, for one process,
the refinement of `RunContract`.

* `TInv` is `TypeOK` without the range of `permits`, together with `Placed`: a
  task that is submitted or running has a home, and that process is not down; a
  run has a row exactly when it has left `"none"`; an open request has a row to
  act on. It is inductive by itself and all other invariants rest on it.
* `PInv` adds the account of permits. It is inductive only with `Placed`: a
  step of a run changes the holders of its own process alone, and a restart
  starts from no holder at all. The step lemmas compare cardinalities before
  and after one run enters or leaves the set of holders. The range of `permits`
  follows, so that `TypeOK` is proved after it.
* `Unstranded` strengthens `NoStrandedRun`: where no database error occurred and
  the process is not dying, a task past its last transaction has left its row in
  a terminal status, which is what makes its end harmless; a task that has not
  started has not marked its row running.
* `Honoured` says that a run whose cancellation reached its task is neither completed
  nor being persisted, and that it carries its flag as long as a checkpoint is
  ahead of it that will see the flag. It needs no bound on the processes, since
  `heard` keeps only the cancellations handled where the task is.
* `Written` says what the row of a run may show, given where its task is. With it
  every step keeps `RunContract` or stutters (`LifecycleImplementsContract`). One
  process is needed: the restart of a replica fails the rows of tasks that are
  alive in another, which then write their own outcome over it.

`RateLimiterProofs` proves, for any users, limits, windows and period of sweeping,
`TypeOK`, `LastingGrantsBounded`, `GrantsUnderSweeps` and the refinement of
`TokenBuckets` by the lasting keys; nothing is assumed of the windows, so that the
theorems apply to the shipped ones. The invariant `Ledger` balances, for each lasting
key, the tokens granted and left against the first bucket and the refills up to the
last update, or up to now for a key whose bucket was forgotten: a bucket that a sweep
forgets is full again (`ForgottenIsFull`). `Debts` is the same account for every key,
with one more full bucket for each period that has passed at the last sweep
(`SweepOwed`, `RefillOwed`), which is what a sweep may give away.

`TraceStreamProofs` proves `TypeOK`, `NothingLost`, `EndIsComplete` and the
refinement of `TraceDelivery`, for any connections, queue size and number of
events. The inductive invariant `SInv` has, for each connection, the order of its
queue (`QueueOrdered`), what it has before its replay (`Opening`), how the rest of
the replay follows what the client has (`Replaying`, `Viewed`), where every
committed event is to be found (`Placed`), and what a terminal run owes its
streams (`Closing`). `Placed` and `Replaying` need each other: an event published
during the replay is in the queue, and skipping it there is sound only because
the replay is the trace up to an event. `SortedItems` shows that a finite set of
events has an ascending enumeration, so that a replay exists at all.

`PipelineProofs` proves `TypeOK`, `BudgetOvershoot`, `ClaimsAccounted`,
`SupportedIsSupported` and `CancelStops`, for any plan, slots, ceiling, rounds and
scores. `Gathering` says which coroutines a stage may wait for: none between two
gathers, and in the verifier never more in a call than the semaphore has slots,
which bounds the calls charged after the budget is spent. `Tracked` follows every
readable claim from the analyst's list through the debate to the outcome.
`Rejudged` says that a claim the second judgement has reached is sound again,
which the debate alone does not preserve.

`SessionsProofs` proves `TypeOK`, `OneLiveToken`, `ReplayKillsFamily`,
`SignOutComplete`, `HeldIsLive` and `SignOutExplained`. The invariant `AloneIn` of a
family without overlaps says that one request at most is in flight in it, that the
token it rotates is the live one, and that a replay which is about to revoke has
read every live token. `Answering` ties a request that has its answer to the tokens
the answer carries or follows from, and `Custody` says of an undisturbed family that
the page, a request or a login has its live token, one of them only, and after a
sign-out nobody, which is what `HeldIsLive` needs while a rotation is under way.

`AccountsProofs` proves `TypeOK`, `AdminBootstrap`, `CounterExact`, `CountBound` and
`LockStands`. `Bootstrapped` accounts for a registration in hand that has found the
table empty; `Counted` says that the one login in hand for an account has read the
counter as it still is. `LockStands` follows from the steps alone. `CountBound` is
not inductive: how many more failures a state admits depends on every count that is
still in somebody's hand. `Weighed` counts, for each distance `k` from the lock, the
requests that are no longer behind it (`Passed`; none while the counter itself is
further away) and grants `l` of them `Share(k, l)` failures. A failure that does not
lock lets one more request pass its distance and throws those that were nearer back
to nothing, and `ShareTrade` shows that the first is worth one more than all the
others, which is the rule of Pascal's triangle. That `choose`, a quotient of
factorials, obeys this rule is proved from the definitions (`FactorialRule`, `Pascal`).

`EvidenceProofs` proves `TypeOK`, `RefsResolve`, `StoredWhole`,
`CitedStatementsSurvive` and `MergeFirstWins`, for any queries, results and caps. Its
inductive invariant `IInv` joins `TypeOK` to four parts, one for each hand-over of the
path: claims rest on sources that exist (`ClaimsGrounded`), no stage has what an
earlier one has not made (`NothingAhead`), the report cites nothing else
(`ReportGrounded`), and rows are stored together or not at all (`RowsWhole`); a usable
claim has one entry in the list that is stored and hence one row (`UsableOnce`,
`RowOf`). The
merge, the deduplication and the cap are folds over sequences. `FoldTheorems`
provides what a proof about them needs: `Induction` up to any number, from the least
element of a set of numbers (a set without one would have more members than there are
ranks for them, by counting); hence that a run of any steps exists (`Iteration`),
that a fold over a sequence is such a run (`Folding`), and how it relates to the fold
over a prefix (`PrefixRun`) and over the parts (`Flattening`). On them rest the two
arguments about order. `Kept` is the first sound statement of each text, and the
deduplication is shown to have listed exactly those of the statements it has seen,
whichever extraction answered first (`CitedStatementsSurvive`). `Picked` is the same
for the merge: of the results seen so far, those with fewer than `DomainCap` earlier
ones of their domain, in the order in which they first occur; that blocked results do
not disturb this order is `Alike` (`MergeFirstWins`).

Assumptions: those named `...Assumption` and `FiniteRuns` in the modules, which
TLC evaluates in every run, and those in the `ASSUME` of a theorem.

`AccountsProofs` bounds the lost counts for finitely many requests in hand
(`IsFiniteSet(Handlers)`), without which the bound says nothing.

Every invariant and every action property of the passing runs, and the three
refinements, are theorems, under the assumptions named above. Only model-checked:
liveness, since fairness and `ENABLED` are beyond the prover.

## 5. Not modelled

* The retries inside `complete` (`providers/llm.py`): `Pipeline` sees a call that
  answers or fails, and the budget is charged for the outcome only.
* `fetch_page` and its redirects: no stage calls it. `uncited_sentences` has no
  caller either.
* `citation_coverage` and the confidence of a report: arithmetic on the text.
* Egress policy and sanitising are predicates over URLs and texts, which
  `Evidence` takes as the set `Blocked`; password hashing and token signatures are
  libraries; logging, schemas, metrics and health checks keep no state of
  interest.
* Of modelled parts: read-only endpoints; `Retry-After`; texts, scores as real
  numbers; heartbeats; collisions of hashed rate-limit identities; rendering.

## 6. Plan

Done: `RunLifecycle` with its contract; `TraceStream` with `TraceDelivery`;
`Pipeline`; `RateLimiter` with `TokenBuckets`; `Sessions`; `Accounts`; `Evidence`; and the
proofs of these seven.

1. `ModelCall`: the retry loop of `AnthropicProvider.complete` with its backoff
   against the time budget and the timeout of a run.
2. A composition of `RunLifecycle` and `TraceStream` over one run, so that
   the end of a stream is related to the status the API shows.
