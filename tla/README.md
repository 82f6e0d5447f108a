# Zylos core in TLA+

Zylos keeps one AI coding agent (Claude Code or Codex, in a tmux session) alive on a machine and
connects it to chat channels, a scheduler and a task store. Almost all of its state is in SQLite
databases and small files that several processes share: the dispatcher daemon, the activity monitor,
channel adapters, command line tools the agent itself calls, and hooks. The bugs that tests of this
code hardly reach are in the order of their steps, in the claims and leases that order them, and in
crashes, retries and late answers. That is what is modelled here.

The modules are read from the source; `PROJECT.json` names, for every definition, the file and the
lines it stands for. Paths below are relative to `src/`.

- [Inventory](#inventory): parts, state, operations, what is hard, what makes each correct
- [Modules](#modules): how state and actions correspond to the code
- [Runs](#runs): what each model-checking run asks, its bounds, its fairness
- [Proofs](#proofs): what holds for all values of the constants, and why
- [Findings](#findings): where the code and its documentation or tests disagree
- [Not modelled](#not-modelled) and [Plan](#plan)

## Inventory

### How the parts interact

    channels ──> c4-receive ──> conversations ─┐                        ┌─> agent in tmux ─┐
    monitor, CLI ──> c4-control ──> controls ──┼─> c4-dispatcher ───────┘                  │
                                               │   (admission gates)                       │
                                               └─> run ledger <── runtime pending queue    │
                                                      │  ▲                                 │
                           event subscriptions <── events │ outcome <── c4-send, hooks <───┘
                                                      ▼
                                             reply intents ──> reply intent outbox ──> channels
    scheduler ──> c4-receive          activity monitor ──> heartbeat controls, restarts
    work intake ──> intake queue ──> commitment core ──> task runs, projection outbox
    zylos upgrade ──> lock file ──> component or core upgrade, rollback

The interactions are of three kinds: rows of a shared SQLite database (one transaction is atomic,
nothing between two transactions is); files renamed, locked or unlinked by path; and the agent's
terminal, which takes text and may lose it.

### Comm-bridge (`skills/comm-bridge/scripts`)

| Part | State | Operations | What is hard | Correct if |
|---|---|---|---|---|
| Run ledger (`run-ledger.js`, `canonical-run-event.js`) | source receipts, run rows, request and conversation rows, one event chain per request, cancel requests | accept, appendEvent, cancel, confirmCancellation | redelivery under some of a message's identities, late calls of an abandoned turn, cancellation racing everything | one request per message; the chain, the run row, the request row and the admission agree; what has ended stays ended |
| Runtime pending queue (`runtime-pending-queue.js`) | runtime admissions (submitted, started, completed, released) | claimNext, confirmStarted, releaseSubmitted, recoverStale | failed submissions, stale recovery of work that still runs | one owner of the runtime; lane order; turns are fenced |
| Reply outcome (`reply-outcome.js`) | outcomes, reply intents | commitRunOutcome, commitTaskReceipt | an outcome racing cancellation and recovery | one outcome per run, of its last turn, with the reply it calls for |
| Reply intent outbox (`reply-intent-outbox.js`) | delivery columns of intents, receipts, settlements | claimNext, recordReceipt, recoverExpiredLeases, recoverLegacyLeases, redrive | leases that expire while a send is in flight, lost answers, late answers, crashes | no send while an earlier one is in doubt; bounded tries; a consistent ledger |
| Event subscription (`event-subscription.js`) | cursors, deliveries with leases, degraded streams | claim, acknowledge, degrade | order per request under leases | every event once and in order, bad streams do not block good ones |
| Live response stream (`assistant-response-stream.js`, `hook-activity.js`) | requests, admissions, the runtime turn, candidates for the final answer, event deliveries | accept, start, record activity, finish, recover idle turns, expire | hooks of one turn run as processes of their own, overlap, come late or die; an agent restart; recovery of a turn that still works | activity belongs to the request that caused it, every accepted request is ended by somebody |
| C4 queues (`c4-db.js`) | conversations and controls | insert, rewrite, next, claim, requeue, ack, retry, expire, cleanup | several writers of one row, some of them blind to its status | a verdict stays, retries are bounded, every message is accounted for |
| Dispatcher (`c4-dispatcher.js`) | the item it works on | one round: sweep, choose, claim, gates, deliver, verify | the terminal swallows input, the agent goes away, a crash | nothing lost, nothing out of order, no false "done" |
| Intake queue (`c4-db.js`, `c4-intake-worker.js`) | intake rows | claim, complete, retry, stale recovery | a worker slower than the stale threshold, whose completion nothing fences | each message ingested once |
| Receive, send, checkpoints | rows of the above | insert, audit, summarise | | |

### Other parts

| Part | State | What is hard | Correct if |
|---|---|---|---|
| Commitment core (`skills/commitment-core/scripts/core.js`) | versioned tasks, events, command receipts | concurrent commands of people and agents | versions and history agree, a repeated command is answered once |
| Task runs (`task-runs.js`) | leases on a task | a lease that expires while its worker finishes or renews | one live run, and only it finishes the task's turn |
| Projection outbox (`projection-outbox.js`) | deliveries under leases, dead letters, redrives | order per task across retries | a projection sees a task's versions in order |
| Scheduler (`skills/scheduler/scripts`) | tasks, runs, next times | daemon and CLI write the same rows; sending after claiming | every due run dispatched once, finished once |
| Health engine, guardian (`skills/activity-monitor/scripts`) | health state, one pending heartbeat, backoff | a one second cycle and asynchronous probes over the same heartbeat | a failure is handled once, a verdict belongs to its heartbeat |
| Hook pipeline (`message-display-sequencer.js`, ...) | a state file, a lock file, batches | processes without a common parent, crash between emission and write | batches in order, none twice |
| Upgrade lock (`cli/lib/lock.js`) | a lock file per component | every file system call is a point where others run | one upgrade at a time, a dead owner's lock is reclaimed |
| Self and component upgrade (`cli/lib/self-upgrade.js`, `upgrade.js`) | files, dependencies, services, backups | a failing step, a failing rollback | the old or the new version, whole |
| Operator scripts (`scripts/upgrade-fork-pair.js`, `upgrade-hxa-connect.js`, `restore-*.js`, `native-task-convergence*.js`) | transaction directories, backups, registry, lock and journal files | several scripts over one installation, kills, resumes | backups that may be needed stay; reports and registry tell what is installed |
| Instruction files (`cli/lib/runtime/instruction-builder.js`, `instruction-migration.js`) | live, staged and saved files, a marker | renames file by file, recovery by the next command | the user's words survive; an output is of its inputs |
| Init and runtime switch (`cli/commands/init.js`, `runtime.js`) | marker, configuration, credentials, services | a kill between two writes | what a command reports is so |
| Cron, service commands, web console, tools | | input, output, text | |

`PROJECT.json` lists every part with its sources and its status, and under `hazards` every place in
the code where such a thing can go wrong, with the properties that watch it.

## Modules

| Module | Models | Extended by |
|---|---|---|
| `RunLedger` | run ledger: accept, append, cancel, and the canonical chain | `RuntimePendingQueue` |
| `RuntimePendingQueue` | claim, confirm, release, recover of the one runtime | `AssistantRun` |
| `AssistantRun` | the outcome transaction, and the three composed over one database | `MCAssistantRun`, `AssistantRunProofs` |
| `ReplyDelivery` | what the outbox promises of one delivery (abstract) | instantiated by `ReplyOutbox` |
| `ReplyOutbox` | claims, leases, receipts, settlements, redrives, and workers around a platform | `MCReplyOutbox`, `ReplyPathProofs` |
| `ResponseTurns` | the live response stream: dispatcher, runtime, hook processes and supervisor over its requests and admissions | `MCResponseStream`, `ReplyPathProofs` |
| `C4Queues` | conversation and control queues | `Dispatcher` |
| `Dispatcher` | rounds of the dispatcher over these queues and the terminal | `MCDispatcher`, `DispatcherProofs` |
| `HealthMonitor` | health engine, recovery probes, delivery notices, guardian, watchdog, message router | `MCSupervision` |
| `Scheduler` | the daemon's loop and the CLI over one task table | `MCSupervision` |
| `TaskRuns` | the commands, versions, events and receipts of tasks; claims, heartbeats and ends of their runs | `RunLeaseSweep`, `TaskProjection` |
| `RunLeaseSweep` | the supervisors that expire runs, under a fenced lease of their own | `MCTaskRuns`, `TaskRunsProofs` |
| `TaskProjection` | the projection outbox, its workers, and the remote task they write | `MCWorkExchange` |
| `WorkIntake` | a message on its way in: decision, confirmation card, conversation, intake queue, its worker | `MCWorkExchange` |
| `EventSubscription` | consumers of the run ledger's events: cursors, deliveries, leases, degraded requests | `MCWorkExchange` |
| `StreamDelivery` | the events of the live response stream on their way to a channel's adapter | `MCWorkExchange` |
| `UpgradeLock` | acquireLock and releaseLock, call by call | `MCUpgradeLock`, `MCUpgrades` |
| `ComponentUpgrade` | the steps of a component upgrade, its metadata journal and recovery, its rollback | `MCUpgrades` |
| `SelfUpgrade` | the steps of a Core upgrade, the finalizer of the new release, the rollback | `MCUpgrades` |
| `PairUpgrade` | the pair upgrade of Core and Feishu: transactions, resumes, retention, quarantine | `MCInstallation` |
| `HxaUpgrade` | the upgrade of hxa-connect beside the two scripts that restore it | `MCInstallation` |
| `SplitInstructions` | the transactions that activate, refresh and migrate the split instruction files | `MCInstallation` |
| `Initialisation` | `zylos init` and the switch of the runtime, step by step | `MCInstallation` |
| `TaskConvergence` | a convergence of native tasks: its lock, runner, command and journal | `MCInstallation` |
| `MCSupervision` | the composition of `HealthMonitor` and `Scheduler`, and its run | `SupervisionProofs` |
| `MCWorkExchange` | the composition of the four modules of the work exchange, and its run | `WorkExchangeProofs` |
| `MCUpgrades` | the three upgrade modules side by side, and their run | `UpgradesProofs` |
| `MCInstallation` | the five programs of `PairUpgrade` to `TaskConvergence` side by side, and their run | `InstallationProofs` |

Operators under a comment `Seeded fault` are plausible bugs of the operator that follows them. They
are used nowhere in a specification; `PROJECT.json` pairs each with the property that notices it.

### Run ledger, runtime queue, outcome

Every exported function of the three files is one transaction opened with `BEGIN IMMEDIATE`, so it is
one action. A call that is answered from an earlier result or refused writes nothing and is no step.
Variables are tables: `receipts` (`assistant_source_receipts`, by kind of identity and key), `run`
(`assistant_run_ledger`), `request`, `conversation`, `events` (a sequence per request), `admission`
(`runtime_turn_admissions`), `cancels`, `outcome`, `intent`. A request is its acceptance number, and a
turn its generation, because the turn id is made of both. Texts, times and ids that no decision
looks at are left out. `PersistenceOK` is `canonicalRunPersistenceFailure`, clause by clause, because
an outcome is refused when it fails.

Callers keep what they were once told: the admission, the generation and the head of the chain they
pass are *any*, stale ones too. That a recovery happens only after a threshold is left out: the
threshold is a caller's parameter, and the operation does the same whatever it is; so an admission may be
recovered at any time, including while the agent still works on it.

### Reply intent outbox

An operation is one transaction and one action; `claimNext` first returns every expired lease to
`reconcile_required` (`Recovered`), inside the same action. The call to the platform is an action of its
own, because a worker may crash (`Drop`), be late (`Tick`) or be overtaken between its claim and its
receipt. The platform is not in the repository and is modelled by the contract of the receipts: it
knows an attempt by its id, a send may be accepted, refused or leave no answer, whether shown or not,
and a reconciliation tells the truth of the moment it is asked. `prompt` says whether workers call the
platform before their lease expires; the code cannot enforce it, so `ShownOnce`, the only property about
what the user sees, is stated for such workers, and all others hold without it.
`Init` includes rows an earlier release left in `sending` without a claim epoch.

`ReplyDelivery` says what the outbox is for, in six phases per delivery. The mapping reads the phase
off the row's state; one transaction may move several deliveries (expired leases fall to doubt while
another is claimed), so the abstract step moves each by one legal move.

### Live response stream

`db` is what the stream keeps, and an operator over `db` is one of its transactions; an action is one
transaction or one file write of one process. Four parties share it: the dispatcher (`pump`), which admits one conversation at a
time; the runtime, which works on what was typed to it and starts a hook process at every step; the
hooks, each with the time it was started, which may run in any order, late, or die; and the supervisor that
expires silent runs. `file` is the binding file of each session, a projection of the admission that hooks read before
they call the stream, and may read while it is out of date. That a row was not written for long
enough is its flag `quiet`.

### Queues and dispatcher

A control row is (kind, status, retries, deadline, time available), a conversation row (kind, status,
second of arrival, and two marks). A control's kind holds what the code branches on: priority, idle requirement, bypass, whether
an acknowledgement is expected, and whether it is text, a keystroke, a heartbeat or a recovery heartbeat.
A message's kind names its entry, because `c4-receive.js` stores rows in four ways: `plain`, as pending or, when the sender was told that the agent is
away, as delivered; `task`, an explicit task, as pending, and its receiver writes the status once more; `audit`, the record of a WorkIntake task, as delivered, and again as
delivered; `question`, a confirmation of WorkIntake, as delivered, until the answer may queue it. The mark `owed` says that the
receiver may still write (`RewriteConversation`: `updateConversation` and `queueConfirmedWorkIntakeChat` do not look at what the dispatcher has made of the row), `told` that it was
the receiver who wrote it as delivered. So a delivered row need not have reached the terminal, and `MessagesAccounted` says which ones did; `MessagesInTurn` states it of every step, with the order (`OldestFirst`).
`Dispatcher` cuts `processNextMessage` where other processes or the agent can come between:
`Sweep` (deadlines, cleanup, and reading the agent state once, into `seenAt`), `Choose…`, `Claim`,
`GatePasses`/`GateDefers`, `AutoAck`/`Keystroke`/`Paste`, `Submitted`/`VerifyFails`. `Receive`, `AgentAcks`, `Sweeps`
(`c4-control.js get`), `AgentChanges` and `Clock` are the other processes. `Fault` is a crash, or an
exception of an admission gate: the round ends and the row stays as it was.

### Health

The monitor is one Node process, so an action is what runs between two awaits. `engine` holds the health
engine's fields, `pending` the heartbeat file, `control` the rows of heartbeats in the control queue; `probe` and
`notice` are the calls that are suspended at an await, with what they captured before it. A launch of the guardian clears the heartbeat file first
(`clearStaleState`), so a beat may be forgotten while its row is still in the queue. Delays (backoff,
grace, cooldown, deadlines) are flags that may pass at any time. Reasons, caches and the cooldown of user
messages are nondeterministic. `session` is the agent; it dies, hangs, shows an error or fails to answer
only as one of `MaxFaults` faults.

### Scheduler

One task, because tasks meet only in the order of the pick. The daemon's loop is its program counter: the
reads of each phase and the writes that follow are separate where another process can come between, and so are the claim
of a run, the send through C4 and the verdict. `pause` and `resume` read a task, then write it by its id
without looking again, hence two actions each; every other command states its condition in its write.

### Tasks, runs, projection

`COMMAND_DEFINITIONS` is the table of `core.js`: from which states, to which, by whom. A command writes the task,
its event and the outbox row of that event in one transaction. A run is a lease of a worker on a task in progress; that a lease
has run out may become true at any time. `RunLeaseSweep` adds the processes that sweep expired runs, whose own lease is in *another* database, so that
an owner may lose it between its renewal and its sweep. `TaskProjection` adds what carries the events to an external
task system: registration, a claimed batch under one lease, a remote call whose answer may be lost, and the settlement of each
delivery. A claim takes rows in the order of the outbox; the code orders by creation time, and rows of one millisecond by task.
`MaxRunVersion` bounds heartbeats and must be positive, since a claimed run has version 1.

### Work intake, subscriptions, stream delivery

`WorkIntake` follows one message through `c4-receive`, called three times by two processes that overlap, with the supervisor's workers
on the other side of the intake queue. A receiver is a program counter over its transactions, and may die between any
two; `conv`, `intake` and `confirmation` are the rows it leaves, `again` the further rows of an ordinary message that is
redelivered without a response stream (`Streamed` says which messages have one): the code stores it anew each time. The explicit route (a task envelope) stores the intent before the chat row, the
natural route may hold the message behind a confirmation card whose answer is a message too. `Ingested` is the idempotent ingestion of the
commitment core. `EventSubscription` and `StreamDelivery` are two queues of events with leases, one per consumer with one request's
events in order and a limit of requests in flight, the other in batches of several requests that are settled one after another.
In `EventSubscription` a record may be damaged at any time; the claim that meets it degrades the request and goes on with the others.
`MCWorkExchange` checks the four queues together: a variable `program` says which of them a behaviour runs.

### Upgrades

The lock file is its owner and whether its contents have been written (`wx` creates it empty first). `OwnerStates` gives
the answers `ownerState` can give of a process that runs or has ended, on a host that tells the start of a
process or hides it. Every `existsSync`, parse, judgement, `unlinkSync` and write is a step. An unlink acts
on the path, that is on whatever file is there by then.

In `ComponentUpgrade` and `SelfUpgrade` a tree of files is the release it is of, or `mixed`; what the owner changed locally, and a
merge kept, does not count. The steps are a list, in the
order of the code; each may succeed, fail before or fail after its effect, and a process may be killed between two steps and in
the middle of one that copies or removes a tree or restarts services: a restart that fails or is interrupted may leave a service running, stopped or
(Core's, which are deleted first when the ecosystem file does not take) not listed. The rollback of Core restores the package, the skills and their baselines
but not the skills' `node_modules` nor the configuration, and the properties promise no more.
PM2 is installed, a single file is written or renamed whole, and the backup of the staging scheme before this one (`originals.bak`) is left out. `ComponentUpgrade` includes what survives a kill: the merge baseline with its staging
directory, the metadata journal, and another command that rolls the journal forward at any time. `SelfUpgrade` has two
processes, the installed release and the finalizer of the new one, and the list of PM2 services with what each runs.

`MCUpgrades` checks the three together: a variable `program` says which of them a behaviour runs, and they share nothing.

### What an operator runs by hand

`MCInstallation` checks five programs, again one per behaviour. `PairUpgrade`: a transaction is a directory with a journal; a driver is a process that runs its
stages, and a kill leaves the journal for `--resume`; the target of a transaction is any release: a new one, the installed one again, or an older one (`MayTarget`); backups are the releases they hold, with the
transaction that made them, and retention keeps two. `HxaUpgrade`: the script that upgrades and the
two that restore, with the registry file, the component tree, PM2 and the lock each of them takes. `SplitInstructions`: the live files with their
staged and saved copies; a commit renames file by file, a rollback goes back, and the next command (or the guardian, before it starts the agent) recovers what a killed one left.
`Initialisation`: the steps of init and of the switch of the runtime over the marker, the configuration, credentials and services, one command
at a time. `TaskConvergence`: the lock file with its phases, the runner that starts the business command, the summary and journal, and the judgement of a lock whose processes ended. A run also
releases its lock when no work was started under it, that is, when its runner died before it introduced itself (`NoWorkStarted`).
`HostIsSound` gathers what each program promises.

## Runs

All passing runs explore their whole state space. `CHECK_DEADLOCK FALSE` stands where every request, lease or
process may come to an end within the bounds.

| Run | Question | Bounds | Fairness |
|---|---|---|---|
| `lifecycle` | Do run, admission, history, outcome and cancellation agree in every interleaving? | two requests (one lane, or two with an idle gate), each redelivered whole or in part; two generations, three admissions, two cancellation keys, one output event per run | none needed: safety |
| `outbox_ledger` | Is the outbox ledger consistent, does it implement `ReplyDelivery`, is a reply shown once? | two intents, two workers, two attempts, one redrive, four claims, two ticks | none |
| `response_turns` | Does activity stay with the request that caused it, and does somebody end every request? | two requests, two sessions (one restart of the agent), two steps, two hooks in flight, one fault | none |
| `dispatcher_controls` | Do controls get a true and final verdict, with bounded retries? | two controls of three kinds, two retries, two seconds, one fault, agent resting or gone | `FairSpec` |
| `dispatcher_messages` | Is each message accounted for, typed in its turn and not left pending? | two messages of four entries and two priorities, one usage alert, one second, one fault, agent resting or working | `FairSpec` |
| `supervision` | Is the agent always brought back and then left alone? Do task and runs of the scheduler agree, and is due work settled? | monitor: two beats, one probe and one notice at a time, three faults, from every health a status file may hold; scheduler: one task, two CLI processes, four commands, two faults | `Spec`, each program while it runs |
| `installation` | Do the programs an operator runs on a host leave what the next one, or a person, needs, whatever stops in the middle? | pair: two drivers, two past and two new transactions, each to a release new, installed or old, four backups, one resume, one trouble; hxa: three script runs, one kill; split: three commands, two of them at once, two disturbances; setup: three commands one after another, one trouble; converge: three runs, commands of two steps, one mishap | none: safety |
| `task_runs` | One run per task in progress, histories that agree, no task held for ever | one task, two runs, two workers, two supervisors, four versions, two lapses | `FairSpec` |
| `work_exchange` | Is the newest version published before it counts as such? Has a message one fate and one task? Are events heard in order, and does every queue drain? | projection: two versions, two workers with batches of two, two attempts, one redrive, one fault; intake: one message, two processes that receive it, three calls, two workers, two tries, one redrive, one death; subscription: two requests of two events, three workers, two in flight, one mishap; stream: two requests with three events in all, one of them with at most one, two workers with batches of two, two tries, one trouble, one redrive | `Spec` |
| `upgrades` | One upgrade at a time; the old release or the new one, whole, after failures anywhere | lock: two processes, one on a host that hides start tokens, one crash; component: two attempts, one kill or failed write; Core: one upgrade, three services, a kill of the finalizer | `Spec` |
| `active_run_can_complete`, `lock_third_process` | the findings below | the smallest instance that shows each | none: safety |

Why these bounds are enough for the cases that matter:

- `lifecycle`: order needs two requests of a lane; a turn that is abandoned and comes back late needs two
  generations; a reservation that fails, one that goes stale and one that starts need three admissions; a
  partial redelivery needs two keys; a cancellation of an abandoned turn meets one of the next in two cancellation keys, which
  differ in nothing but their names (`CancelSymmetry`).
- `outbox_ledger`: a stale worker and its successor are two workers; `MaxAttempts = 2` separates the retry from the last one;
  a redrive separates the count of a generation from the count of the row; two ticks of leases of length one let a lease
  expire on a send and on its reconciliation; which intent comes first, and a worker that is late with one while it holds another, need
  two intents; four claims are a send, its reconciliation, a retry and one more. Workers are interchangeable and occur only
  symmetrically in the properties, so the symmetry of `WorkerSymmetry` is sound for these safety properties.
- `response_turns`: a hook that belongs to an earlier turn needs two requests; an admission of a session that is gone needs a second session;
  an answer and a tool after it, or a tool whose second hook is late, are two steps; two hooks that overlap are two in flight. With a second
  fault both properties fail: if the start of the run and also the hook that would repair it are lost, nothing ends the request, and an answer may go to the next
  request (see the observations).
- `dispatcher_controls`: one heartbeat that supersedes another is two controls; a deadline of one second can be met, reached or missed
  with two ticks; two retries separate "again" from "given up".
- `dispatcher_messages`: overtaking needs two messages, waiting behind a command one control; a receiver that writes the row in the dispatcher's hands needs one
  message of each entry, and any two of them meet.
- `supervision`: a probe, a notice and the cycle over the same beat are one each; a beat that was replaced needs a second one; three faults are a failure, the failure of
  its probe and one more while the agent is brought back. A late pause or resume and a command that overtakes it are two callers; add, pause, resume and one more are
  four commands.
- `installation`: a transaction that is resumed beside a retention is two drivers; a backup that retention may take needs transactions of the past; a restorer that
  overlaps an upgrade and a restore after it are three scripts. A command that recovers what another one left half done is two commands, and an edit or
  a second kill in the recovery two disturbances. A stale lock, the run that takes it over and one that takes it over at the same time are three runs;
  of kills and signals the run meets one, and `ConvergenceIsExclusive` holds for any number of them, of steps and of runs. A release that is installed again, one that is gone back to
  and one nobody has seen differ for two new transactions after two old ones, and the second new one is the third to its release.
  Drivers and commands are interchangeable, and the run has invariants only, so the symmetry is sound. `TaskConvergence` stops where a fresh lock was moved
  away (`robbed`, see the observations).
- `task_runs`: a stale worker and its successor are two runs of two workers; a fenced-out supervisor and its successor are two supervisors and two lapses
  (a run with `--once` is one of them).
- `work_exchange`: overtaking needs two versions, two workers and a batch of both; two attempts separate the retry from the last one. A redelivered
  message is two calls at once, and a card and its answer a third; of two ordinary messages one has a response stream and one has none; a worker that is too slow and its successor are two. A request that blocks others needs a
  second request and a third worker. A batch whose last event is retried, settled late or overtaken is two of three events; one of two requests is settled request by request. Of three events one of the two requests has at most one, and which one makes no difference (`Brief`).
- `upgrades`: with two processes a lock can be free, held, abandoned, judged and contended; three are needed only for the
  race of `lock_third_process`. A second attempt starts from what the first left; one kill meets every step of the list.

Fairness. The dispatcher is a loop restarted by PM2 (`c4-dispatcher.js`, `dispatcherLoop`), hence weak fairness of
its steps; the clock goes on. A gate that lets an item pass, a paste that works and a submission that is verified
are outcomes of the environment: they are assumed only if the item comes up for them again and again (strong
fairness), never at a particular try. `AllDelivered` further assumes an agent that ends up idle, rested and healthy.
`VerdictsCome` speaks of controls with a deadline before the end of the clock, and needs a sweep and the clock only.

`supervision` and `work_exchange` state each program's fairness while it runs. `HealthMonitor`: the cycle and the tick run every second, delays pass, suspended calls return, a launched session comes up, and an agent that is up
answers a heartbeat; people keep writing (`RouteStarts`), because in `rate_limited` and `auth_failed` only a message or a timer starts a probe. The guardian's
relaunch needs strong fairness: its patience is counted in ticks, and a tick in between may see a session. `Scheduler`: the
daemon is restarted by PM2 and its loop goes on, hours pass, an absent agent returns; strong fairness of a task's pick stands for the
order by due time among equals. `RunLeaseSweep`, `TaskProjection`, `WorkIntake`, `EventSubscription`, `StreamDelivery`: each process's loop goes on, leases end and retries fall due. `UpgradeLock`: every process that
has not ended is run by its host, and an upgrade ends. `ComponentUpgrade`: an upgrade that runs goes on, and commands that read the registry are run
again. Crashes, faults and commands are never fair. `ReplyOutbox`, `ResponseTurns`, `AssistantRun`, `SelfUpgrade` and the programs of `installation` assume none.

## Proofs

`tlapm <Module>.tla` checks each of the proof modules. A theorem holds for every value of the constants that satisfies the named
assumptions of the modules: types and signs of the bounds, null values that are not values, finite sets where the code has
tables (`IsFiniteSet(Runs)`, `IsFiniteSet(Tasks)`), at least one session, `Anonymous \subseteq Procs`, that the absence of a lock file is no lock record, that the lock of a process which ended long ago names none of the scripts (`StaleAssumption`), and that a service
belongs to one of the three kinds of `SelfUpgrade`. Two theorems say more in their hypothesis: `TurnsAreToldRight` and `NoRequestIsForgotten` assume
`MaxFaults <= 1`, because with two faults both properties are false (see the observations).

| Module | Theorem | Says |
|---|---|---|
| `AssistantRunProofs` | `TypeCorrect` | every row of every table is well formed, and the chains are sequences of well formed events |
| | `RuntimeHasOneOwner` | at most one admission occupies the shared runtime; it is the current turn of an unfinished run and matches that run's status; a running run holds it |
| | `LanesKeepOrder` | runs of a lane reach the runtime in the order of their acceptance |
| | `RunsAlwaysTellOneStory` | receipts, chain, generations, outcome and cancellations agree with the ledger row |
| | `EndsStayFinal` | no step rewrites what a finished run has left |
| `ReplyPathProofs` | `OutboxTypeCorrect`, `LedgerIsValid` | the rows are well typed, and `validateDeliveryLedger` never finds one to throw at |
| | `ReplyShownOnce` | of workers that call before their lease expires: a reply is shown at most once |
| | `LeaseIsExclusive` | while a lease is live, only the answer to its claim changes the delivery |
| | `OutboxImplementsDelivery` | the outbox implements `ReplyDelivery` |
| | `TurnTypes`, `DatabaseHoldsTogether` | requests, admissions and events of the response stream are well typed; every event is one of a request and its turn, what was shown is counted, a session has one open request |
| | `TurnsAreToldRight` | with at most one fault, activity stays in the turn that caused it and the answer that is delivered is the request's own |
| | `NoRequestIsForgotten` | with at most one fault, whatever is open has somebody left who will end it |
| `TaskRunsProofs` | `TaskRunsTypeCorrect` | the tables of tasks, runs and of the sweep's lease are well typed, with tokens and lapses within their bounds |
| | `RunOwnsItsTask`, `EventsTellTheRows` | an active run is its task's only one; the events of tasks and runs tell how the rows came to be |
| | `LeasesDecideEnds` | runs end as their lease allows, and the sweep's lease passes on with a higher token |
| `DispatcherProofs` | `DispatcherTypeCorrect` | queues and dispatcher are well typed; a control that is sent has a retry left |
| | `NothingDoneUnseen` | a control that is done, other than a primary heartbeat, was put into the terminal |
| | `MessagesComeInTurn` | a delivered message was typed or answered by its receiver, what the receiver answered is not typed as well (but for an explicit task), and messages of one priority come in the order they arrived |
| `SupervisionProofs` | `SupervisionTypeCorrect` | the monitor and the scheduler are well typed |
| | `TasksTellTheirStory`, `SupervisedTasksTellTheirStory` | a scheduled task and its newest run tell one story, of the scheduler alone and in the composition |
| | `ProbesFindTheirVerdict` | no heartbeat that somebody waits for has left the control queue |
| `WorkExchangeProofs` | `ExchangeTypeCorrect` | the four queues are well typed; every outbox row has its delivery |
| | `NewestIsPublished` | the newest version of a task is acknowledged only after the remote has answered a call with it |
| | `MessagesHaveOneFate` | a message has one fate and one task, each of its rows is given to the agent once, only an ordinary message without a response stream has several, and what is recorded of it is so |
| | `EventsReachInOrder` | consumers and adapters hear of a request's events in their order |
| `UpgradesProofs` | `EvictionNeedsDeath` | whoever is about to reclaim a lock has parsed an owner that has ended |
| | `TwoProcessesExclude` | of at most two processes (`AtMostTwo`) never both hold a component's upgrade lock |
| | `TypesHold` | the lock, the files, baseline and metadata of a component, and Core's trees, services and contexts are well typed |
| | `InstallationStaysWhole` | a success or a clean rollback left one whole release, and the baseline of the next merge is not behind |
| `InstallationProofs` | `ComponentReportsTellTruth` | the upgrades and restores of a component are well typed; what their reports and the registry say is on the disk |
| | `SetupIsKept` | a host set up, set up again, switched or killed on the way keeps its parts, runtime, credential and services as the commands said |
| | `ConvergenceIsExclusive` | no two commands of convergences work at once nor without the lock, the lock stays with who took it, and a `PASS` is true |

`WorkExchangeProofs` takes the lemmas about `TaskRuns` from `TaskRunsProofs`. The theorems of a composition follow from
the invariants of its parts, because a step of the composition is a step of one part and leaves the variables of the others alone.

### The inductive invariants

- **Runtime.** `OneOwner` is inductive together with `TypeOK`. Its three conjuncts need one another: `SingleOwner` alone does not survive
  `ConfirmStarted` (the run must be queued for the reservation to be its own), and `RunningIsOwner` is what makes closing the
  owner of an ended run (`EndRun`) leave nobody behind. `OwnerFrame` treats all steps that touch no admission and `OwnerEnd` the three ways a run ends.
- **Runs.** `IInv` of the second half of `AssistantRunProofs` stands on `OneOwner`. `Stories` says of each chain that it is canonical, that its last event
  tells the row's status and generation, and that only a last event may be terminal: this makes `EndIsFinal` a fact about the guards. `LanesSorted`
  (sequences of a lane increase with acceptance) and `LaneWaited` (whoever occupies the runtime has waited for its lane) give `LaneOrder`; the
  second one alone is not inductive, because `claimNext` compares sequences and not acceptances. Cancellations need that a pending request of the *current* generation
  means `cancel_requested`, since one of an older generation may stay pending after a recovery.
- **Reply outbox.** What makes the ledger valid is local to a row (`RowOK`: budget, lease, attempt in flight); what makes a reply shown once is not:
  `RefusalsKnown` (every attempt before the one in flight has a receipt that refuses it), `ReceiptsFenced` (no receipt of the live epoch yet), `JobsOK` (a worker
  whose claim has not expired still holds the row, so nobody else does) and `AnswersTrue` (a refusal stays true while its lease lives) together exclude that a second attempt is sent
  while the first may still be shown (`LastIsShown`). The refinement needs no more than the types and `RowOK`: each transaction moves every row by one legal
  phase or leaves it.
- **Response turns.** What holds after any number of faults is about the database alone: `StateInv` and `DataInv` say which marks an admission may bear, that each of its events has the
  mark it belongs to, that the batches that were shown are counted, and that a session has one open request. What is said of the *turn* needs the processes, so `Protocol` follows
  every hook process and the agent through it: `PromptAlone` and `StopAlone` (what else may be in flight beside a prompt or stop hook), `TouchedIsAdmitted` (the agent works only on a request whose admission
  exists), `SubmittedWaits` and `PromptTurn` (between the submission and the prompt hook the oldest admission is the one typed), `FileOfTurn`, `WorkFile`, `StopFile` (the marker file names the turn that wrote it),
  `StrangersKeptOut` (an admission that was closed by recovery binds nobody), `QueuedWaits` (who will end a queued request). `Clean` is what holds before the fault; the one fault
  leaves exactly one of these parts broken, and the invariant says which and what then stands in for it.
- **Task runs.** Rows and events go together (`Stories`); the task version named by a run's event is bounded by the task's, so that appending an event
  of the task does not change what a run's last event refers to. Bounds of the sweep's lease need `TokensCounted`: every fencing token but that of a process
  with a live lease has cost a lapse.
- **Dispatcher.** `RetriesLeft` speaks of the row in hand too, because the agent, the monitor and the dispatcher write a control independently. `OldestTaken` carries
  the order of arrival over the claim and the gates between choice and delivery, for the messages that only the dispatcher writes (`Untouched`); new messages arrive `now`, and what is past is past (`Arrived`).
  `LeftAlone` says what a receiver that is done with a row leaves of it, `Delivered` that a delivered one was typed or told.
- **Supervision.** The scheduler's invariant keeps the row and the newest run of a task together (`Agrees`), in every write of the daemon and of the
  commands, those that do not look at the status included. The monitor's relates the pending file and the probes to rows of the control queue, over every await.
- **Projection.** `RowDone`: a row is superseded, or its snapshot was accepted and its task linked. Acknowledged rows are done, and so is every
  entry that a worker has noted as published, although its lease may be lost; a worker that calls holds a snapshot between the version of its row and the task's. That the rows fit
  the deliveries is a count: no two rows say the same, so there is an injection into tasks and versions. The order of a claim does not matter to the theorem.
- **Intake.** Each row of a message is related to what was decided (`ChoiceOf`, `ChatRow`, `IntentRow`, `QueueRow`), and every receiver and worker to what it has read
  before its next transaction (`ReceiverKnows`, `WorkerKnows`): what it has read may be old, but can only have moved in one direction (`Kept`). `FurtherInv` counts the rows of redeliveries:
  there are some only of an ordinary message without a stream, and no more were shown than stored.
- **Subscriptions and streams.** A consumer has one event of a request in flight, whose predecessors are acknowledged (`OneByOne`), and degraded requests are left out;
  a deliverer's batch is a block of leased or lost events after settled ones (`BatchWhole`, `AnswerTrue`).
- **Lock.** `EvictsOnlyTheDead` is not inductive: a process judges the owner it has *seen*, so `ParsedAnOwner` (who judges or unlinks has
  seen a process) is added. The argument is that no one comes back from the dead, and `ReclaimableIsDead`: an answer that allows reclaiming is given only of a process that has ended.
  With two processes more holds (`HolderInv`): the file belongs to whoever works, since the owner that was judged can only be the other process, and it is dead (`NobodyEvicts`).
  A third process breaks exactly this step: the lock it took is not the one that was judged.
- **Component upgrade.** What a success or a rollback leaves is decided steps earlier, so the invariant says at every step how far the attempt has come: `ForwardOK`
  (what of the disk is already new, that nothing was touched before the backup, and what the context remembers of it), `BackwardOK` (what is restored when every part so far was
  done; only a backup taken before the first change can be restored), `BaselineOK` (the originals and the manifest stage by stage) and `MetaOK` (marker and registry lag behind the manifest only while
  a journal says so). A kill at any step leaves `BaselineOK` and `MetaOK` to the next command, which is why they speak of `command` as well.
- **Core upgrade.** Two processes with a context each: `Turns` says which one moves, and that the finalizer's steps lie between the first's `wait` and its rollback. `ServicesOK` follows the
  services through restart, save and verification, `Undone` is what a rollback has restored that has come to a part; `RollMoves` proves a part for either process. What
  the first process does not know is visible in `FirstOK`: its `started` is empty, so after a kill of the finalizer the services that were added stay, and the theorem excludes just them.
- **The three upgrades** share no variable, so `IInv` of `UpgradesProofs` is their conjunction; the services, attempts, crashes and processes are arbitrary.
- **Component replacement.** Whoever is past its lock holds it and nobody else holds one (`LocksAreHeld`), which keeps the upgrades apart from one another and the restores too; but an upgrade and a restore may meet.
  `CommitIsInstalled`: what an upgrade is about to commit stays installed, whoever runs beside it. `AllIsNamed` says what holds as long as nothing is `excused`, that is, no upgrade was left half done and none met a restore that did not see it: no restore
  runs beside an upgrade that has begun its work, its copy of the registry is not stale, and the registry names what is installed or, by the journal or the commit to come, will name it.
- **Initialisation.** A command's place says what it has behind it (`PastDirs`, `PastRuntime`, `PastEnv` ...), and each part of the invariant relates one part of the host to that place: `PartsThere` what is on the disk,
  `ServicesRead` which services may still run the runtime of before (`MayLag`), `SecretsSaved` which credential is on its way to `.env` (`OnItsWay`), `RuntimeChosen` which runtime `config.json` names; each of them is
  excepted exactly while `lost` names the part, and that a kill adds to `lost` whatever the place owes (`Undone`) is what the proof of `KillSetup` shows.
- **Convergence.** `LockTells` says whom the record of the lock names and `OneIsEngaged` that at most one run with its runner and command may still touch anything, and that the lock is its own unless the late runner of a dead run has written over it what stops
  everybody (`RUNNER_READY`); `InTurn` orders a run, its runner and its command. That a reclaimed lock leaves nobody at work is the heart of it: a record is judged reclaimable only when its run, its runner and its command are over (`Over`), and
  none of them comes back. `Recorded` and `Done` carry what was done into the receipts, and from them into the `PASS`; what depends on the lock is excepted where a fresh lock was moved away (`robbed`).
- **The programs of a host** share no variable and one of them runs: `HostInv` is the conjunction of their invariants, and a step of one leaves the others' alone.

### Only model-checked

- Of `MCInstallation`, the parts of `TypeOK` and `HostIsSound` about `PairUpgrade` and `SplitInstructions`: no theorem states them yet.
- `TurnsTellOneStory` and `SomebodyEndsIt` for two faults or more are false, not unproved.
- `UpgradeLock.MutualExclusion` for more than two processes is false, not unproved: `lock_third_process` refutes it for three.
- Out of the provers' reach are the liveness properties: `AllDelivered`, `VerdictsCome`, `HealthReturns`, `WorkIsSettled`, `ExpiredRunsEnd`, `QueuesDrain`,
  `LockReturns` and `CommittedIsFinished`.

## Findings

1. `lock_third_process`, a bug (`cli/lib/lock.js:114`): `removeReclaimableLock` unlinks the path after judging a lock it parsed
   earlier. If that owner released the lock and ended meanwhile, and a third process took it, the third one's lock is removed and
   two upgrades run at once, without any crash.
2. `active_run_can_complete`, a bug (`canonical-run-event.js:379`): the check of recovery events looks at the *first* admission of the generation.
   If a submission failed and the next one of the same generation went stale, it finds the wrong one, and the
   recovered run can never commit an outcome (`RUN_RECOVERY_ADMISSION_MISMATCH`), though `reply-outcome.test.js:491` tests that a recovered run can.

### Observations

What the models show of the code where no document says otherwise, or none says it precisely:

- Run ledger: stale recovery also takes a run whose cancellation was accepted (`runtime-pending-queue.js:525`); the run is executed again and the cancel
  request stays `requested` for the old generation. After a stale recovery the last `RunStarted` of the chain belongs to the old
  generation, so the recovered run fails `PersistenceOK` until it starts again (`canonical-run-event.js:394`).
- Queues: a receiver writes the status of an explicit task whatever the dispatcher has made of it, so a row in the dispatcher's hands may become pending or delivered (`c4-db.js:1646`). `retryOrFailControl` does not look at the status, so a control that was acknowledged while its submission was
  being verified may be delivered again (`c4-db.js:2090`). A conversation that a crash leaves `running` is requeued by nothing.
- Response stream: a delta that arrives while its request is still queued is stored as a dead letter, left out of the answer
  (`assistant-response-stream.js:1218`), and blocks later events until it is redriven. A hook at a tool boundary may start the admission of the *next*
  request for an old turn. After an explicit reply with another text the Stop hook's finish throws, and the admission stays until idle recovery. A Stop after a
  recovery that was premature may fail the next request. A lost prompt hook lets activity be bound to the request of the next admission.
  Two faults: the prompt hook of a turn dies, and after a silence the next request is replaced by a third while the agent still works; its tool hook then binds the third one's
  admission, its stop hook dies too, and the stop of the turn after it completes the third request with the second one's answer.
- Intake: `updateConversation` writes by id and does not look at the status, so an explicit task message that was already delivered can become pending
  again and be given to the agent twice (`c4-receive.js:743`, `c4-db.js:1646`), and a `task-intake-failed` may be overwritten. A worker that dies after the ingestion may leave an
  intake row `failed` whose task exists; a worker that is too slow puts back the row of its successor (`c4-db.js:1611`). A `chat_only` message that is redelivered
  without a response stream is stored and shown again, once more with every redelivery (`RowsShownOnce` counts them). When `retryOrFail` finds no row it returns null, and the worker throws.
- Subscriptions: when claiming throws, its transaction takes back the degradation and the recovered leases as well. Stream delivery: an adapter that answers too late
  is given the events again; a dead letter holds back all later events of its request until an operator redrives it.
- Health: one failed beat may be handled by the cycle and by a probe; the authentication of a probe acts on the health of before
  its await (`health-engine.js:574`); a beat acknowledged just before the agent is killed still makes it well.
- Scheduler: `pause` and `resume` write without looking again (`scheduler/scripts/cli.js:376,405`), so a late one overwrites `running`, `completed` or
  `failed`, and a one-time task may run twice. A task left `running` by a release without run rows never times out.
- Projection: two workers can, without any fault, leave the remote task at an older version: the older version's update is sent
  after the newer one was acknowledged (`SKILL.md:467` speaks of eventual convergence). `NewestWasPublished` is what holds.
- Pair upgrade: `--resume` does not ask whether the process it resumes is alive; a transaction killed while staging can neither be resumed nor started again in its directory;
  upgrading to the same release three times retires the last backup of the release before, since retention counts backups and not what is in them: `WayBack` holds but for this (`Insisted`), with two processes at a time; the retention lock of a dead process
  disables retention for good, and a torn generation makes every later retention warn.
- hxa-connect: the restorers look at no other lock or process and rewrite `components.json` without the registry lock, so a restore beside an upgrade
  can write the old release back into the registry and report `PASS`; locks of dead processes stay for ever.
- Split instructions: init, upgrade and migrate share no lock, so the recovery of one cleans the live transaction of another; an edit of `ZYLOS.md` between its reading and the staged
  output is not rendered before the next edit, and one during a migration is overwritten; a crash between the rename to `.bak` and the one into place leaves `CLAUDE.md` missing until an
  operator's command, because the guardian does not recover; residue of a killed migration lets a fresh init pass the gate for legacy files (`instruction-builder.js:358`).
- Initialisation: a reset forgets an unchanged runtime; init killed between `createDirectoryStructure` and `deployTemplates` never deploys them, so the agent is never launched; a switch killed after
  `updateZylosConfig` is "Already on" when it is repeated, while services run the old runtime; a refused switch may have replaced a good credential.
- Task convergence: `acquireApplyLock` judges a stale lock and then renames whatever is there, so of two runs that take over at once the second may move the fresh lock of the first
  away, and two commands run at once (`native-task-convergence.js:736`); a runner of a dead run may write its phase over the lock of its successor, which then stays for an operator.
- Upgrades: an unreadable lock file is kept for ever (`lock.js:139`) and a dead registry lock is never broken; an uncommitted journal of a
  dead process waits for an operator; Core and component upgrades hold different locks (`component.js:1218`); if the first process of a Core upgrade is
  killed, nothing recovers it.

## Not modelled

- Pure input and output, rendering and text: message formats, attachments, prompts, three-way merges, cron expressions.
- The contents of admission gates in `Dispatcher`: they pass, defer or throw; the ledger behind them is `AssistantRun` and `ResponseTurns`.
- Rows of releases before the ledger (admissions and requests without a ledger row).
- Response stream: batches of one hook, the Codex adapter.
- Scheduler: more than one task, history cleanup, migration. Upgrades: downloads, installation of a new component, backups of
  releases without staged originals, PM2 being unavailable, restoration of configuration after a Core rollback.
- `commitTaskReceipt`; checkpoints and notice cooldowns of `c4-db.js`.
- Lease tokens of the outbox: a token factory may repeat itself, so the model shows that the other fences suffice.
- Whatever `PROJECT.json` lists with the status `not_modelled`.

## Plan

Theorems worth proving next: the parts of `HostIsSound` about `PairUpgrade` and `SplitInstructions`. All modules are written for this: no
recursive operator in what they extend, constants with named assumptions, invariants in named parts. Of the model, what would add most is `commitTaskReceipt`, the outbound policy of `c4-send`, and the checkpoints of sessions.
