# A TLA+ development of agent-desktop

`agent-desktop` gives a command-line or MCP caller a private KDE desktop. A
manager process starts one *session worker* per named session under systemd; the
worker runs a compositor, answers requests on a socket, launches applications,
sends input, looks at windows and captures the screen, and writes down what it
did before and after it does it. This directory holds TLA+ modules translated
from its source, the TLC configurations that check them on small instances, and
proofs checked by TLAPS.

File names without a directory are in `src/agent_desktop/`.

    tlc -workers 2 -config SchedulerAlone.cfg MCScheduler.tla
    tlc -workers 2 -config Journal.cfg Journal.tla
    tlc -workers 2 -config Lifecycle.cfg MCLifecycle.tla
    tlc -workers 2 -config Applications.cfg Applications.tla
    tlc -workers 2 -config Worker.cfg Worker.tla
    tlc -workers 2 -config Store.cfg Store.tla
    tlc -workers 2 -config WindowTasks.cfg WindowTasks.tla
    tlc -workers 2 -config Mcp.cfg Mcp.tla
    tlapm SchedulerProofs.tla

`PROJECT.json` lists the components, the runs, the mutants that show each
property can fail, the lines each definition translates, the findings, the
hazards and the theorems.

## 1. The system

The worker is one process with one event loop (`worker.tick`, every 5 ms and at
every wake-up) and one more thread, the journal's writer. Almost every hard
behaviour comes from three facts: a request outlives many turns of the loop; the
writer thread answers later than the loop asks, or never; and children,
compositor and caller come and go at any time.

| component | state it keeps | operations | what makes it correct |
|---|---|---|---|
| Request scheduler (`scheduler.py`) | works with stage, error, deadlines, record tickets; the queue, the active work, the lifecycle work and its waiters, `closed` | `submit`, `cancel`, `tick` (expire, lifecycle, release, start, advance), `begin_shutdown`, `drain_shutdown` | records before effects; no success that is not durable; one owner of the desktop; every request answered |
| Request records (`records.py`) | the tickets of one request, the stage reached | `factory`, `observe` | order of the records, and one refusal spoils the later ones |
| Durable writer (`writer.py`) | queue, completions, reserved operations and bytes, cutoff, thread | `submit`, `drain`, `close`, the thread's loop | submission order, dependencies, exact accounting, bounded close |
| Worker loop (`worker.py`, `watchdog.py`, `health.py`) | cause, stop waiters, shutdown, readiness | `tick`, `dispatch_request`, `begin_stop`, `record_failure`, `late_failure` | one cause; a stop is answered; the store is closed only when nothing uses it |
| Graceful shutdown (`shutdown.py`) | phase and its deadlines, the first error | `tick` through cancel, release, close | every phase ends; nothing is reported clean that is not |
| Transport (`transport.py`, `protocol.py`) | connections, queued and held replies, admission pauses | `accept`, `ready`, `dispatch`, `reply`, `service`, `complete`, `disconnect` | a reply leaves after its terminal record, or is replaced; controls are never shut out |
| Input (`input_connection.py`, `input_actions.py`, `input_method.py`, `keymap.py`) | devices and their serials, the held keys and buttons, the task's phase | `connect`, `tick`, `move`, `press`, `release`, `dispose`; `step`, `cleanup` | what is pressed is released or its release reported as unknown; no emission without its intent |
| Launch and ownership (`applications.py`, `app_processes.py`, `app_launcher.py`, `children.py`) | launch phase, gate pipe, process ledger, scan state | allocate, prepare, authorize; `Registry.tick`: observe, scan, retire | nothing runs before its start is recorded; no process is signalled that was not verified |
| Close and kill (`closing.py`, `terminating.py`) | phase, identity of the target | `step`, `cleanup` | the target is the one that was asked for |
| Lifecycle manager (`lifecycle.py`, `ownership.py`, `runtime.py`) | on disk: owner, intent, endpoint, locks; in systemd: the unit | start, stop, status, retire | one generation per session; a crash anywhere leaves something the next manager can retire |
| Service cleanup (`service_cleanup.py`) | relay and final classification | `relay`, `finalize` | a generation is classified once, from what its worker left |
| Readiness (`desktop.py`, `readiness.py`, `private_bus.py`) | phase, checks and their age | construction, `check` | ready means every essential was seen recently |
| Owner time (`owner_time.py`) | budget, stall credit | `budget`, `poll` | a stalled owner does not use up the other side's time |
| Windows (`windows.py`, `targeting.py`, `window_types.py`) | query phase, script id, replies | `step`, `cancel`, `cleanup` | a late reply is not another query's; every script is unloaded |
| Capture (`capture.py`, `screenshots.py`, `capture_codec.py`) | child, pipe, deadline | `step`, `cleanup` | the child is always collected |
| Store (`artifacts.py`, `logs.py`) | directory fds, whether the link of the observations is durable | create, `generation_update`, `request`, `transition`, `allocate`, `artifact_state`, `application_*`, `window_observation` | what was acknowledged survives a power loss; a manifest stands for a whole store; the first failure stays |
| MCP server (`mcp.py`, `mcp_call.py`, `mcp_tools.py`) | the calls in progress and their processes, the slots, the outbox | handle a message, run a call, cancel, shut down | one answer to a request; a process is told to cancel, and cancels uninterrupted, before it is killed; nothing left running |
| Command line (`cli.py`) | the caller's connection | one exchange | a lost caller cancels |
| Contracts and paths (`contracts.py`, `paths.py`, `environment.py`, `prerequisites.py`) | none | validation | pure functions |

How they interact:

    caller --socket--> transport --Admission--> worker.dispatch_request
                          ^                          | submit / begin_stop
                          | complete(work)           v
                      terminal record            scheduler ---step/cleanup---> tasks
                          |                          | observe                  (input, launch,
                          v                          v                           windows, capture)
                       journal <----submit------- records
                      (writer thread) ---drain---> tickets read again next turn

The scheduler calls `Work.complete`, the transport's `Admission.complete`, which
may refuse a result (a veto) or find its connection gone. Records are `Ticket`s:
the scheduler reads their fields in `_refresh`, the journal fills them in `drain`.
A task reaches the records through `Context.effects` and `Context.recorded`. An
unconfirmed cleanup escalates into `worker.begin_stop`, which builds a `Shutdown`
that cancels every work, drains the scheduler, releases input, and closes the
desktop; the journal is closed last.

The hard behaviours, line by line, are the `hazards` of `PROJECT.json`.

## 2. Modules

| module | models | checked by |
|---|---|---|
| `Scheduler` | `scheduler.py`, with `records.py` and what `writer.py`, `shutdown.py`, `transport.py` and `worker.py` do to it | runs `SchedulerWorker`, `SchedulerAlone`, through `MCScheduler` |
| `SchedulerProofs` | theorems about `Scheduler` | `tlapm` |
| `Journal` | `writer.py` and the use of `close` at the end of `worker.run` | run `Journal` |
| `JournalProofs` | theorems about `Journal` | `tlapm` |
| `DurableLog` | the promise of the journal, as a caller sees it | `Journal!KeepsLog` |
| `InputLedger` | `input_connection.py`, `input_actions.py`, and what `readiness.py`, `worker.py` and `shutdown.py` do about the input | run `Input` |
| `Lifecycle` | `lifecycle.py`, `ownership.py`, `service_cleanup.py`, the locks of `runtime.py`, what `worker.py` does on `session.stop`, and systemd (external) | runs `Lifecycle`, `LifecycleOvertaken`, through `MCLifecycle` |
| `LifecycleProofs` | theorems about `Lifecycle` | `tlapm` |
| `OneGeneration` | the promise of the lifecycle managers | `Lifecycle!KeepsOne` |
| `Applications` | `applications.py`, `app_launcher.py`, `app_processes.py`, `terminating.py`, what `writer.py` and `children.py` do for them, and the processes (external) | run `Applications` |
| `ApplicationsProofs` | theorems about `Applications` | `tlapm` |
| `Transport` | `transport.py`: the client's exchange, and the server with its connections and admissions | through `Worker` |
| `Worker` | the loop of `worker.py` with `shutdown.py` and `Records.attach`, composed with `Transport` | runs `Worker`, `WorkerLate` |
| `WorkerProofs` | theorems about `Worker` with `Transport` | `tlapm` |
| `Store` | `artifacts.py`, with what `worker.py`, `records.py`, `applications.py` and `service_cleanup.py` ask of it | run `Store` |
| `StoreProofs` | theorems about `Store` | `tlapm` |
| `WindowTasks` | `windows.py`, `targeting.py`, `closing.py`, with what the registry, KWin and the processes do to them | run `WindowTasks` |
| `WindowProofs` | theorems about `WindowTasks` | `tlapm` |
| `Mcp` | `mcp.py`, `mcp_call.py` | run `Mcp` |
| `McpProofs` | theorems about `Mcp` | `tlapm` |

The modules meet at contracts. `Worker` takes for granted of the scheduler what
`Scheduler` establishes (an admitted request acts only while it is not cancelled,
is decided once, is answered when its records are settled); `Scheduler` takes
`complete` as something that may refuse; `Journal` takes a call as something that
succeeds, fails or hangs, and `Store` says what a call does below that.

A property that a run checks is often the conjunction of named parts, which are
stated and commented one by one in the module:

| property | parts |
|---|---|
| `Scheduler!OwnedOnce` | `SingleOwner`, `FailClosed` |
| `Scheduler!DecisionsHold` | `EmitsOnlyUndecided`, `OnTimeSuccess` |
| `Scheduler!EverythingEnds` | `Answered`, `SlotsFreed`, `ShutdownEnds` |
| `Journal!NothingMislaid` | `TypeOK`, `Accounted`, `ExitedMeansEmpty` |
| `Journal!CallsSound` | `ArgumentsWritten`, `StoreClosedUnused`, `OneOverrunAtMost` |
| `Journal!NobodyWaits` | `CloseReturns`, `TicketsAnswered` |
| `InputLedger!LedgerTrue` | `TypeOK`, `NothingLeftHeld`, `Accounted`, `ButtonFirst` |
| `Lifecycle!RecordTrue` | `TypeOK`, `StoppedOnRequest`, `CompleteIsFinal` |
| `Applications!OwnershipTrue` | `TypeOK`, `ReleasedIsOver` |
| `Applications!RequestsTrue` | `GateKept`, `AnswersTrue` |
| `Worker!AnswersTrue` | `TypeOK`, `NotStartedIsTrue`, `StopMeansDone` |
| `Store!DiskTrue` | `TypeOK`, `AckedSurvives` |
| `Store!WindowsTrue` | `WindowsRecoverable`, `PublishedIsRecorded` |
| `WindowTasks!SlotSound` | `TypeOK`, `SlotReturned` |
| `WindowTasks!AttributionTrue` | `AttributedToOwner`, `ExitNotBlamed` |
| `Mcp!CallsCounted` | `TypeOK`, `OneAnswer` |

What remains worth doing: to prove, for every bound, that what the store
acknowledged survives (`AckedSurvives`), that the ledger of the input is what is
held (`Accounted`), that the gate opens only behind a durable intent and that an
application is retired only when it is over (`GateKept`, `ReleasedIsOver`); and
small modules for the readiness checks and the capture.

## 3. The scheduler

### Correspondence

A state of `Scheduler` is one between two entry points of the class, or between
two steps of one turn of `tick`: `pc` names the step to come, since a turn runs
callbacks between its steps, and while `_advance` runs `adv` is the work it runs
on and `ret` where it returns.

| model | code |
|---|---|
| `work[w].phase` | `new` (not submitted), `live` (in the queue or a slot), `finishing` (outcome decided, waiting for records), `terminal` |
| `work[w].err`, `outcome`, `result` | the error's code and outcome; the result a task returned, or none |
| `work[w].task` | whether the task is built, and has taken a step |
| `work[w].failed`, `pending` | the tickets of `records.py` and `writer.py`: whether the loss of one is latched, which are still queued |
| `work[w].deadline`, `cleanupBy`, `settleBy` | the same fields, as time left: `Tick` counts them all down |
| `work[w].answer` | what `complete` answered, for the properties |
| `place` | the place of a request in `queue`, 0 when it is not in it |
| `active`, `lifecycle`, `waiters`, `joined`, `stopping`, `unavailable` | the fields of the same names; `joined` is the stop that a waiter joined |
| `mode`, `shutBy` | the cancel phase of `shutdown.py`, and the time it has |
| `effect`, `durable` | history: what a task has done to the desktop, and its records on disk |

Actions are named for the method, and a disjunct for each of its returns.
`Admit`, `Refuse`, `AdmitControl`, `RefuseControl`, `Cancel`, `Escalate`,
`BeginShutdown` and `Tick` may come between turns; `Turn` and its parts run in the
order of the code; `Report` is the writer's answer, at any time or never.

What is abstracted:
- a task is what it may do: gate, act, wait, return, raise, and confirm its
  cleanup or not. `Gating`, `Raising` and `Lossy` choose which request may do what;
- the records that a request loses are chosen when it queues them (`Lossy`);
  a refused, failed or vetoed ticket is one latch, `failed`;
- partial results carry no control, only the outcome is kept; the fallback for a
  payload that cannot be encoded exists for results only (`Fates`);
- in a worker that a manager owns `session.stop` goes to `begin_stop`, never to
  the scheduler. The stops of the run `SchedulerWorker` are those of another place
  that builds a scheduler, a worker that no manager owns (`InWorker` with
  `Controls`); a third, the scheduler by itself without a shutdown, is `InWorker`
  false. `CONTROL_OPERATIONS` is `{"session.stop"}`, so the branches of `_control`
  for a reset and `pending_stop` are dead and left out;
- works still alive when the cancel phase is over are answered by closing their
  connection.

### Runs

| run | instance | question |
|---|---|---|
| `SchedulerWorker` | any two of two ordinary requests, one gating, and two stops, the second joined, in a worker | is there one owner, no late effect and no late success, does an unconfirmed cleanup close the session, and is a joiner told what the first stop was, under every interleaving of escalation, signals, shutdown and time? |
| `SchedulerAlone` | one gating request with lost and refused records and raising callbacks, fair | do records come before effects, is its answer never more than what is on disk nor less than what it did, and does it come? |

Budgets are 1 or 2 units, enough for a deadline to pass before, in and after each
stage: the code compares one instant with each deadline and never adds two. Two
requests show every order of two owners, one in the queue and one running, or one
owner and one joined. `MaxOrdinary` and `MaxWaiters` are the code's own limits, made
small; the runs refuse requests of a stopping or unavailable session, and what is
refused for a full queue or too many waiters is left to the theorems, which hold for
every limit.

`SchedulerWorker` submits two of its four requests in one behaviour (the constraint
`Two` of `MCScheduler`), any two: three or four at once are beyond five minutes, and the
theorems have no such bound. The run's `VIEW` leaves out what neither a later step nor
a property of the run reads: `durable`, the outcomes, which error was decided (only
that one was), which records are pending (only how many), and of a request that is
over all but its task and whether it was answered with success and left its effect
behind. No step of the module tells apart two states that it identifies, so they have
the same futures and the same verdicts.

In `SchedulerAlone` the only request gates its effects, so what holds a plain one back
before its first step (`scheduler.py:392-399`) never happens there; `EffectsDurable`
below covers it, for every choice of `Gating`. The lifecycle half of `SlotsFreed` says
nothing in a run without stops: the run is about the slot of the ordinary requests.

Fairness: the worker calls `tick` from the main loop at least every 5 ms, so a
turn that has begun and a turn to come are weakly fair; time passes (strongly
fair `Tick`, since turns may disable it for a while). Nothing is assumed of the
writer, of callbacks, of cleanup, or of the caller: the three
parts of `EverythingEnds` rest on time alone.

### Where the code and its text disagree

Two statements are in the module but in no run, since the code does not keep
them; the runs they would need repeat those above.

- `SettleSoonerWhenStopping` (`scheduler.py:469`): `docs/SCHEDULING.md:167-169`
  says a response waiting for its records is given up sooner when the session is
  stopping. `drain_shutdown` clamps the works that are finishing and then advances
  the active one; a work that finishes in the last turn of the phase keeps its
  full time. To see it: `SchedulerAlone.cfg` with `SPECIFICATION Spec`, `Lossy` and
  `Raising` set to `NoRequests`, and this as its only property, an `INVARIANT`.
- `DecidedErrorStands` (`scheduler.py:525`): the comment at line 293 says an error
  already decided stands. When the session becomes unavailable in a turn, a
  work of the queue that was cancelled or has expired in that turn, and is waiting
  for its records, gets `session_unavailable` in place of it. To see it:
  `SchedulerWorker.cfg` without its `VIEW` and with this as its only property, a
  `PROPERTY`. Without an escalation the
  property holds: `SPECIFICATION Spec`, no `VIEW`, `Ordinary <- Plain`,
  `Controls <- Stop`, `Gating`, `Lossy` and `Raising` set to `NoRequests`,
  `InWorker = FALSE`.

### Proofs

`SchedulerProofs` proves for every set of requests, every budget and every choice
of `Gating`, `Lossy`, `Raising`:

- `TypeCorrect`: `Spec => []TypeOK`;
- `EffectsDurable`: `Spec => []EffectsAfterRecords`;
- `SuccessDurable`: `Spec => []SuccessIsDurable`;
- `OneOwner`: `Spec => []OwnedOnce`;
- `NotStartedIsTrue`: `Spec => []NotStartedMeansNoEffect`;
- `JoinerSuccess`: `Spec => []JoinerSuccessNeedsOwner`;
- `DecisionsHeld`: `Spec => DecisionsHold`, an action property.

The assumptions are those of the module: `RequestsAssumption` (which request is of
which kind) and `TimesAssumption` (budgets are natural numbers). `TypeOK` is
inductive once the stages of the turn and of a work agree (`StageOK`). The
inductive invariant, `ControlInv`, adds two parts.

`RecordsInv`, for what is durable: a record that was queued is on disk, still
pending, or its loss is latched, and each stage of a work implies the records it
must have queued by then. Without it neither property of the records is inductive:
from a state where a record was silently dropped a later success is allowed.

`OwnershipInv`, for who owns the desktop:
- `SlotsDecided`: whoever ends the session (a stop in the lifecycle slot, the
  shutdown, an escalation) has decided what the slots held, so nothing undecided is
  found there by a later stage;
- `StageSlots`: `_advance` runs on the owner of a slot, and on that of the lifecycle
  slot while the session runs only when the ordinary one is free;
- `OwningInv`: a work that has begun to act is the live owner of its slot, unless
  the session is unavailable. `SingleOwner` follows, since a slot has one owner;
- `WorkInv`: an effect shows in the outcome from the step that announces it
  (`Traced`, which is what `NotStartedMeansNoEffect` needs); a stop owns the
  lifecycle slot or waits for its owner, never both (`Waiting`); and an owner that
  others may join ended well only if its task returned (`OwnerTrue`), so that what a
  joiner is told goes back to a task that ran (`JoinerTrue`). The link is a chain:
  the stop that a waiter joined may itself be gone from the slot by the time the
  waiter is answered, so the invariant speaks of every stop somebody has joined.

The proof has one lemma per action; `Advance`, the longest, is split by the return
it takes. `EverythingEnds`, which is liveness, is model-checked only.

## 4. The journal

### Correspondence

Tickets are numbered in the order of `submit`, which is all the code uses of
their identity. `queue`, `done`, `operations`, `bytes`, `closed` (as `owner`),
`cutoff` are the fields of `Journal`; `writer` is where the thread is in `_run`,
and `hand` the ticket it holds. The check of the cutoff and the call that follows
it are two steps (`CheckCutoff`, `Begin`), as they are in the thread. `applied` is
what the store did, for the refinement. A call may take effect, fail, or fail
after it has taken effect. A ticket may take the result of an earlier one as its
argument; it fails when that one has no value. With `Modes` the run covers both
the threaded and the inline journal. `FdFree` and `CloseEnd` are the end of
`worker.run`, which closes the store's directory only if the thread has gone.

Left out: `durable_through`, which nothing reads, the callbacks at the end of
`drain`, and `stalled` and `paused`, which the transport and the worker read.

### Runs

`Journal`: three submissions, two reserved operations, three bytes with sizes one
and two, so that each limit is reached alone and together, a dependency's parent
may be written, failed, refused or cut off, and two calls are queued behind one
that is stuck. The time to the bound of `close` is three states (no bound, ahead,
past), since the code compares with one instant.

`DurableLog` says that calls are made in the order of submission, one at a time,
none after the bound except the one already taken up, and answered in that order.
`KeepsLog` is the refinement: `applied` is the abstract log, `cutoff` its cut.

`OneOverrunAtMost`, a part of `CallsSound`, is weaker than the words of `close` (lines 216-218, "The writer
starts no queued call after DEADLINE"): the thread reads the clock, then begins
the call, and the bound may pass between the two. One call, never two, can begin
late. The bound's purpose (no later write runs outside it) survives.

Fairness: the owner's loop and the thread run (`WF`), time reaches the bound. The
store may hold the thread for ever, except in the antecedent of `TicketsAnswered`
(`StoreReturns`). `CHECK_DEADLOCK FALSE`: a journal ends.

### Proofs

`JournalProofs` proves, for any number of writes of any size and any two bounds of
the queue (`JournalAssumption`), `JournalNothingMislaid` (`Spec => []NothingMislaid`),
`JournalCallsSound` (`Spec => []CallsSound`) and `JournalKeepsLog`
(`Spec => KeepsLog`, the refinement of `DurableLog`).

One picture carries all three: finished calls, the call in the writer's hand and
the queue are one line, in the order of submission, that holds each unanswered
ticket exactly once. `Order` says that it is in order, `Accounted` that it is
complete and that `operations` and `bytes` count just what is on it, `StopLast`
that the request to stop stands at its end, `WriterHolds` that the thread has a
call in its hand in three of its places and in no other, `Results` that a ticket
gets its error with its answer (so a call's argument, which must come from an
earlier ticket, is there when the call begins). `OneMore` ties the count of late
calls to the place of the thread. `Accounted` is not inductive without `Order`:
were a ticket twice on the line, answering one would free it twice. Bytes are
counted as the cardinality of a set of pairs (`Bytes`), one for each byte of each
ticket, so that the library's theorems about finite sets apply where a fold over
the tickets would need an induction. `NobodyWaits` is liveness.

## 5. The input

### Correspondence

The worker, its tasks and the connection run on one thread, so an action of
`InputLedger` is one callback of the GLib loop. What runs beside them is the
compositor (KWin's EIS server, external): it pauses, removes and drops devices at
any point, and the worker learns of it when it reads `told`, the queue of libei
events, at most `Batch` of them per callback (`OnFd`, `DrainOnce`).

| model | code |
|---|---|
| `input` | the `Input` object: `pending`, `context` (set up), `connected`, `disconnected`, `backlog`, `uncertain`, `error`, one seat, one device of each kind with `resumed`, `emulating` and the list `held`; `retired` says that `retired_held` is not empty; `epoch` is 0 before `connect`, 1 during the connection, 2 after `dispose` |
| `fatal` | `Readiness.fatal` |
| `task` | the input task: its phase, the next act of `Script(op)`, and whether a focus recheck is in flight; `cleaning` is the scheduler's cleanup |
| `session` | `starting`, `ready`, `stopping` (a `Shutdown` in its cancel phase), `closing`, `closed` |
| `report` | the state of the release stage in `shutdown.json` |
| `kwin`, `told` | external: the link, the devices, what is down on each; the unread events |

An emission is computed as the set of outcomes of one callback: every native call
may raise, before or after it took effect, and `press` enters a code in the
ledger before it sends it. `release` goes over the pointer, then the keyboard. The
scripts are the acts of `emit` of each task, one sequence per turn: `type` with
two characters, `click` with two clicks and `scroll` with two steps under a
modifier, `drag` with one motion, `move`. `key` is `type` with one stroke.

Left out: the route of `type` through the input method, coordinates and regions
(a refused point is a refusal like any other), which exception of a cleanup is
raised, the log. The intent's record is part of the scheduler's model; here its
loss is a refusal. `Overdue` may strike until the session is ready, where the code
stops watching once the keyboard was usable.

### Run

`Input`: two requests of any of the operations, the second after whatever the
first left; one fault of the compositor, which may be of any kind and at any
point; `Batch` of three, so that the first batch leaves a backlog. One code of
each sort is held; `press` may fail between its codes because a press of the
modifiers and one of the button are two acts.

Each item names a property of the run or a part of `LedgerTrue`.

- `NothingLeftHeld`: outside an emission nothing is held and no emulation is open
  unless the connection is known to be in doubt.
- `Accounted`, `ReportHonest`: what is down at the compositor is in the ledger or
  in doubt, and a stop that reports a confirmed release has left nothing down.
- `ButtonFirst`: no modifier goes up under a held button.
- `DoubtEndsSession`: a doubt about a release ends the session.

`Accounted` and `ReportHonest` have one exception, the history variable
`dropped`: a release may be sent to a device that the compositor has just paused
or removed, which the worker cannot know yet and which is then lost without an
error. Whether keys stay down there is the compositor's choice in the model. The
ledger is then empty and wrong; `DoubtEndsSession` covers it, since the event
that is still to be read ends the session.

Fairness: the loop serves its sources and the worker's turn fails the session
(`OnFd`, `DrainOnce`, `WorkerFails`). Nothing is assumed of the compositor or of
the task. `CHECK_DEADLOCK FALSE`: a session ends.

## 6. The lifecycle of a session name

### Correspondence

Every command-line call is a process with a `Manager`. It may be killed between any
two steps (`Crash`), and its calls to systemd or to the worker may fail or time out
at any point (`Fails`). An action is what a process does between two writes or two
calls, so a record read before another process writes is stale, as it is in the
code. The lock of the name excludes the other managers but neither the hook nor
the worker; the lock of a generation excludes those for one mutation, and taking it
never waits.

| model | code |
|---|---|
| `mgr[m].pc` | the next write or call: `inspect` (`Systemd.inspect`), `decide` (what `_observe` and its caller conclude), `ping`, `ready`, `intent`, `write`, `stop`, `retire` (up to the record that `finalize` writes), `retiring` (the disposal), `reserve`, `publish`, `mark`, `submit`, `ack` |
| `mgr[m].mode` | the call; a start goes on to `startup` when it has published its generation, and to `abort`, its fallback cleanup |
| `data`, `info`, `failed`, `submitted` | the variables `data`, `info`, `failed`, `stop_submitted` |
| `name`, `guard` | `Runtime.lock`, `generation_lock` |
| `current` | `current/<session>.json` |
| `meta`, `intent` | `lifecycle.json` (submission and state), `stop-intent.json` (prior state, failed or not) |
| `failure` | `startup-failure.json`, or the manifest's `first_failure` |
| `files` | private settings and control sockets |
| `unit`, `result`, `populated` | external: the unit, `SERVICE_RESULT` (clean, a fault that classifies as failed by itself, or another), the cgroup |
| `told` | history: the generations whose cleanup was answered `complete` |
| `overtaken` | history: the generations whose hook recorded an uncertain submission as acknowledged while a manager that had found no unit had still to read that record (`Stale`) |

External, systemd: a submission that was not heard of comes up late or never
(`inflight`, `Materialise`); the worker may end at any time and for any reason
(`WorkerEnds`); then ExecStopPost runs once, and may lose the race for the lock, be
cut off by its alarm, or be killed (`HookFails`); processes may outlive it
(`Empties`).

Left out: a pinned `expected_generation` (it only refuses), the install lock,
differing configurations, workers without a manager, prerequisites, the receipts
and manifests of the artifact store (`records_preserved`). The artifact directory
is assumed readable when a failure is recorded in it.

### Run

`Lifecycle` and `LifecycleOvertaken`: two managers, two generations and calls of any
kind, four and three of them. Two managers give every overlap, since a third waits for
the same lock and a killed one is idle again; three calls are the shortest way to a
start, a failed or killed cleanup, and a retry that replaces the generation; a fourth
comes after that.

The `VIEW` of `Lifecycle` leaves out what no later step and no property of the run
reads: of what a manager remembers, all but what its next steps compare or write; of an
inspection, all but the six facts the decision rests on; and the intent, the recorded
failure and the kind of result of a generation whose record says `failed`, which keeps
saying so. States it identifies have the same futures and the same verdicts.

`StoppedOnRequest` and `CompleteIsFinal` are parts of `RecordTrue`.

- `KeepsOne`: the refinement of `OneGeneration`. Processes, or submissions that may
  still become processes, belong to one generation, the one the name routes to;
  the name moves only when there are none; and what is over does not come back.
- `ReplacedIsFinished`: a generation is replaced only when its record is terminal, and
  its processes and files are gone, also when the manager that began the cleanup was
  killed in it.
- `CompleteIsFinal`: an answer `complete` stays true.
- `FailureKept`: no writer turns a failure into something else.
- `StoppedOnRequest`: `stopped` means that a stop was asked for before any failure,
  however often and by whomever the generation was classified.

Nothing keeps the hook from beginning at any moment. `_observe` asks systemd first and
reads the record afterwards, to see what the hook may have written. When the submission
is uncertain and the answer was that there is no such unit, a unit that comes up, ends
and runs its hook in between has its record say `acknowledged`, and the old answer then
counts as proof that the unit is gone, though it may have left processes. Such a
generation is *overtaken*, and three properties make an exception of it, each in its
own way: `KeepsOne` does not count its processes any more, `ReplacedIsFinished` promises
only its terminal record, `CompleteIsFinal` nothing. `FailureKept` and
`StoppedOnRequest` hold of all generations. What the exception hides is checked by a
run of its own, `LifecycleOvertaken`, which finds it violated.

There is no liveness: nothing retries by itself, each call ends by its deadline.
`CHECK_DEADLOCK FALSE`: calls are bounded.

### Where the code and its text disagree

- `NameHeldUntilClean` (`lifecycle.py:299`, run `LifecycleOvertaken`):
  `docs/LIFECYCLE.md:56-59` says that an absent unit cannot prove that a delayed
  submission will never materialize, and that the manager therefore refuses its
  replacement. In the run a start submits `g1` and does not hear of it; a later start
  finds no unit; the unit comes up, ends, and its hook writes `acknowledged`, then fails
  with processes left; the second manager, which reads that record now, takes `g1` for
  quiescent, retires it and gives the name to `g2` while `g1` has processes. For the same reason an answer `complete` may be untrue, against
  `docs/LIFECYCLE.md:89-92`.
- `RequestedStaysStopped` (`lifecycle.py:568`, also 454): `docs/LIFECYCLE.md:278-280`
  says a requested termination remains stopped. When the manager that asked for it
  gave up and the hook did not record it, the record still says `stopping`; a
  later status or start takes any state but `stopped` for a failure, a later stop
  does not. To see it: `LifecycleOvertaken.cfg` with this as its only `PROPERTY`.

### Proofs

`LifecycleProofs` proves, for any number of managers, generations and calls,
`LifecycleRecordTrue` (`Spec => []RecordTrue`), `LifecycleFailureKept`,
`LifecycleReplaced` and the refinement `LifecycleKeepsOne` (`Spec => KeepsOne`), with
the exceptions the properties state and no assumption about when hooks begin.
`ConstantsAssumption` only keeps `None` and `Hook` apart from managers and generations.

The inductive invariant has two halves.

- `Sound(g)`, of the records against systemd: a record that says `reserved` is of
  a unit that never was, one that says `acknowledged` of a unit that systemd has
  seen (`Known`); what runs has a cgroup, and what lives and is counted (`Counted`) is what the name
  routes to; a generation is overtaken only once its unit has ended;
  a record `stopped` has its intent, no failure, and no unit that may still fail.
- `Fits(k)`, of the manager that holds the name: what it remembers is stale but
  still true (`Informed`), because records only move one way. `Snapshot` is the heart:
  if its inspection found the unit ended and empty, it is so now; if it found no
  unit, the record that it reads next is not yet acknowledged, unless the generation
  was overtaken. Hence a generation found quiescent and not overtaken has no process,
  and cannot get one (`QuietMeansStill`), which `Still` carries from the decision to the submission of the
  next generation, through every write and crash. `Finished` and `New` say what the generation left
  behind and the one to come look like on that way.

`CompleteIsFinal` needs all of it: it is about the one manager that answers, but
any other manager, the hook or a late submission could break it afterwards. In the
refinement only five steps are not stuttering: `Publish` names, `Submit` (and the
crash inside it) begins, `Materialise` that is lost and `Empties` end; so does a
`HookBegins` that overtakes.

## 7. Applications

### Correspondence

The worker runs on one thread, so only the processes and the writer run beside it.
A turn of the worker is a sequence of stages (`turn`): the journal and the
children are drained (`drain`), `Registry.tick` observes (`registry`), lets the
cursor choose its phase (`prepare`), does the two halves of a scan in alternating
order (`first`, `second`) and flushes what they found (`publish`), and the request
that runs takes a step (`task`). The registry stops at any of these stages where
its 2 ms are used up (`Cut`, and the choices of `Publish`).

| model | code |
|---|---|
| `app[a]` | the `Application`: `state`, `authorized`, `settled`, `uncertain`, `completed`, `child` (alive, or reaped by `Children.poll`), `process` (the root's identity is known), `handles`, `observed`, `pending` (`pending_processes`), `empty` (the last `populated`), `dirty`, `scanFirst`, `marks` (`signal_marks`); `flushed` is the local `published` of `scan_turn` |
| `active`, `failure` | `Registry.active`, `Registry.failure` |
| `queue` | the records the journal has not answered for, in order, with who watches each: `registry`, the `request`, or nobody any more (`past`) |
| `disk`, `named` | the state in the application's record, the processes recorded with it |
| `work` | the launch or kill that runs, its phase, and whether one of its records has failed |
| `cursor`, `clock` | its `Termination`, and how many of `term_cutoff`, `signal_cutoff` have passed |
| `gate`, `wrote` | the gate pipe, and the last byte the helper wrote to the status pipe |
| `proc` | external: each process, in the helper's course (`spawned`, `entered`, `passed`), as `program`, `moved` out of its group, or ended |
| `ran`, `sent`, `promised`, `answered` | history: programs executed, signals sent, the request's last durable intent, successes |

What is abstracted:
- a half of a scan looks at any subset of what it could see, since its budget may
  end anywhere and the directory is read piece by piece. That each process is
  looked at in the end is not claimed;
- processes take their steps before the registry looks and between the halves of a
  scan; a step anywhere else is the same as one after a turn in which nothing else
  happened, which the model has. They are not followed into a shutdown, and how
  the helper ended matters until its launch has settled;
- a record refused at once is one that fails a turn later, except the prepared
  record, whose refusal has a path of its own (`LaunchUnrecorded`);
- the end of a kill's time, like any error of its step, is `Cancelled`;
- log states and window records are left out, and the wait for a window, which
  is another task that begins when the launch is over.

### Run

`Applications`: one application that may fork once, two requests, one record that
fails or one process that leaves its group, and one record that the writer may
have left when a turn begins. Two requests are a launch and what follows it: a
kill, or a launch that finds the first application there. One process beside the
root is enough for one that lives on, one that is found late, and one that is
never found. Two applications (without forks), and three calls (without mishaps)
were checked as well, without an error; they take too long to keep.

`ReleasedIsOver` is the part of `OwnershipTrue` beside the types; `GateKept` and
`AnswersTrue` are the parts of `RequestsTrue`.

- `ReleasedIsOver`: an application is retired only when no process of it that can
  be known of lives, and no process that was seen goes without a record. Ends of
  the budget between discovery and flush, and a root that ends before its forks,
  are what could break it.
- `GateKept`: the program runs only behind a gate that was opened on a durable
  intent, also when the launch was cancelled or its application failed meanwhile.
- `AnswersTrue`: a launch that succeeds executed its program, or its helper is
  dying at that instant of a signal from outside (the kernel closes the status pipe
  before `children.poll` can collect the status); a kill that succeeds
  left nothing alive, though its answer may come from memory, from the disk, or
  from a record that a later failure has left behind.
- `SignalsInOrder`: each signal goes out under a durable record of its phase, in
  the time of that phase, once for a process, and to a process of the group.

There is no liveness here: the scans alternate so that neither starves the other,
but a scan that is cut short is free to find nothing. `CHECK_DEADLOCK FALSE`: a
session ends.

### Proofs

`ApplicationsProofs` proves, for any number of applications, of processes they may
fork, of requests, of mishaps and of records that lag behind, the three properties
of the run: `ApplicationsOwnershipTrue` (`Spec => []OwnershipTrue`),
`ApplicationsRequestsTrue` and `ApplicationsSignalsInOrder`. `ConstantsAssumption`
bounds nothing: it only keeps `root` apart from the forks. The run has one
application and one fork, so what a second application could do to the records,
the gate or the processes of the first is settled by the proof alone.

The inductive invariant `IInv` has four parts.

- `Types`, which also says that no signal was ever sent twice.
- `Owned(a)`, of each application: the helper's course agrees with what it wrote
  to its pipe and with the gate (`HelperTrue`); every process that was observed and
  lives is held, a completed application holds nothing that lives (`Held`); behind
  an open gate with the program still to come, the disk *and every record that is
  still queued* say that it may run (`Authorized`); and while no watched write has
  failed, what was observed is named on disk, queued, or pending, and a completed
  application ends in a final record (`OnRecord`).
- `Stages`: a scan has an application, and no record is queued for one that was
  never reserved.
- `Requesting`, of the request that runs: a launch holds the active application
  from its reservation on (`Launching`); until its gate opens nobody else writes
  that application's state (`Asking`), which is what makes the last record in the
  queue the intent to run; the last effect the request announced is on disk as soon
  as all its records are (`Promising`); and a signal that was sent is marked on a
  handle that is still held, until the phase is over (`Killing`).

What the queue makes of the disk is in two predicates: `Ends` (the state the record
of an application will have when the queue is empty) and `Promises` (the same for
the request's effects). The lemmas say how each survives an append, a write, and
the end of a request that forgets its records (`Past`); `Carries` collects what one
application needs of a change that is about another. There is one lemma for each
action. For the action properties, all steps but six are `Calm`: they run nothing,
send nothing, answer nothing and open no gate.

## 8. The transport and the worker's loop

### Correspondence

A request is one client, one connection and at most one admission, so all three
are indexed by it. `Transport` has the client and what the server does between
two callbacks of the worker; `Worker` extends it with `dispatch_request`, `tick`,
the shutdown's stages and the end of `run`, and composes both in its `Next`. The
owner has one thread: an action of the server or the worker is one callback of the
GLib loop (`Free`), and the clients and the writer thread run beside it.

| model | code |
|---|---|
| `client[c]` | where `exchange` is, and what it reports to its caller |
| `conn[c]` | the `Connection`: in the listen backlog, open, answered or closed; whether a whole frame can be read; `output`; `held_since` |
| `adm[c]` | the `Admission`: with the handler, decided and waiting for records, or final; whether the handler was told to stop; the outcome in the terminal record and its tickets |
| `control` | the `request.cancel` of an interrupted client, on its own connection |
| `pause` | `Server.paused_since` |
| `cause`, `retained`, `root` | `foundation_error`, the cause in `startup-failure.json`, `cause_deadline` |
| `stage`, `overdue` | `Shutdown.phase`, and whether `drain_deadline` has passed |
| `watch` | a write with `fatal=True`, as the writer has left it and as the owner has seen it |
| `final` | the last `generation_update` |
| `acted` | history: the request has had an effect |

What is abstracted:
- time is not counted. Where the code compares a deadline with the clock both
  answers are possible, so a bound may pass at the first turn or at none; where the
  code waits for a bound, fairness makes it pass. The one time that is kept is the
  accept pause, whose beginning the code must not take anew;
- the journal is behind throughout (`Behind`), so that the server accepts only by
  the end of its pause; without it the pause never begins, which is the simpler case;
- a watched write is one, queued again when the last is done;
- the cause of a failure is an essential child's exit or anything else.

### Runs

`Worker`: one ordinary request, one stop, or both; one connection. `Crowds` says
which come together, and a client fails, gives up or is interrupted only where it
is the only one (`Alone`): the failures of two clients at once meet only in the
scheduler, which is modelled by itself. With two ordinary requests and one
connection the second is closed at once, which shows nothing more.

- `AnsweredAsRecorded`: what leaves for a client is what its terminal record says,
  and the record's write was over by then, although the deadline is read again
  after the result was decided and the encoding may turn it into another.
- `NotStartedIsTrue`, `StopMeansDone` (`AnswersTrue`): the caller of an ordinary
  request told `not_started`, by the worker or by its own side of the exchange, had
  and will have no effect; a stop that answered success has run the shutdown to its
  end. The first is not true of a stop and is not claimed of one. `dispatch_request`
  refuses a stop with nothing begun only where the metadata cannot be read or there
  are too many waiters; when its intent cannot be recorded it begins the shutdown
  first and raises that error afterwards (`worker.py:379-383`), whose outcome is
  `not_started` unless it says otherwise (`contracts.py:58`). A caller of
  `session.stop` that reads `not_started` may not conclude that the session goes on.
- `RootCauseKept`: an essential child's exit, once persisted, is not replaced.
- `ConnectionsEnd`, `ShutdownExits`: no connection stays, and a shutdown ends the
  worker, whatever the writer does.

Fairness: the clock runs and GLib keeps calling the owner. Nothing is assumed of
the clients, the tasks or the disk; in particular `WriteRecords` and `WriteWatched`
may never happen.

### Finding

`LateFailureCarried` (`worker.py:292`, run `WorkerLate`): the comment at lines
263-265 says that a watched write that fails after a stop began is carried into
the terminal outcome. `tick` asks `late_failure` once, after the turn's drain; the
condition to quit then calls `journal.idle`, which drains again. A write that fails
between the two is handed back after the question was asked, the queue is then
idle, and the loop quits in the same turn: the session ends `stopped`.

### Proofs

`WorkerProofs` proves, for every set of requests and every cap on connections
(`TransportAssumption` only keeps ordinary requests and stops apart),
`WorkerAnswersTrue` (`Spec => []AnswersTrue`), `WorkerAnsweredAsRecorded` and
`WorkerRootCauseKept`.

Three records are kept of a request, the client's, the connection's and the
admission's, and each is written by callbacks of its own. The invariant says how
far apart they can be: before contact the worker has nothing (`BeforeContact`), a
frame that can still be read has not been admitted (`DispatchedOnce`), effects
belong to an admission that is not yet decided (`EffectsAdmitted`), a reply
belongs to one that is (`ReplyFinal`), the client reports what it was sent or what
it knows by not having sent it (`ReportedFinal`), and a reply that may still leave
is the one in the record (`RecordedAsSent`). `NotStartedIsTrue` by itself is not
inductive: it speaks of what is answered, and what could break it is an effect that
is still to come. `RootCauseKept` holds of every step, without an invariant.

## 9. The store

### Correspondence

A path is a record: what it is for, and its attempt or its query (`Path`); `Parent`
gives the directory it is in. It has what a process sees now and what is sure to be there after a power
loss; only an fsync of its directory makes the two one. A call is the sequence of
its steps, `Steps(call)`, in the order of the code: a directory made, a file put in
place, a directory synced. `job` and `todo` are the call in progress and what is
left of it, `queue` the calls the journal still has. A temporary that is written,
fsynced and renamed is one step, since nothing refers to it before the rename.

| model | code |
|---|---|
| `disk[p]` | the directory entry and the content at p, as `now` and as `safe` |
| `acked[p]` | history: what the last successful call on p wrote |
| `known` | `Store.observations_durable` |
| `role` | who uses the store: the manager that creates it, the worker, a finalizer |
| `tickets`, `made` | `Records`: the tokens of a request's attempts, and what the owner has queued |
| `published` | the registry's windows (`current`, `previous`, the checkpoint due) and the query in progress |
| `life`, `early` | whether the session fails, and `startup-failure.json` |

Any step may fail (an `OSError`), the process may be killed between two steps, and
a power loss keeps any part of what is not safe (`PowerLoss`). The next process
attaches to what is left and repairs nothing.

Left out: `events.jsonl` and the log files, which are appended to and carry no
promise; the legacy `application()`; validation and projection; the readers but
`application_read`, whose way of putting a record together is `ReadBack`.

### Run

`Store`: each behaviour is about one family of records (the manifest, one
request's attempts, one application's windows), since no call touches two; two
attempts; two window queries, so that there is a confirmed, a previous and a
candidate observation; two faults, so that a call fails over what a failed or
killed call left behind, and the power goes after a failure.

- `AckedSurvives` (`DiskTrue`): what a successful call wrote survives with every
  directory above it, also when an earlier call that made one of these failed
  before it synced the link.
- `ManifestMeansWhole`: a generation with a manifest is complete, now and after a
  power loss.
- `WindowsRecoverable`, `PublishedIsRecorded` (`WindowsTrue`): every observation an
  application's record names can be read back with its own windows, in every
  version of the record that a power loss may leave; and what status answers from
  memory is named by the durable record.
- `FailureStands`: the failure a recorded manifest names stays the one it names, and
  one that the owner retained is what the finalizer's complete record says.

No liveness: a call ends or fails, and nobody retries. `CHECK_DEADLOCK FALSE`: a
generation ends.

Two observations that are not findings, since no property states them. The root
directory is taken as standing: `root_directory` (`artifacts.py:90-96`) does not
fsync a component that exists already, which `mkdir_durable` does for those below.
And `startup-failure.json` is written by `lifecycle.atomic` without an fsync of the
directory, so a power loss may take it; the manifest holds the failure too.

### Proofs

`StoreProofs` proves, for any number of attempts, any set of queries, any number of
faults and any families (`StoreAssumption`), `StoreDiskTrue` (`Spec => []DiskTrue`),
`StoreManifestMeansWhole`, `StoreWindowsTrue` and `StoreFailureStands`
(`Spec => FailureStands`), from one invariant, `StoreInvariant` (`Spec => []IInv`).

None of the properties is inductive: a call may stop after any of its steps, so
what is on disk is sound only because of what the steps before it did, and what is
promised is kept only because of the steps that are left. The invariant is about
both.

- `DiskInv`: an entry that is there has what it needs, for sure (`Linked`: its
  directory, and for a manifest the layout, for an allocation its partial file, for
  an application's record its processes), and what was acknowledged is kept
  (`Kept`). A power loss, which takes any part of what is not safe, keeps both.
- `CallInv`: every step left of a call is preceded by what it needs and followed
  by the fsync of the directory it changes (`Good`), so that the call can be cut
  anywhere; and when its last step is done what it is about is safe (`Answered`).
  This is where an earlier call that failed between making a directory and
  syncing it matters: `mkdir_durable` syncs again a directory it finds.
- `Staffed`: which process may have a call in progress or queued, and what was
  acknowledged before it could start.
- `Last`: nothing is queued behind the terminal record of a request, nor behind
  the settlement of its artifact, so that no call of a live session finds its
  record final, and versions only grow.
- `Failures`: whatever becomes of the call in progress, the manifest names the
  failure that it named, and a cleanup that is complete blames what was retained.
- `Applied`, `Once`: every version of an application's record, on disk or still to
  be put there, and every call queued, names only observations that are durable;
  and an application is prepared once, before anything else is said of it.
- `Recorded`: what the registry took over as the current window is named by every
  version that is, may come back, or is still to be written.

The proof has a lemma for each operation about the steps it is made of, one for
each way in which a call ends (done, failed, killed, cut by a power loss), and one
for each part of the invariant and each action that can disturb it.

## 10. Windows

### Correspondence

The adapter runs one native operation at a time: it makes a directory, asks KWin
whether a script of that name is loaded, starts a helper that loads, runs and
unloads the script, waits for KWin to say that the script is gone, and removes the
directory. A request is a task above it that runs one such operation after the
other.

| model | code |
|---|---|
| `task` | `WindowsTask`, `TargetTask` or `CloseOperation`: phase, selected process, `dispatch`, `exit_observed_at` |
| `op` | `Adapter.active`: `Query`, `Activation` or `NativeClose`, its phase, its cleanup phase; `snap` is who held the window's pid when KWin listed it, `row` who the query says it is |
| `child`, `remover`, `search` | the helper, the process that unloads a script left behind, the one that matches a title |
| `script`, `dir`, `bus` | external: a script of ours is loaded; the directory; the `isScriptLoaded` call |
| `queued` | the records of the request that are not durable yet |
| `app`, `pid` | the application the registry holds, and who holds the window's pid: processes exit and others get their pid. After the last exit a look at the application may find it or not (`Exited`), until nothing of it is left to record, close or reap and it must (`completed`, `Found`) |
| `available` | the scheduler has not failed closed |

Each kind of request is a path through the tasks: `windows` lists, `gone` polls
until no window is left, `focus` resolves, activates and polls, `title` polls and
may match in a child, `close` resolves, asks the window to close and waits for the
application's exit.

Left out: the conditions `observe`, `window` and `exit`, pinned windows, popups and
focus in detail, the decoder of KWin's answer, `CloseHook` (closing applications in
a shutdown), the arithmetic of the budgets. A window is one; more rows of a query
are looked at one by one in the same way.

### Run

`WindowTasks`: requests of every kind, one after the other and without a bound; two
processes that may hold the window's pid in the course of one request, so that the
one that was observed can be taken for the other.

- `SlotReturned` (`SlotSound`): the adapter is free only when no helper runs, no
  script is loaded, the directory is gone, and a new request finds it so.
- `AttributedToOwner`, `ExitNotBlamed` (`AttributionTrue`): a window is attributed
  to the process that held its pid when it was listed; an exit that follows a close
  already sent is not reported as an application that had exited by itself.
- `EffectVerified`: a helper that acts starts only when the record of what it may
  do is durable and, where the target is an application's, the selected process still
  holds the window, which is looked at again after the record was written. A focus by
  title alone has no process to look at (`targeting.py:132` asks only `if app is not
  None`): of it the property says the first half.
- `CloseProven`: a close succeeds only after its request went through, the
  application exited, and the adapter is free.
- `CleanedUp`: a request that failed gives the adapter back.

Fairness: KWin answers, a helper that is killed or works ends, and the scheduler
goes on calling the cleanup. `CleanedUp` does not rest on the cleanup's deadline,
which need not pass (`Escalates` is not fair), but it has one exception: where the
remover ended and the script is still loaded, the code asks again until the
deadline, and only the deadline helps. `CHECK_DEADLOCK FALSE`: a session that has
failed closed takes no more requests.

### Proofs

`WindowProofs` proves, for every set of kinds and every sequence of processes that
take the pid (`WindowAssumption`: the kinds are some of the five), `WindowSlotSound`
(`Spec => []SlotSound`), `WindowAttributionTrue` (`Spec => []AttributionTrue`),
`WindowEffectVerified` and `WindowCloseProven`.

The slot is given back on two ways, the operation's own last step and its cleanup,
which may begin at any phase. What is left behind must then follow from the phase,
the step of the cleanup and two memories, `spawned` and `absent`: the helper is
started once and lives in one phase (`HelperOnce`); `absent` is KWin's answer to a
question asked when nothing that could load the script ran any more
(`AbsenceKnown`); the remover runs in one step of the cleanup, and the directory
goes after the script (`CleanupOrdered`). `RequestAlone` says that a request leaves
nothing to the next. For the attribution, `RowOfSnapshot`: a process that was
indexed before the operation began is the one KWin showed. `EffectVerified` takes one
more invariant, `HolderGone`: an application that exited holds no pid, so that a guard
which has not found the exit yet refuses all the same. `CleanedUp` is liveness.

## 11. The MCP server

### Correspondence

The server is a process with a thread that reads, one that writes, the main thread,
and one more for each tool call, which runs the call in a process of its own
(`mcp_call`). Each is a group of actions, interleaved at their waits and locks.

| model | code |
|---|---|
| `call[i]` | the `Call` with that id: where its thread is, its marks `cancelled`, `interrupted`, `expired`, and its process |
| `permits` | `Server.slots` |
| `outbox` | `Outbox`: the queue, whether the writer is in a write, whether it has failed |
| `gone` | `Server.gone` |
| `phase`, `closing` | the main thread: serving, `shutdown` with the calls it has still to look at, the join, the flush, the end |
| `asked[i]` | history: answers the client may expect for that id |

A message is its id and what it asks for; a message is read only while its effect
fits the bounds. Left out: JSON and the protocol's versions, the tools' schemas,
images, the thread that forwards diagnostics.

### Run

`Mcp`: two ids that may be used again and again, one slot, two calls at once, an
outbox of two answers, two unanswered requests with one id. One slot for two calls
is a call that waits; an outbox of two can fill while a call answers.

- `OneAnswer` (`CallsCounted`): as long as the client reads, a request is owed one
  answer or its cancellation, and has exactly that. One corner is included: the
  mark of a cancellation is looked at once before the answer is built, so a
  cancellation in that instant is answered all the same (`docs/MCP.md:167` says no
  response is sent; the protocol allows the race).
- `CancelledBeforeKilled`: a process whose grace is over was told to cancel what it
  did, and was doing so. It takes all of these: a call whose cancellation is known
  starts no process; a cancellation, a deadline or a shutdown that comes later
  interrupts it; and no second SIGINT, of the client, the deadline, the shutdown or the
  kernel, aborts the cancelling. The process has its handler of SIGINT in the model
  (`handler`): it dies of one before its own is there, raises at the first, and ignores
  the others because `interrupt_once` has replaced itself; a handler that stayed would
  be raised again (`Raised`), and the property fails. `Breaks`, the internal error of a
  call whose process works (`mcp.py:285-291`), kills it at once and is not a grace.
- `CallsEnd`: every call ends, also when its process does not.
- `NothingLeftRunning`: when the client is gone every process ends or is cancelled,
  also when the server dies without a shutdown. A `session.stop` is spared by the
  shutdown; one that outlasts `SHUTDOWN_SECONDS` gets the kernel's SIGINT like any
  other.

Fairness: every thread runs, deadlines pass, a process starts but need not end
unless it is killed. `Acquire` is strongly fair: a call that waits has no deadline
before it holds a slot, and asks for one every .05 s; that a slot which is free
again and again is in the end free when it asks is the assumption.
`CHECK_DEADLOCK FALSE`: a server ends.

### Proofs

`McpProofs` proves, for every set of ids and any number of slots, calls and queued
answers (`McpAssumption`: the ids are finitely many, the others at least one),
`McpCallsCounted` (`Spec => []CallsCounted`) and `McpCancelledBeforeKilled`
(`Spec => CancelledBeforeKilled`).

`OneAnswer` holds while the client reads; it is not inductive, since it says
nothing of a server whose outbox is broken, and from such a state anything could
follow. The invariant adds that what is broken stays broken with the client gone
(`BrokenIsFinal`), and that even then each answer on its way was asked for
(`AnswersAsked`), so that no count falls below zero; and that a dead server has no
threads (`DeadIdle`). For the cancellations, `CallsWell` says of each call that the
handler its process has goes with what it does, that a call at work which was cancelled
or is out of time has interrupted, and that one that does not work has no process unless
the server died: only so does a kill, which asks for nothing but a mark and a process,
find the process cancelling. The slots are counted with the library's theorems about
cardinality, the answers in the outbox by the set of their places. `CallsEnd` and
`NothingLeftRunning` are liveness.

## 12. What is proved and what is only checked

Proved by `tlapm`, for every value of the constants that the named assumptions
allow, are the theorems of the sections above: every safety property of
`Scheduler`, `Journal`, `Lifecycle`, `Applications`, `Worker`,
`Store`, `WindowTasks` and `Mcp` that a run checks, and the two refinements. Each proof has the same
shape: an inductive invariant, one lemma for each action, and the property from the
invariant. TLC checked each inductive invariant on an instance before it was proved.

Model-checked only, on the instances of the sections above:
- liveness, which is out of the prover's reach: `EverythingEnds`, `NobodyWaits`,
  `DoubtEndsSession`, `ConnectionsEnd`, `ShutdownExits`, `CleanedUp`, `CallsEnd`,
  `NothingLeftRunning`;
- `InputLedger`: `LedgerTrue`, `ReportHonest`. An emission is computed by a fold
  over the codes, so what it does for any script is an induction over data.

The models have been shaped in places so that they can be reasoned about, with no
change of what they say: records are given their type as a set (`Progress` in
`Lifecycle`), sums are cardinalities (`Bytes` in `Journal`), paths are
records instead of tuples of different lengths (`Path` in `Store`), and what the proofs
assume of the constants is an `ASSUME` of the module, which every run evaluates.

## 13. What is not modelled, and why

- Owner time budgets (`owner_time.py`): arithmetic on floating-point clocks that
  credits an owner's stall to a budget. Deadlines that may pass at any moment
  cover what the credit can decide, not that it is within its limit.
- Screen capture (`capture.py`): a child with one pipe and one deadline, collected
  as the window helper is; the rest is image decoding.
- The input method (`input_method.py`): one commit per text over its own
  connection; it holds no key.
- The command line (`cli.py`): one exchange, which `Transport` models.
- The construction of the desktop and the readiness checks: a sequence of external
  waits. What readiness does about the input is in `InputLedger`, the failures it
  raises in `Worker`.
- Contracts, paths, environment, prerequisites: validation, without state.
- The frame codec, keymap compilation and image decoding: functions of bytes.
- Profiling: it changes nothing. The tools under `tools/`: probes and harnesses.
- What each module leaves out is said in its section.
