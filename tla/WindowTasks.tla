---------------------------- MODULE WindowTasks ----------------------------
(***************************************************************************)
(* Window requests: the tasks that list, wait for, focus and close windows *)
(* (WindowsTask, TargetTask, CloseOperation) and the native operations     *)
(* they run one at a time in the adapter (Query, Activation, NativeClose). *)
(*                                                                         *)
(* A native operation puts a script into KWin by a helper process, and a   *)
(* directory on disk for it.  Whatever becomes of the request, both must   *)
(* be gone, and known to be gone, before the adapter may be used again.    *)
(* Meanwhile processes exit, their pids are taken by others, KWin answers  *)
(* when it likes and the writer is late.                                   *)
(***************************************************************************)
EXTENDS Naturals, FiniteSets

CONSTANTS
  Kinds,         \* the requests made
  Incarnations   \* processes that may hold the window's pid in one request

ASSUME WindowAssumption ==
  /\ Kinds \subseteq {"windows", "focus", "title", "gone", "close"}
  /\ Incarnations \in Nat \ {0}

VARIABLES
  task,      \* the active request: WindowsTask, TargetTask or CloseOperation
  op,        \* Adapter.active: the native operation, of kind None when free
  child,     \* the operation's helper process
  remover,   \* the process that unloads a script left behind
  script,    \* a script of ours is loaded in KWin
  dir,       \* the operation's temporary directory exists
  bus,       \* its isScriptLoaded call
  search,    \* the child that matches a title against an expression
  queued,    \* the request's records that are not durable yet
  app,       \* the application the registry holds active
  pid,       \* who holds the pid of the observed window
  available, \* the scheduler has not failed closed
  ended      \* how the last request ended

vars == <<task, op, child, remover, script, dir, bus, search,
          queued, app, pid, available, ended>>

None     == "none"                 \* no value
Records  == {"request", "effects", "observation", "publication"}
Process  == {None, "running", "aborted", "exited", "failed", "found", "missed"}
Holder   == 0..Incarnations        \* 0: no process holds the pid
TaskKind == {"windows", "focus", "title", "gone", "close"}
OpKind   == {"query", "activation", "close"}
Phases   == {"prepare", "collision", "dispatch", "running", "associate", "absence", "local",
             "observation", "observed", "recheck", "accept", "publish", "publishing"}

TaskType == [kind : TaskKind \cup {None},
             phase : {"resolve", "activate", "focus_wait", "close_request", "exit_wait"},
             byApp : BOOLEAN,         \* the request names, or has resolved, an application
             row : Holder,            \* the process selected with the window
             dispatch : {"not_started", "uncertain", "transport_completed"},
             exited : BOOLEAN,        \* exit_observed_at is set
             error : {None, "application_exited", "other"}]
OpType == [kind : OpKind \cup {None}, phase : Phases,
           error : BOOLEAN,           \* cancelled; only cleanup is left
           spawned : BOOLEAN, absent : BOOLEAN,
           cleanup : {"reap", "absence", "remove", "verify", "local"},
           bracket : BOOLEAN,         \* an application was active when it began
           snap : Holder, row : Holder, present : BOOLEAN]

\* Every variable holds a value of its kind: Query, the tasks, and the part of
\* the registry, of KWin and of the journal they depend on.  The operation knows
\* that it started the helper there is.
TypeOK ==
  /\ task \in TaskType /\ op \in OpType
  /\ child \in Process /\ remover \in Process
  /\ script \in BOOLEAN /\ dir \in BOOLEAN
  /\ bus \in {None, "asked", "loaded", "absent"}
  /\ search \in Process
  /\ queued \subseteq Records
  /\ app \in [state : {None, "live", "exited"}, completed : BOOLEAN]
  /\ pid \in [holder : Holder, last : Holder, indexed : {None, "since", "before"}]
  /\ available \in BOOLEAN
  /\ ended \in {None, "succeeded", "failed"}
  /\ child # None => op.spawned

NoTask == [kind |-> None, phase |-> "resolve", byApp |-> FALSE, row |-> 0,
           dispatch |-> "not_started", exited |-> FALSE, error |-> None]
NoOp   == [kind |-> None, phase |-> "prepare", error |-> FALSE, spawned |-> FALSE,
           absent |-> FALSE, cleanup |-> "reap", bracket |-> FALSE, snap |-> 0,
           row |-> 0, present |-> FALSE]
NewOp(k) == [NoOp EXCEPT !.kind = k]

NoApp == [state |-> None, completed |-> FALSE]
NoPid == [holder |-> 0, last |-> 0, indexed |-> None]

Init ==
  /\ task = NoTask /\ op = NoOp
  /\ child = None /\ remover = None
  /\ script = FALSE /\ dir = FALSE /\ bus = None
  /\ search = None
  /\ queued = {} /\ app = NoApp /\ pid = NoPid
  /\ available = TRUE /\ ended = None

(***************************************************************************)
(* The world: the writer, the application's processes, KWin, the children. *)
(***************************************************************************)
World  == <<queued, app, pid>>
Native == <<child, remover, script, dir, bus>>
Rest   == UNCHANGED <<available, ended>>

WriterWrites ==
  /\ \E r \in queued : queued' = queued \ {r}
  /\ UNCHANGED <<task, op, Native, search, app, pid>> /\ Rest

Owned(h) == h # 0 /\ app.state = "live"

\* The process that holds the window's pid exits, another one takes the pid,
\* and a scan of the registry indexes it.
Processes ==
  /\ app.state = "live"
  /\ \/ pid.holder # 0 /\ pid' = [pid EXCEPT !.holder = 0, !.indexed = None]
     \/ /\ pid.holder = 0 /\ pid.last < Incarnations
        /\ pid' = [holder |-> pid.last + 1, last |-> pid.last + 1, indexed |-> None]
     \/ pid.holder # 0 /\ pid.indexed = None /\ pid' = [pid EXCEPT !.indexed = "since"]
  /\ UNCHANGED <<task, op, Native, search, queued, app>> /\ Rest

\* The last process of the application exits; its retirement follows when the
\* registry observes it.
AppExits ==
  /\ app.state = "live"
  /\ app' = [app EXCEPT !.state = "exited"]
  /\ pid' = [pid EXCEPT !.holder = 0, !.indexed = None]
  /\ UNCHANGED <<task, op, Native, search, queued>> /\ Rest

AppObserved ==
  /\ app.state = "exited" /\ ~app.completed
  /\ app' = [app EXCEPT !.completed = TRUE]
  /\ UNCHANGED <<task, op, Native, search, queued, pid>> /\ Rest

KWinAnswers ==
  /\ bus = "asked"
  /\ bus' = IF script THEN "loaded" ELSE "absent"
  /\ UNCHANGED <<task, op, child, remover, script, dir, search, World>> /\ Rest

\* The helper loads its script, which reads the windows or acts on one, and
\* normally unloads it before it exits.
ChildLoads ==
  /\ child \in {"running", "aborted"} /\ ~script
  /\ script' = TRUE
  /\ \E seen \in BOOLEAN :
       op' = [op EXCEPT !.present = seen, !.snap = IF seen THEN pid.holder ELSE 0]
  /\ UNCHANGED <<task, child, remover, dir, bus, search, World>> /\ Rest

ChildEnds ==
  /\ child \in {"running", "aborted"}
  /\ child' \in IF child = "running" /\ script THEN {"exited", "failed"} ELSE {"failed"}
  /\ script' \in {script, FALSE}
  /\ UNCHANGED <<task, op, remover, dir, bus, search, World>> /\ Rest

RemoverEnds ==
  /\ remover \in {"running", "aborted"}
  /\ remover' = "exited"
  /\ script' \in {script, FALSE}
  /\ UNCHANGED <<task, op, child, dir, bus, search, World>> /\ Rest

\* The search answers, or is stopped by its own limits or by an abort.
SearchEnds ==
  /\ search \in {"running", "aborted"}
  /\ search' \in IF search = "running" THEN {"found", "missed", "failed"} ELSE {"failed"}
  /\ UNCHANGED <<task, op, Native, World>> /\ Rest

(***************************************************************************)
(* The registry, as the window code asks it.                               *)
(***************************************************************************)
Active == app.state # None /\ ~app.completed

\* window_identity: the pid is held by a live process of the application that
\* was indexed before the bracket.
Identity == IF Active /\ pid.indexed = "before" THEN pid.holder ELSE 0

\* recheck_selected: the selected window's process is the one selected.
SelectedHolds == task.row # 0 /\ Active /\ pid.holder = task.row

\* begin_window_observation: what is indexed by now counts as before.
Bracketed == [pid EXCEPT !.indexed = IF @ = "since" THEN "before" ELSE @]

(***************************************************************************)
(* Query, Activation, NativeClose: one step of the operation.              *)
(***************************************************************************)
Recorded == queued = {}
Running  == child \in {"running", "aborted"}

\* cancel: the bus and its calls are closed, the helper is killed.
Cancelled(o) == IF o.kind = None THEN o ELSE [o EXCEPT !.error = TRUE]
Abort ==
  /\ op' = Cancelled(op)
  /\ IF op.kind # None /\ ~op.error
     THEN /\ bus' = None
          /\ child' = IF child = "running" THEN "aborted" ELSE child
     ELSE UNCHANGED <<bus, child>>
  /\ UNCHANGED <<remover, script, dir>>

To(p) == op' = [op EXCEPT !.phase = p]

\* _loaded: ask, or take the answer.
Ask == bus = None /\ bus' = "asked"

OpPrepare ==
  /\ op.phase = "prepare"
  /\ op' = [op EXCEPT !.phase = "collision", !.bracket = Active]
  /\ pid' = Bracketed /\ dir' = TRUE
  /\ UNCHANGED <<child, remover, script, bus, queued, app>>

OpAsks ==
  /\ op.phase \in {"collision", "absence"} /\ Ask
  /\ UNCHANGED <<op, child, remover, script, dir, World>>

OpAbsent ==
  /\ bus = "absent" /\ bus' = None
  /\ \/ op.phase = "collision" /\ To("dispatch")
     \/ op.phase = "absence" /\ op' = [op EXCEPT !.phase = "local", !.absent = TRUE]
  /\ UNCHANGED <<child, remover, script, dir, World>>

Spawn ==
  /\ child' = "running"
  /\ op' = [op EXCEPT !.phase = "running", !.spawned = TRUE]
  /\ UNCHANGED <<remover, script, dir, bus>>

\* A query's script is not dispatched before the request's records are durable.
QueryDispatch ==
  /\ op.kind = "query" /\ op.phase = "dispatch" /\ Recorded
  /\ Spawn /\ UNCHANGED World

OpReceives ==
  /\ op.phase = "running" /\ child = "exited"
  /\ child' = None
  /\ To(IF op.kind = "query" THEN "associate" ELSE "absence")
  /\ UNCHANGED <<remover, script, dir, bus, World>>

Associated == IF op.present THEN Identity ELSE 0

QueryAssociates ==
  /\ op.phase = "associate"
  /\ op' = [op EXCEPT !.phase = "absence", !.row = Associated]
  /\ UNCHANGED <<Native, World>>

OpRemovesDirectory ==
  /\ op.phase = "local" /\ dir' = FALSE /\ To("observation")
  /\ UNCHANGED <<child, remover, script, bus, World>>

QueryObservation ==
  /\ op.kind = "query" /\ op.phase = "observation"
  /\ queued' = queued \cup {"observation"} /\ To("observed")
  /\ UNCHANGED <<Native, app, pid>>

QueryObserved ==
  /\ op.phase = "observed" /\ "observation" \notin queued /\ To("recheck")
  /\ UNCHANGED <<Native, World>>

Rechecked(o) == IF Identity = o.row THEN o.row ELSE 0

QueryRechecks ==
  /\ op.phase = "recheck"
  /\ op' = [op EXCEPT !.phase = "accept", !.row = Rechecked(op)]
  /\ UNCHANGED <<Native, World>>

\* A later turn than the last row's: the ownership must not have changed.
Unchanged == op.bracket => Active
QueryAccepts ==
  /\ op.phase = "accept" /\ Unchanged /\ To("publish")
  /\ UNCHANGED <<Native, World>>

QueryPublishes ==
  /\ op.phase = "publish" /\ To("publishing")
  /\ queued' = IF op.bracket THEN queued \cup {"publication"} ELSE queued
  /\ UNCHANGED <<Native, app, pid>>

OpWorks ==
  \/ OpPrepare \/ OpAsks \/ OpAbsent \/ QueryDispatch \/ OpReceives \/ QueryAssociates
  \/ OpRemovesDirectory \/ QueryObservation \/ QueryObserved \/ QueryRechecks
  \/ QueryAccepts \/ QueryPublishes

\* The step that returns the operation's result and frees the adapter.
OpReturns ==
  \/ op.kind = "query" /\ op.phase = "publishing" /\ "publication" \notin queued
  \/ op.kind \in {"activation", "close"} /\ op.phase = "observation"

(***************************************************************************)
(* cleanup, of a cancelled operation.                                      *)
(***************************************************************************)
\* Mutant: a helper that ended before the cancellation took its script along.
ReapedUnfinished == IF op.spawned /\ op.phase = "running" THEN "absence" ELSE "local"

Reaped == IF op.spawned /\ ~op.absent THEN "absence" ELSE "local"

Untouched == UNCHANGED <<script, World>>

\* Mutant: the cleanup waits for a helper that was never started.
CleanupReapsChild ==
  /\ op.cleanup = "reap" /\ child \in {"exited", "failed"}
  /\ op' = [op EXCEPT !.cleanup = Reaped]
  /\ child' = None
  /\ UNCHANGED <<remover, dir, bus>> /\ Untouched

CleanupReaps ==
  /\ op.cleanup = "reap" /\ ~Running
  /\ op' = [op EXCEPT !.cleanup = Reaped]
  /\ child' = None
  /\ UNCHANGED <<remover, dir, bus>> /\ Untouched

CleanupAsks ==
  /\ op.cleanup \in {"absence", "verify"} /\ Ask
  /\ UNCHANGED <<op, child, remover, dir>> /\ Untouched

CleanupFindsAbsent ==
  /\ op.cleanup \in {"absence", "verify"} /\ bus = "absent" /\ bus' = None
  /\ op' = [op EXCEPT !.absent = TRUE, !.cleanup = "local"]
  /\ UNCHANGED <<child, remover, dir>> /\ Untouched

\* Found before the remover ran: it is started.  Found after: asked again.
CleanupFindsLoaded ==
  /\ bus = "loaded" /\ bus' = None
  /\ \/ op.cleanup = "absence" /\ remover' = "running" /\ op' = [op EXCEPT !.cleanup = "remove"]
     \/ op.cleanup = "verify" /\ UNCHANGED <<remover, op>>
  /\ UNCHANGED <<child, dir>> /\ Untouched

CleanupRemoved ==
  /\ op.cleanup = "remove" /\ remover = "exited"
  /\ remover' = None
  /\ op' = [op EXCEPT !.cleanup = "verify"]
  /\ UNCHANGED <<child, dir, bus>> /\ Untouched

CleanupWorks ==
  \/ CleanupReaps \/ CleanupAsks \/ CleanupFindsAbsent \/ CleanupFindsLoaded \/ CleanupRemoved

\* _local_cleanup is the last of it: the adapter is free.
CleanupEnds == op.kind # None /\ op.error /\ op.cleanup = "local"
Freed ==
  /\ op' = NoOp /\ dir' = FALSE
  /\ UNCHANGED <<child, remover, script, bus>>

(***************************************************************************)
(* The tasks.  A turn that fails cancels the operation; what is left of    *)
(* the request is its cleanup.                                             *)
(***************************************************************************)
Working == task.kind # None /\ task.error = None
Idle == op.kind = None

\* The request is about an application, whose last process has exited.  A look at it
\* may find that from now on; it may also find that the registry has still something of
\* the application to record, close or reap, until all is done (Application.observe).
Exited == task.byApp /\ app.state = "exited"
Found  == task.byApp /\ app.completed

\* Mutant: an exit satisfies the close, whatever became of its request.
ExitSatisfies == FALSE

\* observe_exit: an exit ends a close before its request went through, and
\* completes it afterwards; a wait for focus it always ends.
ExitFails == task.dispatch # "transport_completed"

\* Mutant: every turn looks for the exit first.
LooksAlways == TRUE

\* A turn looks for the exit first, except while a close is on its way: its
\* completion must be accepted before the exit it causes.
Looks == ~(task.kind = "close" /\ task.phase = "close_request")

Known     == Looks /\ Found
Continues == Working /\ ~Known /\ ~task.exited

\* The guard of an activation or a close looks too, before its helper starts.
Guarding == op.kind \in {"activation", "close"} /\ op.phase = "dispatch"

Fail(e) ==
  /\ task' = [task EXCEPT !.error = e]
  /\ Abort
  /\ search' = IF search = "running" THEN "aborted" ELSE search
  /\ UNCHANGED World /\ Rest

\* A deadline, a failed query or write, a cancelled request; or the exit.
TaskFails ==
  /\ Working
  /\ \/ Fail("other")
     \/ Exited /\ ExitFails /\ (Looks \/ Guarding) /\ Fail("application_exited")

Finish(e) ==
  /\ task' = NoTask /\ ended' = e
  /\ queued' = {} /\ app' = NoApp /\ pid' = NoPid
  /\ UNCHANGED available

\* A request for windows, of an application or of the session, while an
\* application is active or none is.
Begin ==
  /\ available /\ task.kind = None
  /\ \E k \in Kinds, byApp \in BOOLEAN :
       task' = [NoTask EXCEPT !.kind = k, !.byApp = byApp /\ k \in {"focus", "title", "close"}]
  /\ \E live \in BOOLEAN, indexed \in {None, "before"} :
       /\ app' = [NoApp EXCEPT !.state = IF live THEN "live" ELSE None]
       /\ pid' = [holder |-> 1, last |-> 1, indexed |-> IF live THEN indexed ELSE None]
  /\ queued' = {"request"} /\ ended' = None
  /\ UNCHANGED <<op, Native, search, available>>

\* Adapter.start, which refuses while an operation is unresolved; no query starts
\* before a search has answered.
StartQuery ==
  /\ Continues /\ Idle /\ search = None
  /\ op' = NewOp("query")
  /\ UNCHANGED <<task, Native, search, World>> /\ Rest

Advances ==
  /\ Continues /\ ~Idle /\ ~op.error /\ OpWorks
  /\ UNCHANGED <<task, search>> /\ Rest

\* activation_guard, and guard of a close.  First pass: the target is verified
\* and what may now happen is recorded.
Selected == (task.byApp \/ task.kind = "close") => SelectedHolds

GuardRecords ==
  /\ Continues /\ Guarding /\ ~op.error /\ task.dispatch = "not_started"
  /\ Selected /\ ~Found
  /\ task' = [task EXCEPT !.dispatch = "uncertain"]
  /\ queued' = queued \cup {"effects"}
  /\ UNCHANGED <<op, Native, search, app, pid>> /\ Rest

\* Mutant: what the first pass verified is trusted.
GuardTrusts == TRUE

\* Second pass, once that is durable: verified again, and the helper starts.
GuardHolds == Selected /\ ~Found

GuardPasses ==
  /\ Continues /\ Guarding /\ ~op.error /\ task.dispatch = "uncertain"
  /\ Recorded /\ GuardHolds
  /\ Spawn
  /\ UNCHANGED <<task, search, World>> /\ Rest

\* The adapter is free, and its operation's result is the task's.
Returned == Continues /\ ~op.error /\ OpReturns
Then(o, t) == op' = o /\ task' = t /\ UNCHANGED <<Native, search, app, pid>> /\ Rest
Again == Then(NoOp, task) /\ UNCHANGED queued             \* and poll in .1 s
Succeeds == op' = NoOp /\ Finish("succeeded") /\ UNCHANGED <<Native, search>>

WindowsEnds == Returned /\ task.kind = "windows" /\ Succeeds

GoneReturns ==
  /\ Returned /\ task.kind = "gone"
  /\ IF op.present THEN Again ELSE Succeeds

\* resolve: exactly one window, of the application when one is named.
Resolves == op.present /\ (task.byApp => op.row # 0)

\* The result is thrown away when the application turns out to have exited.
ResultRefused ==
  /\ Returned /\ task.kind \in {"focus", "title", "close"} /\ Looks
  /\ app.state = "exited" /\ ExitFails
  /\ task.byApp \/ (task.kind = "close" /\ Resolves /\ op.row # 0)
  /\ Then(NoOp, [task EXCEPT !.error = "application_exited"]) /\ UNCHANGED queued

FocusReturns ==
  /\ Returned /\ task.kind = "focus"
  /\ \/ /\ task.phase = "resolve" /\ Resolves
        /\ Then(NewOp("activation"), [task EXCEPT !.phase = "activate", !.row = op.row])
        /\ UNCHANGED queued
     \/ /\ task.phase = "activate"
        /\ Then(NoOp, [task EXCEPT !.phase = "focus_wait"]) /\ UNCHANGED queued
     \/ /\ task.phase = "focus_wait" /\ op.present
        /\ Again \/ Succeeds                              \* not focused yet, or focused

\* A title is compared at once, or by a child; one that did not match is not
\* looked at again.
TitleReturns ==
  /\ Returned /\ task.kind = "title" /\ Resolves
  /\ \/ Again
     \/ Succeeds
     \/ /\ op' = NoOp /\ search' = "running"
        /\ UNCHANGED <<task, Native, World>> /\ Rest

TitleSearched ==
  /\ Continues /\ search' = None
  /\ \/ search = "missed" /\ UNCHANGED <<task, op, Native, World>> /\ Rest
     \/ search = "found" /\ Finish("succeeded") /\ UNCHANGED <<op, Native>>

CloseResolves ==
  /\ Returned /\ task.kind = "close" /\ task.phase = "resolve"
  /\ Resolves /\ op.row # 0 /\ ~app.completed
  /\ Then(NewOp("close"),
           [task EXCEPT !.phase = "close_request", !.row = op.row, !.byApp = TRUE])
  /\ UNCHANGED queued

\* The request went through; from here on the exit is what it waits for.
CloseRequested ==
  /\ Returned /\ task.kind = "close" /\ task.phase = "close_request"
  /\ op' = NoOp
  /\ \E seen \in {Found, Exited} :
       task' = [task EXCEPT !.phase = "exit_wait", !.dispatch = "transport_completed",
                            !.exited = seen]
  /\ queued' = queued \cup {"effects"}
  /\ UNCHANGED <<Native, search, app, pid>> /\ Rest

ClosePolls ==
  /\ Returned /\ task.kind = "close" /\ task.phase = "exit_wait"
  /\ Then(NoOp, task) /\ queued' = queued \cup {"effects"}

\* The exit supersedes the query in progress, whose cleanup comes first.
CloseExited == Working /\ task.kind = "close" /\ (task.exited \/ (Known /\ ~ExitFails))

CloseSupersedes ==
  /\ CloseExited /\ ~Idle /\ ~op.error
  /\ task' = [task EXCEPT !.exited = TRUE]
  /\ Abort /\ UNCHANGED <<search, World>> /\ Rest

CloseCleans ==
  /\ CloseExited /\ op.error /\ CleanupWorks
  /\ UNCHANGED <<task, search>> /\ Rest

CloseEnds ==
  /\ CloseExited
  /\ \/ Idle /\ UNCHANGED <<op, Native>>
     \/ CleanupEnds /\ Freed
  /\ Finish("succeeded") /\ UNCHANGED search

(***************************************************************************)
(* The request failed: the scheduler runs its task's cleanup, until it is  *)
(* done or the cleanup deadline passes.                                    *)
(***************************************************************************)
Failed == task.error # None

CleansUp ==
  /\ Failed /\ op.error /\ CleanupWorks
  /\ UNCHANGED <<task, search>> /\ Rest

\* A search's child must be reaped as well.
FailedEnds ==
  /\ Failed /\ search \notin {"running", "aborted"}
  /\ search' = None
  /\ \/ Idle /\ UNCHANGED <<op, Native>>
     \/ CleanupEnds /\ Freed
  /\ Finish("failed")

Escalates ==
  /\ Failed /\ (~Idle \/ search \in {"running", "aborted"})
  /\ available' = FALSE /\ task' = NoTask /\ ended' = "failed"
  /\ remover' = IF remover = "running" THEN "aborted" ELSE remover
  /\ UNCHANGED <<op, child, script, dir, bus, search, World>>

Environment ==
  \/ WriterWrites \/ Processes \/ AppExits \/ AppObserved
  \/ KWinAnswers \/ ChildLoads \/ ChildEnds \/ RemoverEnds \/ SearchEnds

Next ==
  \/ Begin \/ StartQuery \/ Advances \/ GuardRecords \/ GuardPasses
  \/ WindowsEnds \/ GoneReturns \/ ResultRefused \/ FocusReturns \/ TitleReturns \/ TitleSearched
  \/ CloseResolves \/ CloseRequested \/ ClosePolls
  \/ CloseSupersedes \/ CloseCleans \/ CloseEnds
  \/ TaskFails \/ CleansUp \/ FailedEnds \/ Escalates
  \/ Environment

Spec == Init /\ [][Next]_vars

\* A killed or working helper ends, KWin answers, and the scheduler goes on
\* calling the cleanup.  The cleanup deadline need not ever pass.
FairSpec ==
  /\ Spec
  /\ WF_vars(KWinAnswers) /\ WF_vars(ChildEnds) /\ WF_vars(RemoverEnds) /\ WF_vars(SearchEnds)
  /\ WF_vars(CleansUp) /\ WF_vars(FailedEnds)

(***************************************************************************)
(* Properties.                                                             *)
(***************************************************************************)
\* The adapter is free again only when nothing of its operation is left: no
\* helper runs, no script of ours is loaded in KWin, the directory is gone; and
\* a request that starts finds it free (Query.cleanup, Adapter.start).
SlotReturned ==
  /\ Idle => /\ ~Running /\ remover = None
             /\ ~script /\ ~dir
  /\ task.kind = None /\ available => Idle /\ search = None

\* The same, in a well-typed adapter.
SlotSound == TypeOK /\ SlotReturned

\* A window accepted as an application's is the window of the process that held
\* its pid when KWin listed it, although that process may exit and its pid be
\* taken by another of the same application at any time (window_identity).
AttributedToOwner ==
  op.phase \in {"publish", "publishing"} /\ op.row # 0 => op.row = op.snap

\* A helper that focuses or closes a window starts only when what it may do is
\* durably recorded and, where an application was asked for or is closed, the selected
\* process still holds its window: what was verified before the record was written may
\* be stale by then.  A window focused by its title alone, as that of no application, has
\* no process to verify (recheck_selected); for it the property says the first half only.
EffectVerified ==
  [][op.kind \in {"activation", "close"} /\ child' = "running" /\ child # "running"
     => /\ queued = {} /\ task.dispatch = "uncertain"
        /\ task.byApp => app.state = "live" /\ pid.holder = task.row]_vars

\* An exit that follows a close whose helper was started is never reported as
\* an application that had exited by itself.
ExitNotBlamed ==
  task.kind = "close" /\ task.error = "application_exited" =>
    /\ task.dispatch # "transport_completed"
    /\ op.kind = "close" => ~op.spawned

\* What is said of an application, its window or its exit, is true of it.
AttributionTrue == AttributedToOwner /\ ExitNotBlamed

\* A close succeeds only after its request went through and the application
\* exited, and with the adapter free again.
CloseProven ==
  [][task.kind = "close" /\ ended' = "succeeded" /\ ended # ended' =>
       /\ task.dispatch = "transport_completed" /\ app.state = "exited"
       /\ op'.kind = None]_vars

\* A failed request gives the adapter back, without the scheduler having to give
\* up on it, unless the script could not be unloaded.
CleanedUp ==
  Failed ~> (task.kind = None \/ (op.cleanup = "verify" /\ script))
=============================================================================
