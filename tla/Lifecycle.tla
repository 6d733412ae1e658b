------------------------------ MODULE Lifecycle ------------------------------
(***************************************************************************)
(* The lifecycle of one session name: managers (lifecycle.py), each in a   *)
(* process of its own that may be killed between any two steps; the        *)
(* records they share with the hook that systemd runs after a service      *)
(* (service_cleanup.py) and with the worker (worker.py), under the name    *)
(* and generation locks (runtime.py, ownership.py); external, systemd.     *)
(*                                                                         *)
(* A record on disk is replaced atomically, so one action is what a        *)
(* process does between two of its writes or calls.                        *)
(***************************************************************************)
EXTENDS Naturals

CONSTANTS
  Manager, Generation, None, Hook,
  MaxCalls            \* bound: calls of the command line

ASSUME ConstantsAssumption ==
  /\ None \notin Manager \cup Generation /\ Hook \notin Manager \cup {None}
  /\ MaxCalls \in Nat

VARIABLES
  mgr,        \* a manager's progress
  name,       \* who holds the lock of the name
  guard,      \* who holds the lock of each generation
  current,    \* the generation the name routes to
  meta,       \* lifecycle.json of each generation
  intent,     \* stop-intent.json: none, or the state before it, failed or not
  failure,    \* the worker recorded its first failure
  files,      \* settings and sockets of the generation exist
  unit,       \* systemd's unit, and what it has yet to hear of
  result,     \* SERVICE_RESULT, as far as it is told apart
  populated,  \* the unit's cgroup holds processes
  calls,      \* bounded counter
  told,       \* history: the generations whose cleanup was answered complete
  overtaken   \* history: those whose hook recorded an uncertain submission as acknowledged
              \* while a manager that had found no unit had still to read the record

vars == <<mgr, name, guard, current, meta, intent, failure, files, unit, result, populated, calls, told, overtaken>>
records == <<current, meta, intent, failure, files>>
service == <<unit, result, populated>>

Absent == [submission |-> "none", state |-> "none"]
Meta == [submission : {"reserved", "uncertain", "acknowledged"},
         state : {"starting", "ready", "stopping", "stopped", "failed"}]
Units == {"none", "inflight", "lost", "starting", "active", "draining", "stopping", "post", "failed", "gone"}
Info == [unit : Units, empty : BOOLEAN, good : BOOLEAN]

\* mode: what the call is doing; a start goes from start (the generation it found) to
\* startup (its own) to abort (the fallback cleanup).
NoInfo == [unit |-> "none", empty |-> TRUE, good |-> TRUE]
Idle == [pc |-> "idle", mode |-> "none", gen |-> None, data |-> Absent, info |-> NoInfo,
         failed |-> FALSE, submitted |-> FALSE]

Calling == {"start", "stop", "status"}
Holding == {"inspect", "decide", "ping", "ready", "retire", "retiring", "reserve", "publish", "mark",
            "submit", "ack", "intent", "write", "stop"}

Progress == [pc : Holding \cup {"idle"}, mode : Calling \cup {"startup", "abort", "none"},
             gen : Generation \cup {None}, data : Meta \cup {Absent}, info : Info,
             failed : BOOLEAN, submitted : BOOLEAN]

TypeOK ==
  /\ mgr \in [Manager -> Progress]
  /\ name \in Manager \cup {None}
  /\ \A m \in Manager : mgr[m].pc \in Holding <=> name = m
  /\ guard \in [Generation -> Manager \cup {None, Hook}]
  /\ \A g \in Generation :
       /\ guard[g] = Hook => unit[g] = "post"
       /\ guard[g] \in Manager => mgr[guard[g]].pc = "retiring" /\ mgr[guard[g]].gen = g
  /\ current \in Generation \cup {None}
  /\ meta \in [Generation -> Meta \cup {Absent}]
  /\ intent \in [Generation -> {"none", "clean", "failed"}]
  /\ failure \in [Generation -> BOOLEAN] /\ files \in [Generation -> BOOLEAN]
  /\ unit \in [Generation -> Units] /\ result \in [Generation -> {"success", "other", "fault"}]
  /\ populated \in [Generation -> BOOLEAN]
  /\ calls \in 0 .. MaxCalls /\ told \subseteq Generation /\ overtaken \subseteq Generation

Init ==
  /\ mgr = [m \in Manager |-> Idle] /\ name = None
  /\ guard = [g \in Generation |-> None]
  /\ current = None /\ meta = [g \in Generation |-> Absent]
  /\ intent = [g \in Generation |-> "none"]
  /\ failure = [g \in Generation |-> FALSE] /\ files = [g \in Generation |-> FALSE]
  /\ unit = [g \in Generation |-> "none"] /\ result = [g \in Generation |-> "success"]
  /\ populated = [g \in Generation |-> FALSE]
  /\ calls = 0 /\ told = {} /\ overtaken = {}

-----------------------------------------------------------------------------
(* What a manager concludes from systemd's answer and from the records.    *)

\* LoadState is not-found otherwise.
Loaded(info) == info.unit \in {"starting", "active", "draining", "stopping", "post", "failed"}
Active(info) == info.unit \in {"active", "draining"}
Deactivating(info) == info.unit \in {"stopping", "post"}

Settled(info) == info.unit \notin {"starting", "active", "draining", "stopping", "post"} /\ info.empty

\* Mutant: a unit that is not there does not run.
QuiescentAbsent(data, info) == Settled(info)

Quiescent(data, info) == data.submission # "uncertain" /\ Settled(info)

\* _observe: the record read after the inspection, with what the inspection proves.
Observed(m) ==
  LET disk == meta[mgr[m].gen] IN
  IF disk.submission = "uncertain" /\ (mgr[m].data.submission = "acknowledged" \/ Loaded(mgr[m].info))
  THEN [disk EXCEPT !.submission = "acknowledged"] ELSE disk

Terminal(state) == state \in {"stopped", "failed"}

\* Mutant: what the writer remembers is written.
MergedBlind(disk, data) == data

\* write_metadata: a terminal state stands, unless it is a failure that comes after it.
Merged(disk, data) ==
  IF Terminal(disk.state) /\ data.state # "failed" THEN [data EXCEPT !.state = disk.state] ELSE data

\* Mutant: a stop that was asked for ends in stopped.
ClassifyIntent(g, state, fault, inside) ==
  IF intent[g] = "none" /\ (inside \/ state # "stopped") THEN "failed" ELSE "stopped"

\* classify
Classify(g, state, fault, inside) ==
  IF \/ state = "failed" \/ failure[g] \/ intent[g] = "failed" \/ fault
     \/ intent[g] = "none" /\ (inside \/ state # "stopped")
  THEN "failed" ELSE "stopped"

\* finalize, up to the record it writes.
Finalized(g, known, failed, fault, inside) ==
  LET disk == meta[g] IN
  [submission |-> IF inside \/ known = "acknowledged" THEN "acknowledged" ELSE disk.submission,
   state |-> Classify(g, IF failed THEN "failed" ELSE disk.state, fault, inside)]

-----------------------------------------------------------------------------
(* A manager.                                                              *)

Step(m, change) == mgr' = [mgr EXCEPT ![m] = change]
Go(m, pc) == Step(m, [mgr[m] EXCEPT !.pc = pc])

\* The call ends, and with its process the locks it holds.
Ends(m) == Step(m, Idle) /\ name' = IF name = m THEN None ELSE name

\* The call raises.  A start that has published its generation cleans up after it.
Raises(m) ==
  IF mgr[m].mode = "startup"
  THEN /\ Step(m, [mgr[m] EXCEPT !.pc = "inspect", !.mode = "abort", !.info = NoInfo, !.failed = TRUE])
       /\ UNCHANGED name
  ELSE Ends(m)

\* Runtime.lock: the lock of the name is free.
Unclaimed == name = None

\* handle, _start: a call takes the lock of the name, then reads what the name routes to.
\* A call that gives up waiting for the lock, or is killed, has done nothing: it is no step.
Acquire(m, mode) ==
  /\ mgr[m].pc = "idle" /\ calls < MaxCalls /\ Unclaimed
  /\ calls' = calls + 1
  /\ IF current = None /\ mode # "start"
     THEN Ends(m)
     ELSE /\ name' = m
          /\ Step(m, [Idle EXCEPT !.pc = IF current = None THEN "reserve" ELSE "inspect",
                                  !.mode = mode, !.gen = current,
                                  !.data = IF current = None THEN Absent ELSE meta[current]])
  /\ UNCHANGED <<guard, told, overtaken, records, service>>

\* The deadline has passed, or a call to the service manager or to the worker fails.
Fails(m) ==
  /\ mgr[m].pc \in {"inspect", "decide", "ping", "stop"}
  /\ \/ Raises(m)
     \/ mgr[m].pc = "ping" /\ mgr[m].mode = "startup" /\ Go(m, "inspect") /\ UNCHANGED name
  /\ UNCHANGED <<guard, calls, told, overtaken, records, service>>

Inspect(m) ==
  /\ mgr[m].pc = "inspect"
  /\ LET g == mgr[m].gen IN
     Step(m, [mgr[m] EXCEPT !.pc = "decide",
                            !.info = [unit |-> unit[g], empty |-> ~populated[g], good |-> result[g] = "success"]])
  /\ UNCHANGED <<name, guard, calls, told, overtaken, records, service>>

\* write_metadata; a failure of it (the lock of the generation is taken, or the file
\* cannot be written) is the caller's to handle.
Write(m, data) ==
  LET g == mgr[m].gen IN
  /\ guard[g] = None
  /\ meta' = [meta EXCEPT ![g] = Merged(@, data)]
  /\ UNCHANGED <<current, intent, failure, files>>

\* The observation of a call other than a stop: it keeps what it learns of a submission.
Observe(m, data, next) ==
  IF data # meta[mgr[m].gen]
  THEN \/ Write(m, data) /\ Step(m, next) /\ UNCHANGED name
       \/ Raises(m) /\ UNCHANGED records
  ELSE Step(m, next) /\ UNCHANGED <<name, records>>

\* Mutant: a generation whose record is terminal needs no reconciliation.
AfterTerminal(data) == IF Terminal(data.state) THEN "reserve" ELSE "retire"

\* A quiescent generation is reconciled before it is replaced.
AfterQuiet(data) == "retire"

DecideStart(m) ==
  LET data == Observed(m)  info == mgr[m].info
      seen == [mgr[m] EXCEPT !.data = data, !.info = NoInfo]
  IN IF Quiescent(data, info)
     THEN Observe(m, data, [seen EXCEPT !.pc = AfterQuiet(data), !.failed = data.state # "stopped"])
     ELSE IF Active(info) THEN Observe(m, data, [seen EXCEPT !.pc = "ping"])
     ELSE Ends(m) /\ UNCHANGED records

DecideStatus(m) ==
  LET data == Observed(m)  info == mgr[m].info
      seen == [mgr[m] EXCEPT !.data = data, !.info = NoInfo]
  IN IF Quiescent(data, info)
     THEN Observe(m, data, [seen EXCEPT !.pc = "retire", !.failed = data.state # "stopped"])
     ELSE IF Active(info) THEN Observe(m, data, [seen EXCEPT !.pc = "ping"])
     ELSE Ends(m) /\ UNCHANGED records

DecideStartup(m) ==
  LET data == Observed(m)  info == mgr[m].info
      seen == [mgr[m] EXCEPT !.data = data, !.info = NoInfo]
  IN IF Quiescent(data, info) THEN Raises(m) /\ UNCHANGED records
     ELSE Observe(m, data, [seen EXCEPT !.pc = IF Active(info) THEN "ping" ELSE "inspect"])

\* _stop: one turn of its loop.
DecideStop(m) ==
  LET data == Observed(m)  info == mgr[m].info
      quiet == Quiescent(data, info)
      alive == data.state \in {"starting", "ready"}
      failed == \/ mgr[m].failed
                \/ ~mgr[m].submitted /\ alive /\ (quiet \/ info.unit = "failed" \/ ~info.good)
      submitted == mgr[m].submitted \/ Deactivating(info)
      next == CASE quiet -> "retire"
                [] ~quiet /\ ~submitted /\ Loaded(info) -> IF mgr[m].mode = "stop" THEN "intent" ELSE "write"
                [] OTHER -> "inspect"
  IN /\ Step(m, [mgr[m] EXCEPT !.pc = next, !.data = data, !.info = NoInfo, !.failed = failed,
                               !.submitted = IF quiet THEN @ ELSE submitted])
     /\ UNCHANGED <<name, records>>

Decide(m) ==
  /\ mgr[m].pc = "decide"
  /\ CASE mgr[m].mode = "start" -> DecideStart(m)
       [] mgr[m].mode = "status" -> DecideStatus(m)
       [] mgr[m].mode = "startup" -> DecideStartup(m)
       [] mgr[m].mode \in {"stop", "abort"} -> DecideStop(m)
  /\ UNCHANGED <<guard, calls, told, overtaken, service>>

\* The answer of the worker: live and ready, or starting (a start asks again).
Ping(m, ready) ==
  /\ mgr[m].pc = "ping" /\ unit[mgr[m].gen] = "active"
  /\ CASE mgr[m].mode = "startup" -> Go(m, IF ready THEN "ready" ELSE "inspect") /\ UNCHANGED name
       [] mgr[m].mode = "start" /\ ~ready -> UNCHANGED <<mgr, name>>
       [] OTHER -> Ends(m)
  /\ UNCHANGED <<guard, calls, told, overtaken, records, service>>

\* _start: ready is written, and answered unless the deadline has passed; where the
\* generation is locked it looks again.
Ready(m) ==
  /\ mgr[m].pc = "ready"
  /\ \/ Write(m, [mgr[m].data EXCEPT !.state = "ready"]) /\ (Ends(m) \/ Raises(m))
     \/ UNCHANGED records /\ UNCHANGED name /\ Go(m, "inspect")
     \/ UNCHANGED records /\ Raises(m)
  /\ UNCHANGED <<guard, calls, told, overtaken, service>>

\* _retire, finalize: the lock, the classification and its record; then the disposal,
\* which may fail.
Retire(m) ==
  /\ mgr[m].pc = "retire"
  /\ LET g == mgr[m].gen  d == mgr[m].data
         done == Finalized(g, d.submission, mgr[m].failed \/ d.state = "failed", FALSE, FALSE)
     IN \/ /\ guard[g] = None /\ current = g
           /\ guard' = [guard EXCEPT ![g] = m]
           /\ meta' = [meta EXCEPT ![g] = done]
           /\ Step(m, [mgr[m] EXCEPT !.pc = "retiring", !.data = done])
           /\ UNCHANGED <<name, current, intent, failure, files>>
        \/ Raises(m) /\ UNCHANGED <<guard, records>>
  /\ UNCHANGED <<calls, told, overtaken, service>>

\* The failed unit's listing may be reset.  A start goes on, any other call answers.
Retired(m) ==
  /\ mgr[m].pc = "retiring"
  /\ LET g == mgr[m].gen IN
     /\ guard' = [guard EXCEPT ![g] = None]
     /\ \/ /\ files' = [files EXCEPT ![g] = FALSE]
           /\ unit' \in {unit, [unit EXCEPT ![g] = IF @ = "failed" THEN "gone" ELSE @]}
           /\ told' = IF mgr[m].mode \in {"stop", "status"} THEN told \cup {g} ELSE told
           /\ IF mgr[m].mode = "start" THEN Go(m, "reserve") /\ UNCHANGED name ELSE Ends(m)
        \/ Raises(m) /\ UNCHANGED <<files, unit, told>>
  /\ UNCHANGED <<calls, overtaken, current, meta, intent, failure, result, populated>>

\* A fresh generation: its claim, its durable records.
Reserve(m, g) ==
  /\ mgr[m].pc = "reserve" /\ meta[g] = Absent
  /\ meta' = [meta EXCEPT ![g] = [submission |-> "reserved", state |-> "starting"]]
  /\ Step(m, [mgr[m] EXCEPT !.pc = "publish", !.gen = g, !.failed = FALSE,
                            !.data = [submission |-> "reserved", state |-> "starting"]])
  /\ UNCHANGED <<name, guard, calls, told, overtaken, current, intent, failure, files, service>>

\* Any of that failed, or every token of the model is used.
ReserveFails(m) ==
  /\ mgr[m].pc = "reserve" /\ Ends(m)
  /\ UNCHANGED <<guard, calls, told, overtaken, records, service>>

\* The name goes to it, under the lock of the one it replaces.
Publish(m) ==
  /\ mgr[m].pc = "publish"
  /\ IF current = None \/ guard[current] = None
     THEN /\ current' = mgr[m].gen
          /\ Step(m, [mgr[m] EXCEPT !.pc = "mark", !.mode = "startup"])
          /\ UNCHANGED name
     ELSE Ends(m) /\ UNCHANGED current
  /\ UNCHANGED <<guard, calls, told, overtaken, meta, intent, failure, files, service>>

\* Before and after the submission, how certain it is.
Mark(m) ==
  /\ mgr[m].pc = "mark"
  /\ LET data == [mgr[m].data EXCEPT !.submission = "uncertain"] IN
     \/ Write(m, data) /\ UNCHANGED name /\ Step(m, [mgr[m] EXCEPT !.pc = "submit", !.data = data])
     \/ UNCHANGED records /\ Raises(m)
  /\ UNCHANGED <<guard, calls, told, overtaken, service>>

\* systemd-run: it answers, or it does not and the unit may or may not come up.
Submit(m) ==
  /\ mgr[m].pc = "submit"
  /\ LET g == mgr[m].gen IN
     \/ /\ unit' = [unit EXCEPT ![g] = "starting"] /\ populated' = [populated EXCEPT ![g] = TRUE]
        /\ Go(m, "ack") /\ UNCHANGED name
     \/ /\ unit' \in {unit, [unit EXCEPT ![g] = "inflight"]}
        /\ Raises(m) /\ UNCHANGED populated
  /\ UNCHANGED <<guard, calls, told, overtaken, records, result>>

Ack(m) ==
  /\ mgr[m].pc = "ack"
  /\ LET data == [mgr[m].data EXCEPT !.submission = "acknowledged"] IN
     \/ Write(m, data) /\ UNCHANGED name /\ Step(m, [mgr[m] EXCEPT !.pc = "inspect", !.data = Merged(meta[mgr[m].gen], data)])
     \/ /\ UNCHANGED <<records, name>>
        /\ Step(m, [mgr[m] EXCEPT !.pc = "inspect", !.mode = "abort", !.failed = TRUE, !.data = data])
  /\ UNCHANGED <<guard, calls, told, overtaken, service>>

\* A requested stop leaves its intent first, the earliest of all.
Intent(m) ==
  /\ mgr[m].pc = "intent"
  /\ LET g == mgr[m].gen
         d == IF mgr[m].failed THEN [mgr[m].data EXCEPT !.state = "failed"] ELSE mgr[m].data
     IN \/ /\ guard[g] = None /\ current = g
           /\ intent' = [intent EXCEPT ![g] = IF @ # "none" THEN @ ELSE IF d.state = "failed" THEN "failed" ELSE "clean"]
           /\ Step(m, [mgr[m] EXCEPT !.pc = "write", !.data = d])
           /\ UNCHANGED <<current, meta, failure, files>>
        \/ Go(m, "stop") /\ UNCHANGED records
  /\ UNCHANGED <<name, guard, calls, told, overtaken, service>>

StopWrite(m) ==
  /\ mgr[m].pc = "write"
  /\ LET data == [mgr[m].data EXCEPT !.state = IF mgr[m].failed THEN "failed" ELSE "stopping"] IN
     /\ Write(m, data) \/ UNCHANGED records
     /\ Step(m, [mgr[m] EXCEPT !.pc = "stop", !.data = data])
  /\ UNCHANGED <<name, guard, calls, told, overtaken, service>>

\* systemctl stop, which systemd carries out whether or not it is heard to.
Stop(m) ==
  /\ mgr[m].pc = "stop"
  /\ LET g == mgr[m].gen IN
     unit' = [unit EXCEPT ![g] = IF @ \in {"starting", "active", "draining"} THEN "stopping" ELSE @]
  /\ \/ Step(m, [mgr[m] EXCEPT !.pc = "inspect", !.submitted = TRUE]) /\ UNCHANGED name
     \/ Raises(m)
  /\ UNCHANGED <<guard, calls, told, overtaken, records, result, populated>>

\* The manager is killed; systemd-run may survive it.
Crash(m) ==
  /\ mgr[m].pc # "idle" /\ Ends(m)
  /\ guard' = [g \in Generation |-> IF guard[g] = m THEN None ELSE guard[g]]
  /\ \/ UNCHANGED unit
     \/ mgr[m].pc = "submit" /\ unit' = [unit EXCEPT ![mgr[m].gen] = "inflight"]
  /\ UNCHANGED <<calls, told, overtaken, records, result, populated>>

-----------------------------------------------------------------------------
(* The service: systemd (external), the worker and the hooks.              *)

Quiet == UNCHANGED <<mgr, name, calls, told, overtaken>>

\* A submission nobody heard of comes up late, or never.
Materialise(g) ==
  /\ unit[g] = "inflight" /\ Quiet
  /\ \/ unit' = [unit EXCEPT ![g] = "starting"] /\ populated' = [populated EXCEPT ![g] = TRUE]
     \/ unit' = [unit EXCEPT ![g] = "lost"] /\ UNCHANGED populated
  /\ UNCHANGED <<guard, records, result>>

\* The worker runs and builds its desktop, or cannot be executed.
Executes(g) ==
  /\ unit[g] = "starting" /\ Quiet
  /\ \/ /\ unit' = [unit EXCEPT ![g] = "active"] /\ files' = [files EXCEPT ![g] = TRUE]
        /\ UNCHANGED result
     \/ /\ unit' = [unit EXCEPT ![g] = "post"] /\ result' = [result EXCEPT ![g] = "fault"]
        /\ UNCHANGED files
  /\ UNCHANGED <<guard, populated, current, meta, intent, failure>>

\* dispatch_request: session.stop reaches the worker itself, that may be stopping already.
\* It stops with or without its intent on disk; the relay of ExecStop leaves none.
AdmitStop(g) ==
  /\ unit[g] \in {"active", "draining", "stopping"} /\ Quiet
  /\ unit' = [unit EXCEPT ![g] = IF @ = "active" THEN "draining" ELSE @]
  /\ \/ UNCHANGED intent
     \/ /\ guard[g] = None /\ current = g
        /\ intent' = [intent EXCEPT ![g] = IF @ # "none" THEN @
                                           ELSE IF meta[g].state = "failed" THEN "failed" ELSE "clean"]
  /\ UNCHANGED <<guard, result, populated, current, meta, failure, files>>

\* The worker is gone: stopped, failed and on record, dead without a word, or killed.
WorkerEnds(g, why, recorded) ==
  /\ unit[g] \in {"active", "draining", "stopping"} /\ Quiet
  /\ unit' = [unit EXCEPT ![g] = "post"] /\ result' = [result EXCEPT ![g] = why]
  /\ failure' = [failure EXCEPT ![g] = @ \/ recorded]
  /\ UNCHANGED <<guard, populated, current, meta, intent, files>>

\* The submission of g is uncertain on record, and a manager that was told there is no
\* such unit has yet to read it.
Stale(g) ==
  /\ meta[g].submission = "uncertain"
  /\ \E m \in Manager : mgr[m].pc = "decide" /\ mgr[m].gen = g /\ ~Loaded(mgr[m].info)

\* ExecStopPost: finalize from inside.
HookBegins(g) ==
  /\ unit[g] = "post" /\ guard[g] = None /\ current = g
  /\ UNCHANGED <<mgr, name, calls, told>>
  /\ overtaken' = IF Stale(g) THEN overtaken \cup {g} ELSE overtaken
  /\ guard' = [guard EXCEPT ![g] = Hook]
  /\ meta' = [meta EXCEPT ![g] = Finalized(g, "acknowledged", FALSE, result[g] = "fault", TRUE)]
  /\ UNCHANGED <<service, current, intent, failure, files>>

\* Survivors are killed, then the files removed.
HookEnds(g) ==
  /\ guard[g] = Hook /\ Quiet
  /\ guard' = [guard EXCEPT ![g] = None] /\ files' = [files EXCEPT ![g] = FALSE]
  /\ unit' = [unit EXCEPT ![g] = IF result[g] = "success" THEN "gone" ELSE "failed"]
  /\ UNCHANGED <<current, meta, intent, failure, result, populated>>

\* The hook found the lock taken, was cut off, or was killed at any point.
HookFails(g) ==
  /\ unit[g] = "post" /\ Quiet
  /\ guard' = [guard EXCEPT ![g] = IF @ = Hook THEN None ELSE @]
  /\ unit' = [unit EXCEPT ![g] = "failed"] /\ result' = [result EXCEPT ![g] = IF @ = "success" THEN "other" ELSE @]
  /\ UNCHANGED <<records, populated>>

\* The last process of the cgroup is gone.
Empties(g) ==
  /\ unit[g] \in {"failed", "gone"} /\ populated[g] /\ Quiet
  /\ populated' = [populated EXCEPT ![g] = FALSE]
  /\ UNCHANGED <<guard, records, unit, result>>

Service ==
  \E g \in Generation :
    \/ Materialise(g) \/ Executes(g) \/ AdmitStop(g)
    \/ \E why \in {"success", "other", "fault"}, recorded \in BOOLEAN : WorkerEnds(g, why, recorded)
    \/ HookBegins(g) \/ HookEnds(g) \/ HookFails(g) \/ Empties(g)

Work(m) ==
  \/ \E mode \in Calling : Acquire(m, mode)
  \/ Fails(m) \/ Inspect(m) \/ Decide(m)
  \/ \E ready \in BOOLEAN : Ping(m, ready)
  \/ Ready(m) \/ Retire(m) \/ Retired(m)
  \/ \E g \in Generation : Reserve(m, g)
  \/ ReserveFails(m) \/ Publish(m) \/ Mark(m) \/ Submit(m) \/ Ack(m)
  \/ Intent(m) \/ StopWrite(m) \/ Stop(m) \/ Crash(m)

Next == (\E m \in Manager : Work(m)) \/ Service

Spec == Init /\ [][Next]_vars

-----------------------------------------------------------------------------
(* Properties.                                                             *)

Live(g) == unit[g] \in {"inflight", "starting", "active", "draining", "stopping", "post"} \/ populated[g]

\* A generation that was overtaken counts as over: what follows is promised of the others.
Abstract ==
  INSTANCE OneGeneration WITH
    named <- current,
    alive <- {g \in Generation : g \notin overtaken /\ Live(g)},
    over <- {g \in Generation : g \in overtaken \/ (unit[g] \in {"lost", "failed", "gone"} /\ ~populated[g])}

\* Managers and service keep the promise of OneGeneration: a name's processes are all of
\* one generation, the one the name routes to, even when a manager died in the middle of
\* a start or a submission comes up late.  The processes of a generation whose hook
\* overtook a manager are not counted: see NameHeldUntilClean.
KeepsOne == Abstract!Spec

\* A failure that is on record stays there, whatever manager or hook writes next from
\* what it read before.
FailureKept ==
  [][\A g \in Generation : meta[g].state = "failed" => meta'[g].state = "failed"]_vars

\* A generation recorded as stopped was asked to stop, and had not failed until then:
\* whoever classified it, hook or manager, and however often.
StoppedOnRequest ==
  \A g \in Generation : meta[g].state = "stopped" => intent[g] = "clean" /\ ~failure[g]

\* What was answered as cleaned up is so for good: no process, no settings, a terminal
\* record; unless the hook of the generation overtook the manager that answered.
CompleteIsFinal == \A g \in told \ overtaken : ~Live(g) /\ ~files[g] /\ Terminal(meta[g].state)

\* What is on record is true of the generation, and what a caller was told from it,
\* where no hook overtook a manager.
RecordTrue == TypeOK /\ StoppedOnRequest /\ CompleteIsFinal

\* The name goes to a new generation only once the old one is reconciled: always with a
\* terminal record, and with no process and no settings unless its hook overtook a
\* manager.
ReplacedIsFinished ==
  [][current' # current /\ current # None =>
       /\ Terminal(meta[current].state)
       /\ current \notin overtaken => ~Live(current) /\ ~files[current]]_vars

\* docs/LIFECYCLE.md:56-60: an absent unit cannot prove that a delayed submission will
\* never materialize, and the manager refuses replacement of it: the name is not taken
\* from a generation that has processes.  The code does not keep it where a hook
\* overtakes a manager: see README, 6.
NameHeldUntilClean ==
  [][current' # current /\ current # None => ~Live(current)]_vars

\* docs/LIFECYCLE.md:278-280: a termination that was asked for, with no failure of the
\* session before it, remains stopped: a record that says stopping does not turn failed.
\* The code does not keep it: see README, 6.
RequestedStaysStopped ==
  [][\A g \in Generation :
       meta[g].state = "stopping" /\ intent[g] = "clean" /\ ~failure[g] /\ result[g] # "fault"
       => meta'[g].state # "failed"]_vars
=============================================================================
