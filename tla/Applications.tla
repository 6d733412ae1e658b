---------------------------- MODULE Applications ----------------------------
(***************************************************************************)
(* The applications of one worker: the launch task (applications.py) and   *)
(* its gated helper (app_launcher.py, children.py), the registry that owns *)
(* what was launched (app_processes.py), explicit termination              *)
(* (terminating.py), and their records (writer.py, artifacts.py).          *)
(* External: the processes of an application.                              *)
(*                                                                         *)
(* A turn of the worker drains the journal and reaps children, ticks the   *)
(* registry, and steps the request that runs.  The registry stops where    *)
(* its 2 ms are used up.  Processes run beside every stage.                *)
(***************************************************************************)
EXTENDS Naturals, Sequences, FiniteSets

CONSTANTS
  Apps,      \* bound: applications are reserved in the order 1 .. Apps
  Kids,      \* processes that an application's program may fork
  Calls,     \* bound: requests
  Lag,       \* bound: records that the writer may have left when a turn begins
  Mishaps    \* bound: records that are not written, and processes that move out of their group

ASSUME ConstantsAssumption ==
  Apps \in Nat /\ Calls \in Nat /\ "root" \notin Kids /\ Mishaps \in Nat /\ Lag \in Nat

App == 1 .. Apps
Member == Kids \cup {"root"}

VARIABLES
  session,   \* up, or stopping because the registry failed
  turn,      \* the next stage of the worker's turn
  active,    \* Registry.active, 0 for none
  app,       \* each Application
  proc,      \* external: each process of it
  wrote,     \* what the helper has written to the status pipe
  gate,      \* the helper's gate
  queue,     \* records the journal has not answered for
  disk,      \* the application's record
  named,     \* the processes that have a record
  failure,   \* Registry.failure: a write that it watches has failed
  work,      \* the request that runs
  cursor,    \* its Termination
  clock,     \* the times of a kill that have passed: term_cutoff, signal_cutoff
  calls, mishaps,  \* bounded counters
  ran, sent, promised,  \* history: programs, and of the request its signals and last durable effect
  answered   \* history: what the last request has answered, if it succeeded

outside == <<proc, wrote, ran>>
answers == <<disk, named, failure, mishaps>>
records == <<queue, answers>>
request == <<work, clock, calls, answered, gate>>
killing == <<cursor, sent, promised>>
vars == <<session, turn, active, app, outside, records, request, killing>>

Unborn == [state |-> "none", authorized |-> FALSE, settled |-> FALSE, uncertain |-> FALSE, completed |-> FALSE,
           child |-> "none", process |-> FALSE, handles |-> {}, observed |-> {}, pending |-> {},
           empty |-> FALSE, dirty |-> FALSE, scanFirst |-> FALSE, flushed |-> FALSE,
           marks |-> [p \in Member |-> "none"]]
NoWork == [kind |-> "none", app |-> 0, phase |-> "none", failed |-> FALSE]
Off == [on |-> FALSE, phase |-> "resolve", dirty |-> FALSE, failed |-> FALSE]

Terminal == {"all-exited", "launch-failed"}
States == {"none", "prepared", "execution-authorized", "running", "root-exited"} \cup Terminal
Dead == {"none", "exited", "signalled"}
Signals == {"term", "kill"}

\* Types.  The active application is the one whose life is not over, what awaits its
\* record has been observed, and a cursor belongs to the kill that runs.
TypeOK ==
  /\ session \in {"up", "stopping"} /\ active \in App \cup {0}
  /\ turn \in {"drain", "registry", "prepare", "first", "second", "publish", "task"}
  /\ \A a \in App : LET x == app[a] IN
       /\ x.state \in States /\ x.child \in {"none", "alive", "reaped"} /\ x.marks \in [Member -> Signals \cup {"none"}]
       /\ x.observed \subseteq Member /\ x.handles \cup x.pending \subseteq x.observed
       /\ (x.state # "none" /\ ~x.completed) <=> active = a
       /\ x.authorized => x.process
  /\ \A a \in App : disk[a] \in States /\ named[a] \subseteq Member /\ gate[a] \in {"none", "shut", "open", "closed"}
  /\ work.kind \in {"none", "launch", "kill"} /\ clock \in 0 .. 2
  /\ cursor.on => work.kind = "kill" /\ work.app = active /\ ~cursor.failed

Init ==
  /\ session = "up" /\ turn = "drain" /\ active = 0 /\ failure = FALSE
  /\ app = [a \in App |-> Unborn]
  /\ proc = [a \in App |-> [p \in Member |-> "none"]] /\ wrote = [a \in App |-> ""]
  /\ gate = [a \in App |-> "none"]
  /\ queue = <<>> /\ disk = [a \in App |-> "none"] /\ named = [a \in App |-> {}]
  /\ work = NoWork /\ cursor = Off /\ clock = 0 /\ calls = 0 /\ mishaps = 0
  /\ ran = {} /\ sent = {} /\ promised = "none" /\ answered = {}

-----------------------------------------------------------------------------
(* Records.                                                                *)

\* What is queued: who watches the write, and what it writes.
Record(by, a, what, ids) == [by |-> by, app |-> a, what |-> what, ids |-> ids]

\* Context.effects, and the writes of a request that are not an application's.
Effect(what) == Record("request", 0, what, {})

\* Application.persist, watched by the registry or by the launch.
Update(by, a, x) == Record(by, a, x.state, IF x.process THEN {"root"} ELSE {})

\* Registry.write of application_processes.
Batch(a) == Record("registry", a, "batch", app[a].pending)

\* Mutant: a record is durable once it is queued.
RecordedOnceQueued == ~work.failed

\* Context.recorded and LaunchTask.written: every record of the request is durable.
Recorded == ~work.failed /\ \A i \in DOMAIN queue : queue[i].by # "request"

\* Registry._written, of the writes that the registry keeps.
Unwritten(a) == \E i \in DOMAIN queue : queue[i].app = a /\ queue[i].what # "prepared"

\* Once a request has ended, nothing waits for the fate of its records.
Past(q) == [i \in DOMAIN q |-> IF q[i].by = "request" THEN [q[i] EXCEPT !.by = "past"] ELSE q[i]]

\* Journal.drain: the writer's answers come at the start of a turn.  An update has
\* nothing to update where the record was never prepared.
Written ==
  /\ session = "up" /\ turn = "drain" /\ queue # <<>> /\ queue' = Tail(queue)
  /\ LET r == Head(queue)
         updates == r.app # 0 /\ r.what # "prepared" IN
     \/ /\ updates => disk[r.app] # "none"
        /\ disk' = IF r.app = 0 \/ r.what = "batch" THEN disk ELSE [disk EXCEPT ![r.app] = r.what]
        /\ named' = IF r.app = 0 THEN named ELSE [named EXCEPT ![r.app] = @ \cup r.ids]
        /\ promised' = IF r.by = "request" /\ r.app = 0 THEN r.what ELSE promised
        /\ UNCHANGED <<failure, work, app, mishaps>>
     \/ /\ IF updates /\ disk[r.app] = "none" THEN UNCHANGED mishaps ELSE mishaps < Mishaps /\ mishaps' = mishaps + 1
        /\ failure' = (failure \/ r.by = "registry")
        /\ work' = [work EXCEPT !.failed = @ \/ r.by = "request"]
        /\ app' = IF updates /\ r.by # "registry" THEN [app EXCEPT ![r.app].dirty = TRUE] ELSE app
        /\ UNCHANGED <<disk, named, promised>>
  /\ UNCHANGED <<session, turn, active, outside, gate, cursor, sent, clock, calls, answered>>

-----------------------------------------------------------------------------
(* Processes (external), and the helper, which is app_launcher.py.         *)

Live(a) == {p \in Member : proc[a][p] \notin Dead}
Moved(a) == {p \in Member : proc[a][p] = "moved"}
InGroup(a) == {p \in Member : proc[a][p] \in {"entered", "passed", "program", "dying"}}

Becomes(a, p, state) == proc' = [proc EXCEPT ![a][p] = state]
Writes(a, what) == wrote' = [wrote EXCEPT ![a] = what]
\* They run before the registry looks at them, and between the halves of its scan: a
\* step at another stage is one that follows a turn in which nothing else happens.
\* They are not followed into a shutdown.
Aside ==
  /\ session = "up" /\ turn \in {"registry", "second"}
  /\ UNCHANGED <<session, turn, active, app, queue, disk, named, failure, request, killing>>

Beside == Aside /\ UNCHANGED mishaps

\* The helper enters the group and says so, or cannot.
HelperEnters(a) ==
  /\ proc[a]["root"] = "spawned" /\ UNCHANGED ran /\ Beside
  /\ \/ Becomes(a, "root", "entered") /\ Writes(a, "R")
     \/ Becomes(a, "root", "exited") /\ Writes(a, "E")

\* It reads the gate, or finds it closed or its deadline passed.
HelperPasses(a) ==
  /\ proc[a]["root"] = "entered" /\ UNCHANGED ran /\ Beside
  /\ \/ gate[a] = "open" /\ Becomes(a, "root", "passed") /\ Writes(a, "X")
     \/ gate[a] = "open" /\ Becomes(a, "root", "exited") /\ Writes(a, "E")
     \/ Becomes(a, "root", "exited") /\ UNCHANGED wrote

HelperExecutes(a) ==
  /\ proc[a]["root"] = "passed" /\ Beside
  /\ \/ Becomes(a, "root", "program") /\ ran' = ran \cup {a} /\ UNCHANGED wrote
     \/ Becomes(a, "root", "exited") /\ Writes(a, "E") /\ UNCHANGED ran

Fork(a, p) ==
  /\ p # "root" /\ proc[a][p] = "none" /\ \E q \in Member : proc[a][q] = "program"
  /\ Becomes(a, p, "program") /\ UNCHANGED <<wrote, ran>> /\ Beside

Exits(a, p) ==
  /\ proc[a][p] \in {"program", "moved"} /\ Becomes(a, p, "exited") /\ UNCHANGED <<wrote, ran>> /\ Beside

\* How the helper ended matters until the launch has settled.  A process that dies closes
\* its files first; only later can its status be collected.
IsKilled(a, p) ==
  /\ p = "root" /\ UNCHANGED <<wrote, ran>> /\ Beside
  /\ \/ p \in Live(a) /\ ~app[a].settled /\ Becomes(a, p, "signalled")
     \/ proc[a][p] = "passed" /\ ~app[a].settled /\ Becomes(a, p, "dying")
     \/ proc[a][p] = "dying" /\ Becomes(a, p, "signalled")

Moves(a, p) ==
  /\ p # "root" /\ proc[a][p] = "program" /\ mishaps < Mishaps /\ mishaps' = mishaps + 1
  /\ Becomes(a, p, "moved") /\ UNCHANGED <<wrote, ran>> /\ Aside

Processes ==
  \E a \in App : \/ HelperEnters(a) \/ HelperPasses(a) \/ HelperExecutes(a)
                 \/ \E p \in Member : Fork(a, p) \/ Exits(a, p) \/ IsKilled(a, p) \/ Moves(a, p)

-----------------------------------------------------------------------------
(* The end of a request.                                                   *)

\* Termination.detach.
Detached == [cursor EXCEPT !.on = FALSE]

\* LaunchTask.request_cancel: x is the application afterwards.
Abandoned(x) == [x EXCEPT !.settled = TRUE]

Aborts(a) == ~app[a].authorized /\ app[a].child = "alive" /\ "root" \in Live(a)

Ended == work' = NoWork /\ cursor' = Off /\ clock' = 0 /\ sent' = {} /\ promised' = "none"

\* Scheduler._cancel of a launch of a, or with a = 0 of anything else; apps and q are the
\* applications and the queue that its last step leaves.
EndsWith(a, apps, q) ==
  /\ app' = IF a = 0 THEN apps ELSE [apps EXCEPT ![a] = Abandoned(@)]
  /\ proc' = IF a # 0 /\ Aborts(a) THEN [proc EXCEPT ![a]["root"] = "signalled"] ELSE proc
  /\ gate' = IF a # 0 /\ gate[a] = "shut" THEN [gate EXCEPT ![a] = "closed"] ELSE gate
  /\ queue' = Past(q) /\ Ended /\ UNCHANGED <<wrote, ran>>

Launched == IF work.kind = "launch" THEN work.app ELSE 0

\* worker.begin_stop after an exception in Registry.tick: the registry is not ticked again.
Fails(a, x) ==
  /\ session' = "stopping" /\ turn' = "drain"
  /\ EndsWith(Launched, IF a = 0 THEN app ELSE [app EXCEPT ![a] = [x EXCEPT !.uncertain = TRUE]], queue)
  /\ UNCHANGED <<active, answers, calls, answered>>

-----------------------------------------------------------------------------
(* Registry.tick.                                                          *)

\* Children.poll; the journal may have answered for more records, or for none.
Drained ==
  /\ session = "up" /\ turn = "drain" /\ turn' = "registry" /\ Len(queue) <= Lag
  /\ app' = [a \in App |-> IF app[a].child = "alive" /\ "root" \notin Live(a)
                           THEN [app[a] EXCEPT !.child = "reaped"] ELSE app[a]]
  /\ UNCHANGED <<session, active, outside, records, request, killing>>

\* Application.observe, up to what it finds.
Seen(a) ==
  LET x == app[a]
      exit == x.child = "reaped" /\ x.state \notin {"root-exited"} \cup Terminal IN
  [x EXCEPT !.empty = InGroup(a) = {}, !.dirty = @ \/ exit,
            !.state = IF ~exit THEN @ ELSE IF x.authorized THEN "root-exited" ELSE "launch-failed"]

\* Mutant: processes that were found and not yet recorded are dropped.
UnreferencedButPending(x) == x.handles = {}

Unreferenced(x) == x.pending = {} /\ x.handles = {}
Gone(x) == x.empty /\ x.settled /\ x.child # "alive" /\ Unreferenced(x)

Completed(x) ==
  [x EXCEPT !.state = IF x.authorized /\ x.state # "launch-failed" THEN "all-exited" ELSE "launch-failed",
            !.dirty = FALSE, !.completed = TRUE]

\* Application.observe, and Registry.retire.
Observe(a) ==
  LET x == Seen(a) IN
  IF Gone(x)
  THEN /\ app' = [app EXCEPT ![a] = Completed(x)] /\ active' = 0
       /\ queue' = Append(queue, Update("registry", a, Completed(x))) /\ cursor' = Detached
  ELSE app' = [app EXCEPT ![a] = x] /\ UNCHANGED <<active, queue, cursor>>

TickFails ==
  /\ turn = "registry" /\ (failure \/ (active # 0 /\ app[active].uncertain))
  /\ Fails(active, IF active = 0 THEN Unborn ELSE app[active])

TickIdle ==
  /\ turn = "registry" /\ ~failure /\ active = 0 /\ turn' = "task"
  /\ UNCHANGED <<session, active, app, outside, records, request, killing>>

TickObserves ==
  /\ turn = "registry" /\ ~failure /\ active # 0 /\ ~app[active].uncertain
  /\ Observe(active) /\ turn' = IF active' = 0 THEN "task" ELSE "prepare"
  /\ UNCHANGED <<session, outside, answers, request, sent, promised>>

\* The last observation is less than 50 ms old.
TickSkips ==
  /\ turn = "registry" /\ ~failure /\ active # 0 /\ turn' = "prepare"
  /\ UNCHANGED <<session, active, app, outside, records, request, killing>>

\* The budget of the tick is used up.
Cut ==
  /\ turn \in {"prepare", "first"} /\ turn' = "task"
  /\ UNCHANGED <<session, active, app, outside, records, request, killing>>

\* Termination.check, and the guard of the kill.
Unfit == app[active].uncertain \/ work.failed
Failed == [cursor EXCEPT !.on = FALSE, !.failed = TRUE]
PhaseNow == CASE clock = 0 -> "term" [] clock = 1 -> "kill" [] OTHER -> "observe"

Prepare ==
  /\ turn = "prepare" /\ turn' = "first"
  /\ \/ /\ ~cursor.on \/ (~Unfit /\ PhaseNow = cursor.phase)
        /\ UNCHANGED <<cursor, sent, queue>>
     \/ /\ cursor.on /\ Unfit /\ cursor' = Failed /\ UNCHANGED <<sent, queue>>
     \/ /\ cursor.on /\ ~Unfit /\ PhaseNow # cursor.phase
        /\ cursor' = [cursor EXCEPT !.phase = PhaseNow, !.dirty = FALSE] /\ sent' = {}
        /\ queue' = Append(queue, Effect(PhaseNow))
  /\ UNCHANGED <<session, active, app, outside, answers, request, promised>>

\* Mutant: the first signal of a phase does not wait for the record of the phase.
SignalableUnrecorded(S) ==
  {p \in S : /\ cursor.on /\ ~Unfit /\ cursor.phase \in Signals
             /\ clock < (IF cursor.phase = "term" THEN 1 ELSE 2)
             /\ app[active].marks[p] # cursor.phase}

\* Termination.visit: the processes of S that may be signalled now.
Signalable(S) ==
  {p \in S : /\ cursor.on /\ ~Unfit /\ cursor.phase \in Signals /\ Recorded
             /\ clock < (IF cursor.phase = "term" THEN 1 ELSE 2)
             /\ app[active].marks[p] # cursor.phase}

\* Application.reap_turn, over a part S of the handles: T is signalled, and doubt
\* says that a cursor came across a process that has left the group.
Reaped(x, S, T, doubt) ==
  [x EXCEPT !.handles = @ \ (S \ Live(active)), !.uncertain = @ \/ doubt,
            !.marks = [p \in Member |-> CASE p \in S \ Live(active) -> "none"
                                          [] p \in T -> cursor.phase
                                          [] OTHER -> x.marks[p]]]

Times(p) == 1 + Cardinality({s \in sent : s[1] = p /\ s[2] = cursor.phase})

Visited(S, T, doubt) ==
  /\ sent' = (sent \ ((S \ Live(active)) \X Signals \X {1})) \cup {<<p, cursor.phase, Times(p)>> : p \in T}
  /\ cursor' = IF doubt \/ (cursor.on /\ Unfit /\ S \cap Live(active) # {}) THEN Failed
               ELSE [cursor EXCEPT !.dirty = @ \/ T # {}]

\* Application.discover_turn: the scan comes across a part S of the group.
Discovered(x, S) ==
  [x EXCEPT !.handles = @ \cup S, !.observed = @ \cup S, !.pending = @ \cup S]

\* A half of scan_turn begins with the application x and the queue q.
Reap(x, q, next) ==
  \E S \in SUBSET x.handles :
    LET away == S \cap Moved(active)
        doubt == cursor.on /\ ~Unfit /\ away # {} IN
    IF x.empty /\ away # {} THEN Fails(active, x)
    ELSE \E T \in SUBSET Signalable(S \cap InGroup(active)) :
           /\ Visited(S, T, doubt) /\ app' = [app EXCEPT ![active] = Reaped(x, S, T, doubt)]
           /\ queue' = q /\ turn' = next
           /\ UNCHANGED <<session, active, outside, answers, request, promised>>

Discover(x, q, next) ==
  \E S \in SUBSET (InGroup(active) \ x.observed) :
    /\ app' = [app EXCEPT ![active] = Discovered(x, S)] /\ queue' = q /\ turn' = next
    /\ UNCHANGED <<session, active, outside, answers, request, killing>>

\* Application.scan_turn: a batch of an earlier turn is flushed, and the two halves
\* alternate over the turns in which comes first.
Toggled(x) == [x EXCEPT !.scanFirst = ~@, !.pending = {}, !.flushed = x.pending # {}]

First ==
  LET x == Toggled(app[active])
      q == IF app[active].pending = {} THEN queue ELSE Append(queue, Batch(active)) IN
  /\ turn = "first"
  /\ IF x.scanFirst THEN Reap(x, q, "second") ELSE Discover(x, q, "second")

Second ==
  /\ turn = "second"
  /\ IF app[active].scanFirst THEN Discover(app[active], queue, "publish") ELSE Reap(app[active], queue, "publish")

\* The end of scan_turn, and Termination.publish, as far as the budget goes.
Publish ==
  LET x == app[active]
      due == x.pending # {} /\ ~x.flushed IN
  /\ turn = "publish" /\ turn' = "task"
  /\ \E flushes \in {FALSE, due}, saves \in {FALSE, x.dirty}, tells \in {FALSE, cursor.on /\ cursor.dirty} :
       /\ saves \/ tells => flushes = due
       /\ app' = [app EXCEPT ![active] = [x EXCEPT !.pending = IF flushes THEN {} ELSE @, !.dirty = @ /\ ~saves,
                                                   !.flushed = FALSE]]
       /\ queue' = queue \o (IF flushes THEN <<Batch(active)>> ELSE <<>>)
                         \o (IF saves THEN <<Update("registry", active, x)>> ELSE <<>>)
                         \o (IF tells THEN <<Effect(cursor.phase)>> ELSE <<>>)
       /\ cursor' = IF tells /\ work.failed THEN Failed ELSE [cursor EXCEPT !.dirty = @ /\ ~tells]
  /\ UNCHANGED <<session, active, outside, answers, request, sent, promised>>

Registry ==
  TickFails \/ TickIdle \/ TickObserves \/ TickSkips \/ Cut \/ Prepare \/ First \/ Second \/ Publish

-----------------------------------------------------------------------------
(* The request that runs: scheduler.tick starts, cancels or steps it.      *)

Turned == turn = "task" /\ turn' = "drain" /\ UNCHANGED session

Waits == Turned /\ UNCHANGED <<active, app, outside, records, request, killing>>

\* A cancellation, a disconnection, a deadline, or an error of its step.
Cancelled ==
  /\ Turned /\ work # NoWork /\ EndsWith(Launched, app, queue)
  /\ UNCHANGED <<active, answers, calls, answered>>

Submit(kind, a) ==
  /\ Turned /\ work = NoWork /\ calls < Calls /\ calls' = calls + 1
  /\ kind = "kill" => app[a].state # "none"
  /\ work' = [kind |-> kind, app |-> IF kind = "kill" THEN a ELSE 0, phase |-> "prepare", failed |-> FALSE]
  /\ answered' = {} /\ UNCHANGED killing
  /\ UNCHANGED <<active, app, outside, records, clock, gate>>

Phase(kind, phase) == Turned /\ work.kind = kind /\ work.phase = phase /\ ~work.failed

Steps(phase) == work' = [work EXCEPT !.phase = phase]

\* LaunchTask.allocate: Registry.available observes first, and must find no application.
LaunchAllocates ==
  /\ Phase("launch", "prepare")
  /\ IF active = 0
     THEN /\ Steps("allocating") /\ queue' = Append(queue, Effect("allocated"))
          /\ UNCHANGED <<active, app, cursor>>
     ELSE /\ ~app[active].uncertain /\ Observe(active) /\ UNCHANGED work
  /\ UNCHANGED <<outside, answers, clock, calls, answered, gate, sent, promised>>

\* LaunchTask.reserve.
Reservable(a) == active = 0 /\ \A b \in App : app[b].state = "none" <=> b >= a

LaunchReserves ==
  /\ Phase("launch", "allocating") /\ Recorded
  /\ \E a \in App :
       /\ Reservable(a) /\ active' = a /\ app' = [app EXCEPT ![a].state = "prepared"]
       /\ queue' = Append(queue, Record("request", a, "prepared", {}))
       /\ work' = [work EXCEPT !.phase = "preparing", !.app = a]
  /\ UNCHANGED <<outside, answers, clock, calls, answered, gate, killing>>

\* LaunchTask.prepare, where the prepared record is refused at once: the reserved
\* ownership must not be lost with it.
LaunchUnrecorded ==
  /\ Phase("launch", "allocating") /\ Recorded
  /\ \E a \in App :
       /\ Reservable(a) /\ active' = a
       /\ EndsWith(a, [app EXCEPT ![a].state = "prepared", ![a].uncertain = TRUE], queue)
  /\ mishaps < Mishaps /\ mishaps' = mishaps + 1
  /\ UNCHANGED <<disk, named, failure, calls, answered>>

\* LaunchTask.spawn.
LaunchSpawns ==
  LET a == work.app IN
  /\ Phase("launch", "preparing") /\ Recorded
  /\ Steps("ready") /\ app' = [app EXCEPT ![a].child = "alive"] /\ gate' = [gate EXCEPT ![a] = "shut"]
  /\ Becomes(a, "root", "spawned")
  /\ UNCHANGED <<active, wrote, ran, records, clock, calls, answered, killing>>

\* LaunchTask.step at "ready", with root_identity.
Authorizing(x) ==
  [x EXCEPT !.process = TRUE, !.handles = @ \cup {"root"}, !.observed = @ \cup {"root"}, !.dirty = FALSE]

LaunchAsks ==
  LET a == work.app
      identified == Authorizing(app[a])
      asks == [identified EXCEPT !.state = "execution-authorized"] IN
  /\ Phase("launch", "ready") /\ wrote[a] = "R" /\ "root" \in InGroup(a)
  /\ app' = [app EXCEPT ![a] = asks] /\ Steps("authorizing")
  /\ queue' = queue \o <<Update("request", a, identified), Update("request", a, asks), Effect("authorized")>>
  /\ UNCHANGED <<active, outside, answers, clock, calls, answered, gate, killing>>

\* LaunchTask.authorize; the write to a gate that nobody reads raises.
LaunchOpens ==
  LET a == work.app
      opened == [app EXCEPT ![a].authorized = TRUE] IN
  /\ Phase("launch", "authorizing") /\ Recorded
  /\ IF "root" \in Live(a)
     THEN /\ app' = opened /\ gate' = [gate EXCEPT ![a] = "open"] /\ Steps("exec")
          /\ UNCHANGED <<outside, queue, clock, killing>>
     ELSE EndsWith(a, opened, queue)
  /\ UNCHANGED <<active, answers, calls, answered>>

\* LaunchTask.step at "exec": the helper reports an error.
LaunchFails ==
  LET a == work.app
      x == [app[a] EXCEPT !.settled = TRUE, !.state = "launch-failed", !.dirty = FALSE] IN
  /\ Phase("launch", "exec") /\ wrote[a] = "E"
  /\ EndsWith(a, [app EXCEPT ![a] = x], Append(queue, Update("request", a, x)))
  /\ UNCHANGED <<active, answers, calls, answered>>

\* Its end of the status pipe is closed, by the exec or by its exit.
Closed(a) == proc[a]["root"] \notin {"spawned", "entered", "passed"}

\* It said X, and no signal ended it as far as the last poll can tell.
Confirmed(a) == wrote[a] = "X" /\ proc[a]["root"] # "signalled"

LaunchConfirms ==
  LET a == work.app
      over == "root" \notin Live(a)
      x == [app[a] EXCEPT !.settled = TRUE, !.child = IF over THEN "reaped" ELSE "alive",
                          !.state = IF over THEN "root-exited" ELSE "running", !.dirty = FALSE] IN
  /\ Phase("launch", "exec") /\ wrote[a] # "E" /\ Closed(a) /\ Confirmed(a)
  /\ app' = [app EXCEPT ![a] = x] /\ answered' = answered \cup {<<"launch", a>>}
  /\ queue' = Past(Append(queue, Update("request", a, x))) /\ work' = NoWork
  /\ UNCHANGED <<active, outside, answers, clock, calls, gate, killing>>

\* KillTask.observe, with Registry.lookup: the answer of an application that is not
\* active comes from memory while its writes are queued, and from the disk after that.
Status(a) == IF Unwritten(a) THEN app[a].state ELSE disk[a]

\* KillTask.step, and Registry.begin_termination.
\* Its marks carry a token of their own, so that it begins with none.
KillBegins ==
  LET a == work.app IN
  /\ Phase("kill", "prepare") /\ active = a /\ ~app[a].uncertain
  /\ Steps("dispatching") /\ queue' = Append(queue, Effect("resolve"))
  /\ cursor' = [Off EXCEPT !.on = TRUE] /\ clock' = 0
  /\ app' = [app EXCEPT ![a].marks = [p \in Member |-> "none"]]
  /\ UNCHANGED <<active, outside, answers, calls, answered, gate, sent, promised>>

KillSucceeds ==
  /\ Turned /\ work.kind = "kill" /\ ~work.failed /\ ~cursor.failed
  /\ active # work.app /\ Status(work.app) \in Terminal
  /\ answered' = answered \cup {<<"kill", work.app>>}
  /\ queue' = Past(queue) /\ Ended
  /\ UNCHANGED <<active, app, outside, answers, calls, gate>>

\* Time passes a cutoff, where its passing can be noticed.
Passes ==
  /\ turn \in {"drain", "first"} /\ work.phase = "dispatching" /\ clock < 2 /\ clock' = clock + 1
  /\ UNCHANGED <<session, turn, active, app, outside, records, work, calls, answered, gate, killing>>

Request ==
  \/ Waits \/ Cancelled \/ (\E kind \in {"launch", "kill"}, a \in App : Submit(kind, a))
  \/ LaunchAllocates \/ LaunchReserves \/ LaunchSpawns \/ LaunchUnrecorded \/ LaunchAsks
  \/ LaunchOpens \/ LaunchFails \/ LaunchConfirms \/ KillBegins \/ KillSucceeds

Turn == Drained \/ Registry \/ Request

Next == Turn \/ Written \/ Processes \/ Passes

Spec == Init /\ [][Next]_vars

-----------------------------------------------------------------------------
(* Properties.                                                             *)

\* An application is given up for over only when it is: none of its processes lives, but
\* those that left its group before they were seen, and while the writer does not fail
\* each one that was seen has its record, or will have, and its answer is a final one.
ReleasedIsOver ==
  \A a \in App : app[a].completed =>
    /\ Live(a) \subseteq Moved(a) \ app[a].observed
    /\ session = "up" /\ ~failure =>
         /\ Status(a) \in Terminal
         /\ app[a].observed \subseteq named[a] \cup UNION {queue[i].ids : i \in {j \in DOMAIN queue : queue[j].app = a}}

\* The same, in a well-typed registry.
OwnershipTrue == TypeOK /\ ReleasedIsOver

\* The gate opens only once the intent is on disk, and the program runs only behind an
\* open gate and a record that says it may, whatever became of the launch meanwhile.
GateKept ==
  [][/\ \A a \in ran' \ ran : app[a].authorized /\ gate[a] = "open" /\ disk[a] = "execution-authorized"
     /\ \A a \in App : gate'[a] = "open" /\ gate[a] # "open" => promised = "authorized"]_vars

\* A launch that succeeds has executed its program, though a helper killed before the
\* exec leaves the same receipt, unless it is dying of that just then; a kill that
\* succeeds left nothing alive.
AnswersTrue ==
  [][\A a \in App :
       /\ <<"launch", a>> \in answered' \ answered => a \in ran \/ proc[a]["root"] = "dying"
       /\ <<"kill", a>> \in answered' \ answered => app[a].completed /\ Live(a) \subseteq Moved(a) \ app[a].observed]_vars

\* What a request's answer says was done was done, and nothing was before its record.
RequestsTrue == GateKept /\ AnswersTrue

\* A signal goes out under a durable record of its phase, before the cutoff of the phase,
\* once to each process, and only to a process of the application of the kill that runs.
SignalsInOrder ==
  [][\A s \in sent' \ sent :
       /\ promised = s[2] /\ clock < (IF s[2] = "term" THEN 1 ELSE 2) /\ s[3] = 1
       /\ work.kind = "kill" /\ work.app = active /\ s[1] \in InGroup(active)]_vars
=============================================================================
