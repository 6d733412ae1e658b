---------------------------- MODULE InputLedger ----------------------------
(***************************************************************************)
(* What a session holds down: the ledger of keys and buttons of the input  *)
(* connection (input_connection.py), the tasks that press and release them *)
(* (input_actions.py), the worker that cancels them when it fails or stops *)
(* (readiness.py, shutdown.py), and, external, the compositor.             *)
(*                                                                         *)
(* Everything but the compositor runs on one thread: an action is one      *)
(* callback of its loop.  Between two callbacks the compositor may pause,  *)
(* remove or drop devices; the worker learns of it when it reads told.     *)
(***************************************************************************)
EXTENDS Integers, Sequences, FiniteSets, SequencesExt

CONSTANTS
  Key, Modifier, Button,   \* one code of each sort
  Operations,              \* the input operations requested
  MaxRequests,             \* bound: requests
  MaxFaults,               \* bound: faults of the compositor
  Batch                    \* BATCH: events read in one callback

ASSUME BoundsAssumption ==
  /\ Operations \subseteq {"type", "click", "drag", "scroll", "move"}
  /\ MaxRequests \in Nat /\ MaxFaults \in Nat /\ Batch \in Nat \ {0}
  /\ Cardinality({Key, Modifier, Button}) = 3

VARIABLES
  input,     \* the Input object; uncertain and retired survive its disposal
  fatal,     \* Readiness.fatal: a loss while the session was ready
  task,      \* the input task in the active slot
  session,   \* "starting", "ready", "stopping", "closing", "closed"
  report,    \* what shutdown.json says of its release stage
  kwin,      \* external: link, devices, what is down on each
  told,      \* external: events sent and not yet read
  requests, faults,   \* bounded counters
  inverted,  \* history: a modifier went up under its button
  dropped    \* history: a release reached a device the compositor had paused or removed

vars == <<input, fatal, task, session, report, kwin, told, requests, faults, inverted, dropped>>

Kinds == {"pointer", "keyboard"}
Codes(k) == IF k = "pointer" THEN {Button} ELSE {Key, Modifier}

Device == [known : BOOLEAN, resumed : BOOLEAN, emulating : BOOLEAN, held : SUBSET {Key, Modifier, Button}]
NoDevice == [known |-> FALSE, resumed |-> FALSE, emulating |-> FALSE, held |-> {}]

Notices == [what : {"connect", "seat", "added", "resumed", "paused", "removed", "unseated", "disconnect"},
            kind : Kinds]
Notice(w, k) == [what |-> w, kind |-> k]

TypeOK ==
  /\ input \in [epoch : 0 .. 2, pending : BOOLEAN, context : BOOLEAN, connected : BOOLEAN,
                disconnected : BOOLEAN, backlog : BOOLEAN, seat : BOOLEAN, error : BOOLEAN,
                uncertain : BOOLEAN, retired : BOOLEAN, dev : [Kinds -> Device]]
  /\ \A k \in Kinds : /\ input.dev[k].held \subseteq Codes(k)
                      /\ ~input.dev[k].known => input.dev[k] = NoDevice
                      /\ input.dev[k].known => input.context /\ input.seat
  /\ fatal \in BOOLEAN
  /\ task \in [phase : {"none", "target", "intent", "emit", "cleaning"},
               op : Operations \cup {"none"}, pos : 1 .. 7, recheck : BOOLEAN]
  /\ session \in {"starting", "ready", "stopping", "closing", "closed"}
  /\ report \in {"none", "not_connected", "confirmed", "uncertain", "deadline"}
  /\ kwin \in [asked : BOOLEAN, link : {"none", "up", "down"},
               dev : [Kinds -> {"absent", "paused", "active", "gone"}], down : [Kinds -> SUBSET {Key, Modifier, Button}]]
  /\ \A k \in Kinds : kwin.down[k] \subseteq Codes(k)
  /\ told \in Seq(Notices)
  /\ requests \in 0 .. MaxRequests /\ faults \in 0 .. MaxFaults
  /\ inverted \in BOOLEAN /\ dropped \in BOOLEAN

NoTask == [phase |-> "none", op |-> "none", pos |-> 1, recheck |-> FALSE]

Init ==
  /\ input = [epoch |-> 0, pending |-> FALSE, context |-> FALSE, connected |-> FALSE,
              disconnected |-> FALSE, backlog |-> FALSE, seat |-> FALSE, error |-> FALSE,
              uncertain |-> FALSE, retired |-> FALSE, dev |-> [k \in Kinds |-> NoDevice]]
  /\ fatal = FALSE /\ task = NoTask /\ session = "starting" /\ report = "none"
  /\ kwin = [asked |-> FALSE, link |-> "none", dev |-> [k \in Kinds |-> "absent"],
             down |-> [k \in Kinds |-> {}]]
  /\ told = <<>> /\ requests = 0 /\ faults = 0
  /\ inverted = FALSE /\ dropped = FALSE

-----------------------------------------------------------------------------
(* The state of the connection.  No device is ever of two kinds, and the   *)
(* compositor offers one of each.                                          *)

Ready(i, k) == /\ i.connected /\ ~i.error /\ i.dev[k].resumed
               /\ ~i.uncertain /\ ~i.backlog /\ ~i.pending

\* InputTask.owner: no input while an earlier release is in doubt.
Doubtful(i) == i.uncertain \/ i.retired

\* busy: held, or emulation left open by a motion whose press never happened.
Busy(i, which) ==
  \E k \in Kinds : which \in {"all", k} /\ (i.dev[k].held # {} \/ i.dev[k].emulating)

\* Mutant: only a loss the connection reported fails the session.
FailingLost == fatal \/ input.error

\* Readiness.tick, of a session that is ready: its input must stay usable.
Failing == fatal \/ input.error \/ (~Ready(input, "keyboard") /\ ~input.backlog)

\* _lost, then Readiness.cancel, which minds only while the session is ready.
Lost(c, kinds, gone) ==
  [c EXCEPT !.i.dev = [k \in Kinds |-> IF k \in kinds THEN [@[k] EXCEPT !.resumed = FALSE, !.emulating = FALSE]
                                       ELSE @[k]],
            !.i.uncertain = @ \/ \E k \in kinds : c.i.dev[k].held # {},
            !.i.connected = @ /\ ~gone,
            !.i.disconnected = @ \/ gone,
            !.fatal = @ \/ session = "ready"]

\* _fatal: sticky; the failed callback fails the session.
Broken(c) ==
  IF c.i.error THEN c
  ELSE [c EXCEPT !.i.error = TRUE, !.i.connected = FALSE, !.i.uncertain = TRUE,
                 !.i.dev = [k \in Kinds |-> [@[k] EXCEPT !.resumed = FALSE]],
                 !.fatal = TRUE]

\* A device that is removed or disposed of: what it held is retired.
Forgotten(i, k) == [i EXCEPT !.dev[k] = NoDevice, !.retired = @ \/ i.dev[k].held # {}]

\* drain, one event.
Handle(c, e) ==
  LET k == e.kind  known == c.i.dev[k].known
  IN CASE e.what = "connect" -> [c EXCEPT !.i.connected = TRUE]
       [] e.what = "seat" -> IF c.i.seat THEN Broken(c) ELSE [c EXCEPT !.i.seat = TRUE]
       [] e.what = "added" -> IF known \/ ~c.i.seat THEN Broken(c)
                              ELSE [c EXCEPT !.i.dev[k].known = TRUE]
       [] e.what = "resumed" -> IF known THEN [c EXCEPT !.i.dev[k].resumed = TRUE] ELSE c
       [] e.what = "paused" -> IF known THEN Lost(c, {k}, FALSE) ELSE c
       [] e.what = "removed" -> IF known THEN [Lost(c, {k}, FALSE) EXCEPT !.i = Forgotten(@, k)] ELSE c
       [] e.what = "unseated" -> IF \E d \in Kinds : c.i.dev[d].known THEN Broken(c)
                                 ELSE [c EXCEPT !.i.seat = FALSE]
       [] e.what = "disconnect" -> Lost(c, Kinds, TRUE)

\* drain: at most Batch events; emission is blocked until the queue is seen empty.
Drained ==
  LET n == IF Len(told) < Batch THEN Len(told) ELSE Batch
      c == FoldLeft(LAMBDA d, e : IF d.i.error THEN d ELSE Handle(d, e),
                    [i |-> [input EXCEPT !.backlog = TRUE], fatal |-> fatal],
                    SubSeq(told, 1, n))
  IN [c EXCEPT !.i.backlog = c.i.error \/ Len(told) >= Batch]

-----------------------------------------------------------------------------
(* Emission.  An outcome o is what one callback has done so far: the       *)
(* connection, what is down at the compositor, the history, and whether it *)
(* raised a ContractError ("refused") or something else ("native").        *)

Now == [i |-> input, down |-> kwin.down, inverted |-> inverted, dropped |-> dropped, raised |-> "no"]

Refuse(o) == [o EXCEPT !.raised = "refused"]

Reaches(k) == kwin.link = "up" /\ kwin.dev[k] = "active"

SendDown(o, k, codes) == [o EXCEPT !.down[k] = IF Reaches(k) THEN @ \cup codes ELSE @]

SendUp(o, k, codes) ==
  [o EXCEPT !.down[k] = IF Reaches(k) THEN @ \ codes ELSE @,
            !.dropped = @ \/ (codes # {} /\ ~Reaches(k)),
            !.inverted = @ \/ (k = "keyboard" /\ o.i.dev["pointer"].held # {} /\ ~o.i.uncertain)]

\* Input.release, one device: let go of what it holds, or of its emulation.  Where
\* neither can be confirmed, or a native call raises on the way, input is uncertain.
ReleaseDevice(o, k) ==
  LET d == o.i.dev[k]
      usable == o.i.connected /\ d.resumed /\ d.emulating /\ ~o.i.error
      let_go(p) == [p EXCEPT !.i.dev[k].emulating = FALSE, !.i.dev[k].held = {}]
      doubt(p) == [p EXCEPT !.i.uncertain = TRUE]
  IN CASE d.held = {} /\ ~usable -> {o}
       [] d.held = {} /\ usable -> {let_go(o), doubt(o)}
       [] d.held # {} /\ (~usable \/ o.i.backlog) -> {doubt(o)}
       [] OTHER -> {let_go(SendUp(o, k, d.held))} \cup {doubt(SendUp(o, k, s)) : s \in SUBSET d.held}

\* release: pointer devices first.
ReleaseOrder == <<"pointer", "keyboard">>

OwnerRelease(o, which) ==
  FoldLeft(LAMBDA os, k : IF which \in {"all", k} THEN UNION {ReleaseDevice(p, k) : p \in os} ELSE os,
           {o}, ReleaseOrder)

\* InputTask.release: consults the ledger, and ignores what release raises.
TaskRelease(o, which) == IF Busy(o.i, which) THEN OwnerRelease(o, which) ELSE {o}

StrictRelease(o, which) ==
  {IF Busy(p.i, which) \/ p.i.uncertain THEN Refuse(p) ELSE p : p \in TaskRelease(o, which)}

\* _unresolved: exactly what the caller says it holds is held.
Resolved(i, modifiers, buttons) ==
  i.dev["keyboard"].held = modifiers /\ i.dev["pointer"].held = buttons /\ ~i.retired

\* Mutant: a press that raised is taken back.
PressRolledBack(o, k, tried) == [o EXCEPT !.raised = "native"]

\* A press that raised: every code tried is in the ledger, and input uncertain.
PressRaised(o, k, tried) ==
  [o EXCEPT !.i.dev[k].held = @ \cup tried, !.i.uncertain = TRUE, !.raised = "native"]

\* press: codes are entered before they are sent, one at a time, then a frame.
Press(o, a) ==
  LET k == a.kind
      begun == [o EXCEPT !.i.dev[k].emulating = TRUE]
  IN IF ~Ready(o.i, k) \/ ~Resolved(o.i, a.modifiers, {}) THEN {Refuse(o)}
     ELSE {[SendDown(begun, k, a.codes) EXCEPT !.i.dev[k].held = @ \cup a.codes]}
          \cup {PressRaised(o, k, {})}
          \cup {PressRaised(SendDown(begun, k, s), k, t) : t \in SUBSET a.codes, s \in SUBSET a.codes}

\* move, scroll: nothing is held by them, but emulation begins.
Motion(o, a) ==
  IF ~Ready(o.i, "pointer") \/ ~Resolved(o.i, a.modifiers, a.buttons) THEN {Refuse(o)}
  ELSE {[o EXCEPT !.i.dev["pointer"].emulating = TRUE]}
       \cup {[o EXCEPT !.i.dev["pointer"].emulating = e, !.i.uncertain = TRUE, !.raised = "native"] :
               e \in {TRUE, o.i.dev["pointer"].emulating}}

\* Before a press, a motion or a wheel step: healthy(), the deadline, the region.
Perform(o, a) ==
  CASE a.do = "up" -> StrictRelease(o, a.kind)
    [] a.do = "press" -> {Refuse(o)} \cup Press(o, a)
    [] a.do = "motion" -> {Refuse(o)} \cup Motion(o, a)

Performed(o, acts) ==
  FoldLeft(LAMBDA os, a : UNION {IF p.raised = "no" THEN Perform(p, a) ELSE {p} : p \in os}, {o}, acts)

PressOf(k, codes, modifiers) == [do |-> "press", kind |-> k, codes |-> codes, modifiers |-> modifiers, buttons |-> {}]
MotionOf(modifiers, buttons) == [do |-> "motion", kind |-> "pointer", codes |-> {}, modifiers |-> modifiers, buttons |-> buttons]
UpOf(which) == [do |-> "up", kind |-> which, codes |-> {}, modifiers |-> {}, buttons |-> {}]

\* What each task does, one sequence of acts per step of emit.  PointTask.emit goes to
\* the point and presses the modifiers, lets the command act, and lets go of them.
PointScript(body) ==
  <<<<MotionOf({}, {}), PressOf("keyboard", {Modifier}, {})>>>> \o body \o <<<<UpOf("all")>>>>

Button1 == PressOf("pointer", {Button}, {Modifier})

\* Two characters; two clicks; two wheel steps; one step of a drag; one motion.
TypeScript ==
  LET stroke == <<<<PressOf("keyboard", {Key}, {})>>, <<UpOf("all")>>>> IN stroke \o stroke
ClickScript == LET click == <<<<Button1>>, <<UpOf("pointer")>>>> IN PointScript(click \o click)
ScrollScript == LET notch == <<<<MotionOf({Modifier}, {})>>>> IN PointScript(notch \o notch)
DragScript == PointScript(<<<<Button1>>, <<MotionOf({Modifier}, {Button})>>, <<UpOf("pointer")>>>>)
MoveScript == <<<<MotionOf({}, {}), UpOf("all")>>>>

Script(op) ==
  CASE op = "type" -> TypeScript [] op = "click" -> ClickScript [] op = "scroll" -> ScrollScript
    [] op = "drag" -> DragScript [] op = "move" -> MoveScript

-----------------------------------------------------------------------------
(* The input task.  Its turns come after the worker has looked at the      *)
(* session's health (Failing).                                             *)

\* o is what the callback did.
Done(o) ==
  /\ input' = o.i /\ kwin' = [kwin EXCEPT !.down = o.down]
  /\ inverted' = o.inverted /\ dropped' = o.dropped

Served == session = "ready" /\ ~Failing

Begin(op) ==
  /\ Served /\ task.phase = "none" /\ requests < MaxRequests
  /\ task' = [NoTask EXCEPT !.phase = "target", !.op = op]
  /\ requests' = requests + 1
  /\ UNCHANGED <<input, fatal, session, report, kwin, told, faults, inverted, dropped>>

\* The step raised: it released (a ContractError), and so does the scheduler's cancel.
Raised(o) ==
  \E p \in IF o.raised = "refused" THEN TaskRelease(o, "all") ELSE {o} :
    \E q \in TaskRelease(p, "all") : Done(q) /\ task' = [task EXCEPT !.phase = "cleaning"]

\* The target was found and has focus, the time suffices: the intent is recorded.
\* Anything else, an earlier release in doubt too, raises.
StepTarget(found) ==
  /\ Served /\ task.phase = "target"
  /\ IF found /\ ~Doubtful(input)
     THEN task' = [task EXCEPT !.phase = "intent"] /\ UNCHANGED <<input, kwin, inverted, dropped>>
     ELSE Raised(Refuse(Now))
  /\ UNCHANGED <<fatal, session, report, told, requests, faults>>

Acts == IF task.pos <= Len(Script(task.op)) THEN Script(task.op)[task.pos] ELSE <<>>

\* emit, from the turn that finds the intent on disk: the next acts that are due.
\* The task returns once it has done them all and no focus recheck is left.
StepEmit ==
  /\ Served /\ task.phase \in {"intent", "emit"}
  /\ \E o \in IF Doubtful(input) THEN {Refuse(Now)} ELSE Performed(Now, Acts) :
       IF o.raised # "no" THEN Raised(o)
       ELSE /\ Done(o)
            /\ task' = IF task.pos >= Len(Script(task.op)) /\ ~task.recheck THEN NoTask
                       ELSE [task EXCEPT !.phase = "emit",
                                         !.pos = IF Acts = <<>> THEN @ ELSE @ + 1]
  /\ UNCHANGED <<fatal, session, report, told, requests, faults>>

\* watch_focus, between the acts: a recheck starts, ends, or finds the focus gone; or
\* the intent's record failed.
WatchFocus(lost) ==
  /\ Served /\ task.phase \in {"intent", "emit"}
  /\ IF lost THEN Raised(Refuse(Now))
     ELSE /\ task.phase = "emit" /\ task' = [task EXCEPT !.recheck = ~@]
          /\ UNCHANGED <<input, kwin, inverted, dropped>>
  /\ UNCHANGED <<fatal, session, report, told, requests, faults>>

\* request_cancel: the deadline, request.cancel, or the caller's connection closed.
Cancel ==
  /\ session = "ready" /\ task.phase \in {"target", "intent", "emit"}
  /\ \E o \in TaskRelease(Now, "all") : Done(o) /\ task' = [task EXCEPT !.phase = "cleaning"]
  /\ UNCHANGED <<fatal, session, report, told, requests, faults>>

\* cleanup: confirmed means the target query and the recheck are over.  When its time
\* is up the session closes to new work and stops.
Cleanup(confirmed, expired) ==
  /\ Served \/ session = "stopping"
  /\ task.phase = "cleaning"
  /\ \E o \in TaskRelease(Now, "all") :
       LET clean == confirmed /\ ~Busy(o.i, "all")
       IN /\ Done(o)
          /\ task' = IF clean \/ expired THEN NoTask ELSE task
          /\ session' = IF ~clean /\ expired THEN "stopping" ELSE session
  /\ UNCHANGED <<fatal, report, told, requests, faults>>

-----------------------------------------------------------------------------
(* The session.                                                            *)

\* connect, once, on the session's private bus.
Connect(sent) ==
  /\ session = "starting" /\ input.epoch = 0
  /\ LET asking == [input EXCEPT !.epoch = 1, !.pending = sent]
         c == IF sent THEN [i |-> asking, fatal |-> fatal] ELSE Broken([i |-> asking, fatal |-> fatal])
     IN input' = c.i /\ fatal' = c.fatal
  /\ kwin' = [kwin EXCEPT !.asked = sent]
  /\ UNCHANGED <<task, session, report, told, requests, faults, inverted, dropped>>

\* connected: a reply to a connection disposed of meanwhile is ignored.
Stale == ~(input.epoch = 1 /\ input.pending)

\* Input.tick: the deadline of the negotiation passes before a keyboard is usable.
Overdue ==
  /\ session = "starting" /\ input.epoch = 1 /\ ~input.error /\ ~Ready(input, "keyboard")
  /\ LET c == Broken([i |-> input, fatal |-> fatal]) IN input' = c.i /\ fatal' = c.fatal
  /\ UNCHANGED <<task, session, report, kwin, told, requests, faults, inverted, dropped>>

\* The reply: a descriptor that is set up and read, or a failure of any of that, as a
\* reply that comes overdue is.
Negotiated(ok) ==
  /\ kwin.asked
  /\ IF Stale
     THEN kwin' = [kwin EXCEPT !.asked = FALSE] /\ UNCHANGED <<input, fatal, told>>
     ELSE IF ok /\ ~input.error
     THEN /\ input' = [input EXCEPT !.pending = FALSE, !.context = TRUE]
          /\ kwin' = [kwin EXCEPT !.asked = FALSE, !.link = "up", !.dev = [k \in Kinds |-> "active"]]
          /\ told' = <<Notice("connect", "keyboard"), Notice("seat", "keyboard"),
                       Notice("added", "keyboard"), Notice("resumed", "keyboard"),
                       Notice("added", "pointer"), Notice("resumed", "pointer")>>
          /\ UNCHANGED fatal
     ELSE LET c == Broken([i |-> [input EXCEPT !.pending = FALSE], fatal |-> fatal])
          IN input' = c.i /\ fatal' = c.fatal /\ kwin' = [kwin EXCEPT !.asked = FALSE] /\ UNCHANGED told
  /\ UNCHANGED <<task, session, report, requests, faults, inverted, dropped>>

\* on_fd: dispatch and drain; a descriptor that hung up loses the connection.
OnFd ==
  /\ input.context /\ ~input.error /\ ~input.disconnected
  /\ told # <<>> \/ kwin.link = "down"
  /\ LET d == Drained
         c == IF kwin.link = "down" /\ ~d.i.error THEN Lost(d, Kinds, TRUE) ELSE d
     IN input' = c.i /\ fatal' = c.fatal
  /\ told' = SubSeq(told, Batch + 1, Len(told))
  /\ UNCHANGED <<task, session, report, kwin, requests, faults, inverted, dropped>>

\* drain_once: what one batch left, as soon as the loop is idle.
DrainOnce ==
  /\ input.context /\ ~input.error /\ input.backlog
  /\ LET d == Drained IN input' = d.i /\ fatal' = d.fatal
  /\ told' = SubSeq(told, Batch + 1, Len(told))
  /\ UNCHANGED <<task, session, report, kwin, requests, faults, inverted, dropped>>

\* Readiness.tick: the last checks of the startup have passed.
BecomeReady ==
  /\ session = "starting" /\ ~fatal /\ ~input.error /\ Ready(input, "keyboard")
  /\ session' = "ready"
  /\ UNCHANGED <<input, fatal, task, report, kwin, told, requests, faults, inverted, dropped>>

\* begin_stop cancels the task, which releases first.
Stopping ==
  /\ session' = "stopping"
  /\ IF task.phase \in {"target", "intent", "emit"}
     THEN \E o \in TaskRelease(Now, "all") : Done(o) /\ task' = [task EXCEPT !.phase = "cleaning"]
     ELSE UNCHANGED <<input, kwin, task, inverted, dropped>>
  /\ UNCHANGED <<fatal, report, told, requests, faults>>

\* A stop is asked for, or something else of the worker fails, or starting takes too long.
StopAsked == session \in {"starting", "ready"} /\ Stopping

\* Readiness.tick fails, and with it the session.
WorkerFails ==
  /\ \/ session = "ready" /\ Failing
     \/ session = "starting" /\ (fatal \/ input.error)
  /\ Stopping

\* Mutant: what is unconfirmed is not looked at.
ConfirmedNotHeld(i) == ~Busy(i, "all")

\* release_input: was everything let go of?
Confirmed(i) == ~Busy(i, "all") /\ ~i.retired /\ ~i.uncertain

\* Shutdown.tick: once the tasks have ended or the cancel phase is over, release
\* whatever is still held, unless there is no time left for it.
ReleaseHook(late) ==
  /\ session = "stopping" /\ session' = "closing" /\ task' = NoTask
  /\ IF late \/ input.epoch = 0
     THEN /\ report' = IF late THEN "deadline" ELSE "not_connected"
          /\ UNCHANGED <<input, kwin, inverted, dropped>>
     ELSE \E o \in TaskRelease(Now, "all") :
            Done(o) /\ report' = IF Confirmed(o.i) THEN "confirmed" ELSE "uncertain"
  /\ UNCHANGED <<fatal, told, requests, faults>>

\* dispose, when the loop has ended: uncertainty and what was held survive it.
Dispose ==
  /\ session = "closing" /\ session' = "closed"
  /\ LET gone == Forgotten(Forgotten(input, "pointer"), "keyboard")
     IN input' = [gone EXCEPT !.epoch = 2, !.pending = FALSE, !.context = FALSE, !.connected = FALSE,
                              !.backlog = FALSE, !.seat = FALSE,
                              !.uncertain = @ \/ \E k \in Kinds : input.dev[k].held # {}]
  /\ kwin' = [kwin EXCEPT !.link = IF @ = "up" THEN "down" ELSE @]
  /\ told' = <<>>
  /\ UNCHANGED <<fatal, task, report, requests, faults, inverted, dropped>>

-----------------------------------------------------------------------------
(* The compositor.  Pausing a device may leave its keys down.              *)

Tell(what, k) == told' = Append(told, Notice(what, k))

Fault == /\ kwin.link = "up" /\ faults < MaxFaults /\ faults' = faults + 1
         /\ UNCHANGED <<input, fatal, task, session, report, requests, inverted, dropped>>

PauseDevice(k, down) ==
  /\ kwin.dev[k] = "active" /\ Fault /\ Tell("paused", k)
  /\ kwin' = [kwin EXCEPT !.dev[k] = "paused", !.down[k] = down]

ResumeDevice(k) ==
  /\ kwin.link = "up" /\ kwin.dev[k] = "paused" /\ Tell("resumed", k)
  /\ kwin' = [kwin EXCEPT !.dev[k] = "active"]
  /\ UNCHANGED <<input, fatal, task, session, report, requests, faults, inverted, dropped>>

RemoveDevice(k, down) ==
  /\ kwin.dev[k] \in {"paused", "active"} /\ Fault /\ Tell("removed", k)
  /\ kwin' = [kwin EXCEPT !.dev[k] = "absent", !.down[k] = down]

ReturnDevice(k) ==
  /\ kwin.link = "up" /\ kwin.dev[k] = "absent"
  /\ told' = told \o <<Notice("added", k), Notice("resumed", k)>>
  /\ kwin' = [kwin EXCEPT !.dev[k] = "active"]
  /\ UNCHANGED <<input, fatal, task, session, report, requests, faults, inverted, dropped>>

\* The seat goes for good, after its devices or, against the protocol, before them.
Unseat(orderly) ==
  /\ Fault
  /\ told' = told \o (IF orderly
                     THEN SetToSeq({Notice("removed", k) : k \in {d \in Kinds : kwin.dev[d] \in {"paused", "active"}}})
                     ELSE <<>>) \o <<Notice("unseated", "keyboard")>>
  /\ kwin' = [kwin EXCEPT !.dev = [k \in Kinds |-> "gone"]]

\* It closes the connection, or is gone itself.
Disconnect(orderly) ==
  /\ Fault
  /\ IF orderly THEN Tell("disconnect", "keyboard") ELSE UNCHANGED told
  /\ kwin' = [kwin EXCEPT !.link = "down"]

Compositor ==
  \/ \E k \in Kinds : \E down \in {{}, kwin.down[k]} : PauseDevice(k, down) \/ RemoveDevice(k, down)
  \/ \E k \in Kinds : ResumeDevice(k) \/ ReturnDevice(k)
  \/ \E orderly \in BOOLEAN : Unseat(orderly) \/ Disconnect(orderly)

Next ==
  \/ \E op \in Operations : Begin(op)
  \/ \E found \in BOOLEAN : StepTarget(found)
  \/ StepEmit
  \/ \E lost \in BOOLEAN : WatchFocus(lost)
  \/ Cancel
  \/ \E confirmed, expired \in BOOLEAN : Cleanup(confirmed, expired)
  \/ \E sent \in BOOLEAN : Connect(sent)
  \/ \E ok \in BOOLEAN : Negotiated(ok)
  \/ Overdue \/ OnFd \/ DrainOnce \/ BecomeReady \/ StopAsked \/ WorkerFails
  \/ \E late \in BOOLEAN : ReleaseHook(late)
  \/ Dispose
  \/ Compositor

Spec == Init /\ [][Next]_vars

\* The loop serves its sources and ticks; nothing is assumed of the compositor.
FairSpec == Spec /\ WF_vars(OnFd) /\ WF_vars(DrainOnce) /\ WF_vars(WorkerFails)

-----------------------------------------------------------------------------
(* Properties.                                                             *)

\* Outside an emission nothing is held and no emulation is open, except what is known
\* to be in doubt: however a task ended (refusal, raise, cancel, stop), it released in
\* the same turn.
NothingLeftHeld ==
  task.phase # "emit" =>
    \/ input.uncertain \/ input.retired
    \/ \A k \in Kinds : input.dev[k].held = {} /\ ~input.dev[k].emulating

\* What is down at the compositor is in the ledger, or known to be in doubt, or a
\* release of it was sent to a device the compositor had already taken away.
Accounted ==
  dropped \/ input.uncertain \/ input.retired \/ \A k \in Kinds : kwin.down[k] \subseteq input.dev[k].held

\* A button comes up before the modifiers it was pressed under, unless its own release
\* is in doubt.
ButtonFirst == ~inverted

\* The ledger is true of the compositor: what is down is in it, what it says is held is
\* let go with the task, and in the order the button needs.
LedgerTrue == TypeOK /\ NothingLeftHeld /\ Accounted /\ ButtonFirst

\* A stop that reports its release as confirmed left nothing down, with the exception
\* of what Accounted excepts.
ReportHonest ==
  report = "confirmed" => dropped \/ \A k \in Kinds : kwin.down[k] = {}

\* No path leaves a session serving with a release in doubt, or with one the
\* compositor never saw: the loss, or the health check, ends it.
DoubtEndsSession == input.uncertain \/ input.retired \/ dropped ~> session \notin {"starting", "ready"}
=============================================================================
