------------------------------- MODULE Worker -------------------------------
(***************************************************************************)
(* The worker's main loop (worker.run), its graceful shutdown (Shutdown)   *)
(* and the bridge that attaches terminal records to admissions             *)
(* (Records.attach), above the transport.                                  *)
(*                                                                         *)
(* The scheduler is the contract the module Scheduler establishes for it:  *)
(* an admitted request acts only while it is not cancelled, is decided     *)
(* once, and is answered when its records are settled.                     *)
(***************************************************************************)
EXTENDS Transport

VARIABLES
  acted,     \* the request's first effect is out
  cause,     \* foundation_error, as far as it is told apart
  retained,  \* the cause persisted in startup-failure.json
  root,      \* cause_deadline is set
  stage,     \* Shutdown.phase, "none" before it exists, "done" after it
  overdue,   \* drain_deadline has passed
  watch,     \* a write watched by the session (fatal=True)
  final      \* the session's last generation_update

owner == <<acted, cause, retained, root, stage, overdue, watch, final>>
vars  == <<transport, owner>>

Cause   == {None, "other", "essential"}
Stage   == {None, "cancel", "release", "close", "done"}

\* Every variable holds a value of its kind: Connection, Admission, Shutdown and
\* the locals of worker.run.
TypeOK ==
  /\ client \in [Requests -> ClientType]
  /\ conn \in [Requests -> ConnType]
  /\ adm \in [Requests -> AdmType]
  /\ control \subseteq Ordinary
  /\ pause \in {"off", "on", "over"} /\ serving \in BOOLEAN
  /\ acted \in [Ordinary -> BOOLEAN]
  /\ cause \in Cause /\ retained \in Cause
  /\ root \in BOOLEAN
  /\ stage \in Stage /\ overdue \in BOOLEAN
  /\ watch \in {"queued", "ok", "bad", "failed"}
  /\ final \in {None, "quitting", "stopped", "failed"}

\* worker_identity is queued before the loop runs.
Init ==
  /\ TransportInit
  /\ acted = [c \in Ordinary |-> FALSE]
  /\ cause = None /\ retained = None /\ root = FALSE
  /\ stage = None /\ overdue = FALSE
  /\ watch = "queued" /\ final = None

\* The owner is between two callbacks of its loop.
Free == serving /\ final = None
Live == {c \in Ordinary : adm[c].state = "live"}

(***************************************************************************)
(* The writer thread, and what drain() hands back to the owner.            *)
(***************************************************************************)
WriteRecords(c) ==
  /\ adm[c].tickets = "queued"
  /\ adm' = [adm EXCEPT ![c].tickets = "done"]
  /\ UNCHANGED <<client, conn, control, pause, serving, owner>>

WriteWatched ==
  /\ watch = "queued"
  /\ watch' \in {"ok", "bad"}
  /\ UNCHANGED <<transport, acted, cause, retained, root, stage, overdue, final>>

HandedBack(w) == IF w = "bad" THEN "failed" ELSE w
WatchDrained == HandedBack(watch)

(***************************************************************************)
(* begin_stop, record_failure, late_failure.                               *)
(***************************************************************************)
\* begin_shutdown tells every live request to stop, in the step that begins it.
StopBegun(c, a) ==
  IF stage = None /\ stage' # None /\ c \in Ordinary /\ a.state = "live"
  THEN [a EXCEPT !.cancel = TRUE] ELSE a

BeginStop ==
  /\ stage' = IF stage = None THEN "cancel" ELSE stage
  /\ UNCHANGED <<overdue, final>>

RecordFailure(error) == retained' = IF retained = None THEN error ELSE retained

\* The owner's turn raised: root_cause looks for an essential child's exit, and
\* while none is visible the shutdown goes on looking.
Failing ==
  \E seen \in {"other", "essential"} :
    /\ cause' = seen
    /\ root' = (seen = "other")
    /\ RecordFailure(seen)
    /\ BeginStop

(***************************************************************************)
(* dispatch_request.  The connection's frame is in, its deadline is not    *)
(* over, and no request with its id is active.                             *)
(***************************************************************************)
Refused(n) == [n EXCEPT !.frame = FALSE, !.out = "not_started"]
Taken(n)   == [n EXCEPT !.frame = FALSE]

\* complete(error=...) before records.attach, so without a record, or after it.  The
\* others are told to stop where this step begins the shutdown.
Rejected(c, attached) ==
  /\ conn' = [conn EXCEPT ![c] = Refused(@)]
  /\ adm' = [d \in Requests |->
               IF d # c THEN StopBegun(d, adm[d])
               ELSE IF attached THEN Completed(d, "not_started", FALSE)
               ELSE [adm[d] EXCEPT !.state = "final"]]

Rest == UNCHANGED <<client, control, pause, serving, acted>>

\* The frame's deadline has passed: no admission.
DispatchLate(c) ==
  /\ Free /\ Readable(c)
  /\ conn' = [conn EXCEPT ![c] = Refused(@)]
  /\ UNCHANGED <<client, adm, control, pause, serving, owner>>

DispatchOrdinary(c) ==
  /\ Free /\ c \in Ordinary /\ Readable(c)
  /\ \/ /\ stage # None                          \* Session shutdown is in progress.
        /\ UNCHANGED <<cause, retained, root, stage, overdue, watch, final>>
        /\ Rejected(c, FALSE)
     \/ /\ stage = None                          \* tick() finds the owner failing
        /\ watch' = WatchDrained
        /\ Failing
        /\ Rejected(c, FALSE)
     \/ /\ stage = None /\ WatchDrained # "failed"
        /\ UNCHANGED <<cause, retained, root, stage, overdue, watch, final>>
        /\ \/ Rejected(c, TRUE)                  \* not ready, or the queue is full
           \/ /\ conn' = [conn EXCEPT ![c] = Taken(@)]
              /\ adm' = [adm EXCEPT ![c].state = "live"]
  /\ Rest

\* A stop begins the shutdown whether or not its intent could be recorded, and
\* only then answers that it could not: not_started, with the shutdown begun.  It is
\* refused before that when the metadata is unreadable or the waiters are full.
DispatchStop(c) ==
  /\ Free /\ c \in Stops /\ Readable(c)
  /\ \/ /\ BeginStop
        /\ conn' = [conn EXCEPT ![c] = Taken(@)]
        /\ adm' = [d \in Requests |-> IF d = c THEN [adm[c] EXCEPT !.state = "live"]
                                      ELSE StopBegun(d, adm[d])]
     \/ BeginStop /\ Rejected(c, FALSE)
     \/ UNCHANGED <<stage, overdue, final>> /\ Rejected(c, FALSE)
  /\ UNCHANGED <<cause, retained, root, watch>> /\ Rest

(***************************************************************************)
(* The scheduler's steps for one request, as Scheduler guarantees them.    *)
(***************************************************************************)
Act(c) ==
  /\ Free /\ c \in Live /\ ~adm[c].cancel
  /\ acted' = [acted EXCEPT ![c] = TRUE]
  /\ UNCHANGED <<transport, cause, retained, root, stage, overdue, watch, final>>

Decide(c) ==
  /\ Free /\ c \in Live
  /\ \E result \in Outcome :
       /\ result = "success" => acted[c] /\ ~adm[c].cancel
       /\ result = "not_started" => ~acted[c]
       /\ adm' = [adm EXCEPT ![c].state = "finishing", ![c].cancel = FALSE, ![c].result = result]
  /\ UNCHANGED <<client, conn, control, pause, serving, owner>>

\* Mutant: the reply carries what was decided, though the deadline passed meanwhile.
AnswerDecided(c) ==
  /\ Free /\ adm[c].state = "finishing"
  /\ \E slips \in BOOLEAN :
       /\ adm' = [adm EXCEPT ![c] = Completed(c, @.result, slips)]
       /\ conn' = [conn EXCEPT ![c].out = IF Open(c) THEN adm[c].result ELSE None]
  /\ UNCHANGED <<client, control, pause, serving, owner>>

\* Admission.complete: freeze the outcome, encode it, then notify the records.
Answer(c) ==
  /\ Free /\ adm[c].state = "finishing"
  /\ \E slips \in BOOLEAN :
       /\ adm' = [adm EXCEPT ![c] = Completed(c, @.result, slips)]
       /\ conn' = [conn EXCEPT ![c].out = IF Open(c) THEN FinalOf(adm[c].result, slips) ELSE None]
  /\ UNCHANGED <<client, control, pause, serving, owner>>

\* Scheduler.escalate: cleanup could not be confirmed.
Escalate ==
  /\ Free /\ Live # {}
  /\ cause' = "other"
  /\ BeginStop
  /\ adm' = [c \in Requests |-> StopBegun(c, adm[c])]
  /\ UNCHANGED <<client, conn, control, pause, serving,
                 acted, retained, root, watch>>

(***************************************************************************)
(* tick, the last part of every service turn.                              *)
(***************************************************************************)
\* A healthy turn may queue another watched write (a change of state).
Turn ==
  /\ Free /\ stage = None /\ WatchDrained # "failed"
  /\ watch' = IF watch = "ok" THEN "queued" ELSE watch
  /\ UNCHANGED <<client, conn, adm, control, pause, serving,
                 acted, cause, retained, root, stage, overdue, final>>

FailingTurn ==
  /\ Free /\ stage = None
  /\ watch' = WatchDrained
  /\ Failing
  /\ adm' = [c \in Requests |-> StopBegun(c, adm[c])]
  /\ UNCHANGED <<client, conn, control, pause, serving, acted>>

\* SIGTERM or SIGINT.
Signal ==
  /\ Free
  /\ BeginStop
  /\ adm' = [c \in Requests |-> StopBegun(c, adm[c])]
  /\ UNCHANGED <<client, conn, control, pause, serving, acted, cause, retained, root, watch>>

\* The stages Shutdown.tick can reach in one call.  A stage stays while its hook
\* (or the drain of the live requests) is pending and phase_end is ahead; once
\* the deadline is over what is left stays unattempted.
NextStages ==
  CASE stage = "cancel"  -> {"cancel", "release", "close", "done"}
    [] stage = "release" -> {"release", "close", "done"}
    [] OTHER             -> {stage, "done"}

\* Mutant: the latest failure is the cause.
LateCauseLatest ==
  /\ root' = FALSE
  /\ IF WatchDrained = "failed"
     THEN cause' = "other" /\ retained' = "other"
     ELSE UNCHANGED <<cause, retained>>

\* watch_cause: an essential child's exit that shows up late replaces the cause.
LateCause ==
  \/ /\ root /\ root' = FALSE /\ cause' = "essential" /\ retained' = "essential"
  \/ /\ UNCHANGED root
     /\ IF WatchDrained = "failed" /\ cause = None
        THEN cause' = "other" /\ RecordFailure("other")
        ELSE UNCHANGED <<cause, retained>>

\* Mutant: the waiters are answered before the last stage has run.
StoppedEarly(c, slips) ==
  IF stage' \in {"close", "done"} /\ c \in Stops /\ adm[c].state = "live"
  THEN Completed(c, "success", slips) ELSE adm[c]

\* The stop_waiters are answered in the turn that finds the shutdown done.
Stopped(c, slips) ==
  IF stage' = "done" /\ c \in Stops /\ adm[c].state = "live"
  THEN Completed(c, "success", slips) ELSE adm[c]

\* Held or unsent replies go out before the loop quits, unless drain_deadline is
\* over.
Flushing   == \E c \in Requests : Open(c) /\ conn'[c].out # None
Unfinished == \E c \in Requests : adm'[c].tickets = "queued" \/ adm'[c].state = "finishing"
\* Mutant: the loop waits for the queue without a bound.
MayQuitDrained ==
  /\ stage' = "done" /\ ~root'
  /\ watch' # "queued" /\ ~Unfinished /\ ~Flushing

MayQuit ==
  /\ stage' = "done" /\ ~root'
  /\ overdue \/ (watch' # "queued" /\ ~Unfinished /\ ~Flushing)

\* late_failure sees what the first drain of the turn handed back; journal.idle()
\* drains again, and the writer may have finished more meanwhile.
ShutdownTurn ==
  /\ Free /\ stage # None
  /\ LateCause
  /\ stage' \in NextStages
  /\ \E meanwhile \in IF watch = "queued" THEN {"queued", "ok", "bad"} ELSE {watch} :
       watch' = IF stage' = "done" THEN HandedBack(meanwhile) ELSE WatchDrained
  /\ \E slips \in BOOLEAN :
       /\ adm' = [c \in Requests |-> Stopped(c, slips)]
       /\ conn' = [c \in Requests |->
                     IF Open(c) /\ adm'[c].state = "final" /\ adm[c].state = "live"
                     THEN [conn[c] EXCEPT !.out = FinalOf("success", slips)] ELSE conn[c]]
  /\ final' = IF MayQuit THEN "quitting" ELSE final
  /\ UNCHANGED <<client, control, pause, serving, acted, overdue>>

\* The loop has returned: everything closes, then the terminal record.
Exit ==
  /\ final = "quitting"
  /\ serving' = FALSE
  /\ CloseAll({c \in Requests : conn[c].state \in {"backlog", "open"}})
  /\ control' = {}
  /\ final' = IF cause = None THEN "stopped" ELSE "failed"
  /\ UNCHANGED <<client, pause,
                 acted, cause, retained, root, stage, overdue, watch>>

(***************************************************************************)
(* Time in the worker.                                                     *)
(***************************************************************************)
RootElapses ==
  /\ root /\ root' = FALSE
  /\ UNCHANGED <<transport, acted, cause, retained, stage, overdue, watch, final>>

DrainElapses ==
  /\ stage = "done" /\ ~overdue /\ overdue' = TRUE
  /\ UNCHANGED <<transport, acted, cause, retained, root, stage, watch, final>>

Next ==
  \/ (Clients \/ Service(Free)) /\ UNCHANGED owner
  \/ \E c \in Requests :
       WriteRecords(c) \/ DispatchLate(c) \/ DispatchOrdinary(c) \/ DispatchStop(c)
         \/ Act(c) \/ Decide(c) \/ Answer(c)
  \/ WriteWatched \/ Escalate \/ Turn \/ FailingTurn \/ Signal \/ ShutdownTurn \/ Exit
  \/ RootElapses \/ DrainElapses

Spec == Init /\ [][Next]_vars

\* The clock runs and GLib keeps calling the owner.  Nothing is asked of the
\* clients, of the tasks or of the disk.
Fairness ==
  /\ WF_vars(Accept(Free) /\ UNCHANGED owner)
  /\ WF_vars(PauseElapses /\ UNCHANGED owner)
  /\ WF_vars(AcceptPriority(Free) /\ UNCHANGED owner)
  /\ \A c \in Requests :
       /\ WF_vars((Hold(c, Free) \/ Release(c, Free)) /\ UNCHANGED owner)
       /\ WF_vars((HoldOver(c, Free) \/ Expire(c, Free)) /\ UNCHANGED owner)
  /\ WF_vars(RootElapses) /\ WF_vars(DrainElapses)
  /\ WF_vars(ShutdownTurn) /\ WF_vars(ShutdownTurn /\ stage' # stage) /\ WF_vars(Exit)
FairSpec == Spec /\ Fairness

(***************************************************************************)
(* Properties.                                                             *)
(***************************************************************************)
\* What a client was answered for a request the handler took is what its terminal
\* record says, and the record's write was over before the reply left, also when
\* the deadline passed while the answer was being built (Admission.complete,
\* Connection.reply, releasable).
AnsweredAsRecorded ==
  [][\A c \in Requests :
       conn[c].state = "open" /\ conn'[c].state = "answered" /\ adm[c].tickets # None =>
         adm[c].tickets = "done" /\ adm[c].record = conn[c].out]_vars

\* The caller of an ordinary request told not_started, by the worker or by its own
\* exchange(), may send it again: it had and will have no effect.  Nothing of the kind
\* holds of session.stop: see DispatchStop.
NotStartedIsTrue ==
  \A c \in Ordinary : client[c].answer = "not_started" => ~acted[c]

\* A stop that answered success has run the shutdown to its end.
StopMeansDone ==
  \A c \in Stops : client[c].answer = "success" => stage = "done"

\* What a caller acts on when it has its answer is so: an ordinary request that was not
\* started, a session that was stopped.
AnswersTrue == TypeOK /\ NotStartedIsTrue /\ StopMeansDone

\* An essential child's exit, once it is the persisted cause, stays it: neither a
\* late write failure nor an escalation replaces it (record_failure, watch_cause).
RootCauseKept == [][retained = "essential" => retained' = "essential"]_vars

\* A failure of a watched write that reached the owner before the loop quit is
\* carried into the terminal outcome (worker.tick on late_failure).
LateFailureCarried == final = "stopped" => watch # "failed"

\* Whatever the writer, the tasks and the clients do, no connection stays: it is
\* accepted within the pause, and answered or closed within its bounds.
ConnectionsEnd ==
  \A c \in Requests : conn[c].state \in {"backlog", "open"} ~> conn[c].state \in {"answered", "closed"}

\* A shutdown once begun ends the worker.
ShutdownExits == stage # None ~> final \in {"stopped", "failed"}
============================================================================
