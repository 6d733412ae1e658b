----------------------------- MODULE Scheduler -----------------------------
(***************************************************************************)
(* The single-owner request scheduler of a session worker                  *)
(* (src/agent_desktop/scheduler.py), with the part of records.py and of    *)
(* shutdown.py that drives it.                                             *)
(*                                                                         *)
(* One GLib thread runs everything here.  Between two service turns        *)
(* (pc = "idle") it may dispatch a request, a cancellation or a stop; a    *)
(* turn is the fixed sequence of stages the other values of pc name.  Time *)
(* passes at every stage.  A record is queued to the writer thread, and    *)
(* its fate comes back at the start of some later turn, or never.          *)
(*                                                                         *)
(* Times are kept relative: a deadline is the number of ticks left until   *)
(* it, so "clock() >= deadline" is "deadline <= 0".  Elapsed deadlines are *)
(* counted down to -SettleGrace, below which no decision of the code can   *)
(* tell two of them apart.                                                 *)
(***************************************************************************)
EXTENDS Integers, FiniteSets

CONSTANTS
  Ordinary,        \* ordinary requests
  Controls,        \* session.stop requests (CONTROL_OPERATIONS)
  Gating,          \* ordinary requests whose task sets gates_effects
  None,            \* no request
  MaxBudget,       \* the longest timeout_seconds of a caller, in ticks
  CleanupSeconds,  \* a task's cleanup_seconds
  SettleGrace,     \* SETTLE_GRACE
  MaxOrdinary,     \* MAX_ORDINARY
  MaxWaiters,      \* the cap on joined control waiters
  ShutdownBudget,  \* phase_end of Shutdown's cancel phase
  InWorker,        \* escalation and signals begin a shutdown (worker.run)
  Lossy,           \* requests whose records may be refused or fail to be written
  Raising          \* requests whose task may raise from request_cancel

Requests == Ordinary \cup Controls

ASSUME RequestsAssumption ==
  /\ Ordinary \cap Controls = {}
  /\ Gating \subseteq Ordinary
  /\ Lossy \subseteq Requests /\ Raising \subseteq Requests
  /\ None \notin Requests
  /\ IsFiniteSet(Requests)

ASSUME TimesAssumption ==
  /\ MaxBudget \in Nat
  /\ CleanupSeconds \in Nat
  /\ SettleGrace \in Nat
  /\ ShutdownBudget \in Nat
  /\ MaxOrdinary \in Nat
  /\ MaxWaiters \in Nat
  /\ InWorker \in BOOLEAN

Codes == {"cancelled", "timeout", "artifact_failed", "session_unavailable",
          "session_failed", "task_error", "completion_unknown"}

Events == {"admitted", "control_admitted", "started", "effects",
           "cancelling", "finalizing"}

\* The order in which one request's records are queued.
Rank(ev) == CASE ev \in {"admitted", "control_admitted"} -> 1
              [] ev = "started"    -> 2
              [] ev = "effects"    -> 3
              [] ev = "cancelling" -> 4
              [] ev = "finalizing" -> 5

\* settle_by before _finish sets it (float("inf")): later than every other time.
Never == MaxBudget + CleanupSeconds + SettleGrace + ShutdownBudget + 1

Budgets == 1 .. MaxBudget

VARIABLES
  work,         \* request -> its Work record
  place,        \* request -> its place in the queue, 0 when it is not in it
  active,       \* the work that owns the ordinary slot, or None
  lifecycle,    \* the work that owns the lifecycle slot, or None
  waiters,      \* stop requests joined to the lifecycle owner
  joined,       \* waiter -> the released owner whose answer it awaits (settling)
  stopping, unavailable,
  pc,           \* stage of the current turn
  adv, ret,     \* the work _advance runs on, and the stage it returns to
  mode,         \* "run", or Shutdown's phase: "cancel", then "over"
  shutBy,       \* ticks left of the cancel phase
  effect,       \* request -> what its task has done to the desktop
  durable       \* request -> its records on disk, up to the first one lost

vars == <<work, place, active, lifecycle, waiters, joined, stopping,
          unavailable, pc, adv, ret, mode, shutBy, effect, durable>>

slots == <<place, active, lifecycle, waiters, joined>>
gates == <<stopping, unavailable, mode, shutBy>>
world == <<effect, durable>>

Idle(d) == [phase |-> "new", err |-> "none", outcome |-> "not_started",
            task |-> "none", result |-> FALSE, failed |-> FALSE, pending |-> {},
            deadline |-> d, cleanupBy |-> -SettleGrace, settleBy |-> Never,
            answer |-> "none"]

WorkType ==
  [phase : {"new", "live", "finishing", "terminal"},
   err : Codes \cup {"none"},
   outcome : {"not_started", "partial", "unknown"},
   task : {"none", "built", "stepped"},
   result : BOOLEAN, failed : BOOLEAN, pending : SUBSET Events,
   deadline : Int, cleanupBy : Int, settleBy : Int,
   answer : Codes \cup {"none", "ok"}]

Stages == {"idle", "expire", "advance", "gate", "returned", "lifecycle",
           "release", "start", "refuse", "drain", "drainLifecycle", "drained"}

TypeOK ==
  /\ work \in [Requests -> WorkType]
  /\ place \in [Ordinary -> Nat]
  /\ active \in Ordinary \cup {None}
  /\ lifecycle \in Controls \cup {None}
  /\ waiters \in SUBSET Controls
  /\ joined \in [Controls -> Controls \cup {None}]
  /\ stopping \in BOOLEAN /\ unavailable \in BOOLEAN
  /\ pc \in Stages /\ ret \in Stages
  /\ adv \in Requests \cup {None}
  /\ mode \in {"run", "cancel", "over"}
  /\ shutBy \in Int
  /\ effect \in [Requests -> {"none", "intent", "dirty", "clean"}]
  /\ durable \in [Requests -> SUBSET Events]

Init ==
  /\ work = [w \in Requests |-> Idle(0)]
  /\ place = [w \in Ordinary |-> 0]
  /\ active = None /\ lifecycle = None
  /\ waiters = {} /\ joined = [w \in Controls |-> None]
  /\ stopping = FALSE /\ unavailable = FALSE
  /\ pc = "idle" /\ adv = None /\ ret = "idle"
  /\ mode = "run" /\ shutBy = 0
  /\ effect = [w \in Requests |-> "none"]
  /\ durable = [w \in Requests |-> {}]

-----------------------------------------------------------------------------
(* What the methods do to one Work record k.                               *)

Lesser(x, y) == IF x <= y THEN x ELSE y
Greater(x, y) == IF x >= y THEN x ELSE y

Late(k) == k.deadline <= 0
Pending(k) == k.pending # {}

\* Mutant: a refused record is forgotten.
ObserveUnlatched(k, ev, lost) == IF lost THEN k ELSE [k EXCEPT !.pending = @ \cup {ev}]

\* _observe and _track: queue a record, or latch the failure of a refused one.
Observe(k, ev, lost) ==
  IF lost THEN [k EXCEPT !.failed = TRUE] ELSE [k EXCEPT !.pending = @ \cup {ev}]

\* A result that may not be returned any more: effects may have happened.
Doubt(k) == [k EXCEPT !.outcome = IF @ = "not_started" THEN "unknown" ELSE @]

Settleable(k) == k.phase = "finishing" /\ (~Pending(k) \/ k.settleBy <= 0)

\* Mutant: the deadline is not read again.
VerdictAnyTime(k, fate) ==
  IF k.err # "none" THEN k.err
  ELSE IF Pending(k) \/ k.failed THEN "artifact_failed" ELSE fate

\* The precedence of _settle, then Admission.complete: fate is "ok", "timeout"
\* when the deadline passes inside complete, "completion_unknown" when the
\* result cannot be encoded.
Verdict(k, fate) ==
  CASE k.err # "none" -> k.err
    [] k.err = "none" /\ Pending(k) -> "artifact_failed"
    [] k.err = "none" /\ ~Pending(k) /\ Late(k) -> "timeout"
    [] k.err = "none" /\ ~Pending(k) /\ ~Late(k) /\ k.failed -> "artifact_failed"
    [] OTHER -> fate

Settled(k, fate) ==
  LET answer == Verdict(k, fate)
      vetoed == Verdict(k, "ok") = "ok" /\ fate # "ok"
      d == IF vetoed THEN [k EXCEPT !.outcome = "unknown"]
           ELSE IF k.err = "none" /\ k.result /\ (Pending(k) \/ Late(k)) THEN Doubt(k)
           ELSE k
  IN [d EXCEPT !.phase = "terminal", !.answer = answer,
               !.err = IF answer = "ok" THEN "none" ELSE answer,
               !.failed = @ \/ Pending(k),
               !.deadline = 0, !.settleBy = 0]  \* read no more

\* _finish: decide the outcome, queue "finalizing", answer if nothing is pending.
Finished(k, result, lost) ==
  LET timed == [k EXCEPT !.err = IF @ = "none" /\ Late(k) THEN "timeout" ELSE @]
      f == [Observe(timed, "finalizing", lost) EXCEPT
              !.phase = "finishing", !.result = result,
              !.settleBy = Lesser(@, Greater(k.deadline, k.cleanupBy) + SettleGrace),
              !.cleanupBy = -SettleGrace,      \* read no more
              !.deadline = IF timed.err = "none" THEN @ ELSE -SettleGrace]
  IN IF k.phase # "live" THEN k
     ELSE IF Settleable(f) THEN Settled(f, "ok") ELSE f

\* _cancel: raised means request_cancel failed and cleanup gets no time.
Cancelled(k, w, code, raised, lost) ==
  IF k.err # "none" \/ k.phase # "live" THEN k
  ELSE IF k.task = "none" THEN Finished([k EXCEPT !.err = code], FALSE, lost)
  ELSE LET fails == raised /\ w \in Raising
           by == IF fails THEN 0
                 ELSE IF w \in Controls THEN Lesser(CleanupSeconds, k.deadline)
                 ELSE CleanupSeconds
       IN Observe([k EXCEPT !.err = code, !.cleanupBy = by,
                            !.outcome = IF fails THEN "unknown" ELSE @],
                  "cancelling", lost)

\* Mutant: the owner's provisional outcome is taken for its answer (before #96).
FinalOnceDecided(owner) == owner.phase # "live"

\* An owner's outcome is its waiters' once its own records have settled.
Final(owner) == owner.phase = "terminal"

\* _join: a waiter takes its settled owner's outcome.
Joined(k, owner, lost) ==
  Finished([k EXCEPT !.err = owner.err, !.outcome = owner.outcome], owner.result, lost)

ClampCleanup(k, by) ==
  IF k.phase = "live" THEN [k EXCEPT !.cleanupBy = Lesser(@, by)] ELSE k
ClampSettle(k, by) ==
  IF k.phase = "finishing" THEN [k EXCEPT !.settleBy = Lesser(@, by)] ELSE k

(* What they do to all of them.  wk is a value of work.                    *)

Queued(w) == w \in Ordinary /\ place[w] > 0
Live(w) == work[w].phase \in {"live", "finishing"}

\* begin_shutdown(deadline): cancel everything that is not terminal.
ShutdownWork(wk, failure, raised, lost) ==
  [w \in Requests |->
     LET held == Queued(w) \/ w \in waiters \cup {active, lifecycle}
         code == IF failure /\ w \in Ordinary THEN "session_failed" ELSE "cancelled"
         c == IF held /\ wk[w].phase # "terminal"
              THEN ClampCleanup(Cancelled(wk[w], w, code, raised, w \in lost), ShutdownBudget)
              ELSE wk[w]
     IN ClampSettle(c, ShutdownBudget)]

\* The escalation hook of worker.run begins a failure shutdown, once.
Escalating == InWorker /\ mode = "run"

\* _fail_closed followed by _finish, for a work whose cleanup is not confirmed.
FailedClosed(wk, w, raised, lost) ==
  LET marked == [wk EXCEPT ![w].outcome = "unknown"]
      shut == IF Escalating THEN ShutdownWork(marked, TRUE, raised, lost) ELSE marked
  IN [shut EXCEPT ![w] = Finished(@, FALSE, w \in lost)]

Escalate ==
  /\ unavailable' = TRUE
  /\ IF Escalating
     THEN stopping' = TRUE /\ mode' = "cancel" /\ shutBy' = ShutdownBudget
     ELSE UNCHANGED <<stopping, mode, shutBy>>

\* Mutant: a cancelled work gives up the slot before its cleanup.
FreeSlotOnCancel(wk) ==
  active' = IF active # None /\ wk[active].err = "none" /\ wk[active].phase = "live"
            THEN active ELSE None

\* _finish and _settle clear the ordinary slot of a work that is over.
FreeSlot(wk) == active' = IF active # None /\ wk[active].phase = "live" THEN active ELSE None

Losses == SUBSET Lossy

-----------------------------------------------------------------------------
(* Requests, cancellations and record completions, between turns.          *)

Ordinarily == {w \in Ordinary : Live(w)}

\* submit, refusing.
Refuse(w) ==
  /\ pc = "idle" /\ work[w].phase = "new"
  /\ stopping \/ unavailable \/ Cardinality(Ordinarily) >= MaxOrdinary
  /\ work' = [work EXCEPT ![w].phase = "terminal", ![w].answer = "session_unavailable"]
  /\ UNCHANGED <<slots, gates, world, pc, adv, ret>>

\* submit, admitting.  A caller already gone is Admit followed by Cancel.
Admit(w, d, lost) ==
  /\ pc = "idle" /\ work[w].phase = "new"
  /\ ~stopping /\ ~unavailable /\ Cardinality(Ordinarily) < MaxOrdinary
  /\ work' = [work EXCEPT ![w] = Observe([Idle(d) EXCEPT !.phase = "live"], "admitted", w \in lost)]
  /\ place' = [place EXCEPT ![w] = 1 + Cardinality({v \in Ordinary : work[v].phase # "new"})]
  /\ UNCHANGED <<active, lifecycle, waiters, joined, gates, world, pc, adv, ret>>

\* cancel: a request.cancel control, or the caller's connection closed.
Cancel(w, raised, lost) ==
  /\ pc = "idle" /\ work[w].phase = "live"
  /\ work' = [work EXCEPT ![w] = Cancelled(@, w, "cancelled", raised, w \in lost)]
  /\ FreeSlot(work')
  /\ UNCHANGED <<place, lifecycle, waiters, joined, gates, world, pc, adv, ret>>

\* _control, refusing: the deadline has passed, or the waiters are full.  A worker
\* that is shutting down refuses before the scheduler is asked.
RefuseControl(w, expired) ==
  /\ pc = "idle" /\ work[w].phase = "new"
  /\ expired \/ mode # "run" \/ (lifecycle # None /\ Cardinality(waiters) >= MaxWaiters)
  /\ work' = [work EXCEPT ![w].phase = "terminal",
                          ![w].answer = IF expired THEN "timeout" ELSE "session_unavailable"]
  /\ UNCHANGED <<slots, gates, world, pc, adv, ret>>

\* _control: a stop cancels everything, then owns or joins the lifecycle slot.
AdmitControl(w, d, raised, lost) ==
  /\ pc = "idle" /\ mode = "run" /\ work[w].phase = "new"
  /\ lifecycle = None \/ Cardinality(waiters) < MaxWaiters
  /\ LET ownerBy == IF lifecycle = None THEN d ELSE work[lifecycle].deadline
     IN work' = [v \in Requests |->
          CASE v = w -> Observe([Idle(d) EXCEPT !.phase = "live"], "control_admitted", w \in lost)
            [] Queued(v) -> Cancelled(work[v], v, "cancelled", FALSE, v \in lost)
            [] v = active /\ ~Queued(v) -> ClampCleanup(Cancelled(work[v], v, "cancelled", raised, v \in lost), ownerBy)
            [] OTHER -> work[v]]
  /\ FreeSlot(work')
  /\ IF lifecycle = None
     THEN lifecycle' = w /\ UNCHANGED waiters
     ELSE waiters' = waiters \cup {w} /\ UNCHANGED lifecycle
  /\ stopping' = TRUE
  /\ UNCHANGED <<place, joined, unavailable, mode, shutBy, world, pc, adv, ret>>

\* begin_shutdown from a signal, a managed stop or a failed health check.
BeginShutdown(failure, raised, lost) ==
  /\ pc = "idle" /\ InWorker /\ mode = "run"
  /\ work' = ShutdownWork(work, failure, raised, lost)
  /\ FreeSlot(work')
  /\ stopping' = TRUE /\ mode' = "cancel" /\ shutBy' = ShutdownBudget
  /\ UNCHANGED <<place, lifecycle, waiters, joined, unavailable, world, pc, adv, ret>>

\* Journal.drain hands back the oldest record of w: written, or failed.
Report(w, ev, ok) ==
  /\ pc = "idle"
  /\ Live(w)
  /\ ok \/ w \in Lossy
  /\ ev \in work[w].pending /\ \A e \in work[w].pending : Rank(ev) <= Rank(e)
  /\ work' = [work EXCEPT ![w].pending = @ \ {ev}, ![w].failed = @ \/ ~ok]
  /\ durable' = [durable EXCEPT ![w] = IF ok /\ ~work[w].failed THEN @ \cup {ev} ELSE @]
  /\ UNCHANGED <<slots, gates, effect, pc, adv, ret>>

Ticked(t, floor) == IF t > floor THEN t - 1 ELSE t

TickedWork(k) ==
  [k EXCEPT !.deadline = Ticked(@, -SettleGrace),
            !.cleanupBy = Ticked(@, -SettleGrace),
            !.settleBy = IF @ = Never THEN @ ELSE Ticked(@, 0)]

\* Time passes between turns, and in the callbacks of one.
Tick ==
  /\ pc \in {"idle", "advance", "gate", "returned"}
  /\ work' = [w \in Requests |-> IF Live(w) THEN TickedWork(work[w]) ELSE work[w]]
  /\ shutBy' = Ticked(shutBy, 0)
  /\ UNCHANGED <<slots, stopping, unavailable, mode, world, pc, adv, ret>>

-----------------------------------------------------------------------------
(* A turn: tick while running; drain_shutdown, then settle, afterwards.    *)

\* A turn begins: settle, with drain_shutdown's clamp before it.
Settling(w) == IF mode = "cancel" THEN ClampSettle(work[w], shutBy) ELSE work[w]
Succeeding(w) == Settleable(Settling(w)) /\ Verdict(Settling(w), "ok") = "ok"
Fates(w) == {"ok", "completion_unknown"}
              \cup (IF work[w].deadline = 1 THEN {"timeout"} ELSE {})

\* What becomes of each result that is about to be answered.
Fated ==
  LET over == {w \in Requests : Succeeding(w)}
      late == {f \in [over -> {"ok", "timeout", "completion_unknown"}] : \A w \in over : f[w] \in Fates(w)}
  IN {[w \in Requests |-> IF w \in over THEN f[w] ELSE "ok"] : f \in late}

AfterSettle == IF mode = "run" THEN "expire" ELSE IF mode = "cancel" THEN "drain" ELSE "idle"

Settle(fate, lost) ==
  /\ pc = "idle"
  /\ LET first == [w \in Requests |-> IF Settleable(Settling(w))
                                      THEN Settled(Settling(w), fate[w]) ELSE Settling(w)]
         answerable(w) == w \in Controls /\ joined[w] # None /\ first[w].phase = "live"
     IN /\ work' = [w \in Requests |->
             IF ~answerable(w) THEN first[w]
             ELSE IF Final(first[joined[w]])
                  THEN Joined(first[w], first[joined[w]], w \in lost)
             ELSE IF Late(first[w])
                  THEN Finished([first[w] EXCEPT !.err = "timeout"], FALSE, w \in lost)
             ELSE first[w]]
        /\ joined' = [w \in Controls |-> IF work'[w].phase = "live" THEN joined[w] ELSE None]
  /\ pc' = AfterSettle
  /\ UNCHANGED <<place, active, lifecycle, waiters, gates, world, adv, ret>>

AfterActive == IF lifecycle = None THEN "start" ELSE "lifecycle"

\* tick: expire queued works, drop the finished ones, expire waiters.
Expire(lost) ==
  /\ pc = "expire"
  /\ work' = [w \in Requests |->
       CASE Queued(w) /\ Late(work[w]) -> Cancelled(work[w], w, "timeout", FALSE, w \in lost)
         [] w \in waiters /\ Late(work[w]) ->
              Finished([work[w] EXCEPT !.err = "timeout"], FALSE, w \in lost)
         [] OTHER -> work[w]]
  /\ place' = [w \in Ordinary |-> IF work'[w].phase = "live" THEN place[w] ELSE 0]
  /\ waiters' = {w \in waiters : ~Late(work[w])}
  /\ IF active = None
     THEN pc' = AfterActive /\ UNCHANGED <<adv, ret>>
     ELSE pc' = "advance" /\ adv' = active /\ ret' = AfterActive
  /\ UNCHANGED <<active, lifecycle, joined, gates, world>>

\* tick, lifecycle slot: run its owner once the ordinary slot is free.  An owner
\* that expires still waiting for it fails closed.
Lifecycle(raised, lost) ==
  /\ pc = "lifecycle"
  /\ \/ /\ active = None
        /\ pc' = "advance" /\ adv' = lifecycle /\ ret' = "release"
        /\ UNCHANGED <<work, active, gates>>
     \/ /\ active # None
        /\ pc' = "release"
        /\ IF Late(work[lifecycle]) /\ work[lifecycle].err = "none"
           THEN /\ work' = FailedClosed([work EXCEPT ![lifecycle].err = "timeout"], lifecycle, raised, lost)
                /\ FreeSlot(work')
                /\ Escalate
           ELSE UNCHANGED <<work, active, gates>>
        /\ UNCHANGED <<adv, ret>>
  /\ UNCHANGED <<place, lifecycle, waiters, joined, world>>

\* tick: a lifecycle owner that is over frees the slot.  Its waiters answer with
\* it (_finish_waiters), or wait until its own records settle (_hold_waiters).
Release(lost) ==
  /\ pc = "release" /\ pc' = "idle"
  /\ LET owner == work[lifecycle]
     IN IF owner.phase = "live"
        THEN UNCHANGED <<work, lifecycle, waiters, joined>>
        ELSE /\ work' = [w \in Requests |-> IF w \in waiters /\ Final(owner)
                                            THEN Joined(work[w], owner, w \in lost) ELSE work[w]]
             /\ joined' = [w \in Controls |-> IF w \in waiters /\ ~Final(owner)
                                              THEN lifecycle ELSE joined[w]]
             /\ lifecycle' = None /\ waiters' = {}
  /\ UNCHANGED <<place, active, gates, world, adv, ret>>

AfterStart == IF unavailable THEN "refuse" ELSE "idle"

\* tick: start the oldest queued work.
Start ==
  /\ pc = "start"
  /\ IF active = None /\ ~stopping /\ ~unavailable /\ \E w \in Ordinary : Queued(w)
     THEN \E w \in Ordinary :
            /\ Queued(w) /\ \A v \in Ordinary : Queued(v) => place[w] <= place[v]
            /\ active' = w /\ place' = [place EXCEPT ![w] = 0]
            /\ pc' = "advance" /\ adv' = w /\ ret' = "refuse"
     ELSE pc' = AfterStart /\ UNCHANGED <<active, place, adv, ret>>
  /\ UNCHANGED <<work, lifecycle, waiters, joined, gates, world>>

\* tick, last: an unavailable session answers whatever is still queued.
Unavailable(lost) ==
  /\ pc = "refuse" /\ pc' = "idle"
  /\ IF unavailable
     THEN /\ work' = [w \in Requests |->
               IF Queued(w) /\ work[w].phase # "terminal"
               THEN Finished([work[w] EXCEPT !.err = "session_unavailable"], FALSE, w \in lost)
               ELSE work[w]]
          /\ place' = [w \in Ordinary |-> 0]
     ELSE UNCHANGED <<work, place>>
  /\ UNCHANGED <<active, lifecycle, waiters, joined, gates, world, adv, ret>>

\* drain_shutdown: advance both slots' works, their cleanup clamped to the phase.
Drain(slot, here, next) ==
  /\ pc = here
  /\ IF slot # None /\ work[slot].phase # "terminal"
     THEN /\ work' = [work EXCEPT ![slot] = ClampCleanup(@, shutBy)]
          /\ pc' = "advance" /\ adv' = slot /\ ret' = next
     ELSE pc' = next /\ UNCHANGED <<work, adv, ret>>
  /\ UNCHANGED <<slots, gates, world>>

\* Shutdown.tick: the cancel phase ends when the drain is done, or out of time.
Drained ==
  /\ pc = "drained" /\ pc' = "idle"
  /\ mode' = IF \/ shutBy <= 0
                \/ /\ active = None
                   /\ lifecycle = None \/ work[lifecycle].phase # "live"
             THEN "over" ELSE "cancel"
  /\ UNCHANGED <<work, slots, stopping, unavailable, shutBy, world, adv, ret>>

-----------------------------------------------------------------------------
(* _advance, on the work adv.                                              *)

\* Mutant: a code outside the contract's.
TroubleUncoded(k, w) ==
  IF k.err # "none" THEN k.err
  ELSE IF Late(k) THEN "timeout"
  ELSE IF k.failed THEN "record_failed" ELSE "none"

Trouble(k, w) ==
  IF k.err # "none" THEN k.err
  ELSE IF Late(k) THEN "timeout"
  ELSE IF k.failed /\ w \in Ordinary THEN "artifact_failed"
  ELSE "none"

Back == pc' = ret /\ adv' = None /\ ret' = "idle"

\* Of a work already over only the answer is left (a lifecycle owner in a drain).
AdvanceOver ==
  /\ pc = "advance" /\ work[adv].phase # "live"
  /\ work' = [work EXCEPT ![adv] = IF Settleable(@) THEN Settled(@, "ok") ELSE @]
  /\ Back
  /\ UNCHANGED <<slots, gates, world>>

\* Mutant: cleanup is retried until it is confirmed.
ExhaustedNever(k) == FALSE

Exhausted(k) == k.cleanupBy <= 0

\* An expired, failed or cancelled work: cleanup, until confirmed or exhausted.
AdvanceTroubled(confirmed, raised, lost) ==
  /\ pc = "advance" /\ work[adv].phase = "live"
  /\ Trouble(work[adv], adv) # "none"
  /\ LET k == Cancelled(work[adv], adv, Trouble(work[adv], adv), raised, adv \in lost)
         tried == [work EXCEPT ![adv] = k]
         cleaned == confirmed \/ work[adv].task = "none"
         stranded == \/ work[adv].task = "none" /\ adv \in Controls
                     \/ ~cleaned /\ Exhausted(k)
     IN /\ work' = CASE stranded /\ work[adv].task = "none" ->
                          FailedClosed([work EXCEPT ![adv].err = "timeout"], adv, raised, lost)
                     [] stranded /\ work[adv].task # "none" -> FailedClosed(tried, adv, raised, lost)
                     [] ~stranded /\ cleaned /\ k.phase = "live" ->
                          [work EXCEPT ![adv] = Finished(k, FALSE, adv \in lost)]
                     [] OTHER -> tried
        /\ effect' = [effect EXCEPT ![adv] = IF ~confirmed \/ work[adv].task = "none" THEN @
                                             ELSE IF @ = "dirty" THEN "clean"
                                             ELSE IF @ = "intent" THEN "none" ELSE @]
        /\ IF stranded THEN Escalate ELSE UNCHANGED gates
  /\ FreeSlot(work')
  /\ Back
  /\ UNCHANGED <<place, lifecycle, waiters, joined, durable>>

\* The task is constructed: Records.factory queues "started" first, and raises
\* when it is refused or the deadline passed; the factory itself may raise.
Build(made, lost) ==
  /\ pc = "advance" /\ work[adv].phase = "live"
  /\ Trouble(work[adv], adv) = "none" /\ work[adv].task = "none"
  /\ made = "timeout" => work[adv].deadline = 1
  /\ LET refused == adv \in Ordinary \cap lost
         k == IF adv \in Ordinary \ lost THEN Observe(work[adv], "started", FALSE) ELSE work[adv]
         code == IF refused THEN "artifact_failed" ELSE made
     IN IF code = "built"
        THEN /\ work' = [work EXCEPT ![adv] = [k EXCEPT !.task = "built"]]
             /\ pc' = "gate" /\ UNCHANGED <<adv, ret>>
        ELSE /\ work' = [work EXCEPT ![adv] = Cancelled(k, adv, code, FALSE, refused)]
             /\ Back
  /\ FreeSlot(work')
  /\ UNCHANGED <<place, lifecycle, waiters, joined, gates, world>>

Resume ==
  /\ pc = "advance" /\ work[adv].phase = "live"
  /\ Trouble(work[adv], adv) = "none" /\ work[adv].task # "none"
  /\ pc' = "gate"
  /\ UNCHANGED <<work, slots, gates, world, adv, ret>>

\* The first step waits for the admission and start records.
Holding(k, w) == k.task = "built" /\ Pending(k) /\ w \in Ordinary \ Gating

GateHold ==
  /\ pc = "gate" /\ Holding(work[adv], adv)
  /\ Back
  /\ UNCHANGED <<work, slots, gates, world>>

\* The deadline is read again after every callback, the factory's included.
GateLate(raised, lost) ==
  /\ pc = "gate" /\ ~Holding(work[adv], adv) /\ Late(work[adv])
  /\ work' = [work EXCEPT ![adv] = Cancelled([@ EXCEPT !.task = "stepped"], adv, "timeout",
                                             raised, adv \in lost)]
  /\ Back
  /\ UNCHANGED <<slots, gates, world>>

MayStep == pc = "gate" /\ ~Holding(work[adv], adv) /\ ~Late(work[adv])

Stepped(k) == [k EXCEPT !.task = "stepped"]

\* task.step returns None.
StepWait ==
  /\ MayStep
  /\ work' = [work EXCEPT ![adv] = Stepped(@)]
  /\ Back
  /\ UNCHANGED <<slots, gates, world>>

\* task.step calls Context.effects.  A task that does not gate has its effect in
\* the same step; one that gates has recorded the intent of it.
StepEffects(raised, lost) ==
  /\ MayStep /\ effect[adv] = "none"
  /\ LET k == Observe([Stepped(work[adv]) EXCEPT !.outcome = "partial"], "effects", adv \in lost)
     IN IF k.failed /\ adv \in Ordinary
        THEN /\ work' = [work EXCEPT ![adv] = Cancelled(k, adv, "artifact_failed", raised, adv \in lost)]
             /\ UNCHANGED effect
        ELSE /\ work' = [work EXCEPT ![adv] = k]
             /\ effect' = [effect EXCEPT ![adv] = IF adv \in Gating THEN "intent" ELSE "dirty"]
  /\ Back
  /\ UNCHANGED <<slots, gates, durable>>

\* Mutant: a queued record counts as recorded.
RecordedOnceQueued(k) == ~k.failed

\* A gating task emits once Context.recorded says its records are durable.
Recorded(k) == ~Pending(k) /\ ~k.failed

StepEmit ==
  /\ MayStep /\ effect[adv] = "intent" /\ Recorded(work[adv])
  /\ work' = [work EXCEPT ![adv] = Stepped(@)]
  /\ effect' = [effect EXCEPT ![adv] = "dirty"]
  /\ Back
  /\ UNCHANGED <<slots, gates, durable>>

\* task.step returns a result: its effect, if any, is complete and released.
StepResult ==
  /\ MayStep /\ effect[adv] \in {"none", "dirty"}
  /\ work' = [work EXCEPT ![adv] = Stepped(@)]
  /\ effect' = [effect EXCEPT ![adv] = IF @ = "dirty" THEN "clean" ELSE @]
  /\ pc' = "returned"
  /\ UNCHANGED <<slots, gates, durable, adv, ret>>

\* Mutant: the error's outcome replaces what the task recorded.
StepRaiseReset(outcome, raised, lost) ==
  /\ MayStep
  /\ work' = [work EXCEPT ![adv] =
       Cancelled([Stepped(@) EXCEPT !.outcome = outcome], adv, "task_error", raised, adv \in lost)]
  /\ Back
  /\ UNCHANGED <<slots, gates, world>>

\* task.step raises; other than a ContractError leaves the outcome unknown.
StepRaise(outcome, raised, lost) ==
  /\ MayStep
  /\ LET k == IF outcome = "not_started" THEN Stepped(work[adv])
              ELSE [Stepped(work[adv]) EXCEPT !.outcome = outcome]
     IN work' = [work EXCEPT ![adv] = Cancelled(k, adv, "task_error", raised, adv \in lost)]
  /\ Back
  /\ UNCHANGED <<slots, gates, world>>

\* A result is accepted only before the deadline.
Return(raised, lost) ==
  /\ pc = "returned"
  /\ work' = [work EXCEPT ![adv] =
       IF Late(@) THEN Cancelled(Doubt(@), adv, "timeout", raised, adv \in lost)
       ELSE Finished(@, TRUE, adv \in lost)]
  /\ FreeSlot(work')
  /\ Back
  /\ UNCHANGED <<place, lifecycle, waiters, joined, gates, world>>

-----------------------------------------------------------------------------
Advance ==
  \/ AdvanceOver
  \/ \E confirmed, raised \in BOOLEAN, lost \in Losses : AdvanceTroubled(confirmed, raised, lost)
  \/ \E made \in {"built", "timeout", "task_error"}, lost \in Losses : Build(made, lost)
  \/ Resume
  \/ GateHold
  \/ \E raised \in BOOLEAN, lost \in Losses : GateLate(raised, lost)
  \/ StepWait
  \/ \E raised \in BOOLEAN, lost \in Losses : StepEffects(raised, lost)
  \/ StepEmit
  \/ StepResult
  \/ \E outcome \in {"not_started", "unknown"}, raised \in BOOLEAN, lost \in Losses :
        StepRaise(outcome, raised, lost)
  \/ \E raised \in BOOLEAN, lost \in Losses : Return(raised, lost)

\* The owner's turn: nothing in it waits for the writer or for a caller.
Turn ==
  \/ \E fate \in Fated, lost \in Losses : Settle(fate, lost)
  \/ \E lost \in Losses : Expire(lost)
  \/ \E raised \in BOOLEAN, lost \in Losses : Lifecycle(raised, lost)
  \/ \E lost \in Losses : Release(lost)
  \/ Start
  \/ \E lost \in Losses : Unavailable(lost)
  \/ Drain(active, "drain", "drainLifecycle")
  \/ Drain(lifecycle, "drainLifecycle", "drained")
  \/ Drained
  \/ Advance

Dispatch ==
  \/ \E w \in Ordinary : Refuse(w)
  \/ \E w \in Ordinary, d \in Budgets, lost \in Losses : Admit(w, d, lost)
  \/ \E w \in Ordinary, raised \in BOOLEAN, lost \in Losses : Cancel(w, raised, lost)
  \/ \E w \in Controls, expired \in BOOLEAN : RefuseControl(w, expired)
  \/ \E w \in Controls, d \in Budgets, raised \in BOOLEAN, lost \in Losses :
        AdmitControl(w, d, raised, lost)
  \/ \E failure, raised \in BOOLEAN, lost \in Losses : BeginShutdown(failure, raised, lost)

Next ==
  \/ Dispatch
  \/ Turn
  \/ \E w \in Requests, ev \in Events, ok \in BOOLEAN : Report(w, ev, ok)
  \/ Tick

Spec == Init /\ [][Next]_vars

\* GLib runs the service turn every 5ms and time passes; the writer may stall.
FairSpec == Spec /\ WF_vars(Turn) /\ SF_vars(Tick)
-----------------------------------------------------------------------------
(* Safety.                                                                 *)

Emitted(w) == effect[w] \in {"dirty", "clean"}

\* A task acts on the desktop only when the records of its admission and start are
\* on disk, and, if it gates, also the record of what it is about to do: the hold
\* before the first step and Context.recorded, against a slow or failing writer.
EffectsAfterRecords ==
  \A w \in Ordinary : Emitted(w) =>
    /\ {"admitted", "started"} \subseteq durable[w]
    /\ w \in Gating => "effects" \in durable[w]

\* Success is answered only when every record of the request is on disk.
SuccessIsDurable ==
  \A w \in Requests : work[w].answer = "ok" =>
    /\ ~work[w].failed /\ ~Pending(work[w]) /\ "finalizing" \in durable[w]
    /\ w \in Ordinary => {"admitted", "started"} \subseteq durable[w]
    /\ w \in Controls => "control_admitted" \in durable[w]

\* The desktop has one owner: a second request's effect never overlaps one that is
\* not complete or cleaned up, a stop's included, unless cleanup was given up.
SingleOwner ==
  Cardinality({w \in Requests : effect[w] = "dirty"}) <= 1 \/ unavailable

\* A request that is over with its effect neither complete nor cleaned up has made
\* the session unavailable (_fail_closed), so nothing is admitted on top of it.
FailClosed ==
  \A w \in Requests :
    effect[w] = "dirty" /\ work[w].phase # "live" => unavailable

\* Both sides of the handover of the desktop: it has one owner, and when an owner left
\* it in doubt it is given to no other (_fail_closed, MAX_ACTIVE).
OwnedOnce == SingleOwner /\ FailClosed

\* A caller told "not_started" may retry: nothing was done.
NotStartedMeansNoEffect ==
  \A w \in Requests :
    work[w].phase = "terminal" /\ work[w].answer # "ok" /\ work[w].outcome = "not_started"
      => ~Emitted(w)

\* A stop that only joined another one reports success only if that one's task ran
\* and its own answer was success, whatever happened to its records (#96).
JoinerSuccessNeedsOwner ==
  \A w \in Controls : work[w].answer = "ok" /\ work[w].task = "none" =>
    \E v \in Controls : work[v].task = "stepped" /\ work[v].answer = "ok"

(* What a step may never do.                                               *)

\* Nothing is emitted for a request whose outcome is decided, whose deadline has
\* passed or whose record failed, nor for an ordinary one once the session stops.
EmitsOnlyUndecided ==
  [][\A w \in Requests : ~Emitted(w) /\ Emitted(w)' =>
       /\ work[w].phase = "live" /\ work[w].err = "none" /\ ~Late(work[w])
       /\ mode = "run"
       /\ w \in Ordinary => ~stopping /\ ~unavailable /\ ~work[w].failed]_vars

\* Success is never answered at or after the caller's deadline, however long the
\* records took or another request's answer was awaited.
OnTimeSuccess ==
  [][\A w \in Requests : work[w].answer = "none" /\ work'[w].answer = "ok"
       => ~Late(work[w])]_vars

\* The caller's deadline, or its cancellation, is final: nothing is done for it nor
\* answered as done after that, whatever the turn spent before looking at the clock.
DecisionsHold == EmitsOnlyUndecided /\ OnTimeSuccess

\* "an error already decided (cancelled, timeout, target_lost, ...) stands"
\* (the precedence comment of _settle).  The code does not keep it: see README, 3.
DecidedErrorStands ==
  [][\A w \in Requests : work[w].err # "none" => work'[w].err = work[w].err]_vars

\* Once the cancel phase is over, no response waits for its records longer than
\* the phase allowed ("sooner when stopping", docs/SCHEDULING.md).  The code does
\* not keep it: see README, 3.
SettleSoonerWhenStopping ==
  mode = "over" =>
    \A w \in Requests : work[w].phase = "finishing" => work[w].settleBy <= shutBy

(* Liveness, with a writer that may stall for ever and tasks that may wait for  *)
(* ever: time alone moves every request to its answer.                        *)

\* Every admitted request is answered, except one whose cleanup outlasts the
\* shutdown's cancel phase: its caller sees the connection close.
Answered ==
  \A w \in Requests :
    Live(w) ~> \/ work[w].phase = "terminal"
               \/ mode = "over" /\ work[w].phase = "live"

\* No request keeps the ordinary slot, or the lifecycle slot, for ever.
SlotsFreed ==
  /\ \A w \in Ordinary : active = w ~> active # w \/ mode = "over"
  /\ \A w \in Controls : lifecycle = w ~> lifecycle # w \/ mode = "over"

\* The cancel phase of a shutdown ends.
ShutdownEnds == mode = "cancel" ~> mode = "over"

\* No stalled writer, lost cleanup or waiting task holds a request, a slot or the
\* shutdown for ever.
EverythingEnds == Answered /\ SlotsFreed /\ ShutdownEnds
=============================================================================
