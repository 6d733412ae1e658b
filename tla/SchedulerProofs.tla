-------------------------- MODULE SchedulerProofs --------------------------
(***************************************************************************)
(* Proofs about the scheduler, for every value of its constants.           *)
(***************************************************************************)
EXTENDS Scheduler, FiniteSetTheorems, TLAPS

(* The operators on one Work record keep its type.                         *)

LEMMA NumbersType ==
  /\ MaxBudget \in Int /\ CleanupSeconds \in Int /\ SettleGrace \in Int
  /\ ShutdownBudget \in Int /\ Never \in Int /\ Budgets \subseteq Int
BY TimesAssumption DEF Never, Budgets

LEMMA ObserveType ==
  ASSUME NEW k \in WorkType, NEW ev \in Events, NEW lost \in BOOLEAN
  PROVE  Observe(k, ev, lost) \in WorkType
BY DEF Observe, WorkType

LEMMA VerdictType ==
  ASSUME NEW k \in WorkType, NEW fate \in Codes \cup {"ok"}
  PROVE  Verdict(k, fate) \in Codes \cup {"ok"}
BY DEF Verdict, WorkType, Codes

LEMMA SettledType ==
  ASSUME NEW k \in WorkType, NEW fate \in Codes \cup {"ok"}
  PROVE  Settled(k, fate) \in WorkType
PROOF
<1> DEFINE answer == Verdict(k, fate)
           d == IF Verdict(k, "ok") = "ok" /\ fate # "ok" THEN [k EXCEPT !.outcome = "unknown"]
                ELSE IF k.err = "none" /\ k.result /\ (Pending(k) \/ Late(k)) THEN Doubt(k)
                ELSE k
<1>1. answer \in Codes \cup {"ok"}
  BY VerdictType
<1>2. d \in WorkType
  BY DEF Doubt, WorkType
<1> HIDE DEF answer, d
<1>4. (IF answer = "ok" THEN "none" ELSE answer) \in Codes \cup {"none"}
  BY <1>1
<1>5. (d.failed \/ Pending(k)) \in BOOLEAN /\ 0 \in Int
  OBVIOUS
<1>6. \A doubtful \in BOOLEAN, code \in Codes \cup {"none"}, zero \in Int :
        [d EXCEPT !.phase = "terminal", !.answer = answer, !.err = code,
                  !.failed = doubtful, !.deadline = zero, !.settleBy = zero] \in WorkType
  BY <1>1, <1>2, ZenonT(40) DEF WorkType
<1> QED
  BY <1>4, <1>5, <1>6, Zenon DEF Settled, answer, d

LEMMA FinishedType ==
  ASSUME NEW k \in WorkType, NEW result \in BOOLEAN, NEW lost \in BOOLEAN
  PROVE  Finished(k, result, lost) \in WorkType
PROOF
<1> DEFINE timed == [k EXCEPT !.err = IF @ = "none" /\ Late(k) THEN "timeout" ELSE @]
           seen == Observe(timed, "finalizing", lost)
           f == [seen EXCEPT
              !.phase = "finishing", !.result = result,
              !.settleBy = Lesser(@, Greater(k.deadline, k.cleanupBy) + SettleGrace),
              !.cleanupBy = -SettleGrace,
              !.deadline = IF timed.err = "none" THEN @ ELSE -SettleGrace]
<1>1. timed \in WorkType
  BY DEF WorkType, Codes
<1>2. seen \in WorkType
  BY <1>1, ObserveType DEF Events
<1>3. k.deadline \in Int /\ k.cleanupBy \in Int /\ seen.settleBy \in Int /\ seen.deadline \in Int
  BY <1>2 DEF WorkType
<1> HIDE DEF timed, seen
<1>4. \A by, d \in Int :
        [seen EXCEPT !.phase = "finishing", !.result = result, !.settleBy = by,
                     !.cleanupBy = -SettleGrace, !.deadline = d] \in WorkType
  <2>1. -SettleGrace \in Int
    BY NumbersType
  <2> QED
    BY <1>2, <2>1, Zenon DEF WorkType
<1>5. /\ Lesser(seen.settleBy, Greater(k.deadline, k.cleanupBy) + SettleGrace) \in Int
      /\ (IF timed.err = "none" THEN seen.deadline ELSE -SettleGrace) \in Int
  BY <1>3, NumbersType DEF Lesser, Greater
<1>6. f \in WorkType
  BY <1>4, <1>5
<1>7. Settled(f, "ok") \in WorkType
  BY <1>6, SettledType
<1> QED
  BY <1>6, <1>7 DEF Finished, seen, timed

LEMMA CancelledType ==
  ASSUME NEW k \in WorkType, NEW w, NEW code \in Codes,
         NEW raised \in BOOLEAN, NEW lost \in BOOLEAN
  PROVE  Cancelled(k, w, code, raised, lost) \in WorkType
PROOF
<1>1. [k EXCEPT !.err = code] \in WorkType
  BY DEF WorkType
<1>2. Finished([k EXCEPT !.err = code], FALSE, lost) \in WorkType
  BY <1>1, FinishedType
<1>3. ASSUME NEW by \in Int, NEW fails \in BOOLEAN
      PROVE  Observe([k EXCEPT !.err = code, !.cleanupBy = by,
                               !.outcome = IF fails THEN "unknown" ELSE @],
                     "cancelling", lost) \in WorkType
  <2>1. [k EXCEPT !.err = code, !.cleanupBy = by,
                  !.outcome = IF fails THEN "unknown" ELSE @] \in WorkType
    BY DEF WorkType
  <2> QED
    BY <2>1, ObserveType DEF Events
<1>4. k.deadline \in Int
  BY DEF WorkType
<1>5. ASSUME NEW fails \in BOOLEAN
      PROVE  (IF fails THEN 0 ELSE IF w \in Controls THEN Lesser(CleanupSeconds, k.deadline)
              ELSE CleanupSeconds) \in Int
  BY <1>4, NumbersType DEF Lesser
<1>6. (raised /\ w \in Raising) \in BOOLEAN
  OBVIOUS
<1> QED
  BY <1>2, <1>3, <1>5, <1>6 DEF Cancelled

LEMMA JoinedType ==
  ASSUME NEW k \in WorkType, NEW owner \in WorkType, NEW lost \in BOOLEAN
  PROVE  Joined(k, owner, lost) \in WorkType
PROOF
<1>1. [k EXCEPT !.err = owner.err, !.outcome = owner.outcome] \in WorkType
  BY DEF WorkType
<1>2. owner.result \in BOOLEAN
  BY DEF WorkType
<1> QED
  BY <1>1, <1>2, FinishedType DEF Joined

LEMMA ClampType ==
  ASSUME NEW k \in WorkType, NEW by \in Int
  PROVE  ClampCleanup(k, by) \in WorkType /\ ClampSettle(k, by) \in WorkType
BY DEF ClampCleanup, ClampSettle, Lesser, WorkType

LEMMA ShutdownWorkType ==
  ASSUME NEW wk \in [Requests -> WorkType], NEW failure \in BOOLEAN,
         NEW raised \in BOOLEAN, NEW lost
  PROVE  ShutdownWork(wk, failure, raised, lost) \in [Requests -> WorkType]
PROOF
<1> SUFFICES ASSUME NEW w \in Requests
             PROVE  ShutdownWork(wk, failure, raised, lost)[w] \in WorkType
  BY DEF ShutdownWork
<1> DEFINE code == IF failure /\ w \in Ordinary THEN "session_failed" ELSE "cancelled"
           stopped == Cancelled(wk[w], w, code, raised, w \in lost)
<1>1. code \in Codes /\ wk[w] \in WorkType
  BY DEF Codes
<1>2. stopped \in WorkType
  <2>1. (w \in lost) \in BOOLEAN
    OBVIOUS
  <2> QED
    BY <1>1, <2>1, CancelledType
<1>3. ClampCleanup(stopped, ShutdownBudget) \in WorkType
  BY <1>2, ClampType, NumbersType
<1>4. /\ ClampSettle(ClampCleanup(stopped, ShutdownBudget), ShutdownBudget) \in WorkType
      /\ ClampSettle(wk[w], ShutdownBudget) \in WorkType
  BY <1>1, <1>3, ClampType, NumbersType
<1> QED
  BY <1>4 DEF ShutdownWork

LEMMA FailedClosedType ==
  ASSUME NEW wk \in [Requests -> WorkType], NEW w, NEW raised \in BOOLEAN, NEW lost
  PROVE  FailedClosed(wk, w, raised, lost) \in [Requests -> WorkType]
PROOF
<1> DEFINE marked == [wk EXCEPT ![w].outcome = "unknown"]
           shut == IF Escalating THEN ShutdownWork(marked, TRUE, raised, lost) ELSE marked
<1>1. marked \in [Requests -> WorkType]
  <2>1. \A k \in WorkType : [k EXCEPT !.outcome = "unknown"] \in WorkType
    BY Zenon DEF WorkType
  <2> QED
    BY <2>1
<1>2. shut \in [Requests -> WorkType]
  BY <1>1, ShutdownWorkType
<1>3. ASSUME NEW v \in Requests PROVE Finished(shut[v], FALSE, w \in lost) \in WorkType
  <2>1. (w \in lost) \in BOOLEAN
    OBVIOUS
  <2> HIDE DEF shut
  <2> QED
    BY <1>2, <2>1, FinishedType
<1> HIDE DEF shut
<1>4. [shut EXCEPT ![w] = Finished(@, FALSE, w \in lost)] \in [Requests -> WorkType]
  BY <1>2, <1>3
<1> QED
  BY <1>4, Zenon DEF FailedClosed, shut, marked

-----------------------------------------------------------------------------
(* Every state has the right type, and a turn that is under way has the work   *)
(* and the slot it is about.                                                 *)

StageOK ==
  /\ ret \notin {"advance", "gate", "returned"}
  /\ IF pc \in {"advance", "gate", "returned"} THEN adv \in Requests ELSE ret = "idle"
  /\ pc \in {"lifecycle", "release"} \/ ret \in {"lifecycle", "release"} => lifecycle # None

TypeInv == TypeOK /\ StageOK

LEMMA InitType == Init => TypeInv
PROOF
<1> SUFFICES ASSUME Init PROVE TypeInv
  OBVIOUS
<1>1. Idle(0) \in WorkType
  <2>1. 0 \in Int /\ -SettleGrace \in Int /\ Never \in Int
    BY NumbersType
  <2> QED
    BY <2>1, Zenon DEF Idle, WorkType
<1>2. work \in [Requests -> WorkType]
  BY <1>1, Zenon DEF Init
<1>3. 0 \in Nat /\ 0 \in Int
  OBVIOUS
<1>4. TypeOK
  BY <1>2, <1>3, Zenon DEF Init, TypeOK, Stages
<1> QED
  BY <1>4 DEF Init, TypeInv, StageOK

\* What a step that leaves the slots and the stage well formed has to show.
LEMMA WorkUpdate ==
  ASSUME NEW wk \in [Requests -> WorkType], NEW w, NEW k \in WorkType
  PROVE  [wk EXCEPT ![w] = k] \in [Requests -> WorkType]
OBVIOUS

LEMMA RefuseType ==
  ASSUME TypeInv, NEW w \in Requests, NEW code \in Codes, pc = "idle",
         work' = [work EXCEPT ![w].phase = "terminal", ![w].answer = code],
         UNCHANGED <<slots, gates, world, pc, adv, ret>>
  PROVE  TypeInv'
PROOF
<1>1. [work[w] EXCEPT !.phase = "terminal", !.answer = code] \in WorkType
  <2>1. work[w] \in WorkType
    BY DEF TypeInv, TypeOK
  <2> QED
    BY <2>1, Zenon DEF WorkType
<1>2. work' = [work EXCEPT ![w] = [work[w] EXCEPT !.phase = "terminal", !.answer = code]]
  BY DEF TypeInv, TypeOK
<1>3. work' \in [Requests -> WorkType]
  BY <1>1, <1>2, WorkUpdate DEF TypeInv, TypeOK
<1> QED
  BY <1>3 DEF TypeInv, TypeOK, StageOK, slots, gates, world

LEMMA IdleType ==
  ASSUME NEW d \in Int PROVE [Idle(d) EXCEPT !.phase = "live"] \in WorkType
PROOF
<1>1. -SettleGrace \in Int /\ Never \in Int
  BY NumbersType
<1> QED
  BY <1>1, Zenon DEF Idle, WorkType

LEMMA AdmitType ==
  ASSUME TypeInv, NEW w \in Ordinary, NEW d \in Budgets, NEW lost \in Losses, Admit(w, d, lost)
  PROVE  TypeInv'
PROOF
<1>1. d \in Int /\ (w \in lost) \in BOOLEAN
  BY NumbersType
<1>2. Observe([Idle(d) EXCEPT !.phase = "live"], "admitted", w \in lost) \in WorkType
  BY <1>1, IdleType, ObserveType DEF Events
<1>3. work' \in [Requests -> WorkType]
  BY <1>2, WorkUpdate DEF Admit, TypeInv, TypeOK
<1>4. Cardinality({v \in Ordinary : work[v].phase # "new"}) \in Nat
  BY RequestsAssumption, FS_Subset, FS_CardinalityType DEF Requests
<1> QED
  BY <1>3, <1>4 DEF Admit, TypeInv, TypeOK, StageOK, gates, world

LEMMA CancelType ==
  ASSUME TypeInv, NEW w \in Ordinary, NEW raised \in BOOLEAN, NEW lost \in Losses,
         Cancel(w, raised, lost)
  PROVE  TypeInv'
PROOF
<1>1. (w \in lost) \in BOOLEAN /\ work[w] \in WorkType /\ "cancelled" \in Codes
  BY DEF TypeInv, TypeOK, Requests, Codes
<1>2. Cancelled(work[w], w, "cancelled", raised, w \in lost) \in WorkType
  BY <1>1, CancelledType
<1>3. work' \in [Requests -> WorkType]
  BY <1>2, WorkUpdate DEF Cancel, TypeInv, TypeOK
<1> QED
  BY <1>3 DEF Cancel, FreeSlot, TypeInv, TypeOK, StageOK, gates, world

LEMMA AdmitControlType ==
  ASSUME TypeInv, NEW w \in Controls, NEW d \in Budgets, NEW raised \in BOOLEAN,
         NEW lost \in Losses, AdmitControl(w, d, raised, lost)
  PROVE  TypeInv'
PROOF
<1> DEFINE by == IF lifecycle = None THEN d ELSE work[lifecycle].deadline
<1>1. by \in Int
  BY NumbersType DEF TypeInv, TypeOK, WorkType, Requests
<1>2. d \in Int /\ \A v : (v \in lost) \in BOOLEAN
  BY NumbersType
<1>3. Observe([Idle(d) EXCEPT !.phase = "live"], "control_admitted", w \in lost) \in WorkType
  BY <1>2, IdleType, ObserveType DEF Events
<1>4. ASSUME NEW v \in Requests
      PROVE  /\ Cancelled(work[v], v, "cancelled", FALSE, v \in lost) \in WorkType
             /\ ClampCleanup(Cancelled(work[v], v, "cancelled", raised, v \in lost), by) \in WorkType
  <2>1. "cancelled" \in Codes /\ work[v] \in WorkType
    BY DEF Codes, TypeInv, TypeOK
  <2>2. \A r \in BOOLEAN : Cancelled(work[v], v, "cancelled", r, v \in lost) \in WorkType
    BY <1>2, <2>1, CancelledType
  <2> QED
    BY <1>1, <2>2, ClampType
<1>5. work' \in [Requests -> WorkType]
  BY <1>3, <1>4 DEF AdmitControl, TypeInv, TypeOK
<1> QED
  BY <1>5 DEF AdmitControl, FreeSlot, TypeInv, TypeOK, StageOK, world

LEMMA BeginShutdownType ==
  ASSUME TypeInv, NEW failure \in BOOLEAN, NEW raised \in BOOLEAN, NEW lost \in Losses,
         BeginShutdown(failure, raised, lost)
  PROVE  TypeInv'
PROOF
<1>1. work' \in [Requests -> WorkType]
  BY ShutdownWorkType DEF BeginShutdown, TypeInv, TypeOK
<1> QED
  BY <1>1, NumbersType DEF BeginShutdown, FreeSlot, TypeInv, TypeOK, StageOK, world

LEMMA ReportType ==
  ASSUME TypeInv, NEW w \in Requests, NEW ev \in Events, NEW ok \in BOOLEAN, Report(w, ev, ok)
  PROVE  TypeInv'
PROOF
<1>1. work[w] \in WorkType
  BY DEF TypeInv, TypeOK
<1>2. work[w].pending \ {ev} \in SUBSET Events /\ (work[w].failed \/ ~ok) \in BOOLEAN
  BY <1>1 DEF WorkType
<1>3. [work[w] EXCEPT !.pending = @ \ {ev}, !.failed = @ \/ ~ok] \in WorkType
  <2>1. \A p \in SUBSET Events, f \in BOOLEAN :
          [work[w] EXCEPT !.pending = p, !.failed = f] \in WorkType
    BY <1>1, Zenon DEF WorkType
  <2> QED
    BY <1>2, <2>1
<1>4. work' = [work EXCEPT ![w] = [work[w] EXCEPT !.pending = @ \ {ev}, !.failed = @ \/ ~ok]]
  BY DEF Report, TypeInv, TypeOK
<1>5. work' \in [Requests -> WorkType]
  BY <1>3, <1>4, WorkUpdate DEF TypeInv, TypeOK
<1> QED
  BY <1>5 DEF Report, TypeInv, TypeOK, StageOK, slots, gates

LEMMA TickType == ASSUME TypeInv, Tick PROVE TypeInv'
PROOF
<1>1. \A x, y \in Int : Ticked(x, y) \in Int
  BY DEF Ticked
<1>2. ASSUME NEW w \in Requests PROVE TickedWork(work[w]) \in WorkType
  <2>1. work[w] \in WorkType /\ work[w].deadline \in Int /\ work[w].cleanupBy \in Int
        /\ work[w].settleBy \in Int
    BY DEF TypeInv, TypeOK, WorkType
  <2>2. \A x, y, z \in Int :
          [work[w] EXCEPT !.deadline = x, !.cleanupBy = y, !.settleBy = z] \in WorkType
    BY <2>1, Zenon DEF WorkType
  <2>3. /\ Ticked(work[w].deadline, -SettleGrace) \in Int
        /\ Ticked(work[w].cleanupBy, -SettleGrace) \in Int
        /\ (IF work[w].settleBy = Never THEN work[w].settleBy
             ELSE Ticked(work[w].settleBy, 0)) \in Int
    <3>1. -SettleGrace \in Int /\ 0 \in Int
      BY NumbersType
    <3> QED
      BY <1>1, <2>1, <3>1
  <2> QED
    BY <2>2, <2>3, Zenon DEF TickedWork
<1>3. work' \in [Requests -> WorkType] /\ shutBy' \in Int
  BY <1>1, <1>2 DEF Tick, TypeInv, TypeOK
<1> QED
  BY <1>3 DEF Tick, TypeInv, TypeOK, StageOK, slots, world

(* The stages of a turn.                                                   *)

LEMMA SettleType ==
  ASSUME TypeInv, NEW fate \in [Requests -> Codes \cup {"ok"}], NEW lost \in Losses,
         Settle(fate, lost)
  PROVE  TypeInv'
PROOF
<1> DEFINE first == [w \in Requests |-> IF Settleable(Settling(w))
                                        THEN Settled(Settling(w), fate[w]) ELSE Settling(w)]
           answerable(w) == w \in Controls /\ joined[w] # None /\ first[w].phase = "live"
<1>1. first \in [Requests -> WorkType]
  <2> SUFFICES ASSUME NEW w \in Requests PROVE first[w] \in WorkType
    OBVIOUS
  <2>1. Settling(w) \in WorkType
    BY ClampType DEF Settling, TypeInv, TypeOK
  <2> QED
    BY <2>1, SettledType
<1> HIDE DEF first
<1>2. ASSUME NEW w \in Requests, answerable(w)
      PROVE  /\ Joined(first[w], first[joined[w]], w \in lost) \in WorkType
             /\ Finished([first[w] EXCEPT !.err = "timeout"], FALSE, w \in lost) \in WorkType
  <2>1. first[w] \in WorkType /\ first[joined[w]] \in WorkType /\ (w \in lost) \in BOOLEAN
    BY <1>1, <1>2 DEF TypeInv, TypeOK, Requests
  <2>2. [first[w] EXCEPT !.err = "timeout"] \in WorkType
    BY <2>1, Zenon DEF WorkType, Codes
  <2> QED
    BY <2>1, <2>2, JoinedType, FinishedType
<1>3. /\ work' = [w \in Requests |->
             IF ~answerable(w) THEN first[w]
             ELSE IF Final(first[joined[w]])
                  THEN Joined(first[w], first[joined[w]], w \in lost)
             ELSE IF Late(first[w])
                  THEN Finished([first[w] EXCEPT !.err = "timeout"], FALSE, w \in lost)
             ELSE first[w]]
      /\ joined' = [w \in Controls |-> IF work'[w].phase = "live" THEN joined[w] ELSE None]
  BY Zenon DEF Settle, first
<1> HIDE DEF answerable
<1>4. work' \in [Requests -> WorkType]
  <2>1. ASSUME NEW w \in Requests PROVE work'[w] \in WorkType
    BY <1>1, <1>2, <1>3
  <2> QED
    BY <1>3, <2>1
<1>5. joined' \in [Controls -> Controls \cup {None}]
  BY <1>3 DEF TypeInv, TypeOK
<1> QED
  BY <1>4, <1>5 DEF Settle, AfterSettle, Stages, TypeInv, TypeOK, StageOK, gates, world

LEMMA ExpireType ==
  ASSUME TypeInv, NEW lost \in Losses, Expire(lost)
  PROVE  TypeInv'
PROOF
<1>1. ASSUME NEW w \in Requests
      PROVE  /\ Cancelled(work[w], w, "timeout", FALSE, w \in lost) \in WorkType
             /\ Finished([work[w] EXCEPT !.err = "timeout"], FALSE, w \in lost) \in WorkType
  <2>1. work[w] \in WorkType /\ (w \in lost) \in BOOLEAN /\ "timeout" \in Codes
    BY DEF TypeInv, TypeOK, Codes
  <2>2. [work[w] EXCEPT !.err = "timeout"] \in WorkType
    BY <2>1, Zenon DEF WorkType
  <2> QED
    BY <2>1, <2>2, CancelledType, FinishedType
<1>2. work' \in [Requests -> WorkType]
  BY <1>1 DEF Expire, TypeInv, TypeOK
<1>3. place' \in [Ordinary -> Nat] /\ waiters' \in SUBSET Controls
  BY DEF Expire, TypeInv, TypeOK
<1> QED
  BY <1>2, <1>3 DEF Expire, AfterActive, Stages, TypeInv, TypeOK, StageOK, Requests,
       gates, world

LEMMA LifecycleType ==
  ASSUME TypeInv, NEW raised \in BOOLEAN, NEW lost \in Losses, Lifecycle(raised, lost)
  PROVE  TypeInv'
PROOF
<1>1. lifecycle \in Controls /\ lifecycle \in Requests
  BY DEF Lifecycle, TypeInv, TypeOK, StageOK, Requests
<1>2. FailedClosed([work EXCEPT ![lifecycle].err = "timeout"], lifecycle, raised, lost)
        \in [Requests -> WorkType]
  <2>1. [work[lifecycle] EXCEPT !.err = "timeout"] \in WorkType
    <3>1. work[lifecycle] \in WorkType
      BY <1>1 DEF TypeInv, TypeOK
    <3> QED
      BY <3>1, Zenon DEF WorkType, Codes
  <2>2. [work EXCEPT ![lifecycle].err = "timeout"] \in [Requests -> WorkType]
    BY <2>1, WorkUpdate DEF TypeInv, TypeOK
  <2> QED
    BY <2>2, FailedClosedType
<1>3. work' \in [Requests -> WorkType]
  BY <1>2 DEF Lifecycle, TypeInv, TypeOK
<1>4. active' \in Ordinary \cup {None}
  BY DEF Lifecycle, FreeSlot, TypeInv, TypeOK
<1>5. stopping' \in BOOLEAN /\ unavailable' \in BOOLEAN /\ shutBy' \in Int
      /\ mode' \in {"run", "cancel", "over"}
  BY NumbersType DEF Lifecycle, Escalate, TypeInv, TypeOK, gates
<1> QED
  BY <1>1, <1>3, <1>4, <1>5 DEF Lifecycle, Stages, TypeInv, TypeOK, StageOK, world

LEMMA ReleaseType ==
  ASSUME TypeInv, NEW lost \in Losses, Release(lost)
  PROVE  TypeInv'
PROOF
<1>1. lifecycle \in Requests /\ work[lifecycle] \in WorkType
  BY DEF Release, TypeInv, TypeOK, StageOK, Requests
<1>2. ASSUME NEW w \in Requests
      PROVE  Joined(work[w], work[lifecycle], w \in lost) \in WorkType
  <2>1. work[w] \in WorkType /\ (w \in lost) \in BOOLEAN
    BY DEF TypeInv, TypeOK
  <2> QED
    BY <1>1, <2>1, JoinedType
<1>3. work' \in [Requests -> WorkType]
  BY <1>2 DEF Release, TypeInv, TypeOK
<1> QED
  BY <1>3 DEF Release, Stages, TypeInv, TypeOK, StageOK, gates, world

LEMMA StartType == ASSUME TypeInv, Start PROVE TypeInv'
PROOF
<1>1. pc' \in Stages /\ ret' \in Stages /\ adv' \in Requests \cup {None}
  BY DEF Start, AfterStart, Stages, TypeInv, TypeOK, Requests
<1>2. active' \in Ordinary \cup {None}
  BY DEF Start, TypeInv, TypeOK
<1>3. place' \in [Ordinary -> Nat]
  BY DEF Start, TypeInv, TypeOK
<1>4. TypeOK'
  BY <1>1, <1>2, <1>3 DEF Start, TypeInv, TypeOK, gates, world
<1>5. StageOK'
  BY DEF Start, AfterStart, TypeInv, TypeOK, StageOK, Requests
<1> QED
  BY <1>4, <1>5 DEF TypeInv

LEMMA UnavailableType ==
  ASSUME TypeInv, NEW lost \in Losses, Unavailable(lost)
  PROVE  TypeInv'
PROOF
<1>1. ASSUME NEW w \in Requests
      PROVE  Finished([work[w] EXCEPT !.err = "session_unavailable"], FALSE, w \in lost) \in WorkType
  <2>1. work[w] \in WorkType /\ (w \in lost) \in BOOLEAN
    BY DEF TypeInv, TypeOK
  <2>2. [work[w] EXCEPT !.err = "session_unavailable"] \in WorkType
    BY <2>1, Zenon DEF WorkType, Codes
  <2> QED
    BY <2>1, <2>2, FinishedType
<1>2. work' \in [Requests -> WorkType]
  BY <1>1 DEF Unavailable, TypeInv, TypeOK
<1>3. place' \in [Ordinary -> Nat]
  <2>1. [w \in Ordinary |-> 0] \in [Ordinary -> Nat]
    OBVIOUS
  <2> QED
    BY <2>1, Zenon DEF Unavailable, TypeInv, TypeOK
<1> QED
  BY <1>2, <1>3 DEF Unavailable, Stages, TypeInv, TypeOK, StageOK, gates, world

LEMMA DrainType ==
  ASSUME TypeInv, NEW slot \in Requests \cup {None}, NEW here \in {"drain", "drainLifecycle"},
         NEW next \in {"drainLifecycle", "drained"}, Drain(slot, here, next)
  PROVE  TypeInv'
PROOF
<1>1. slot # None => ClampCleanup(work[slot], shutBy) \in WorkType
  BY ClampType DEF TypeInv, TypeOK
<1>2. work' \in [Requests -> WorkType]
  BY <1>1, WorkUpdate DEF Drain, TypeInv, TypeOK
<1> QED
  BY <1>2 DEF Drain, Stages, TypeInv, TypeOK, StageOK, slots, gates, world

LEMMA DrainedType == ASSUME TypeInv, Drained PROVE TypeInv'
BY DEF Drained, Stages, TypeInv, TypeOK, StageOK, slots, world

(* _advance.  Each of its steps updates the one work it runs on.           *)

Advancing == pc \in {"advance", "gate", "returned"}

LEMMA BackType ==
  ASSUME TypeInv, Advancing, Back,
         work' \in [Requests -> WorkType], active' \in Ordinary \cup {None},
         effect' \in [Requests -> {"none", "intent", "dirty", "clean"}],
         stopping' \in BOOLEAN, unavailable' \in BOOLEAN, shutBy' \in Int,
         mode' \in {"run", "cancel", "over"},
         UNCHANGED <<place, lifecycle, waiters, joined, durable>>
  PROVE  TypeInv'
BY DEF Back, Advancing, Stages, TypeInv, TypeOK, StageOK

LEMMA AdvTyped ==
  ASSUME TypeInv, Advancing
  PROVE  /\ adv \in Requests /\ work[adv] \in WorkType
         /\ \A k \in WorkType : [work EXCEPT ![adv] = k] \in [Requests -> WorkType]
         /\ \A wk : FreeSlot(wk) => active' \in Ordinary \cup {None}
         /\ \A task \in {"none", "built", "stepped"} : [work[adv] EXCEPT !.task = task] \in WorkType
PROOF
<1>1. adv \in Requests /\ work[adv] \in WorkType
  BY DEF TypeInv, TypeOK, StageOK, Advancing
<1>2. \A k \in WorkType : [work EXCEPT ![adv] = k] \in [Requests -> WorkType]
  BY WorkUpdate DEF TypeInv, TypeOK
<1>3. \A wk : FreeSlot(wk) => active' \in Ordinary \cup {None}
  BY DEF FreeSlot, TypeInv, TypeOK
<1>4. \A task \in {"none", "built", "stepped"} : [work[adv] EXCEPT !.task = task] \in WorkType
  BY <1>1, Zenon DEF WorkType
<1> QED
  BY <1>1, <1>2, <1>3, <1>4

LEMMA AdvanceOverType == ASSUME TypeInv, AdvanceOver PROVE TypeInv'
PROOF
<1>1. Advancing
  BY DEF Advancing, AdvanceOver
<1>2. Settled(work[adv], "ok") \in WorkType
  BY <1>1, AdvTyped, SettledType
<1>3. work' \in [Requests -> WorkType]
  BY <1>1, <1>2, AdvTyped DEF AdvanceOver, TypeInv, TypeOK
<1> QED
  BY <1>1, <1>3, BackType DEF AdvanceOver, TypeInv, TypeOK, slots, gates, world

LEMMA TroubleType ==
  ASSUME NEW k \in WorkType, NEW w PROVE Trouble(k, w) \in Codes \cup {"none"}
BY DEF Trouble, Codes, WorkType

LEMMA AdvanceTroubledType ==
  ASSUME TypeInv, NEW confirmed \in BOOLEAN, NEW raised \in BOOLEAN, NEW lost \in Losses,
         AdvanceTroubled(confirmed, raised, lost)
  PROVE  TypeInv'
PROOF
<1> DEFINE k == Cancelled(work[adv], adv, Trouble(work[adv], adv), raised, adv \in lost)
           tried == [work EXCEPT ![adv] = k]
<1>1. Advancing
  BY DEF Advancing, AdvanceTroubled
<1>2. Trouble(work[adv], adv) \in Codes /\ (adv \in lost) \in BOOLEAN
  BY <1>1, AdvTyped, TroubleType DEF AdvanceTroubled
<1>3. k \in WorkType
  BY <1>1, <1>2, AdvTyped, CancelledType
<1>4. tried \in [Requests -> WorkType]
  BY <1>1, <1>3, AdvTyped
<1>5. [work EXCEPT ![adv].err = "timeout"] \in [Requests -> WorkType]
  <2>1. [work[adv] EXCEPT !.err = "timeout"] \in WorkType
    BY <1>1, AdvTyped, ZenonT(40) DEF WorkType, Codes
  <2> QED
    BY <1>1, <2>1, AdvTyped
<1>6. /\ FailedClosed([work EXCEPT ![adv].err = "timeout"], adv, raised, lost) \in [Requests -> WorkType]
      /\ FailedClosed(tried, adv, raised, lost) \in [Requests -> WorkType]
  BY <1>4, <1>5, FailedClosedType
<1>7. [work EXCEPT ![adv] = Finished(k, FALSE, adv \in lost)] \in [Requests -> WorkType]
  BY <1>1, <1>2, <1>3, AdvTyped, FinishedType
<1> HIDE DEF k, tried
<1>8. work' \in { FailedClosed([work EXCEPT ![adv].err = "timeout"], adv, raised, lost),
                  FailedClosed(tried, adv, raised, lost),
                  [work EXCEPT ![adv] = Finished(k, FALSE, adv \in lost)], tried }
  BY DEF AdvanceTroubled, k, tried
<1>9. work' \in [Requests -> WorkType]
  BY <1>4, <1>6, <1>7, <1>8
<1>10. effect' \in [Requests -> {"none", "intent", "dirty", "clean"}]
  BY DEF AdvanceTroubled, TypeInv, TypeOK
<1>11. /\ stopping' \in BOOLEAN /\ unavailable' \in BOOLEAN /\ shutBy' \in Int
       /\ mode' \in {"run", "cancel", "over"}
  BY NumbersType DEF AdvanceTroubled, Escalate, TypeInv, TypeOK, gates
<1>12. /\ Back /\ active' \in Ordinary \cup {None}
       /\ UNCHANGED <<place, lifecycle, waiters, joined, durable>>
  BY <1>1, AdvTyped DEF AdvanceTroubled
<1> QED
  BY <1>1, <1>9, <1>10, <1>11, <1>12, BackType

LEMMA BuildType ==
  ASSUME TypeInv, NEW made \in {"built", "timeout", "task_error"}, NEW lost \in Losses,
         Build(made, lost)
  PROVE  TypeInv'
PROOF
<1> DEFINE k == IF adv \in Ordinary \ lost THEN Observe(work[adv], "started", FALSE) ELSE work[adv]
           refused == adv \in Ordinary \cap lost
           code == IF refused THEN "artifact_failed" ELSE made
<1>1. Advancing
  BY DEF Advancing, Build
<1>2. k \in WorkType
  BY <1>1, AdvTyped, ObserveType DEF Events
<1>3. [k EXCEPT !.task = "built"] \in WorkType
  <2> HIDE DEF k
  <2> QED
    BY <1>2, Zenon DEF WorkType
<1>4. code # "built" => Cancelled(k, adv, code, FALSE, refused) \in WorkType
  <2>1. code # "built" => code \in Codes
    BY DEF Codes
  <2>2. refused \in BOOLEAN
    OBVIOUS
  <2> HIDE DEF k, code, refused
  <2> QED
    BY <1>2, <2>1, <2>2, CancelledType
<1>5. \/ /\ code = "built"
         /\ work' = [work EXCEPT ![adv] = [k EXCEPT !.task = "built"]]
         /\ pc' = "gate" /\ UNCHANGED <<adv, ret>>
      \/ /\ code # "built"
         /\ work' = [work EXCEPT ![adv] = Cancelled(k, adv, code, FALSE, refused)]
         /\ Back
  BY Zenon DEF Build
<1> HIDE DEF k, code, refused
<1>6. work' \in [Requests -> WorkType]
  BY <1>1, <1>3, <1>4, <1>5, AdvTyped
<1>7. active' \in Ordinary \cup {None}
  BY <1>1, AdvTyped DEF Build
<1>8. UNCHANGED <<place, lifecycle, waiters, joined, gates, world>>
  BY DEF Build
<1>9. CASE Back
  BY <1>1, <1>6, <1>7, <1>8, <1>9, BackType DEF TypeInv, TypeOK, gates, world
<1>10. CASE pc' = "gate" /\ UNCHANGED <<adv, ret>>
  BY <1>1, <1>6, <1>7, <1>8, <1>10
     DEF TypeInv, TypeOK, StageOK, Stages, Advancing, gates, world
<1> QED
  BY <1>5, <1>9, <1>10

LEMMA ResumeType == ASSUME TypeInv, Resume PROVE TypeInv'
BY DEF Resume, Stages, TypeInv, TypeOK, StageOK, slots, gates, world

LEMMA GateHoldType == ASSUME TypeInv, GateHold PROVE TypeInv'
PROOF
<1>1. Advancing
  BY DEF Advancing, GateHold
<1> QED
  BY <1>1, BackType DEF GateHold, TypeInv, TypeOK, slots, gates, world

\* Cancelling the work that is advanced, after an update k of it.
LEMMA CancelAdv ==
  ASSUME TypeInv, Advancing, NEW k \in WorkType, NEW code \in Codes, NEW raised \in BOOLEAN,
         NEW lost
  PROVE  [work EXCEPT ![adv] = Cancelled(k, adv, code, raised, adv \in lost)]
           \in [Requests -> WorkType]
PROOF
<1>1. (adv \in lost) \in BOOLEAN
  OBVIOUS
<1>2. Cancelled(k, adv, code, raised, adv \in lost) \in WorkType
  BY <1>1, CancelledType
<1> QED
  BY <1>2, AdvTyped

LEMMA GateLateType ==
  ASSUME TypeInv, NEW raised \in BOOLEAN, NEW lost \in Losses, GateLate(raised, lost)
  PROVE  TypeInv'
PROOF
<1> DEFINE k == [work[adv] EXCEPT !.task = "stepped"]
<1>1. Advancing
  BY DEF Advancing, GateLate
<1>2. k \in WorkType
  BY <1>1, AdvTyped
<1>3. work' = [work EXCEPT ![adv] = Cancelled(k, adv, "timeout", raised, adv \in lost)]
  BY DEF GateLate
<1> HIDE DEF k
<1>4. work' \in [Requests -> WorkType]
  BY <1>1, <1>2, <1>3, CancelAdv DEF Codes
<1> QED
  BY <1>1, <1>4, BackType DEF GateLate, TypeInv, TypeOK, slots, gates, world

LEMMA StepWaitType == ASSUME TypeInv, StepWait PROVE TypeInv'
PROOF
<1>1. Advancing
  BY DEF Advancing, StepWait, MayStep
<1>2. Stepped(work[adv]) \in WorkType
  BY <1>1, AdvTyped DEF Stepped
<1>3. work' \in [Requests -> WorkType]
  BY <1>1, <1>2, AdvTyped DEF StepWait
<1> QED
  BY <1>1, <1>3, BackType DEF StepWait, TypeInv, TypeOK, slots, gates, world

LEMMA StepEffectsType ==
  ASSUME TypeInv, NEW raised \in BOOLEAN, NEW lost \in Losses, StepEffects(raised, lost)
  PROVE  TypeInv'
PROOF
<1> DEFINE partial == [Stepped(work[adv]) EXCEPT !.outcome = "partial"]
           k == Observe(partial, "effects", adv \in lost)
<1>1. Advancing
  BY DEF Advancing, StepEffects, MayStep
<1>2. partial \in WorkType
  <2>1. Stepped(work[adv]) \in WorkType
    BY <1>1, AdvTyped DEF Stepped
  <2> QED
    BY <2>1, Zenon DEF WorkType
<1>3. k \in WorkType
  <2>1. (adv \in lost) \in BOOLEAN
    OBVIOUS
  <2> HIDE DEF partial
  <2> QED
    BY <1>2, <2>1, ObserveType DEF Events
<1> HIDE DEF k
<1>4. work' \in { [work EXCEPT ![adv] = k],
                  [work EXCEPT ![adv] = Cancelled(k, adv, "artifact_failed", raised, adv \in lost)] }
  BY DEF StepEffects, k
<1>5. work' \in [Requests -> WorkType]
  <2>1. [work EXCEPT ![adv] = k] \in [Requests -> WorkType]
    BY <1>1, <1>3, AdvTyped
  <2>2. [work EXCEPT ![adv] = Cancelled(k, adv, "artifact_failed", raised, adv \in lost)]
          \in [Requests -> WorkType]
    BY <1>1, <1>3, CancelAdv DEF Codes
  <2> QED
    BY <1>4, <2>1, <2>2
<1>6. effect' \in [Requests -> {"none", "intent", "dirty", "clean"}]
  BY DEF StepEffects, TypeInv, TypeOK
<1>7. Back /\ UNCHANGED <<slots, gates, durable>>
  BY DEF StepEffects
<1> QED
  BY <1>1, <1>5, <1>6, <1>7, BackType DEF TypeInv, TypeOK, slots, gates

LEMMA StepEmitType == ASSUME TypeInv, StepEmit PROVE TypeInv'
PROOF
<1>1. Advancing
  BY DEF Advancing, StepEmit, MayStep
<1>2. Stepped(work[adv]) \in WorkType
  BY <1>1, AdvTyped DEF Stepped
<1>3. work' \in [Requests -> WorkType]
  BY <1>1, <1>2, AdvTyped DEF StepEmit
<1>4. effect' \in [Requests -> {"none", "intent", "dirty", "clean"}]
  BY DEF StepEmit, TypeInv, TypeOK
<1> QED
  BY <1>1, <1>3, <1>4, BackType DEF StepEmit, TypeInv, TypeOK, slots, gates

LEMMA StepResultType == ASSUME TypeInv, StepResult PROVE TypeInv'
PROOF
<1>1. Advancing
  BY DEF Advancing, StepResult, MayStep
<1>2. Stepped(work[adv]) \in WorkType
  BY <1>1, AdvTyped DEF Stepped
<1>3. work' \in [Requests -> WorkType]
  BY <1>1, <1>2, AdvTyped DEF StepResult
<1>4. effect' \in [Requests -> {"none", "intent", "dirty", "clean"}]
  BY DEF StepResult, TypeInv, TypeOK
<1> QED
  BY <1>1, <1>3, <1>4
  DEF StepResult, MayStep, Stages, TypeInv, TypeOK, StageOK, slots, gates

LEMMA StepRaiseType ==
  ASSUME TypeInv, NEW outcome \in {"not_started", "unknown"}, NEW raised \in BOOLEAN,
         NEW lost \in Losses, StepRaise(outcome, raised, lost)
  PROVE  TypeInv'
PROOF
<1> DEFINE k == IF outcome = "not_started" THEN Stepped(work[adv])
                ELSE [Stepped(work[adv]) EXCEPT !.outcome = outcome]
<1>1. Advancing
  BY DEF Advancing, StepRaise, MayStep
<1>2. k \in WorkType
  <2>1. Stepped(work[adv]) \in WorkType
    BY <1>1, AdvTyped DEF Stepped
  <2>2. [Stepped(work[adv]) EXCEPT !.outcome = outcome] \in WorkType
    BY <2>1, Zenon DEF WorkType
  <2> QED
    BY <2>1, <2>2
<1>3. work' = [work EXCEPT ![adv] = Cancelled(k, adv, "task_error", raised, adv \in lost)]
  BY Zenon DEF StepRaise, k
<1> HIDE DEF k
<1>4. work' \in [Requests -> WorkType]
  BY <1>1, <1>2, <1>3, CancelAdv DEF Codes
<1> QED
  BY <1>1, <1>4, BackType DEF StepRaise, TypeInv, TypeOK, slots, gates, world

LEMMA ReturnType ==
  ASSUME TypeInv, NEW raised \in BOOLEAN, NEW lost \in Losses, Return(raised, lost)
  PROVE  TypeInv'
PROOF
<1>1. Advancing
  BY DEF Advancing, Return
<1>2. Doubt(work[adv]) \in WorkType
  <2>1. \A o \in {"not_started", "partial", "unknown"} : [work[adv] EXCEPT !.outcome = o] \in WorkType
    BY <1>1, AdvTyped, ZenonT(40) DEF WorkType
  <2>2. work[adv].outcome \in {"not_started", "partial", "unknown"}
    BY <1>1, AdvTyped DEF WorkType
  <2> QED
    BY <2>1, <2>2 DEF Doubt
<1>3. Finished(work[adv], TRUE, adv \in lost) \in WorkType
  <2>1. (adv \in lost) \in BOOLEAN
    OBVIOUS
  <2> QED
    BY <1>1, <2>1, AdvTyped, FinishedType
<1>4. work' \in { [work EXCEPT ![adv] = Finished(work[adv], TRUE, adv \in lost)],
                  [work EXCEPT ![adv] = Cancelled(Doubt(work[adv]), adv, "timeout", raised, adv \in lost)] }
  BY DEF Return
<1>5. work' \in [Requests -> WorkType]
  <2>1. [work EXCEPT ![adv] = Finished(work[adv], TRUE, adv \in lost)] \in [Requests -> WorkType]
    BY <1>1, <1>3, AdvTyped
  <2>2. [work EXCEPT ![adv] = Cancelled(Doubt(work[adv]), adv, "timeout", raised, adv \in lost)]
          \in [Requests -> WorkType]
    BY <1>1, <1>2, CancelAdv DEF Codes
  <2> QED
    BY <1>4, <2>1, <2>2
<1>6. active' \in Ordinary \cup {None}
  BY <1>1, AdvTyped DEF Return
<1>7. Back /\ UNCHANGED <<place, lifecycle, waiters, joined, gates, world>>
  BY DEF Return
<1> QED
  BY <1>1, <1>5, <1>6, <1>7, BackType DEF TypeInv, TypeOK, gates, world

-----------------------------------------------------------------------------
LEMMA AdvanceTyped == ASSUME TypeInv, Advance PROVE TypeInv'
BY AdvanceOverType, AdvanceTroubledType, BuildType, ResumeType, GateHoldType, GateLateType,
   StepWaitType, StepEffectsType, StepEmitType, StepResultType, StepRaiseType, ReturnType
   DEF Advance

LEMMA FatedType == Fated \subseteq [Requests -> Codes \cup {"ok"}]
BY DEF Fated, Codes

LEMMA TurnTyped == ASSUME TypeInv, Turn PROVE TypeInv'
PROOF
<1>1. ASSUME NEW fate \in Fated, NEW lost \in Losses, Settle(fate, lost)
      PROVE  TypeInv'
  <2>1. fate \in [Requests -> Codes \cup {"ok"}]
    BY FatedType
  <2> QED
    BY <1>1, <2>1, SettleType
<1>2. active \in Requests \cup {None} /\ lifecycle \in Requests \cup {None}
  BY DEF TypeInv, TypeOK, Requests
<1>3. CASE Drain(active, "drain", "drainLifecycle")
  BY <1>2, <1>3, DrainType
<1>4. CASE Drain(lifecycle, "drainLifecycle", "drained")
  BY <1>2, <1>4, DrainType
<1> QED
  BY <1>1, <1>3, <1>4, ExpireType, LifecycleType, ReleaseType, StartType, UnavailableType,
     DrainedType, AdvanceTyped DEF Turn

LEMMA DispatchTyped == ASSUME TypeInv, Dispatch PROVE TypeInv'
PROOF
<1>1. ASSUME NEW w \in Ordinary, Refuse(w) PROVE TypeInv'
  BY <1>1, RefuseType DEF Refuse, Requests, Codes
<1>2. ASSUME NEW w \in Controls, NEW expired \in BOOLEAN, RefuseControl(w, expired) PROVE TypeInv'
  BY <1>2, RefuseType DEF RefuseControl, Requests, Codes
<1> QED
  BY <1>1, <1>2, AdmitType, CancelType, AdmitControlType, BeginShutdownType DEF Dispatch

LEMMA TypeStep == ASSUME TypeInv, [Next]_vars PROVE TypeInv'
PROOF
<1>1. CASE Next
  BY <1>1, DispatchTyped, TurnTyped, ReportType, TickType DEF Next
<1>2. CASE UNCHANGED vars
  BY <1>2 DEF vars, TypeInv, TypeOK, StageOK
<1> QED
  BY <1>1, <1>2

\* The scheduler's state always has its type, for any requests and budgets.
THEOREM TypeCorrect == Spec => []TypeOK
PROOF
<1>1. TypeInv => TypeOK
  BY DEF TypeInv
<1> QED
  BY InitType, TypeStep, <1>1, PTL DEF Spec

-----------------------------------------------------------------------------
(* Records.  A record that was queued is on disk, or still pending, or its     *)
(* loss is latched; and what the code does next depends on which of the three. *)

\* Of a request w with the Work record k, the records dur on disk and the effect eff.
Saved(k, dur, ev) == ev \in k.pending \cup dur \/ k.failed

Admission(w) == IF w \in Controls THEN "control_admitted" ELSE "admitted"

Underway(k) == k.phase \in {"live", "finishing"}

\* A request not submitted has done nothing; an admitted one has queued its records.
Fresh(k, eff) == k.phase = "new" => eff = "none"
Admitted(w, k, dur) == Underway(k) => Saved(k, dur, Admission(w))
Finalized(k, dur) == k.phase = "finishing" => Saved(k, dur, "finalizing")
Started(w, k, dur) ==
  w \in Ordinary /\ Underway(k) /\ k.task # "none" => Saved(k, dur, "started")

\* An ordinary request that ends without an error had a task.
Decided(w, k) == w \in Ordinary /\ k.phase = "finishing" /\ k.err = "none" => k.task # "none"

\* The record of an intent was queued; a task that does not gate was held at its
\* first step until the records before it were on disk.
Intended(w, k, dur, eff) == w \in Ordinary /\ eff = "intent" => Saved(k, dur, "effects")
Stepping(w, k, dur) ==
  w \in Ordinary \ Gating /\ k.phase = "live" /\ k.task = "stepped" /\ ~k.failed
    => {"admitted", "started"} \subseteq dur

\* The properties to prove.
EmittedOf(w, dur, eff) ==
  w \in Ordinary /\ eff \in {"dirty", "clean"} =>
    /\ {"admitted", "started"} \subseteq dur
    /\ w \in Gating => "effects" \in dur
SucceededOf(w, k, dur) ==
  k.answer = "ok" =>
    /\ k.phase = "terminal"
    /\ ~k.failed /\ ~Pending(k) /\ "finalizing" \in dur
    /\ w \in Ordinary => {"admitted", "started"} \subseteq dur
    /\ w \in Controls => "control_admitted" \in dur

Kept(w, k, dur, eff) ==
  /\ Fresh(k, eff) /\ Admitted(w, k, dur) /\ Finalized(k, dur) /\ Started(w, k, dur)
  /\ Decided(w, k) /\ Intended(w, k, dur, eff) /\ Stepping(w, k, dur)
  /\ EmittedOf(w, dur, eff) /\ SucceededOf(w, k, dur)

\* The work that is about to be stepped, or has returned, is undecided.
AtGate ==
  /\ pc \in {"gate", "returned"} => work[adv].phase = "live" /\ work[adv].err = "none"
  /\ pc = "gate" => work[adv].task # "none" /\ (adv \in Ordinary => ~work[adv].failed)
  /\ pc = "returned" => work[adv].task = "stepped"

KeptAll == \A w \in Requests : Kept(w, work[w], durable[w], effect[w])

RecordsInv == AtGate /\ KeptAll

(* The operators on a Work record only add records and only move it forward.  *)

Evolves(k, j) ==
  /\ k.failed => j.failed
  /\ k.pending \subseteq j.pending
  /\ j.task = k.task
  /\ \/ j.phase = k.phase
     \/ k.phase \in {"new", "finishing"} /\ j.phase = "terminal"
     \/ k.phase = "live" /\ j.phase \in {"finishing", "terminal"}
  /\ k.phase = "live" /\ j.phase = "finishing" => "finalizing" \in j.pending \/ j.failed
  /\ k.phase = "terminal" =>
       j.pending = k.pending /\ j.failed = k.failed /\ j.answer = k.answer
  /\ k.answer # "ok" /\ j.answer = "ok" =>
       /\ k.phase = "finishing" /\ k.err = "none" /\ j.phase = "terminal"
       /\ j.pending = {} /\ ~j.failed

\* All but a result's and a joiner's _finish decide an error when they decide.
Errs(k, j) ==
  /\ j.phase = "finishing" /\ j.err = "none" => k.phase = "finishing"
  /\ k.err # "none" => j.err # "none"

Steady(k, j) == Evolves(k, j) /\ Errs(k, j)

LEMMA SteadyTrans ==
  ASSUME NEW k \in WorkType, NEW j \in WorkType, NEW i \in WorkType, Steady(k, j), Steady(j, i)
  PROVE  Steady(k, i)
BY DEF Steady, Evolves, Errs, WorkType

LEMMA SteadySame ==
  ASSUME NEW k \in WorkType, NEW j \in WorkType,
         j.failed = k.failed, j.pending = k.pending, j.task = k.task, j.phase = k.phase,
         j.answer = k.answer, k.err # "none" => j.err # "none"
  PROVE  Steady(k, j)
BY DEF Steady, Evolves, Errs, WorkType

LEMMA ObserveSteady ==
  ASSUME NEW k \in WorkType, k.phase = "live", NEW ev \in Events, NEW lost \in BOOLEAN
  PROVE  Steady(k, Observe(k, ev, lost))
BY DEF Steady, Evolves, Errs, Observe, WorkType

LEMMA SettledSteady ==
  ASSUME NEW k \in WorkType, k.phase = "finishing", k.answer # "ok",
         NEW fate \in Codes \cup {"ok"}
  PROVE  Steady(k, Settled(k, fate))
PROOF
<1> DEFINE d == IF Verdict(k, "ok") = "ok" /\ fate # "ok" THEN [k EXCEPT !.outcome = "unknown"]
                ELSE IF k.err = "none" /\ k.result /\ (Pending(k) \/ Late(k)) THEN Doubt(k)
                ELSE k
           j == Settled(k, fate)
<1>1. d.failed = k.failed /\ d.pending = k.pending /\ d.task = k.task /\ d \in WorkType
  <2>1. [k EXCEPT !.outcome = "unknown"] \in WorkType
    BY Zenon DEF WorkType
  <2> QED
    BY <2>1 DEF Doubt, WorkType
<1> HIDE DEF d
<1>2. j = [d EXCEPT !.phase = "terminal", !.answer = Verdict(k, fate),
                    !.err = IF Verdict(k, fate) = "ok" THEN "none" ELSE Verdict(k, fate),
                    !.failed = @ \/ Pending(k), !.deadline = 0, !.settleBy = 0]
  BY Zenon DEF Settled, d
<1>3. /\ j.phase = "terminal" /\ j.answer = Verdict(k, fate)
      /\ j.failed = (k.failed \/ Pending(k)) /\ j.pending = k.pending /\ j.task = k.task
      /\ j.err = IF Verdict(k, fate) = "ok" THEN "none" ELSE Verdict(k, fate)
  <2> HIDE DEF j
  <2> QED
    BY <1>1, <1>2 DEF WorkType
<1>4. Verdict(k, fate) = "ok" => k.err = "none" /\ ~Pending(k) /\ ~k.failed
  BY DEF Verdict, WorkType, Codes
<1>5. k.err # "none" => j.err # "none"
  <2>1. k.err # "none" => Verdict(k, fate) = k.err /\ k.err \in Codes
    BY DEF Verdict, WorkType
  <2> HIDE DEF j
  <2> QED
    BY <1>3, <2>1 DEF Codes
<1> HIDE DEF j
<1>6. Steady(k, j)
  BY <1>3, <1>4, <1>5 DEF Steady, Evolves, Errs, Pending, WorkType
<1> QED
  BY <1>6 DEF j

LEMMA FinishedEvolves ==
  ASSUME NEW k \in WorkType, k.answer # "ok", NEW result \in BOOLEAN, NEW lost \in BOOLEAN
  PROVE  /\ Evolves(k, Finished(k, result, lost))
         /\ k.err # "none" => Steady(k, Finished(k, result, lost))
PROOF
<1> DEFINE timed == [k EXCEPT !.err = IF @ = "none" /\ Late(k) THEN "timeout" ELSE @]
           seen == Observe(timed, "finalizing", lost)
           f == [seen EXCEPT
              !.phase = "finishing", !.result = result,
              !.settleBy = Lesser(@, Greater(k.deadline, k.cleanupBy) + SettleGrace),
              !.cleanupBy = -SettleGrace,
              !.deadline = IF timed.err = "none" THEN @ ELSE -SettleGrace]
<1>1. CASE k.phase # "live"
  <2>1. Finished(k, result, lost) = k
    BY <1>1 DEF Finished
  <2> QED
    BY <2>1, SteadySame DEF Steady
<1>2. CASE k.phase = "live"
  <2>1. timed \in WorkType
    BY DEF WorkType, Codes
  <2>2. /\ timed.phase = "live" /\ timed.answer = k.answer /\ timed.pending = k.pending
        /\ timed.failed = k.failed /\ timed.task = k.task
        /\ k.err # "none" => timed.err # "none"
    BY <1>2 DEF WorkType
  <2> HIDE DEF timed
  <2>3. seen \in WorkType
    BY <2>1, ObserveType DEF Events
  <2>4. /\ seen.answer = k.answer /\ k.pending \subseteq seen.pending
        /\ (k.failed => seen.failed) /\ seen.task = k.task /\ seen.err = timed.err
        /\ "finalizing" \in seen.pending \/ seen.failed
    BY <2>1, <2>2 DEF Observe, WorkType
  <2> HIDE DEF seen
  <2>5. /\ f.phase = "finishing" /\ f.answer = seen.answer /\ f.pending = seen.pending
        /\ f.failed = seen.failed /\ f.task = seen.task /\ f.err = seen.err
    BY <2>3 DEF WorkType
  <2>6. f \in WorkType
    <3>1. k.deadline \in Int /\ k.cleanupBy \in Int /\ seen.settleBy \in Int /\ seen.deadline \in Int
      BY <2>3 DEF WorkType
    <3>2. \A by, d \in Int :
            [seen EXCEPT !.phase = "finishing", !.result = result, !.settleBy = by,
                         !.cleanupBy = -SettleGrace, !.deadline = d] \in WorkType
      <4>1. -SettleGrace \in Int
        BY NumbersType
      <4> QED
        BY <2>3, <4>1, Zenon DEF WorkType
    <3>3. /\ Lesser(seen.settleBy, Greater(k.deadline, k.cleanupBy) + SettleGrace) \in Int
          /\ (IF timed.err = "none" THEN seen.deadline ELSE -SettleGrace) \in Int
      BY <3>1, NumbersType DEF Lesser, Greater
    <3> QED
      BY <3>2, <3>3
  <2>7. Finished(k, result, lost) = IF Settleable(f) THEN Settled(f, "ok") ELSE f
    BY <1>2 DEF Finished, seen, timed
  <2> HIDE DEF f
  <2>8. /\ Evolves(k, f)
        /\ k.err # "none" => Steady(k, f)
    BY <1>2, <2>2, <2>4, <2>5 DEF Steady, Evolves, Errs
  <2>9. Steady(f, Settled(f, "ok"))
    BY <2>4, <2>5, <2>6, SettledSteady
  <2>10. Settled(f, "ok") \in WorkType
    BY <2>6, SettledType
  <2>11. Evolves(k, Settled(f, "ok"))
    BY <1>2, <2>4, <2>5, <2>6, <2>8, <2>9, <2>10 DEF Steady, Evolves, Errs, WorkType
  <2>12. k.err # "none" => Steady(k, Settled(f, "ok"))
    BY <2>6, <2>8, <2>9, <2>10, SteadyTrans
  <2> QED
    BY <2>7, <2>8, <2>11, <2>12
<1> QED
  BY <1>1, <1>2

LEMMA CancelledSteady ==
  ASSUME NEW k \in WorkType, k.answer = "ok" => k.phase = "terminal", NEW w,
         NEW code \in Codes, NEW raised \in BOOLEAN, NEW lost \in BOOLEAN
  PROVE  Steady(k, Cancelled(k, w, code, raised, lost))
PROOF
<1>1. CASE k.err # "none" \/ k.phase # "live"
  BY <1>1, SteadySame DEF Cancelled
<1>2. CASE k.err = "none" /\ k.phase = "live" /\ k.task = "none"
  <2> DEFINE c == [k EXCEPT !.err = code]
  <2>1. c \in WorkType
    BY Zenon DEF WorkType
  <2>2. c.err # "none" /\ c.answer = k.answer /\ c.phase = k.phase
        /\ c.failed = k.failed /\ c.pending = k.pending /\ c.task = k.task
    BY DEF WorkType, Codes
  <2>3. Steady(k, c)
    BY <2>1, <2>2, SteadySame
  <2>4. Finished(c, FALSE, lost) \in WorkType
    BY <2>1, FinishedType
  <2>5. Steady(c, Finished(c, FALSE, lost))
    BY <1>2, <2>1, <2>2, FinishedEvolves
  <2>6. Cancelled(k, w, code, raised, lost) = Finished(c, FALSE, lost)
    BY <1>2 DEF Cancelled
  <2> QED
    BY <2>1, <2>3, <2>4, <2>5, <2>6, SteadyTrans
<1>3. CASE k.err = "none" /\ k.phase = "live" /\ k.task # "none"
  <2> DEFINE fails == raised /\ w \in Raising
             by == IF fails THEN 0
                   ELSE IF w \in Controls THEN Lesser(CleanupSeconds, k.deadline)
                   ELSE CleanupSeconds
             c == [k EXCEPT !.err = code, !.cleanupBy = by,
                            !.outcome = IF fails THEN "unknown" ELSE @]
  <2>1. by \in Int
    BY NumbersType DEF Lesser, WorkType
  <2>2. Cancelled(k, w, code, raised, lost) = Observe(c, "cancelling", lost)
    BY <1>3 DEF Cancelled
  <2> HIDE DEF by, fails
  <2>3. c \in WorkType
    <3>1. (IF fails THEN "unknown" ELSE k.outcome) \in {"not_started", "partial", "unknown"}
      BY DEF WorkType
    <3>2. \A o \in {"not_started", "partial", "unknown"} :
            [k EXCEPT !.err = code, !.cleanupBy = by, !.outcome = o] \in WorkType
      BY <2>1, Zenon DEF WorkType
    <3> QED
      BY <3>1, <3>2
  <2>4. /\ c.phase = "live" /\ c.failed = k.failed /\ c.pending = k.pending
        /\ c.task = k.task /\ c.answer = k.answer
    BY <1>3 DEF WorkType
  <2> HIDE DEF c
  <2>5. Steady(k, c)
    BY <1>3, <2>3, <2>4, SteadySame
  <2>6. Steady(c, Observe(c, "cancelling", lost)) /\ Observe(c, "cancelling", lost) \in WorkType
    BY <2>3, <2>4, ObserveSteady, ObserveType DEF Events
  <2> QED
    BY <2>2, <2>3, <2>5, <2>6, SteadyTrans
<1> QED
  BY <1>1, <1>2, <1>3

LEMMA JoinedEvolves ==
  ASSUME NEW k \in WorkType, k.answer = "ok" => k.phase = "terminal",
         NEW owner \in WorkType, NEW lost \in BOOLEAN
  PROVE  Evolves(k, Joined(k, owner, lost))
PROOF
<1> DEFINE c == [k EXCEPT !.err = owner.err, !.outcome = owner.outcome]
<1>1. c \in WorkType
  <2>1. owner.err \in Codes \cup {"none"} /\ owner.outcome \in {"not_started", "partial", "unknown"}
    BY DEF WorkType
  <2> QED
    BY <2>1, Zenon DEF WorkType
<1>2. /\ c.phase = k.phase /\ c.failed = k.failed /\ c.pending = k.pending
      /\ c.task = k.task /\ c.answer = k.answer
  BY DEF WorkType
<1>3. Joined(k, owner, lost) = Finished(c, owner.result, lost) /\ owner.result \in BOOLEAN
  BY DEF Joined, WorkType
<1> HIDE DEF c
<1>4. CASE k.phase # "live"
  <2>1. Finished(c, owner.result, lost) = c
    BY <1>2, <1>4 DEF Finished
  <2> QED
    BY <1>2, <1>3, <2>1 DEF Evolves
<1>5. CASE k.phase = "live"
  <2>1. Evolves(c, Finished(c, owner.result, lost))
    BY <1>1, <1>2, <1>3, <1>5, FinishedEvolves
  <2> QED
    BY <1>2, <1>3, <1>5, <2>1 DEF Evolves
<1> QED
  BY <1>4, <1>5

LEMMA ClampSteady ==
  ASSUME NEW k \in WorkType, NEW by \in Int
  PROVE  Steady(k, ClampCleanup(k, by)) /\ Steady(k, ClampSettle(k, by))
PROOF
<1>1. /\ ClampCleanup(k, by) \in WorkType /\ ClampSettle(k, by) \in WorkType
  BY ClampType
<1>2. \A j \in {ClampCleanup(k, by), ClampSettle(k, by)} :
        /\ j.phase = k.phase /\ j.failed = k.failed /\ j.pending = k.pending
        /\ j.task = k.task /\ j.answer = k.answer /\ j.err = k.err
  BY DEF ClampCleanup, ClampSettle, WorkType
<1> QED
  BY <1>1, <1>2, SteadySame

\* An answer of success is only ever given to a request that is over.
Answering(wk) == \A w \in Requests : wk[w].answer = "ok" => wk[w].phase = "terminal"

LEMMA ShutdownSteady ==
  ASSUME NEW wk \in [Requests -> WorkType], Answering(wk), NEW failure \in BOOLEAN,
         NEW raised \in BOOLEAN, NEW lost, NEW w \in Requests
  PROVE  Steady(wk[w], ShutdownWork(wk, failure, raised, lost)[w])
PROOF
<1> DEFINE code == IF failure /\ w \in Ordinary THEN "session_failed" ELSE "cancelled"
           stopped == Cancelled(wk[w], w, code, raised, w \in lost)
           clamped == ClampCleanup(stopped, ShutdownBudget)
<1>1. code \in Codes /\ wk[w] \in WorkType /\ (w \in lost) \in BOOLEAN /\ ShutdownBudget \in Int
  BY NumbersType DEF Codes
<1>2. stopped \in WorkType /\ Steady(wk[w], stopped)
  <2> HIDE DEF code
  <2> QED
    BY <1>1, CancelledType, CancelledSteady DEF Answering
<1>3. clamped \in WorkType /\ Steady(wk[w], clamped)
  <2> HIDE DEF stopped
  <2> QED
    BY <1>1, <1>2, ClampType, ClampSteady, SteadyTrans
<1>4. /\ ShutdownWork(wk, failure, raised, lost)[w]
           \in {ClampSettle(clamped, ShutdownBudget), ClampSettle(wk[w], ShutdownBudget)}
  BY DEF ShutdownWork
<1> HIDE DEF clamped
<1>5. /\ ClampSettle(clamped, ShutdownBudget) \in WorkType
      /\ Steady(wk[w], ClampSettle(clamped, ShutdownBudget))
      /\ Steady(wk[w], ClampSettle(wk[w], ShutdownBudget))
  BY <1>1, <1>3, ClampType, ClampSteady, SteadyTrans
<1> QED
  BY <1>4, <1>5

LEMMA FailedClosedSteady ==
  ASSUME NEW wk \in [Requests -> WorkType], Answering(wk), NEW w \in Requests,
         wk[w].err # "none", NEW raised \in BOOLEAN, NEW lost, NEW v \in Requests
  PROVE  Steady(wk[v], FailedClosed(wk, w, raised, lost)[v])
PROOF
<1> DEFINE marked == [wk EXCEPT ![w].outcome = "unknown"]
           shut == IF Escalating THEN ShutdownWork(marked, TRUE, raised, lost) ELSE marked
<1>1. \A k \in WorkType : [k EXCEPT !.outcome = "unknown"] \in WorkType
  BY Zenon DEF WorkType
<1>2. marked \in [Requests -> WorkType]
  BY <1>1
<1>3. /\ marked[v].phase = wk[v].phase /\ marked[v].failed = wk[v].failed
      /\ marked[v].pending = wk[v].pending /\ marked[v].task = wk[v].task
      /\ marked[v].answer = wk[v].answer /\ marked[v].err = wk[v].err
  BY DEF WorkType
<1>4. Steady(wk[v], marked[v])
  BY <1>2, <1>3, SteadySame
<1>5. Answering(marked) /\ marked[w].err # "none"
  <2>1. \A u \in Requests : marked[u].answer = wk[u].answer /\ marked[u].phase = wk[u].phase
    BY DEF WorkType
  <2>2. marked[w].err = wk[w].err
    BY DEF WorkType
  <2> QED
    BY <2>1, <2>2 DEF Answering
<1>6. FailedClosed(wk, w, raised, lost) = [shut EXCEPT ![w] = Finished(@, FALSE, w \in lost)]
  BY Zenon DEF FailedClosed
<1> HIDE DEF marked
<1>7. /\ shut \in [Requests -> WorkType]
      /\ \A u \in Requests : Steady(marked[u], shut[u])
  BY <1>2, <1>5, ShutdownWorkType, ShutdownSteady, SteadySame
<1> HIDE DEF shut
<1>8. Steady(wk[v], shut[v])
  BY <1>2, <1>4, <1>7, SteadyTrans
<1>9. CASE v # w
  BY <1>6, <1>7, <1>8, <1>9
<1>10. CASE v = w
  <2>1. shut[w].err # "none" /\ shut[w] \in WorkType
    BY <1>5, <1>7 DEF Steady, Errs
  <2>2. (w \in lost) \in BOOLEAN /\ Finished(shut[w], FALSE, w \in lost) \in WorkType
    <3>1. (w \in lost) \in BOOLEAN
      OBVIOUS
    <3> QED
      BY <2>1, <3>1, FinishedType
  <2>3. Steady(wk[w], Finished(shut[w], FALSE, w \in lost))
    <3>1. CASE shut[w].answer # "ok"
      <4>1. Steady(shut[w], Finished(shut[w], FALSE, w \in lost))
        BY <2>1, <2>2, <3>1, FinishedEvolves
      <4> QED
        BY <1>8, <1>10, <2>1, <2>2, <4>1, SteadyTrans
    <3>2. CASE shut[w].answer = "ok"
      <4>1. shut[w].phase # "live"
        BY <1>5, <1>7, <3>2 DEF Steady, Evolves, Answering
      <4> QED
        BY <1>8, <1>10, <4>1 DEF Finished
    <3> QED
      BY <3>1, <3>2
  <2> QED
    BY <1>6, <1>7, <1>10, <2>3
<1> QED
  BY <1>9, <1>10

-----------------------------------------------------------------------------
(* Records that evolve this way stay kept.                                   *)

\* A work that finishes without an error is a joiner's, or has a task.
MayFinish(w, k) == w \in Controls \/ k.task # "none"

LEMMA KeptEvolves ==
  ASSUME NEW w \in Requests, NEW k \in WorkType, NEW j \in WorkType, NEW dur, NEW eff,
         Kept(w, k, dur, eff), Evolves(k, j), Errs(k, j) \/ MayFinish(w, k)
  PROVE  Kept(w, j, dur, eff)
PROOF
<1>1. \A ev : Saved(k, dur, ev) => Saved(j, dur, ev)
  BY DEF Saved, Evolves
<1>2. Fresh(j, eff) /\ Admitted(w, j, dur) /\ Intended(w, j, dur, eff) /\ EmittedOf(w, dur, eff)
  BY <1>1 DEF Kept, Fresh, Admitted, Intended, EmittedOf, Evolves, Underway, WorkType
<1>3. Finalized(j, dur)
  BY <1>1 DEF Kept, Finalized, Evolves, Saved, WorkType
<1>4. Started(w, j, dur) /\ Stepping(w, j, dur)
  BY <1>1 DEF Kept, Started, Stepping, Evolves, Underway, WorkType
<1>5. Decided(w, j)
  BY RequestsAssumption DEF Kept, Decided, Evolves, Errs, MayFinish, WorkType
<1>6. SucceededOf(w, j, dur)
  <2>1. CASE k.answer = "ok"
    BY <2>1 DEF Kept, SucceededOf, Evolves, Pending
  <2>2. CASE k.answer # "ok" /\ j.answer = "ok"
    <3>1. /\ k.phase = "finishing" /\ k.err = "none" /\ ~k.failed /\ k.pending = {}
          /\ j.phase = "terminal" /\ ~j.failed /\ j.pending = {}
      BY <2>2 DEF Evolves, WorkType
    <3>2. \A ev : Saved(k, dur, ev) => ev \in dur
      BY <3>1 DEF Saved
    <3> QED
      BY <3>1, <3>2, RequestsAssumption
      DEF Kept, Admitted, Finalized, Started, Decided, Underway, Admission, SucceededOf, Pending
  <2> QED
    BY <2>1, <2>2 DEF SucceededOf
<1> QED
  BY <1>2, <1>3, <1>4, <1>5, <1>6 DEF Kept

\* The first step of a work that is not held finds its records on disk.
LEMMA KeptStepped ==
  ASSUME NEW w \in Requests, NEW k \in WorkType, NEW dur, NEW eff,
         Kept(w, k, dur, eff), ~Holding(k, w), k.phase = "live", k.task # "none"
  PROVE  /\ Kept(w, Stepped(k), dur, eff)
         /\ Stepped(k).phase = "live" /\ Stepped(k).err = k.err /\ Stepped(k).task = "stepped"
         /\ Stepped(k).failed = k.failed /\ Stepped(k).pending = k.pending
         /\ Stepped(k).answer = k.answer /\ Stepped(k).outcome = k.outcome
PROOF
<1> DEFINE j == Stepped(k)
<1>1. /\ j.phase = "live" /\ j.err = k.err /\ j.task = "stepped"
      /\ j.failed = k.failed /\ j.pending = k.pending
      /\ j.answer = k.answer /\ j.outcome = k.outcome
  BY DEF Stepped, WorkType
<1>2. Stepping(w, j, dur)
  <2>1. CASE k.task = "stepped"
    BY <1>1, <2>1 DEF Kept, Stepping
  <2>2. CASE k.task = "built"
    <3>1. w \in Ordinary \ Gating => k.pending = {}
      BY <2>2 DEF Holding, Pending
    <3> QED
      BY <1>1, <2>2, <3>1, RequestsAssumption
      DEF Kept, Admitted, Started, Saved, Stepping, Underway, Admission
  <2> QED
    BY <2>1, <2>2 DEF WorkType
<1> HIDE DEF j
<1>3. Kept(w, j, dur, eff)
  BY <1>1, <1>2 DEF Kept, Fresh, Admitted, Finalized, Started, Decided, Intended, EmittedOf,
     SucceededOf, Saved, Underway
<1> QED
  BY <1>1, <1>3 DEF j

\* A turn's step that only moves works along.
LEMMA KeptAllEvolves ==
  ASSUME TypeInv, TypeInv', KeptAll, UNCHANGED world,
         \A w \in Requests : /\ Evolves(work[w], work'[w])
                             /\ Errs(work[w], work'[w]) \/ MayFinish(w, work[w])
  PROVE  KeptAll'
PROOF
<1> SUFFICES ASSUME NEW w \in Requests PROVE Kept(w, work'[w], durable[w], effect[w])
  BY DEF KeptAll, world
<1>1. work[w] \in WorkType /\ work'[w] \in WorkType
  BY DEF TypeInv, TypeOK
<1> QED
  BY <1>1, KeptEvolves DEF KeptAll

LEMMA InvAnswering == ASSUME KeptAll PROVE Answering(work)
BY DEF KeptAll, Kept, SucceededOf, Answering

\* Outside these two stages nothing is owed at the gate.
LEMMA NotAtGate == ASSUME pc' \notin {"gate", "returned"} PROVE AtGate'
BY DEF AtGate

LEMMA InitRecords == ASSUME TypeInv, Init PROVE RecordsInv
PROOF
<1>1. \A w \in Requests : work[w] = Idle(0) /\ durable[w] = {} /\ effect[w] = "none"
  BY DEF Init
<1>2. Idle(0).phase = "new" /\ Idle(0).answer = "none"
  BY DEF Idle
<1>3. KeptAll
  BY <1>1, <1>2 DEF KeptAll, Kept, Fresh, Admitted, Finalized, Started, Decided, Intended,
     Stepping, EmittedOf, SucceededOf, Underway
<1> QED
  BY <1>3 DEF RecordsInv, AtGate, Init

LEMMA RefuseRecords ==
  ASSUME TypeInv, TypeInv', RecordsInv, NEW w \in Requests, NEW code \in Codes, pc = "idle",
         work[w].phase = "new",
         work' = [work EXCEPT ![w].phase = "terminal", ![w].answer = code],
         UNCHANGED <<slots, gates, world, pc, adv, ret>>
  PROVE  RecordsInv'
PROOF
<1>1. ASSUME NEW v \in Requests PROVE Steady(work[v], work'[v])
  <2>1. work[v] \in WorkType /\ work'[v] \in WorkType
    BY DEF TypeInv, TypeOK
  <2>2. CASE v # w
    <3>1. work'[v] = work[v]
      BY <2>2 DEF TypeInv, TypeOK
    <3> QED
      BY <2>1, <3>1, SteadySame
  <2>3. CASE v = w
    <3>1. /\ work'[w].phase = "terminal" /\ work'[w].answer = code
          /\ work'[w].failed = work[w].failed /\ work'[w].pending = work[w].pending
          /\ work'[w].task = work[w].task /\ work'[w].err = work[w].err
      BY <2>1, <2>3 DEF TypeInv, TypeOK, WorkType
    <3> QED
      BY <2>3, <3>1 DEF Steady, Evolves, Errs, Codes
  <2> QED
    BY <2>2, <2>3
<1>2. KeptAll'
  BY <1>1, KeptAllEvolves DEF Steady, RecordsInv
<1> QED
  BY <1>2, NotAtGate DEF RecordsInv

\* A request that is submitted.
LEMMA KeptFresh ==
  ASSUME TypeInv, KeptAll, NEW w \in Requests, work[w].phase = "new", NEW d \in Int,
         NEW lost \in BOOLEAN
  PROVE  Kept(w, Observe([Idle(d) EXCEPT !.phase = "live"], Admission(w), lost),
              durable[w], effect[w])
PROOF
<1> DEFINE idle == [Idle(d) EXCEPT !.phase = "live"]
           k == Observe(idle, Admission(w), lost)
<1>1. /\ idle.phase = "live" /\ idle.task = "none" /\ idle.answer = "none"
  BY DEF Idle
<1>2. idle \in WorkType
  BY IdleType
<1> HIDE DEF idle
<1>3. /\ k.phase = "live" /\ k.task = "none" /\ k.answer = "none"
      /\ Admission(w) \in k.pending \/ k.failed
  BY <1>1, <1>2 DEF Observe, WorkType
<1>4. effect[w] = "none"
  BY DEF KeptAll, Kept, Fresh
<1> HIDE DEF k
<1>5. Kept(w, k, durable[w], effect[w])
  BY <1>3, <1>4 DEF Kept, Fresh, Admitted, Finalized, Started, Decided, Intended, Stepping,
     EmittedOf, SucceededOf, Saved, Underway
<1> QED
  BY <1>5 DEF k, idle

LEMMA AdmitRecords ==
  ASSUME TypeInv, RecordsInv, NEW w \in Ordinary, NEW d \in Budgets, NEW lost \in Losses,
         Admit(w, d, lost)
  PROVE  RecordsInv'
PROOF
<1> DEFINE k == Observe([Idle(d) EXCEPT !.phase = "live"], "admitted", w \in lost)
<1>1. d \in Int /\ (w \in lost) \in BOOLEAN /\ w \in Requests /\ Admission(w) = "admitted"
  BY NumbersType, RequestsAssumption DEF Requests, Admission
<1>2. Kept(w, k, durable[w], effect[w])
  BY <1>1, KeptFresh DEF Admit, RecordsInv
<1>3. work' = [work EXCEPT ![w] = k] /\ UNCHANGED world
  BY DEF Admit
<1> HIDE DEF k
<1>4. KeptAll'
  BY <1>1, <1>2, <1>3 DEF RecordsInv, KeptAll, world, TypeInv, TypeOK
<1> QED
  BY <1>4, NotAtGate DEF Admit, RecordsInv

LEMMA CancelRecords ==
  ASSUME TypeInv, TypeInv', RecordsInv, NEW w \in Ordinary, NEW raised \in BOOLEAN,
         NEW lost \in Losses, Cancel(w, raised, lost)
  PROVE  RecordsInv'
PROOF
<1>1. ASSUME NEW v \in Requests PROVE Steady(work[v], work'[v])
  <2>1. work[v] \in WorkType /\ work'[v] \in WorkType /\ (w \in lost) \in BOOLEAN
    BY DEF TypeInv, TypeOK
  <2>2. CASE v # w
    <3>1. work'[v] = work[v]
      BY <2>2 DEF Cancel, TypeInv, TypeOK
    <3> QED
      BY <2>1, <3>1, SteadySame
  <2>3. CASE v = w
    <3>1. work'[w] = Cancelled(work[w], w, "cancelled", raised, w \in lost)
      BY <2>3 DEF Cancel, TypeInv, TypeOK
    <3> QED
      BY ZenonT(60), <2>1, <2>3, <3>1, CancelledSteady, InvAnswering
         DEF Answering, Codes, RecordsInv
  <2> QED
    BY <2>2, <2>3
<1>2. KeptAll'
  BY <1>1, KeptAllEvolves DEF Cancel, Steady, RecordsInv
<1> QED
  BY <1>2, NotAtGate DEF Cancel, RecordsInv

LEMMA AdmitControlRecords ==
  ASSUME TypeInv, TypeInv', RecordsInv, NEW w \in Controls, NEW d \in Budgets,
         NEW raised \in BOOLEAN, NEW lost \in Losses, AdmitControl(w, d, raised, lost)
  PROVE  RecordsInv'
PROOF
<1> DEFINE by == IF lifecycle = None THEN d ELSE work[lifecycle].deadline
           stop(v, r) == Cancelled(work[v], v, "cancelled", r, v \in lost)
<1>1. d \in Int /\ by \in Int /\ w \in Requests /\ Admission(w) = "control_admitted"
  BY NumbersType DEF TypeInv, TypeOK, WorkType, Requests, Admission
<1>2. UNCHANGED world
  BY DEF AdmitControl
<1>3. ASSUME NEW v \in Requests, NEW r \in BOOLEAN
      PROVE  /\ stop(v, r) \in WorkType /\ Steady(work[v], stop(v, r))
             /\ ClampCleanup(stop(v, r), by) \in WorkType
             /\ Steady(work[v], ClampCleanup(stop(v, r), by))
  <2>1. work[v] \in WorkType /\ "cancelled" \in Codes
    BY DEF TypeInv, TypeOK, Codes
  <2>2. (v \in lost) \in BOOLEAN
    OBVIOUS
  <2>3. stop(v, r) \in WorkType /\ Steady(work[v], stop(v, r))
    BY <2>1, <2>2, CancelledType, CancelledSteady, InvAnswering DEF Answering, RecordsInv
  <2> HIDE DEF stop
  <2> QED
    BY <1>1, <2>1, <2>3, ClampType, ClampSteady, SteadyTrans
<1>4. work' = [v \in Requests |->
          CASE v = w -> Observe([Idle(d) EXCEPT !.phase = "live"], "control_admitted", w \in lost)
            [] Queued(v) -> stop(v, FALSE)
            [] v = active /\ ~Queued(v) -> ClampCleanup(stop(v, raised), by)
            [] OTHER -> work[v]]
  BY Zenon DEF AdmitControl
<1>5. ~Queued(w) /\ w # active
  BY RequestsAssumption DEF Queued, TypeInv, TypeOK, Requests
<1> HIDE DEF stop, by
<1>6. ASSUME NEW v \in Requests, v # w PROVE Kept(v, work'[v], durable[v], effect[v])
  <2>1. \/ work'[v] = stop(v, FALSE)
        \/ work'[v] = ClampCleanup(stop(v, raised), by)
        \/ work'[v] = work[v]
    BY <1>4, <1>6
  <2>2. work[v] \in WorkType /\ Kept(v, work[v], durable[v], effect[v])
    BY DEF TypeInv, TypeOK, RecordsInv, KeptAll
  <2>3. Steady(work[v], work'[v]) /\ work'[v] \in WorkType
    BY <1>3, <2>1, <2>2, SteadySame
  <2> QED
    BY <2>2, <2>3, KeptEvolves DEF Steady
<1>7. Kept(w, work'[w], durable[w], effect[w])
  <2>1. work'[w] = Observe([Idle(d) EXCEPT !.phase = "live"], "control_admitted", w \in lost)
    BY <1>1, <1>4, <1>5
  <2>2. (w \in lost) \in BOOLEAN /\ work[w].phase = "new"
    BY DEF AdmitControl
  <2> QED
    BY <1>1, <2>1, <2>2, KeptFresh DEF RecordsInv
<1>8. KeptAll'
  BY <1>2, <1>6, <1>7 DEF KeptAll, world
<1> QED
  BY <1>8, NotAtGate DEF AdmitControl, RecordsInv

LEMMA BeginShutdownRecords ==
  ASSUME TypeInv, TypeInv', RecordsInv, NEW failure \in BOOLEAN, NEW raised \in BOOLEAN,
         NEW lost \in Losses, BeginShutdown(failure, raised, lost)
  PROVE  RecordsInv'
PROOF
<1>1. \A w \in Requests : Steady(work[w], work'[w])
  BY ShutdownSteady, InvAnswering DEF BeginShutdown, TypeInv, TypeOK, RecordsInv
<1>2. KeptAll'
  BY <1>1, KeptAllEvolves DEF BeginShutdown, Steady, RecordsInv
<1> QED
  BY <1>2, NotAtGate DEF BeginShutdown, RecordsInv

\* The writer's answer moves a record from pending to disk, or latches its loss.
LEMMA ReportRecords ==
  ASSUME TypeInv, TypeInv', RecordsInv, NEW w \in Requests, NEW ev \in Events,
         NEW ok \in BOOLEAN, Report(w, ev, ok)
  PROVE  RecordsInv'
PROOF
<1> DEFINE k == work[w]
           j == work'[w]
<1>1. k \in WorkType /\ Kept(w, k, durable[w], effect[w])
  BY DEF TypeInv, TypeOK, RecordsInv, KeptAll
<1>2. /\ j.phase = k.phase /\ j.err = k.err /\ j.task = k.task /\ j.answer = k.answer
      /\ j.pending = k.pending \ {ev} /\ j.failed = (k.failed \/ ~ok)
  BY <1>1 DEF Report, TypeInv, TypeOK, WorkType
<1>3. /\ durable'[w] = IF ok /\ ~k.failed THEN durable[w] \cup {ev} ELSE durable[w]
      /\ effect' = effect /\ Live(w)
      /\ \A v \in Requests : v # w => durable'[v] = durable[v] /\ work'[v] = work[v]
  BY DEF Report, TypeInv, TypeOK
<1>4. \A e : Saved(k, durable[w], e) => Saved(j, durable'[w], e)
  BY <1>2, <1>3 DEF Saved
<1>5. durable[w] \subseteq durable'[w]
  BY <1>3
<1>6. SucceededOf(w, j, durable'[w])
  BY <1>1, <1>2, <1>3 DEF Kept, SucceededOf, Live
<1> HIDE DEF k, j
<1>7. Kept(w, j, durable'[w], effect[w])
  BY <1>1, <1>2, <1>4, <1>5, <1>6
  DEF Kept, Fresh, Admitted, Finalized, Started, Decided, Intended, Stepping, EmittedOf, Underway
<1>8. KeptAll'
  BY <1>3, <1>7 DEF KeptAll, RecordsInv, j
<1> QED
  BY <1>8, NotAtGate DEF Report, RecordsInv

LEMMA TickRecords == ASSUME TypeInv, TypeInv', RecordsInv, Tick PROVE RecordsInv'
PROOF
<1>1. ASSUME NEW w \in Requests
      PROVE  /\ work'[w].phase = work[w].phase /\ work'[w].failed = work[w].failed
             /\ work'[w].pending = work[w].pending /\ work'[w].task = work[w].task
             /\ work'[w].answer = work[w].answer /\ work'[w].err = work[w].err
  <2>1. work[w] \in WorkType
    BY DEF TypeInv, TypeOK
  <2>2. work'[w] = IF Live(w) THEN TickedWork(work[w]) ELSE work[w]
    BY DEF Tick
  <2> QED
    BY <2>1, <2>2 DEF TickedWork, WorkType
<1>2. \A w \in Requests : work[w] \in WorkType /\ work'[w] \in WorkType
  BY DEF TypeInv, TypeOK
<1>3. \A w \in Requests : Steady(work[w], work'[w])
  BY <1>1, <1>2, SteadySame
<1>4. KeptAll'
  BY <1>3, KeptAllEvolves DEF Tick, Steady, RecordsInv
<1>5. AtGate'
  BY <1>1 DEF Tick, AtGate, TypeInv, StageOK, RecordsInv
<1> QED
  BY <1>4, <1>5 DEF RecordsInv

LEMMA SettleRecords ==
  ASSUME TypeInv, TypeInv', RecordsInv, NEW fate \in [Requests -> Codes \cup {"ok"}],
         NEW lost \in Losses, Settle(fate, lost)
  PROVE  RecordsInv'
PROOF
<1> DEFINE first == [w \in Requests |-> IF Settleable(Settling(w))
                                        THEN Settled(Settling(w), fate[w]) ELSE Settling(w)]
           answerable(w) == w \in Controls /\ joined[w] # None /\ first[w].phase = "live"
<1>1. \A w \in Requests : work[w] \in WorkType
  BY DEF TypeInv, TypeOK
<1>2. ASSUME NEW w \in Requests
      PROVE  first[w] \in WorkType /\ Steady(work[w], first[w])
  <2>1. Settling(w) \in WorkType /\ Steady(work[w], Settling(w))
    BY <1>1, ClampType, ClampSteady, SteadySame DEF Settling, TypeInv, TypeOK
  <2>2. CASE Settleable(Settling(w))
    <3>1. Settling(w).phase = "finishing" /\ Settling(w).answer # "ok"
      BY <1>1, <2>1, <2>2, InvAnswering
         DEF Settleable, Steady, Evolves, Answering, RecordsInv, WorkType
    <3>2. Settled(Settling(w), fate[w]) \in WorkType
      BY <2>1, SettledType
    <3>3. Steady(Settling(w), Settled(Settling(w), fate[w]))
      BY <2>1, <3>1, SettledSteady
    <3> QED
      BY <1>1, <2>1, <2>2, <3>2, <3>3, SteadyTrans
  <2>3. CASE ~Settleable(Settling(w))
    BY <2>1, <2>3
  <2> QED
    BY <2>2, <2>3
<1> HIDE DEF first
<1>3. ASSUME NEW w \in Requests, answerable(w)
      PROVE  /\ Joined(first[w], first[joined[w]], w \in lost) \in WorkType
             /\ Evolves(first[w], Joined(first[w], first[joined[w]], w \in lost))
             /\ Finished([first[w] EXCEPT !.err = "timeout"], FALSE, w \in lost) \in WorkType
             /\ Evolves(first[w], Finished([first[w] EXCEPT !.err = "timeout"], FALSE, w \in lost))
  <2> DEFINE c == [first[w] EXCEPT !.err = "timeout"]
  <2>1. first[w] \in WorkType /\ first[joined[w]] \in WorkType /\ (w \in lost) \in BOOLEAN
    BY <1>2, <1>3 DEF TypeInv, TypeOK, Requests
  <2>2. c \in WorkType
    BY <2>1, Zenon DEF WorkType, Codes
  <2>3. first[w].answer = "ok" => first[w].phase = "terminal"
    BY <1>1, <1>2, InvAnswering DEF Steady, Evolves, Answering, RecordsInv, WorkType
  <2>4. c.phase = first[w].phase /\ c.failed = first[w].failed /\ c.pending = first[w].pending
        /\ c.task = first[w].task /\ c.answer = first[w].answer /\ c.err = "timeout"
    BY <2>1 DEF WorkType
  <2>5. c.answer # "ok"
    BY <1>3, <2>3, <2>4
  <2> HIDE DEF c
  <2>6. Finished(c, FALSE, w \in lost) \in WorkType /\ Evolves(c, Finished(c, FALSE, w \in lost))
    BY <2>1, <2>2, <2>5, FinishedType, FinishedEvolves
  <2>7. Evolves(first[w], Finished(c, FALSE, w \in lost))
    BY <1>3, <2>4, <2>6 DEF Evolves
  <2>8. /\ Joined(first[w], first[joined[w]], w \in lost) \in WorkType
        /\ Evolves(first[w], Joined(first[w], first[joined[w]], w \in lost))
    BY <2>1, <2>3, JoinedType, JoinedEvolves
  <2> QED
    BY <2>6, <2>7, <2>8 DEF c
<1>4. work' = [w \in Requests |->
             IF ~answerable(w) THEN first[w]
             ELSE IF Final(first[joined[w]])
                  THEN Joined(first[w], first[joined[w]], w \in lost)
             ELSE IF Late(first[w])
                  THEN Finished([first[w] EXCEPT !.err = "timeout"], FALSE, w \in lost)
             ELSE first[w]]
  BY Zenon DEF Settle, first
<1>5. ASSUME NEW w \in Requests PROVE Kept(w, work'[w], durable[w], effect[w])
  <2>1. Kept(w, first[w], durable[w], effect[w])
    BY <1>1, <1>2, KeptEvolves DEF Steady, RecordsInv, KeptAll
  <2>2. CASE work'[w] = first[w]
    BY <2>1, <2>2
  <2>3. CASE answerable(w) /\ work'[w] # first[w]
    <3>1. work'[w] \in WorkType /\ Evolves(first[w], work'[w])
      BY <1>3, <1>4, <2>3
    <3> QED
      BY <1>2, <2>1, <2>3, <3>1, KeptEvolves DEF MayFinish
  <2> QED
    BY <1>4, <2>2, <2>3
<1>6. KeptAll'
  BY <1>5 DEF Settle, KeptAll, world
<1> QED
  BY <1>6, NotAtGate DEF Settle, AfterSettle, RecordsInv

\* An error set without asking whether one was decided, and the _finish after it.
LEMMA ForcedSteady ==
  ASSUME NEW k \in WorkType, k.answer = "ok" => k.phase = "terminal", NEW code \in Codes,
         NEW lost \in BOOLEAN
  PROVE  /\ Finished([k EXCEPT !.err = code], FALSE, lost) \in WorkType
         /\ Steady(k, Finished([k EXCEPT !.err = code], FALSE, lost))
PROOF
<1> DEFINE c == [k EXCEPT !.err = code]
<1>1. c \in WorkType
  BY Zenon DEF WorkType
<1>2. c.phase = k.phase /\ c.failed = k.failed /\ c.pending = k.pending
      /\ c.task = k.task /\ c.answer = k.answer /\ c.err # "none"
  BY DEF WorkType, Codes
<1> HIDE DEF c
<1>3. Steady(k, c)
  BY <1>1, <1>2, SteadySame
<1>4. Finished(c, FALSE, lost) \in WorkType
  BY <1>1, FinishedType
<1>5. Steady(c, Finished(c, FALSE, lost))
  <2>1. CASE c.answer = "ok"
    BY <1>1, <1>2, <2>1, SteadySame DEF Finished
  <2>2. CASE c.answer # "ok"
    BY <1>1, <1>2, <2>2, FinishedEvolves
  <2> QED
    BY <2>1, <2>2
<1> QED
  BY <1>1, <1>3, <1>4, <1>5, SteadyTrans DEF c

LEMMA ExpireRecords ==
  ASSUME TypeInv, TypeInv', RecordsInv, NEW lost \in Losses, Expire(lost)
  PROVE  RecordsInv'
PROOF
<1>1. ASSUME NEW w \in Requests PROVE Steady(work[w], work'[w])
  <2>1. work[w] \in WorkType /\ "timeout" \in Codes /\ (work[w].answer = "ok" => work[w].phase = "terminal")
    BY InvAnswering DEF TypeInv, TypeOK, Codes, Answering, RecordsInv
  <2>2. (w \in lost) \in BOOLEAN
    OBVIOUS
  <2>3. work'[w] \in { Cancelled(work[w], w, "timeout", FALSE, w \in lost),
                       Finished([work[w] EXCEPT !.err = "timeout"], FALSE, w \in lost), work[w] }
    BY DEF Expire
  <2> QED
    BY <2>1, <2>2, <2>3, CancelledSteady, ForcedSteady, SteadySame
<1>2. KeptAll'
  BY <1>1, KeptAllEvolves DEF Expire, Steady, RecordsInv
<1> QED
  BY <1>2, NotAtGate DEF Expire, AfterActive, RecordsInv

LEMMA LifecycleRecords ==
  ASSUME TypeInv, TypeInv', RecordsInv, NEW raised \in BOOLEAN, NEW lost \in Losses,
         Lifecycle(raised, lost)
  PROVE  RecordsInv'
PROOF
<1> DEFINE late == [work EXCEPT ![lifecycle].err = "timeout"]
<1>1. lifecycle \in Requests /\ \A w \in Requests : work[w] \in WorkType
  BY DEF Lifecycle, TypeInv, TypeOK, StageOK, Requests
<1>2. \/ work' = work
      \/ work' = FailedClosed(late, lifecycle, raised, lost)
  BY DEF Lifecycle
<1>3. late \in [Requests -> WorkType]
  <2>1. [work[lifecycle] EXCEPT !.err = "timeout"] \in WorkType
    BY <1>1, ZenonT(40) DEF WorkType, Codes
  <2> QED
    BY <2>1, WorkUpdate DEF TypeInv, TypeOK
<1>4. ASSUME NEW w \in Requests
      PROVE  /\ late[w].phase = work[w].phase /\ late[w].failed = work[w].failed
             /\ late[w].pending = work[w].pending /\ late[w].task = work[w].task
             /\ late[w].answer = work[w].answer
             /\ late[w].err = IF w = lifecycle THEN "timeout" ELSE work[w].err
  BY <1>1 DEF TypeInv, TypeOK, WorkType
<1>5. Answering(late) /\ late[lifecycle].err # "none"
  BY <1>1, <1>4, InvAnswering DEF Answering, RecordsInv
<1>6. ASSUME NEW w \in Requests PROVE Steady(work[w], late[w])
  <2>1. work[w] \in WorkType /\ late[w] \in WorkType
    BY <1>1, <1>3
  <2>2. work[w].err # "none" => late[w].err # "none"
    BY <1>4
  <2> HIDE DEF late
  <2> QED
    BY <1>4, <2>1, <2>2, SteadySame
<1> HIDE DEF late
<1>7. FailedClosed(late, lifecycle, raised, lost) \in [Requests -> WorkType]
  BY <1>3, FailedClosedType
<1>8. \A w \in Requests : Steady(work[w], FailedClosed(late, lifecycle, raised, lost)[w])
  BY <1>1, <1>3, <1>5, <1>6, <1>7, FailedClosedSteady, SteadyTrans
<1>9. \A w \in Requests : Steady(work[w], work'[w])
  BY <1>1, <1>2, <1>8, SteadySame
<1>10. KeptAll'
  BY <1>9, KeptAllEvolves DEF Lifecycle, Steady, RecordsInv
<1> QED
  BY <1>10, NotAtGate DEF Lifecycle, RecordsInv

LEMMA ReleaseRecords ==
  ASSUME TypeInv, TypeInv', RecordsInv, NEW lost \in Losses, Release(lost)
  PROVE  RecordsInv'
PROOF
<1>1. lifecycle \in Requests /\ work[lifecycle] \in WorkType
  BY DEF Release, TypeInv, TypeOK, StageOK, Requests
<1>2. ASSUME NEW w \in Requests
      PROVE  Evolves(work[w], work'[w]) /\ (Errs(work[w], work'[w]) \/ MayFinish(w, work[w]))
  <2>1. work[w] \in WorkType /\ (work[w].answer = "ok" => work[w].phase = "terminal")
    BY InvAnswering DEF TypeInv, TypeOK, Answering, RecordsInv
  <2>2. (w \in lost) \in BOOLEAN
    OBVIOUS
  <2>3. CASE work'[w] = work[w]
    BY <2>1, <2>3, SteadySame DEF Steady
  <2>4. CASE w \in waiters /\ work'[w] = Joined(work[w], work[lifecycle], w \in lost)
    <3>1. Evolves(work[w], Joined(work[w], work[lifecycle], w \in lost))
      BY <1>1, <2>1, <2>2, JoinedEvolves
    <3>2. w \in Controls
      BY <2>4 DEF TypeInv, TypeOK
    <3> QED
      BY <2>4, <3>1, <3>2 DEF MayFinish
  <2>5. \/ work'[w] = work[w]
        \/ w \in waiters /\ work'[w] = Joined(work[w], work[lifecycle], w \in lost)
    BY DEF Release
  <2> QED
    BY <2>3, <2>4, <2>5
<1>3. KeptAll'
  BY <1>2, KeptAllEvolves DEF Release, RecordsInv
<1> QED
  BY <1>3, NotAtGate DEF Release, RecordsInv

\* Steps that leave every work, and everything a request has done, alone.
LEMMA SameRecords ==
  ASSUME TypeInv, RecordsInv, UNCHANGED <<work, world>>, pc' \notin {"gate", "returned"}
  PROVE  RecordsInv'
BY NotAtGate DEF RecordsInv, KeptAll, world

LEMMA StartRecords == ASSUME TypeInv, RecordsInv, Start PROVE RecordsInv'
PROOF
<1>1. pc' \notin {"gate", "returned"} /\ UNCHANGED <<work, world>>
  BY DEF Start, AfterStart
<1> QED
  BY <1>1, SameRecords

LEMMA UnavailableRecords ==
  ASSUME TypeInv, TypeInv', RecordsInv, NEW lost \in Losses, Unavailable(lost)
  PROVE  RecordsInv'
PROOF
<1>1. ASSUME NEW w \in Requests PROVE Steady(work[w], work'[w])
  <2>1. work[w] \in WorkType /\ "session_unavailable" \in Codes
        /\ (work[w].answer = "ok" => work[w].phase = "terminal")
    BY InvAnswering DEF TypeInv, TypeOK, Codes, Answering, RecordsInv
  <2>2. (w \in lost) \in BOOLEAN
    OBVIOUS
  <2>3. work'[w] \in { Finished([work[w] EXCEPT !.err = "session_unavailable"], FALSE, w \in lost),
                       work[w] }
    BY DEF Unavailable
  <2> QED
    BY <2>1, <2>2, <2>3, ForcedSteady, SteadySame
<1>2. KeptAll'
  BY <1>1, KeptAllEvolves DEF Unavailable, Steady, RecordsInv
<1> QED
  BY <1>2, NotAtGate DEF Unavailable, RecordsInv

LEMMA DrainRecords ==
  ASSUME TypeInv, TypeInv', RecordsInv, NEW slot \in Requests \cup {None},
         NEW here \in {"drain", "drainLifecycle"}, NEW next \in {"drainLifecycle", "drained"},
         Drain(slot, here, next)
  PROVE  RecordsInv'
PROOF
<1>1. ASSUME NEW w \in Requests PROVE Steady(work[w], work'[w])
  <2>1. work[w] \in WorkType /\ shutBy \in Int
    BY DEF TypeInv, TypeOK
  <2>2. work'[w] \in {ClampCleanup(work[w], shutBy), work[w]}
    BY DEF Drain, TypeInv, TypeOK
  <2> QED
    BY <2>1, <2>2, ClampSteady, SteadySame
<1>2. KeptAll'
  BY <1>1, KeptAllEvolves DEF Drain, Steady, RecordsInv
<1> QED
  BY <1>2, NotAtGate DEF Drain, RecordsInv

LEMMA DrainedRecords == ASSUME TypeInv, RecordsInv, Drained PROVE RecordsInv'
BY SameRecords DEF Drained

(* _advance, on one work.                                                  *)

LEMMA AdvRecords ==
  ASSUME TypeInv, RecordsInv, Advancing, NEW j, NEW e,
         work' = [work EXCEPT ![adv] = j], effect' = [effect EXCEPT ![adv] = e],
         durable' = durable, Kept(adv, j, durable[adv], e)
  PROVE  KeptAll'
PROOF
<1> SUFFICES ASSUME NEW w \in Requests PROVE Kept(w, work'[w], durable[w], effect'[w])
  BY DEF KeptAll
<1>1. work \in [Requests -> WorkType] /\ DOMAIN effect = Requests
  BY DEF TypeInv, TypeOK
<1>2. CASE w = adv
  BY <1>1, <1>2
<1>3. CASE w # adv
  BY <1>1, <1>3 DEF RecordsInv, KeptAll
<1> QED
  BY <1>2, <1>3

LEMMA AdvKept ==
  ASSUME TypeInv, RecordsInv, Advancing
  PROVE  /\ Kept(adv, work[adv], durable[adv], effect[adv])
         /\ work[adv].answer = "ok" => work[adv].phase = "terminal"
         /\ effect = [effect EXCEPT ![adv] = effect[adv]]
BY AdvTyped, InvAnswering DEF RecordsInv, KeptAll, Answering, TypeInv, TypeOK

LEMMA BackRecords ==
  ASSUME TypeInv, Advancing, Back, KeptAll' PROVE RecordsInv'
BY NotAtGate DEF Back, RecordsInv, TypeInv, StageOK

\* The work that is advanced is cancelled, after a step k of it.
LEMMA CancelAdvRecords ==
  ASSUME TypeInv, RecordsInv, Advancing, NEW k \in WorkType, NEW code \in Codes,
         NEW raised \in BOOLEAN, NEW lost,
         k.answer = "ok" => k.phase = "terminal", Kept(adv, k, durable[adv], effect[adv]),
         work' = [work EXCEPT ![adv] = Cancelled(k, adv, code, raised, adv \in lost)],
         UNCHANGED world
  PROVE  KeptAll'
PROOF
<1>1. (adv \in lost) \in BOOLEAN
  OBVIOUS
<1>2. Cancelled(k, adv, code, raised, adv \in lost) \in WorkType
  BY <1>1, CancelledType
<1>3. Steady(k, Cancelled(k, adv, code, raised, adv \in lost))
  BY <1>1, CancelledSteady
<1>4. Kept(adv, Cancelled(k, adv, code, raised, adv \in lost), durable[adv], effect[adv])
  BY <1>2, <1>3, AdvTyped, KeptEvolves DEF Steady
<1> QED
  BY <1>4, AdvKept, AdvRecords DEF world

LEMMA AdvanceOverRecords ==
  ASSUME TypeInv, RecordsInv, AdvanceOver PROVE RecordsInv'
PROOF
<1> DEFINE k == work[adv]
<1>1. Advancing
  BY DEF Advancing, AdvanceOver
<1>2. k \in WorkType /\ adv \in Requests
  BY <1>1, AdvTyped
<1>3. Settleable(k) => Steady(k, Settled(k, "ok")) /\ Settled(k, "ok") \in WorkType
  BY <1>1, <1>2, AdvKept, SettledSteady, SettledType DEF Settleable
<1>4. \E j \in WorkType : Steady(k, j) /\ work' = [work EXCEPT ![adv] = j]
  BY <1>2, <1>3, SteadySame DEF AdvanceOver
<1>5. PICK j \in WorkType : Steady(k, j) /\ work' = [work EXCEPT ![adv] = j]
  BY <1>4
<1>6. Kept(adv, j, durable[adv], effect[adv])
  BY <1>1, <1>2, <1>5, AdvKept, KeptEvolves DEF Steady
<1>7. KeptAll'
  BY <1>1, <1>5, <1>6, AdvKept, AdvRecords DEF AdvanceOver, world
<1> QED
  BY <1>1, <1>7, BackRecords DEF AdvanceOver

\* A cleaned effect has no more to answer for than the effect itself.
LEMMA KeptClean ==
  ASSUME NEW w, NEW k, NEW dur, NEW eff, NEW cleaned \in {"none", "clean"},
         Kept(w, k, dur, eff), k.phase # "new",
         cleaned = "clean" => eff \in {"dirty", "clean"}
  PROVE  Kept(w, k, dur, cleaned)
BY DEF Kept, Fresh, Intended, EmittedOf

LEMMA AdvanceTroubledRecords ==
  ASSUME TypeInv, TypeInv', RecordsInv, NEW confirmed \in BOOLEAN, NEW raised \in BOOLEAN,
         NEW lost \in Losses, AdvanceTroubled(confirmed, raised, lost)
  PROVE  RecordsInv'
PROOF
<1> DEFINE code == Trouble(work[adv], adv)
           k == Cancelled(work[adv], adv, code, raised, adv \in lost)
           tried == [work EXCEPT ![adv] = k]
           late == [work EXCEPT ![adv].err = "timeout"]
<1>1. Advancing
  BY DEF Advancing, AdvanceTroubled
<1>2. /\ adv \in Requests /\ work[adv] \in WorkType /\ code \in Codes /\ (adv \in lost) \in BOOLEAN
      /\ work[adv].phase = "live" /\ work[adv].answer # "ok"
  BY <1>1, AdvTyped, AdvKept, TroubleType DEF AdvanceTroubled
<1>3. k \in WorkType /\ Steady(work[adv], k)
  <2> HIDE DEF code
  <2> QED
    BY <1>2, CancelledType, CancelledSteady
<1>4. k.err # "none"
  <2>1. CASE work[adv].err # "none"
    BY <1>3, <2>1 DEF Steady, Errs
  <2>2. CASE work[adv].err = "none" /\ work[adv].task = "none"
    <3> DEFINE c == [work[adv] EXCEPT !.err = code]
    <3>1. c \in WorkType
      BY <1>2, Zenon DEF WorkType
    <3>2. c.err # "none" /\ c.answer # "ok"
      BY <1>2 DEF WorkType, Codes
    <3>3. k = Finished(c, FALSE, adv \in lost)
      BY <1>2, <2>2 DEF Cancelled
    <3> HIDE DEF c, k
    <3>4. Steady(c, k)
      BY <1>2, <3>1, <3>2, <3>3, FinishedEvolves
    <3> QED
      BY <3>2, <3>4 DEF Steady, Errs
  <2>3. CASE work[adv].err = "none" /\ work[adv].task # "none"
    BY <1>2, <2>3 DEF Cancelled, Observe, WorkType, Codes
  <2> QED
    BY <2>1, <2>2, <2>3
<1> HIDE DEF k
<1>5. /\ tried \in [Requests -> WorkType] /\ tried[adv] = k
      /\ \A v \in Requests : Steady(work[v], tried[v])
  BY <1>1, <1>2, <1>3, AdvTyped, SteadySame DEF TypeInv, TypeOK
<1>6. /\ late \in [Requests -> WorkType] /\ late[adv].err = "timeout"
      /\ \A v \in Requests : Steady(work[v], late[v])
  <2>1. [work[adv] EXCEPT !.err = "timeout"] \in WorkType
    BY <1>2, Zenon DEF WorkType, Codes
  <2>2. late = [work EXCEPT ![adv] = [work[adv] EXCEPT !.err = "timeout"]]
    BY <1>2 DEF TypeInv, TypeOK
  <2>3. late \in [Requests -> WorkType] /\ late[adv] = [work[adv] EXCEPT !.err = "timeout"]
    BY <1>2, <2>1, <2>2, WorkUpdate DEF TypeInv, TypeOK
  <2>4. Steady(work[adv], late[adv])
    <3> DEFINE c == [work[adv] EXCEPT !.err = "timeout"]
    <3>1. /\ c.phase = work[adv].phase /\ c.failed = work[adv].failed /\ c.task = work[adv].task
          /\ c.pending = work[adv].pending /\ c.answer = work[adv].answer /\ c.err = "timeout"
      BY <1>2 DEF WorkType
    <3> QED
      BY <1>2, <2>1, <2>3, <3>1, SteadySame
  <2>5. \A v \in Requests : v # adv => late[v] = work[v] /\ work[v] \in WorkType
    BY <1>2 DEF TypeInv, TypeOK
  <2>6. late[adv].err = "timeout"
    BY <1>2, <2>3 DEF WorkType
  <2> QED
    BY <2>3, <2>4, <2>5, <2>6, SteadySame
<1> HIDE DEF tried, late
<1>7. ASSUME NEW wk \in {tried, late}, NEW v \in Requests
      PROVE  /\ FailedClosed(wk, adv, raised, lost)[v] \in WorkType
             /\ Steady(work[v], FailedClosed(wk, adv, raised, lost)[v])
  <2>1. Answering(wk)
    BY SMTT(30), <1>5, <1>6, InvAnswering
       DEF Answering, RecordsInv, Steady, Evolves, TypeInv, TypeOK, WorkType
  <2>2. FailedClosed(wk, adv, raised, lost) \in [Requests -> WorkType]
    BY <1>5, <1>6, FailedClosedType
  <2>3. wk \in [Requests -> WorkType] /\ wk[adv].err # "none" /\ Steady(work[v], wk[v])
    BY <1>4, <1>5, <1>6
  <2>4. Steady(wk[v], FailedClosed(wk, adv, raised, lost)[v])
    BY <1>2, <2>1, <2>3, FailedClosedSteady
  <2> QED
    BY <2>2, <2>3, <2>4, SteadyTrans DEF TypeInv, TypeOK
<1>8. ASSUME NEW v \in Requests
      PROVE  /\ [work EXCEPT ![adv] = Finished(k, FALSE, adv \in lost)][v] \in WorkType
             /\ Steady(work[v], [work EXCEPT ![adv] = Finished(k, FALSE, adv \in lost)][v])
  <2>1. Finished(k, FALSE, adv \in lost) \in WorkType
    BY <1>2, <1>3, FinishedType
  <2>2. Steady(k, Finished(k, FALSE, adv \in lost))
    <3>1. k.answer # "ok" \/ k.phase # "live"
      BY <1>2, <1>3 DEF Steady, Evolves
    <3> QED
      BY ZenonT(60), <1>2, <1>3, <1>4, <3>1, FinishedEvolves, SteadySame DEF Finished
  <2>3. Steady(work[adv], Finished(k, FALSE, adv \in lost))
    BY <1>2, <1>3, <2>1, <2>2, SteadyTrans
  <2> QED
    BY <2>1, <2>3, SteadySame DEF TypeInv, TypeOK
<1>9. \/ work' = FailedClosed(late, adv, raised, lost)
      \/ work' = FailedClosed(tried, adv, raised, lost)
      \/ work' = [work EXCEPT ![adv] = Finished(k, FALSE, adv \in lost)]
      \/ work' = tried
  BY DEF AdvanceTroubled, tried, late, k
<1>10. ASSUME NEW v \in Requests PROVE work'[v] \in WorkType /\ Steady(work[v], work'[v])
  BY <1>5, <1>7, <1>8, <1>9
<1>11. ASSUME NEW v \in Requests PROVE Kept(v, work'[v], durable[v], effect'[v])
  <2>1. Kept(v, work'[v], durable[v], effect[v])
    BY <1>10, KeptEvolves DEF Steady, RecordsInv, KeptAll, TypeInv, TypeOK
  <2>2. \/ effect'[v] = effect[v]
        \/ v = adv /\ effect'[v] = "clean" /\ effect[v] = "dirty"
        \/ v = adv /\ effect'[v] = "none"
    BY DEF AdvanceTroubled, TypeInv, TypeOK
  <2>3. work'[adv].phase # "new"
    BY <1>2, <1>10 DEF Steady, Evolves
  <2> QED
    BY <2>1, <2>2, <2>3, KeptClean
<1>12. KeptAll' /\ Back
  BY <1>11 DEF KeptAll, AdvanceTroubled
<1> QED
  BY <1>1, <1>12, BackRecords

\* Records.factory queues "started" before the task exists.
LEMMA BuildRecords ==
  ASSUME TypeInv, RecordsInv, NEW made \in {"built", "timeout", "task_error"},
         NEW lost \in Losses, Build(made, lost)
  PROVE  RecordsInv'
PROOF
<1> DEFINE k == IF adv \in Ordinary \ lost THEN Observe(work[adv], "started", FALSE) ELSE work[adv]
           refused == adv \in Ordinary \cap lost
           code == IF refused THEN "artifact_failed" ELSE made
           built == [k EXCEPT !.task = "built"]
<1>1. Advancing
  BY DEF Advancing, Build
<1>2. /\ adv \in Requests /\ work[adv] \in WorkType
      /\ work[adv].phase = "live" /\ work[adv].err = "none" /\ work[adv].task = "none"
      /\ work[adv].answer # "ok" /\ (adv \in Ordinary => ~work[adv].failed)
  BY <1>1, AdvTyped, AdvKept DEF Build, Trouble, Codes, WorkType
<1>3. /\ k \in WorkType /\ Steady(work[adv], k)
      /\ k.phase = "live" /\ k.err = "none" /\ k.answer # "ok" /\ k.task = "none"
      /\ k.failed = work[adv].failed
      /\ adv \in Ordinary \ lost => "started" \in k.pending
  <2>1. k \in WorkType /\ Steady(work[adv], k)
    BY <1>2, ObserveType, ObserveSteady, SteadySame DEF Events
  <2> QED
    BY <1>2, <2>1 DEF Observe, WorkType
<1> HIDE DEF k
<1>4. Kept(adv, k, durable[adv], effect[adv])
  BY <1>1, <1>2, <1>3, AdvKept, KeptEvolves DEF Steady
<1>5. \/ /\ code = "built" /\ work' = [work EXCEPT ![adv] = built]
         /\ pc' = "gate" /\ UNCHANGED <<adv, ret>>
      \/ /\ code # "built" /\ work' = [work EXCEPT ![adv] = Cancelled(k, adv, code, FALSE, refused)]
         /\ Back
  BY Zenon DEF Build, k
<1>6. CASE code # "built" /\ Back
  <2>1. code \in Codes
    BY <1>6 DEF Codes
  <2>2. refused \in BOOLEAN
    OBVIOUS
  <2> HIDE DEF code, refused
  <2>3. /\ Cancelled(k, adv, code, FALSE, refused) \in WorkType
        /\ Steady(k, Cancelled(k, adv, code, FALSE, refused))
    BY <1>3, <2>1, <2>2, CancelledType, CancelledSteady
  <2>4. Kept(adv, Cancelled(k, adv, code, FALSE, refused), durable[adv], effect[adv])
    BY <1>2, <1>3, <1>4, <2>3, KeptEvolves DEF Steady
  <2>5. KeptAll'
    BY <1>1, <1>5, <1>6, <2>4, AdvKept, AdvRecords DEF Build, world
  <2> QED
    BY <1>1, <1>6, <2>5, BackRecords
<1>7. CASE code = "built"
  <2>1. adv \in Ordinary => adv \in Ordinary \ lost
    BY <1>7
  <2>2. /\ built.phase = "live" /\ built.err = "none" /\ built.answer = k.answer
        /\ built.task = "built" /\ built.failed = k.failed /\ built.pending = k.pending
    BY <1>3 DEF WorkType
  <2> HIDE DEF built
  <2>3. Kept(adv, built, durable[adv], effect[adv])
    BY <1>3, <1>4, <2>1, <2>2
       DEF Kept, Fresh, Admitted, Finalized, Started, Decided, Intended,
       Stepping, EmittedOf, SucceededOf, Saved, Underway
  <2>4. KeptAll'
    BY <1>1, <1>5, <1>7, <2>3, AdvKept, AdvRecords DEF Build, world
  <2>5. AtGate'
    <3>1. pc' = "gate" /\ adv' = adv /\ work'[adv] = built
      BY <1>2, <1>5, <1>7 DEF TypeInv, TypeOK
    <3> QED
      BY <1>2, <1>3, <2>2, <3>1 DEF AtGate
  <2> QED
    BY <2>4, <2>5 DEF RecordsInv
<1> QED
  BY <1>5, <1>6, <1>7

LEMMA ResumeRecords == ASSUME TypeInv, RecordsInv, Resume PROVE RecordsInv'
PROOF
<1>1. work[adv] \in WorkType /\ adv \in Requests
  BY AdvTyped DEF Resume, Advancing
<1>2. AtGate'
  BY <1>1 DEF Resume, AtGate, Trouble, Codes, WorkType
<1> QED
  BY <1>2 DEF Resume, RecordsInv, KeptAll, world

LEMMA GateHoldRecords == ASSUME TypeInv, RecordsInv, GateHold PROVE RecordsInv'
PROOF
<1>1. Advancing /\ UNCHANGED <<work, world>> /\ Back
  BY DEF Advancing, GateHold
<1> QED
  BY <1>1, BackRecords DEF RecordsInv, KeptAll, world

\* The work at the gate, stepped.
LEMMA GateStepped ==
  ASSUME TypeInv, RecordsInv, pc = "gate", ~Holding(work[adv], adv)
  PROVE  LET k == Stepped(work[adv])
         IN /\ Advancing /\ adv \in Requests /\ k \in WorkType
            /\ Kept(adv, k, durable[adv], effect[adv])
            /\ k.phase = "live" /\ k.err = "none" /\ k.task = "stepped" /\ k.answer # "ok"
            /\ adv \in Ordinary => ~k.failed
            /\ k.failed = work[adv].failed /\ k.pending = work[adv].pending
PROOF
<1>1. Advancing
  BY DEF Advancing
<1>2. adv \in Requests /\ work[adv] \in WorkType /\ Stepped(work[adv]) \in WorkType
  BY <1>1, AdvTyped DEF Stepped
<1>3. /\ work[adv].phase = "live" /\ work[adv].err = "none" /\ work[adv].task # "none"
      /\ adv \in Ordinary => ~work[adv].failed
  BY DEF RecordsInv, AtGate
<1>4. Kept(adv, work[adv], durable[adv], effect[adv]) /\ work[adv].answer # "ok"
  BY <1>1, <1>3, AdvKept
<1> QED
  BY <1>1, <1>2, <1>3, <1>4, KeptStepped

LEMMA GateLateRecords ==
  ASSUME TypeInv, RecordsInv, NEW raised \in BOOLEAN, NEW lost \in Losses, GateLate(raised, lost)
  PROVE  RecordsInv'
PROOF
<1> DEFINE k == Stepped(work[adv])
<1>1. /\ Advancing /\ k \in WorkType /\ Kept(adv, k, durable[adv], effect[adv]) /\ k.answer # "ok"
  BY GateStepped DEF GateLate
<1>2. /\ work' = [work EXCEPT ![adv] = Cancelled(k, adv, "timeout", raised, adv \in lost)]
      /\ UNCHANGED world /\ Back
  BY DEF GateLate, Stepped
<1> HIDE DEF k
<1>3. KeptAll'
  BY <1>1, <1>2, CancelAdvRecords DEF Codes
<1> QED
  BY <1>1, <1>2, <1>3, BackRecords

LEMMA StepWaitRecords == ASSUME TypeInv, RecordsInv, StepWait PROVE RecordsInv'
PROOF
<1> DEFINE k == Stepped(work[adv])
<1>1. Advancing /\ Kept(adv, k, durable[adv], effect[adv])
  BY GateStepped DEF StepWait, MayStep
<1>2. work' = [work EXCEPT ![adv] = k] /\ UNCHANGED world /\ Back
  BY DEF StepWait
<1> HIDE DEF k
<1>3. KeptAll'
  BY <1>1, <1>2, AdvKept, AdvRecords DEF world
<1> QED
  BY <1>1, <1>2, <1>3, BackRecords

\* Context.effects queues its record before the task goes on.
LEMMA StepEffectsRecords ==
  ASSUME TypeInv, RecordsInv, NEW raised \in BOOLEAN, NEW lost \in Losses,
         StepEffects(raised, lost)
  PROVE  RecordsInv'
PROOF
<1> DEFINE s == Stepped(work[adv])
           partial == [s EXCEPT !.outcome = "partial"]
           k == Observe(partial, "effects", adv \in lost)
           e == IF adv \in Gating THEN "intent" ELSE "dirty"
<1>1. /\ Advancing /\ adv \in Requests /\ s \in WorkType /\ Kept(adv, s, durable[adv], effect[adv])
      /\ s.phase = "live" /\ s.err = "none" /\ s.task = "stepped" /\ s.answer # "ok"
  BY GateStepped DEF StepEffects, MayStep
<1>2. (adv \in lost) \in BOOLEAN
  OBVIOUS
<1>3. \/ /\ k.failed /\ adv \in Ordinary
         /\ work' = [work EXCEPT ![adv] = Cancelled(k, adv, "artifact_failed", raised, adv \in lost)]
         /\ UNCHANGED effect
      \/ /\ ~(k.failed /\ adv \in Ordinary)
         /\ work' = [work EXCEPT ![adv] = k]
         /\ effect' = [effect EXCEPT ![adv] = e]
  BY DEF StepEffects
<1>4. Back /\ durable' = durable
  BY DEF StepEffects
<1> HIDE DEF s
<1>5. /\ partial \in WorkType /\ Steady(s, partial)
      /\ partial.phase = "live" /\ partial.answer # "ok" /\ partial.task = "stepped"
  <2>1. partial \in WorkType
    BY <1>1, Zenon DEF WorkType
  <2>2. /\ partial.phase = s.phase /\ partial.failed = s.failed /\ partial.task = s.task
        /\ partial.pending = s.pending /\ partial.answer = s.answer /\ partial.err = s.err
    BY <1>1 DEF WorkType
  <2> QED
    BY <1>1, <2>1, <2>2, SteadySame
<1> HIDE DEF partial
<1>6. /\ k \in WorkType /\ Steady(s, k) /\ k.phase = "live" /\ k.answer # "ok" /\ k.task = "stepped"
      /\ ~k.failed => "effects" \in k.pending
  <2>1. k \in WorkType /\ Steady(partial, k)
    BY <1>2, <1>5, ObserveType, ObserveSteady DEF Events
  <2>2. Steady(s, k)
    BY <1>1, <1>5, <2>1, SteadyTrans
  <2> QED
    BY <1>5, <2>1, <2>2 DEF Observe, WorkType
<1> HIDE DEF k
<1>7. Kept(adv, k, durable[adv], effect[adv])
  BY <1>1, <1>6, KeptEvolves DEF Steady
<1>8. CASE work' = [work EXCEPT ![adv] = Cancelled(k, adv, "artifact_failed", raised, adv \in lost)]
           /\ UNCHANGED effect
  <2>1. KeptAll'
    BY <1>1, <1>4, <1>6, <1>7, <1>8, CancelAdvRecords DEF Codes, world
  <2> QED
    BY <1>1, <1>4, <2>1, BackRecords
<1>9. CASE /\ ~(k.failed /\ adv \in Ordinary)
           /\ work' = [work EXCEPT ![adv] = k]
           /\ effect' = [effect EXCEPT ![adv] = e]
  <2>1. Kept(adv, k, durable[adv], e)
    <3>1. Intended(adv, k, durable[adv], e)
      BY <1>6, <1>9 DEF Intended, Saved
    <3>2. EmittedOf(adv, durable[adv], e)
      BY <1>6, <1>7, <1>9 DEF Kept, Stepping, EmittedOf
    <3> QED
      BY <1>6, <1>7, <3>1, <3>2 DEF Kept, Fresh
  <2> HIDE DEF e
  <2>2. KeptAll'
    BY <1>1, <1>4, <1>9, <2>1, AdvRecords
  <2> QED
    BY <1>1, <1>4, <2>2, BackRecords
<1> QED
  BY <1>3, <1>8, <1>9

\* What a gating task was promised by Context.recorded is on disk.
LEMMA StepEmitRecords == ASSUME TypeInv, RecordsInv, StepEmit PROVE RecordsInv'
PROOF
<1> DEFINE k == Stepped(work[adv])
<1>1. /\ Advancing /\ Kept(adv, k, durable[adv], effect[adv])
      /\ k.phase = "live" /\ k.task = "stepped" /\ k.failed = work[adv].failed
      /\ k.pending = work[adv].pending
  BY GateStepped DEF StepEmit, MayStep
<1>2. /\ work' = [work EXCEPT ![adv] = k] /\ effect' = [effect EXCEPT ![adv] = "dirty"]
      /\ Back /\ durable' = durable /\ effect[adv] = "intent"
      /\ work[adv].pending = {} /\ ~work[adv].failed
  BY DEF StepEmit, Recorded, Pending
<1> HIDE DEF k
<1>3. Kept(adv, k, durable[adv], "dirty")
  <2>1. \A ev : Saved(k, durable[adv], ev) => ev \in durable[adv]
    BY <1>1, <1>2 DEF Saved
  <2>2. EmittedOf(adv, durable[adv], "dirty")
    BY <1>1, <1>2, <2>1, RequestsAssumption
    DEF Kept, EmittedOf, Admitted, Started, Intended, Underway, Admission
  <2> QED
    BY <1>1, <2>2 DEF Kept, Fresh, Intended
<1>4. KeptAll'
  BY <1>1, <1>2, <1>3, AdvRecords
<1> QED
  BY <1>1, <1>2, <1>4, BackRecords

LEMMA StepResultRecords == ASSUME TypeInv, RecordsInv, StepResult PROVE RecordsInv'
PROOF
<1> DEFINE k == Stepped(work[adv])
           e == IF effect[adv] = "dirty" THEN "clean" ELSE effect[adv]
<1>1. /\ Advancing /\ adv \in Requests /\ k \in WorkType /\ Kept(adv, k, durable[adv], effect[adv])
      /\ k.phase = "live" /\ k.err = "none" /\ k.task = "stepped"
  BY GateStepped DEF StepResult, MayStep
<1>2. /\ work' = [work EXCEPT ![adv] = k] /\ effect' = [effect EXCEPT ![adv] = e]
      /\ pc' = "returned" /\ adv' = adv /\ durable' = durable
      /\ effect[adv] \in {"none", "dirty"}
  BY <1>1 DEF StepResult, TypeInv, TypeOK
<1> HIDE DEF k
<1>3. Kept(adv, k, durable[adv], e)
  BY <1>1, <1>2, KeptClean
<1> HIDE DEF e
<1>4. KeptAll'
  BY <1>1, <1>2, <1>3, AdvRecords
<1>5. work'[adv'] = k
  BY <1>1, <1>2, AdvTyped
<1>6. AtGate'
  BY <1>1, <1>2, <1>5 DEF AtGate
<1> QED
  BY <1>4, <1>6 DEF RecordsInv

LEMMA StepRaiseRecords ==
  ASSUME TypeInv, RecordsInv, NEW outcome \in {"not_started", "unknown"}, NEW raised \in BOOLEAN,
         NEW lost \in Losses, StepRaise(outcome, raised, lost)
  PROVE  RecordsInv'
PROOF
<1> DEFINE s == Stepped(work[adv])
           k == IF outcome = "not_started" THEN s ELSE [s EXCEPT !.outcome = outcome]
<1>1. /\ Advancing /\ adv \in Requests /\ s \in WorkType
      /\ Kept(adv, s, durable[adv], effect[adv]) /\ s.answer # "ok"
  BY GateStepped DEF StepRaise, MayStep
<1>2. /\ work' = [work EXCEPT ![adv] = Cancelled(k, adv, "task_error", raised, adv \in lost)]
      /\ Back /\ UNCHANGED world
  BY Zenon DEF StepRaise, k, s
<1> HIDE DEF s
<1>3. k \in WorkType /\ Steady(s, k) /\ k.answer # "ok"
  <2>1. CASE outcome = "not_started"
    BY <1>1, <2>1, SteadySame
  <2>2. CASE outcome # "not_started"
    <3> DEFINE d == [s EXCEPT !.outcome = outcome]
    <3>1. d \in WorkType
      BY <1>1, Zenon DEF WorkType
    <3>2. /\ d.phase = s.phase /\ d.failed = s.failed /\ d.task = s.task
          /\ d.pending = s.pending /\ d.answer = s.answer /\ d.err = s.err
      BY <1>1 DEF WorkType
    <3>3. k = d
      BY <2>2
    <3> HIDE DEF d, k
    <3> QED
      BY <1>1, <3>1, <3>2, <3>3, SteadySame
  <2> QED
    BY <2>1, <2>2
<1> HIDE DEF k
<1>4. Kept(adv, k, durable[adv], effect[adv])
  BY <1>1, <1>3, KeptEvolves DEF Steady
<1>5. KeptAll'
  BY <1>1, <1>2, <1>3, <1>4, CancelAdvRecords DEF Codes
<1> QED
  BY <1>1, <1>2, <1>5, BackRecords

\* A result finishes the work without an error: it had a task.
LEMMA ReturnRecords ==
  ASSUME TypeInv, RecordsInv, NEW raised \in BOOLEAN, NEW lost \in Losses, Return(raised, lost)
  PROVE  RecordsInv'
PROOF
<1> DEFINE w == work[adv]
           d == Doubt(w)
           f == Finished(w, TRUE, adv \in lost)
<1>1. Advancing
  BY DEF Advancing, Return
<1>2. /\ adv \in Requests /\ w \in WorkType /\ Kept(adv, w, durable[adv], effect[adv])
      /\ w.phase = "live" /\ w.task = "stepped" /\ w.answer # "ok"
  <2>1. w.phase = "live" /\ w.task = "stepped"
    BY DEF Return, RecordsInv, AtGate
  <2> QED
    BY <1>1, <2>1, AdvTyped, AdvKept
<1>3. (adv \in lost) \in BOOLEAN
  OBVIOUS
<1>4. \/ work' = [work EXCEPT ![adv] = Cancelled(d, adv, "timeout", raised, adv \in lost)]
      \/ work' = [work EXCEPT ![adv] = f]
  BY DEF Return
<1>5. Back /\ UNCHANGED world
  BY DEF Return
<1> HIDE DEF w
<1>6. f \in WorkType /\ Evolves(w, f)
  BY <1>2, <1>3, FinishedType, FinishedEvolves
<1>7. d \in WorkType /\ Steady(w, d) /\ d.answer # "ok"
  <2>1. \A o \in {"not_started", "partial", "unknown"} : [w EXCEPT !.outcome = o] \in WorkType
    BY <1>2, Zenon DEF WorkType
  <2>2. w.outcome \in {"not_started", "partial", "unknown"}
    BY <1>2 DEF WorkType
  <2>3. d \in WorkType
    BY <2>1, <2>2 DEF Doubt
  <2>4. /\ d.phase = w.phase /\ d.failed = w.failed /\ d.task = w.task
        /\ d.pending = w.pending /\ d.answer = w.answer /\ d.err = w.err
    BY <1>2 DEF Doubt, WorkType
  <2> QED
    BY <1>2, <2>3, <2>4, SteadySame
<1> HIDE DEF d, f
<1>8. CASE work' = [work EXCEPT ![adv] = Cancelled(d, adv, "timeout", raised, adv \in lost)]
  <2>1. Kept(adv, d, durable[adv], effect[adv])
    BY <1>2, <1>7, KeptEvolves DEF Steady
  <2>2. KeptAll'
    BY <1>1, <1>5, <1>7, <1>8, <2>1, CancelAdvRecords DEF Codes
  <2> QED
    BY <1>1, <1>5, <2>2, BackRecords
<1>9. CASE work' = [work EXCEPT ![adv] = f]
  <2>1. Kept(adv, f, durable[adv], effect[adv])
    BY <1>2, <1>6, KeptEvolves DEF MayFinish
  <2>2. KeptAll'
    BY <1>1, <1>5, <1>9, <2>1, AdvKept, AdvRecords DEF world
  <2> QED
    BY <1>1, <1>5, <2>2, BackRecords
<1> QED
  BY <1>4, <1>8, <1>9

-----------------------------------------------------------------------------
LEMMA AdvanceRecords == ASSUME TypeInv, TypeInv', RecordsInv, Advance PROVE RecordsInv'
BY AdvanceOverRecords, AdvanceTroubledRecords, BuildRecords, ResumeRecords, GateHoldRecords,
   GateLateRecords, StepWaitRecords, StepEffectsRecords, StepEmitRecords, StepResultRecords,
   StepRaiseRecords, ReturnRecords DEF Advance

LEMMA TurnRecords == ASSUME TypeInv, TypeInv', RecordsInv, Turn PROVE RecordsInv'
PROOF
<1>1. ASSUME NEW fate \in Fated, NEW lost \in Losses, Settle(fate, lost)
      PROVE  RecordsInv'
  <2>1. fate \in [Requests -> Codes \cup {"ok"}]
    BY FatedType
  <2> QED
    BY <1>1, <2>1, SettleRecords
<1>2. active \in Requests \cup {None} /\ lifecycle \in Requests \cup {None}
  BY DEF TypeInv, TypeOK, Requests
<1>3. CASE Drain(active, "drain", "drainLifecycle")
  BY <1>2, <1>3, DrainRecords
<1>4. CASE Drain(lifecycle, "drainLifecycle", "drained")
  BY <1>2, <1>4, DrainRecords
<1> QED
  BY <1>1, <1>3, <1>4, ExpireRecords, LifecycleRecords, ReleaseRecords, StartRecords,
     UnavailableRecords, DrainedRecords, AdvanceRecords DEF Turn

LEMMA DispatchRecords == ASSUME TypeInv, TypeInv', RecordsInv, Dispatch PROVE RecordsInv'
PROOF
<1>1. ASSUME NEW w \in Ordinary, Refuse(w) PROVE RecordsInv'
  BY <1>1, RefuseRecords DEF Refuse, Requests, Codes
<1>2. ASSUME NEW w \in Controls, NEW expired \in BOOLEAN, RefuseControl(w, expired)
      PROVE  RecordsInv'
  BY <1>2, RefuseRecords DEF RefuseControl, Requests, Codes
<1> QED
  BY <1>1, <1>2, AdmitRecords, CancelRecords, AdmitControlRecords, BeginShutdownRecords
  DEF Dispatch

LEMMA RecordsStep == ASSUME TypeInv, TypeInv', RecordsInv, [Next]_vars PROVE RecordsInv'
PROOF
<1>1. CASE Next
  BY <1>1, DispatchRecords, TurnRecords, ReportRecords, TickRecords DEF Next
<1>2. CASE UNCHANGED vars
  BY <1>2 DEF vars, world, RecordsInv, AtGate, KeptAll
<1> QED
  BY <1>1, <1>2

LEMMA RecordsCorrect == Spec => []RecordsInv
PROOF
<1>1. Init => TypeInv /\ RecordsInv
  BY InitType, InitRecords
<1>2. (TypeInv /\ RecordsInv) /\ [Next]_vars => (TypeInv /\ RecordsInv)'
  BY TypeStep, RecordsStep
<1> QED
  BY <1>1, <1>2, PTL DEF Spec

\* No task touches the desktop before the records of its admission and start, and
\* of its intent if it gates, are on disk.
THEOREM EffectsDurable == Spec => []EffectsAfterRecords
PROOF
<1>1. RecordsInv => EffectsAfterRecords
  BY DEF RecordsInv, KeptAll, Kept, EmittedOf, EffectsAfterRecords, Emitted, Requests
<1> QED
  BY RecordsCorrect, <1>1, PTL

\* A success that was answered never lacks a record on disk.
THEOREM SuccessDurable == Spec => []SuccessIsDurable
PROOF
<1>1. RecordsInv => SuccessIsDurable
  BY DEF RecordsInv, KeptAll, Kept, SucceededOf, SuccessIsDurable
<1> QED
  BY RecordsCorrect, <1>1, PTL

-----------------------------------------------------------------------------
(* Ownership and answers.  What the operators on a Work record do to its       *)
(* outcome, its deadline and its answer, beside what Steady says of them.     *)

\* An effect once possible is never denied; success is decided before the deadline
\* and is the only end without an error.
Ends(k, j) ==
  /\ k.outcome # "not_started" => j.outcome # "not_started"
  /\ k.answer # "ok" /\ j.answer = "ok" => ~Late(k)
  /\ k.phase = "finishing" /\ j.phase = "finishing" => j.deadline = k.deadline
  /\ k.phase \in {"live", "finishing"} /\ j.phase = "terminal" /\ j.err = "none" => j.answer = "ok"

Moves(k, j) == Steady(k, j) /\ Ends(k, j)

\* A work whose task exists is not over: it is owed a cleanup.
Stays(k, j) == k.phase = "live" /\ k.task # "none" => j.phase = "live"

Quiet(k, j) == Moves(k, j) /\ Stays(k, j)

LEMMA MovesTrans ==
  ASSUME NEW k \in WorkType, NEW j \in WorkType, NEW i \in WorkType, Moves(k, j), Moves(j, i)
  PROVE  Moves(k, i)
PROOF
<1>1. Steady(k, i)
  BY SteadyTrans DEF Moves
<1>2. k.outcome # "not_started" => i.outcome # "not_started"
  BY DEF Moves, Ends
<1>3. k.phase = "finishing" /\ i.phase = "finishing" => i.deadline = k.deadline
  BY DEF Moves, Ends, Steady, Evolves
<1>4. k.answer # "ok" /\ i.answer = "ok" => ~Late(k)
  BY <1>1 DEF Moves, Ends, Steady, Evolves, Late
<1>5. k.phase \in {"live", "finishing"} /\ i.phase = "terminal" /\ i.err = "none" => i.answer = "ok"
  BY DEF Moves, Ends, Steady, Evolves, Errs
<1> QED
  BY <1>1, <1>2, <1>3, <1>4, <1>5 DEF Moves, Ends

LEMMA QuietTrans ==
  ASSUME NEW k \in WorkType, NEW j \in WorkType, NEW i \in WorkType, Quiet(k, j), Quiet(j, i)
  PROVE  Quiet(k, i)
PROOF
<1>1. Moves(k, i)
  BY MovesTrans DEF Quiet
<1>2. Stays(k, i)
  BY DEF Quiet, Moves, Steady, Evolves, Stays
<1> QED
  BY <1>1, <1>2 DEF Quiet

LEMMA QuietSame ==
  ASSUME NEW k \in WorkType, NEW j \in WorkType,
         j.failed = k.failed, j.pending = k.pending, j.task = k.task, j.phase = k.phase,
         j.answer = k.answer, k.err # "none" => j.err # "none",
         k.outcome # "not_started" => j.outcome # "not_started",
         k.phase = "finishing" => j.deadline = k.deadline
  PROVE  Quiet(k, j)
PROOF
<1>1. Steady(k, j)
  BY SteadySame
<1> QED
  BY <1>1 DEF Quiet, Moves, Ends, Stays

LEMMA QuietRefl == ASSUME NEW k \in WorkType PROVE Quiet(k, k)
BY QuietSame

LEMMA ObserveQuiet ==
  ASSUME NEW k \in WorkType, k.phase = "live", NEW ev \in Events, NEW lost \in BOOLEAN
  PROVE  /\ Quiet(k, Observe(k, ev, lost))
         /\ Observe(k, ev, lost).phase = "live" /\ Observe(k, ev, lost).err = k.err
PROOF
<1>1. Steady(k, Observe(k, ev, lost))
  BY ObserveSteady
<1>2. /\ Observe(k, ev, lost).outcome = k.outcome /\ Observe(k, ev, lost).phase = k.phase
      /\ Observe(k, ev, lost).answer = k.answer /\ Observe(k, ev, lost).err = k.err
  BY DEF Observe, WorkType
<1> QED
  BY <1>1, <1>2 DEF Quiet, Moves, Ends, Stays

LEMMA SettledMoves ==
  ASSUME NEW k \in WorkType, k.phase = "finishing", k.answer # "ok",
         NEW fate \in Codes \cup {"ok"}
  PROVE  Quiet(k, Settled(k, fate)) /\ Settled(k, fate).phase = "terminal"
PROOF
<1> DEFINE d == IF Verdict(k, "ok") = "ok" /\ fate # "ok" THEN [k EXCEPT !.outcome = "unknown"]
                ELSE IF k.err = "none" /\ k.result /\ (Pending(k) \/ Late(k)) THEN Doubt(k)
                ELSE k
           j == Settled(k, fate)
<1>1. d \in WorkType /\ (k.outcome # "not_started" => d.outcome # "not_started")
  <2>1. [k EXCEPT !.outcome = "unknown"] \in WorkType
    BY Zenon DEF WorkType
  <2> QED
    BY <2>1 DEF Doubt, WorkType
<1> HIDE DEF d
<1>2. j = [d EXCEPT !.phase = "terminal", !.answer = Verdict(k, fate),
                    !.err = IF Verdict(k, fate) = "ok" THEN "none" ELSE Verdict(k, fate),
                    !.failed = @ \/ Pending(k), !.deadline = 0, !.settleBy = 0]
  BY Zenon DEF Settled, d
<1>3. /\ j.phase = "terminal" /\ j.answer = Verdict(k, fate) /\ j.outcome = d.outcome
      /\ j.err = IF Verdict(k, fate) = "ok" THEN "none" ELSE Verdict(k, fate)
  <2> HIDE DEF j
  <2> QED
    BY <1>1, <1>2 DEF WorkType
<1>4. Verdict(k, fate) = "ok" => ~Late(k)
  BY DEF Verdict, WorkType, Codes
<1>5. Verdict(k, fate) # "none"
  BY DEF Verdict, WorkType, Codes
<1>6. Steady(k, j)
  BY SettledSteady
<1> HIDE DEF j
<1>7. Quiet(k, j)
  BY <1>1, <1>3, <1>4, <1>5, <1>6 DEF Quiet, Moves, Ends, Stays
<1> QED
  BY <1>3, <1>7 DEF j

\* _finish answers no success, and a live work is over after it.
LEMMA FinishedEnds ==
  ASSUME NEW k \in WorkType, k.answer # "ok", NEW result \in BOOLEAN, NEW lost \in BOOLEAN
  PROVE  /\ Ends(k, Finished(k, result, lost))
         /\ k.err # "none" => Moves(k, Finished(k, result, lost))
         /\ k.phase # "new" => Finished(k, result, lost).phase \in {"finishing", "terminal"}
         /\ Finished(k, result, lost).answer # "ok"
PROOF
<1> DEFINE timed == [k EXCEPT !.err = IF @ = "none" /\ Late(k) THEN "timeout" ELSE @]
           seen == Observe(timed, "finalizing", lost)
           f == [seen EXCEPT
              !.phase = "finishing", !.result = result,
              !.settleBy = Lesser(@, Greater(k.deadline, k.cleanupBy) + SettleGrace),
              !.cleanupBy = -SettleGrace,
              !.deadline = IF timed.err = "none" THEN @ ELSE -SettleGrace]
<1>0. /\ Evolves(k, Finished(k, result, lost))
      /\ k.err # "none" => Steady(k, Finished(k, result, lost))
  BY FinishedEvolves
<1>1. CASE k.phase # "live"
  <2>1. Finished(k, result, lost) = k
    BY <1>1 DEF Finished
  <2>2. Quiet(k, k)
    BY QuietRefl
  <2> QED
    BY <1>1, <2>1, <2>2 DEF Quiet, Moves, WorkType
<1>2. CASE k.phase = "live"
  <2>1. timed \in WorkType /\ timed.outcome = k.outcome /\ timed.answer = k.answer
    BY DEF WorkType, Codes
  <2> HIDE DEF timed
  <2>3. seen \in WorkType
    BY <2>1, ObserveType DEF Events
  <2>4. seen.outcome = k.outcome /\ seen.answer = k.answer
    BY <2>1 DEF Observe, WorkType
  <2> HIDE DEF seen
  <2>5. f.phase = "finishing" /\ f.outcome = k.outcome /\ f.answer = k.answer
    BY <2>3, <2>4 DEF WorkType
  <2>6. f \in WorkType
    <3>1. k.deadline \in Int /\ k.cleanupBy \in Int /\ seen.settleBy \in Int /\ seen.deadline \in Int
      BY <2>3 DEF WorkType
    <3>2. \A by, d \in Int :
            [seen EXCEPT !.phase = "finishing", !.result = result, !.settleBy = by,
                         !.cleanupBy = -SettleGrace, !.deadline = d] \in WorkType
      <4>1. -SettleGrace \in Int
        BY NumbersType
      <4> QED
        BY <2>3, <4>1, Zenon DEF WorkType
    <3>3. /\ Lesser(seen.settleBy, Greater(k.deadline, k.cleanupBy) + SettleGrace) \in Int
          /\ (IF timed.err = "none" THEN seen.deadline ELSE -SettleGrace) \in Int
      BY <3>1, NumbersType DEF Lesser, Greater
    <3> QED
      BY <3>2, <3>3
  <2>7. Finished(k, result, lost) = IF Settleable(f) THEN Settled(f, "ok") ELSE f
    BY <1>2 DEF Finished, seen, timed
  <2> HIDE DEF f
  <2>8. Moves(f, Settled(f, "ok")) /\ Settled(f, "ok").phase = "terminal"
    BY <2>5, <2>6, SettledMoves DEF Quiet
  <2>9. Finished(k, result, lost).answer # "ok"
    BY <1>0, <1>2 DEF Evolves
  <2>10. Ends(k, Finished(k, result, lost))
    BY <1>2, <2>5, <2>7, <2>8, <2>9 DEF Moves, Ends
  <2> QED
    BY <1>0, <2>5, <2>7, <2>8, <2>9, <2>10 DEF Moves
<1> QED
  BY <1>1, <1>2

\* _cancel decides an error, and leaves a work with a task to its cleanup.
LEMMA CancelledQuiet ==
  ASSUME NEW k \in WorkType, k.answer = "ok" => k.phase = "terminal", NEW w,
         NEW code \in Codes, NEW raised \in BOOLEAN, NEW lost \in BOOLEAN
  PROVE  /\ Quiet(k, Cancelled(k, w, code, raised, lost))
         /\ Cancelled(k, w, code, raised, lost).phase = "live"
              => Cancelled(k, w, code, raised, lost).err # "none"
PROOF
<1>1. CASE k.err # "none" \/ k.phase # "live"
  <2>1. Cancelled(k, w, code, raised, lost) = k
    BY <1>1 DEF Cancelled
  <2> QED
    BY <1>1, <2>1, QuietRefl
<1>2. CASE k.err = "none" /\ k.phase = "live" /\ k.task = "none"
  <2> DEFINE c == [k EXCEPT !.err = code]
  <2>1. c \in WorkType
    BY Zenon DEF WorkType
  <2>2. /\ c.err # "none" /\ c.answer = k.answer /\ c.phase = k.phase /\ c.outcome = k.outcome
        /\ c.failed = k.failed /\ c.pending = k.pending /\ c.task = k.task
        /\ c.deadline = k.deadline
    BY DEF WorkType, Codes
  <2>3. Quiet(k, c)
    BY <2>1, <2>2, QuietSame
  <2>4. Finished(c, FALSE, lost) \in WorkType
    BY <2>1, FinishedType
  <2>5. Moves(c, Finished(c, FALSE, lost))
        /\ Finished(c, FALSE, lost).phase \in {"finishing", "terminal"}
    BY <1>2, <2>1, <2>2, FinishedEnds
  <2>6. Cancelled(k, w, code, raised, lost) = Finished(c, FALSE, lost)
    BY <1>2 DEF Cancelled
  <2>7. Moves(k, Finished(c, FALSE, lost))
    BY <2>1, <2>3, <2>4, <2>5, MovesTrans DEF Quiet
  <2> QED
    BY <1>2, <2>5, <2>6, <2>7 DEF Quiet, Stays
<1>3. CASE k.err = "none" /\ k.phase = "live" /\ k.task # "none"
  <2> DEFINE fails == raised /\ w \in Raising
             by == IF fails THEN 0
                   ELSE IF w \in Controls THEN Lesser(CleanupSeconds, k.deadline)
                   ELSE CleanupSeconds
             c == [k EXCEPT !.err = code, !.cleanupBy = by,
                            !.outcome = IF fails THEN "unknown" ELSE @]
  <2>1. by \in Int
    BY NumbersType DEF Lesser, WorkType
  <2>2. Cancelled(k, w, code, raised, lost) = Observe(c, "cancelling", lost)
    BY <1>3 DEF Cancelled
  <2> HIDE DEF by, fails
  <2>3. c \in WorkType
    <3>1. (IF fails THEN "unknown" ELSE k.outcome) \in {"not_started", "partial", "unknown"}
      BY DEF WorkType
    <3>2. \A o \in {"not_started", "partial", "unknown"} :
            [k EXCEPT !.err = code, !.cleanupBy = by, !.outcome = o] \in WorkType
      BY <2>1, Zenon DEF WorkType
    <3> QED
      BY <3>1, <3>2
  <2>4. /\ c.phase = "live" /\ c.failed = k.failed /\ c.pending = k.pending /\ c.err # "none"
        /\ c.task = k.task /\ c.answer = k.answer
        /\ k.outcome # "not_started" => c.outcome # "not_started"
    BY <1>3 DEF WorkType, Codes
  <2> HIDE DEF c
  <2>5. Quiet(k, c)
    BY <1>3, <2>3, <2>4, QuietSame
  <2>6. /\ Quiet(c, Observe(c, "cancelling", lost)) /\ Observe(c, "cancelling", lost) \in WorkType
        /\ Observe(c, "cancelling", lost).err # "none"
    BY ZenonT(60), <2>3, <2>4, ObserveQuiet, ObserveType DEF Events
  <2> QED
    BY <2>2, <2>3, <2>5, <2>6, QuietTrans
<1> QED
  BY <1>1, <1>2, <1>3

LEMMA ClampQuiet ==
  ASSUME NEW k \in WorkType, NEW by \in Int
  PROVE  /\ Quiet(k, ClampCleanup(k, by)) /\ Quiet(k, ClampSettle(k, by))
         /\ ClampCleanup(k, by).err = k.err /\ ClampSettle(k, by).err = k.err
         /\ ClampCleanup(k, by).phase = k.phase /\ ClampSettle(k, by).phase = k.phase
PROOF
<1>1. /\ ClampCleanup(k, by) \in WorkType /\ ClampSettle(k, by) \in WorkType
  BY ClampType
<1>2. \A j \in {ClampCleanup(k, by), ClampSettle(k, by)} :
        /\ j.phase = k.phase /\ j.failed = k.failed /\ j.pending = k.pending
        /\ j.task = k.task /\ j.answer = k.answer /\ j.err = k.err
        /\ j.outcome = k.outcome /\ j.deadline = k.deadline
  BY DEF ClampCleanup, ClampSettle, WorkType
<1> QED
  BY <1>1, <1>2, QuietSame

\* begin_shutdown decides what both slots hold.
LEMMA ShutdownQuiet ==
  ASSUME NEW wk \in [Requests -> WorkType], Answering(wk), NEW failure \in BOOLEAN,
         NEW raised \in BOOLEAN, NEW lost, NEW w \in Requests
  PROVE  /\ Quiet(wk[w], ShutdownWork(wk, failure, raised, lost)[w])
         /\ w \in {active, lifecycle} /\ ShutdownWork(wk, failure, raised, lost)[w].phase = "live"
              => ShutdownWork(wk, failure, raised, lost)[w].err # "none"
PROOF
<1> DEFINE code == IF failure /\ w \in Ordinary THEN "session_failed" ELSE "cancelled"
           stopped == Cancelled(wk[w], w, code, raised, w \in lost)
           clamped == ClampCleanup(stopped, ShutdownBudget)
<1>1. code \in Codes /\ wk[w] \in WorkType /\ (w \in lost) \in BOOLEAN /\ ShutdownBudget \in Int
  BY NumbersType DEF Codes
<1>2. /\ stopped \in WorkType /\ Quiet(wk[w], stopped)
      /\ stopped.phase = "live" => stopped.err # "none"
  <2> HIDE DEF code
  <2> QED
    BY <1>1, CancelledType, CancelledQuiet DEF Answering
<1>3. /\ clamped \in WorkType /\ Quiet(wk[w], clamped)
      /\ clamped.phase = "live" => clamped.err # "none"
  <2> HIDE DEF stopped
  <2> QED
    BY <1>1, <1>2, ClampType, ClampQuiet, QuietTrans
<1>4. \/ ShutdownWork(wk, failure, raised, lost)[w] = ClampSettle(clamped, ShutdownBudget)
      \/ /\ ShutdownWork(wk, failure, raised, lost)[w] = ClampSettle(wk[w], ShutdownBudget)
         /\ w \notin {active, lifecycle} \/ wk[w].phase = "terminal"
  BY DEF ShutdownWork
<1> HIDE DEF clamped
<1>5. /\ ClampSettle(clamped, ShutdownBudget) \in WorkType
      /\ Quiet(wk[w], ClampSettle(clamped, ShutdownBudget))
      /\ Quiet(wk[w], ClampSettle(wk[w], ShutdownBudget))
      /\ ClampSettle(clamped, ShutdownBudget).phase = "live"
           => ClampSettle(clamped, ShutdownBudget).err # "none"
      /\ ClampSettle(wk[w], ShutdownBudget).phase = wk[w].phase
  BY <1>1, <1>3, ClampType, ClampQuiet, QuietTrans
<1> QED
  BY <1>4, <1>5

\* _fail_closed ends the work it is about, and leaves the others to their cleanup.
LEMMA FailedClosedMoves ==
  ASSUME NEW wk \in [Requests -> WorkType], Answering(wk), NEW w \in Requests,
         wk[w].err # "none", wk[w].phase # "new", NEW raised \in BOOLEAN, NEW lost,
         NEW v \in Requests
  PROVE  /\ Moves(wk[v], FailedClosed(wk, w, raised, lost)[v])
         /\ v # w => Quiet(wk[v], FailedClosed(wk, w, raised, lost)[v])
         /\ v = w => FailedClosed(wk, w, raised, lost)[v].phase # "live"
         /\ Escalating /\ v \in {active, lifecycle} /\ FailedClosed(wk, w, raised, lost)[v].phase = "live"
              => FailedClosed(wk, w, raised, lost)[v].err # "none"
PROOF
<1> DEFINE marked == [wk EXCEPT ![w].outcome = "unknown"]
           shut == IF Escalating THEN ShutdownWork(marked, TRUE, raised, lost) ELSE marked
<1>1. \A k \in WorkType : [k EXCEPT !.outcome = "unknown"] \in WorkType
  BY Zenon DEF WorkType
<1>2. marked \in [Requests -> WorkType]
  BY <1>1
<1>3. \A u \in Requests :
        /\ marked[u].phase = wk[u].phase /\ marked[u].failed = wk[u].failed
        /\ marked[u].pending = wk[u].pending /\ marked[u].task = wk[u].task
        /\ marked[u].answer = wk[u].answer /\ marked[u].err = wk[u].err
        /\ marked[u].deadline = wk[u].deadline
        /\ wk[u].outcome # "not_started" => marked[u].outcome # "not_started"
  BY DEF WorkType
<1>6. FailedClosed(wk, w, raised, lost) = [shut EXCEPT ![w] = Finished(@, FALSE, w \in lost)]
  BY Zenon DEF FailedClosed
<1> HIDE DEF marked
<1>4. ASSUME NEW u \in Requests
      PROVE  Quiet(wk[u], marked[u])
  <2>1. wk[u] \in WorkType /\ marked[u] \in WorkType
    BY <1>2
  <2> QED
    BY <1>3, <2>1, QuietSame
<1>5. Answering(marked) /\ marked[w].err # "none"
  BY <1>3 DEF Answering
<1>7. /\ shut \in [Requests -> WorkType]
      /\ \A u \in Requests : Quiet(marked[u], shut[u])
      /\ \A u \in Requests : Escalating /\ u \in {active, lifecycle} /\ shut[u].phase = "live"
                               => shut[u].err # "none"
  <2>1. CASE Escalating
    BY <1>2, <1>5, <2>1, ShutdownWorkType, ShutdownQuiet
  <2>2. CASE ~Escalating
    BY <1>2, <2>2, QuietRefl
  <2> QED
    BY <2>1, <2>2
<1> HIDE DEF shut
<1>8. \A u \in Requests : Quiet(wk[u], shut[u])
  BY <1>2, <1>4, <1>7, QuietTrans
<1>9. CASE v # w
  BY <1>6, <1>7, <1>8, <1>9 DEF Quiet
<1>10. CASE v = w
  <2>1. shut[w].err # "none" /\ shut[w] \in WorkType /\ shut[w].phase # "new"
    BY <1>3, <1>5, <1>7, <1>8 DEF Quiet, Moves, Steady, Evolves, Errs
  <2>2. shut[w].answer = "ok" => shut[w].phase = "terminal"
    BY <1>8 DEF Quiet, Moves, Steady, Evolves, Answering
  <2>3. /\ Finished(shut[w], FALSE, w \in lost) \in WorkType
        /\ Moves(shut[w], Finished(shut[w], FALSE, w \in lost))
        /\ Finished(shut[w], FALSE, w \in lost).phase # "live"
    <3>1. (w \in lost) \in BOOLEAN
      OBVIOUS
    <3>2. CASE shut[w].answer # "ok"
      BY <2>1, <3>1, <3>2, FinishedType, FinishedEnds
    <3>3. CASE shut[w].answer = "ok"
      <4>1. shut[w].phase # "live"
        BY <2>2, <3>3
      <4> QED
        BY <2>1, <4>1, QuietRefl DEF Finished, Quiet
    <3> QED
      BY <3>2, <3>3
  <2>4. Moves(wk[w], Finished(shut[w], FALSE, w \in lost))
    BY <1>8, <2>1, <2>3, MovesTrans DEF Quiet
  <2> QED
    BY <1>6, <1>7, <1>10, <2>3, <2>4
<1> QED
  BY <1>9, <1>10

\* A work that is cancelled and finished with an error in one step.
LEMMA ForcedMoves ==
  ASSUME NEW k \in WorkType, k.answer = "ok" => k.phase = "terminal",
         NEW code \in Codes, NEW lost \in BOOLEAN
  PROVE  /\ Finished([k EXCEPT !.err = code], FALSE, lost) \in WorkType
         /\ Moves(k, Finished([k EXCEPT !.err = code], FALSE, lost))
         /\ Finished([k EXCEPT !.err = code], FALSE, lost).phase # "live"
PROOF
<1> DEFINE c == [k EXCEPT !.err = code]
<1>1. c \in WorkType
  BY Zenon DEF WorkType
<1>2. /\ c.err # "none" /\ c.answer = k.answer /\ c.phase = k.phase /\ c.outcome = k.outcome
      /\ c.failed = k.failed /\ c.pending = k.pending /\ c.task = k.task
      /\ c.deadline = k.deadline
  BY DEF WorkType, Codes
<1> HIDE DEF c
<1>3. Quiet(k, c)
  BY <1>1, <1>2, QuietSame
<1>4. Finished(c, FALSE, lost) \in WorkType
  BY <1>1, FinishedType
<1>5. CASE k.phase = "live"
  <2>1. /\ Moves(c, Finished(c, FALSE, lost))
        /\ Finished(c, FALSE, lost).phase \in {"finishing", "terminal"}
    BY <1>1, <1>2, <1>5, FinishedEnds
  <2> QED
    BY <1>1, <1>3, <1>4, <2>1, MovesTrans DEF Quiet, c
<1>6. CASE k.phase # "live"
  <2>1. Finished(c, FALSE, lost) = c
    BY <1>2, <1>6 DEF Finished
  <2> QED
    BY <1>1, <1>2, <1>3, <1>6, <2>1 DEF Quiet, c
<1> QED
  BY <1>5, <1>6

\* _join, of a work that waits.
LEMMA JoinedEnds ==
  ASSUME NEW k \in WorkType, k.answer = "ok" => k.phase = "terminal",
         NEW owner \in WorkType, NEW lost \in BOOLEAN
  PROVE  /\ Evolves(k, Joined(k, owner, lost))
         /\ Joined(k, owner, lost).answer = "ok" => k.answer = "ok"
         /\ Joined(k, owner, lost).err = "none" => owner.err = "none"
         /\ k.phase # "new" => Joined(k, owner, lost).phase \in {"finishing", "terminal"}
PROOF
<1> DEFINE c == [k EXCEPT !.err = owner.err, !.outcome = owner.outcome]
<1>1. c \in WorkType
  <2>1. owner.err \in Codes \cup {"none"} /\ owner.outcome \in {"not_started", "partial", "unknown"}
    BY DEF WorkType
  <2> QED
    BY <2>1, Zenon DEF WorkType
<1>2. c.phase = k.phase /\ c.answer = k.answer /\ c.err = owner.err
  BY DEF WorkType
<1>3. Joined(k, owner, lost) = Finished(c, owner.result, lost) /\ owner.result \in BOOLEAN
  BY DEF Joined, WorkType
<1>4. Evolves(k, Joined(k, owner, lost))
  BY JoinedEvolves
<1> HIDE DEF c
<1>5. CASE k.phase = "live"
  <2>1. /\ Finished(c, owner.result, lost).answer # "ok"
        /\ Finished(c, owner.result, lost).phase \in {"finishing", "terminal"}
        /\ c.err # "none" => Steady(c, Finished(c, owner.result, lost))
    BY <1>1, <1>2, <1>3, <1>5, FinishedEnds DEF Moves
  <2> QED
    BY <1>2, <1>3, <1>4, <2>1 DEF Steady, Errs
<1>6. CASE k.phase # "live"
  <2>1. Finished(c, owner.result, lost) = c
    BY <1>2, <1>6 DEF Finished
  <2> QED
    BY <1>2, <1>3, <1>4, <1>6, <2>1 DEF WorkType
<1> QED
  BY <1>5, <1>6

-----------------------------------------------------------------------------
(* The invariant.  The slots, and what the stage of the turn says of them.     *)

Undecided(w) == w # None /\ work[w].phase = "live" /\ work[w].err = "none"

\* Whoever ends the session has decided what the slots held.
SlotsDecided ==
  /\ lifecycle # None \/ mode # "run" => stopping
  /\ stopping \/ unavailable => ~Undecided(active)
  /\ mode # "run" => ~Undecided(lifecycle)

Drains == {"drain", "drainLifecycle", "drained"}

\* _advance runs on the owner of a slot: of the lifecycle slot, while the session
\* runs, only when the ordinary one is free.
StageSlots ==
  /\ pc \in Drains \/ ret \in Drains => mode # "run"
  /\ Advancing /\ adv \in Ordinary => active = adv
  /\ Advancing /\ adv \in Controls => lifecycle = adv /\ (mode = "run" => active = None)
  /\ pc = "returned" => effect[adv] # "dirty"

\* A work that has the desktop is the live owner of its slot, and has it alone.
Owning(w) ==
  effect[w] = "dirty" /\ ~unavailable =>
    /\ work[w].phase = "live"
    /\ w \in Ordinary => active = w
    /\ w \in Controls => lifecycle = w /\ active = None

\* An effect leaves its trace in the outcome from the step that announces it.
Traced(w) ==
  /\ effect[w] # "none" => work[w].task # "none" /\ work[w].outcome # "not_started"
  /\ work[w].phase = "new" => work[w].task = "none"

Waits(w) == w \in Controls /\ (w \in waiters \/ joined[w] # None)
Owner(w) == w \in Controls /\ (w = lifecycle \/ \E v \in Controls : joined[v] = w)

\* A stop owns the lifecycle slot or waits for its owner, never both in turn.
Waiting(w) == Waits(w) => ~Owner(w) /\ work[w].task = "none" /\ work[w].phase # "new"

\* An owner that waiters may join ended well only if its task returned a result.
OwnerTrue(w) == Owner(w) =>
  /\ work[w].phase # "new"
  /\ work[w].phase # "live" /\ work[w].err = "none" =>
       work[w].task = "stepped" /\ (work[w].phase = "terminal" => work[w].answer = "ok")

Succeeded == \E v \in Controls : work[v].task = "stepped" /\ work[v].answer = "ok"

Successful(k) == k.answer = "ok" \/ (k.phase = "finishing" /\ k.err = "none")
JoinerTrue(w) == w \in Controls /\ work[w].task # "stepped" /\ Successful(work[w]) => Succeeded

WorkOf(w) == Traced(w) /\ Waiting(w) /\ OwnerTrue(w) /\ JoinerTrue(w)

WorkInv == \A w \in Requests : WorkOf(w)
OwningInv == \A w \in Requests : Owning(w)

OwnershipInv == SlotsDecided /\ StageSlots /\ OwningInv /\ WorkInv

LEMMA SucceededKept ==
  ASSUME TypeInv, TypeInv', KeptAll,
         \A v \in Controls : work[v].answer = "ok" => Evolves(work[v], work'[v])
  PROVE  Succeeded => Succeeded'
PROOF
<1> SUFFICES ASSUME NEW v \in Controls, work[v].task = "stepped", work[v].answer = "ok"
             PROVE  Succeeded'
  BY DEF Succeeded
<1>1. work[v].phase = "terminal" /\ Evolves(work[v], work'[v])
  BY DEF KeptAll, Kept, SucceededOf, Requests
<1>2. work'[v].task = "stepped" /\ work'[v].answer = "ok"
  BY <1>1 DEF Evolves
<1> QED
  BY <1>2 DEF Succeeded

\* A work that moves, or that waited and took its owner's outcome.
Takes(w) ==
  /\ Waits(w) /\ Evolves(work[w], work'[w])
  /\ work'[w].answer = "ok" => work[w].answer = "ok"
  /\ work'[w].phase = "finishing" /\ work'[w].err = "none" => Succeeded'

\* An owner ends as its task let it.
LEMMA OwnerMoves ==
  ASSUME TypeInv, KeptAll, NEW w \in Requests, Owner(w), OwnerTrue(w),
         NEW j \in WorkType, Moves(work[w], j)
  PROVE  /\ j.phase # "new"
         /\ j.phase # "live" /\ j.err = "none" =>
              j.task = "stepped" /\ (j.phase = "terminal" => j.answer = "ok")
PROOF
<1> DEFINE k == work[w]
<1>1. k \in WorkType /\ Evolves(k, j) /\ j.task = k.task
  BY DEF TypeInv, TypeOK, Moves, Steady, Evolves
<1>2. k.answer = "ok" => k.phase = "terminal"
  BY DEF KeptAll, Kept, SucceededOf
<1>3. k.phase # "new" /\ j.phase # "new"
  BY <1>1 DEF OwnerTrue, Evolves
<1> SUFFICES ASSUME j.phase # "live", j.err = "none"
             PROVE  j.task = "stepped" /\ (j.phase = "terminal" => j.answer = "ok")
  BY <1>3
<1>4. k.err = "none"
  BY DEF Moves, Steady, Errs
<1>5. CASE j.phase = "finishing"
  BY <1>1, <1>4, <1>5 DEF OwnerTrue, Moves, Steady, Errs
<1>6. CASE j.phase = "terminal" /\ k.phase = "terminal"
  BY <1>1, <1>4, <1>6 DEF OwnerTrue, Evolves
<1>7. CASE j.phase = "terminal" /\ k.phase # "terminal"
  <2>1. j.answer = "ok"
    BY <1>1, <1>3, <1>7 DEF Moves, Ends, WorkType
  <2>2. k.phase = "finishing"
    BY <1>1, <1>2, <1>7, <2>1 DEF Evolves
  <2> QED
    BY <1>1, <1>4, <2>1, <2>2 DEF OwnerTrue
<1> QED
  BY <1>3, <1>5, <1>6, <1>7 DEF WorkType

LEMMA WorkKept ==
  ASSUME TypeInv, TypeInv', KeptAll, WorkInv, NEW w \in Requests,
         Waits(w)' => Waits(w), Owner(w)' => Owner(w),
         effect'[w] # "none" => effect[w] # "none",
         Succeeded => Succeeded',
         Moves(work[w], work'[w]) \/ Takes(w)
  PROVE  WorkOf(w)'
PROOF
<1> DEFINE k == work[w]
           j == work'[w]
<1>1. k \in WorkType /\ j \in WorkType
  BY DEF TypeInv, TypeOK
<1>2. Traced(w) /\ Waiting(w) /\ OwnerTrue(w) /\ JoinerTrue(w)
  BY DEF WorkInv, WorkOf
<1>3. Evolves(k, j)
  BY DEF Moves, Steady, Takes
<1>4. j.task = k.task /\ (j.phase = "new" => k.phase = "new")
  BY <1>3 DEF Evolves
<1>5. k.answer = "ok" => k.phase = "terminal"
  BY DEF KeptAll, Kept, SucceededOf
<1>6. Traced(w)'
  <2>1. Waits(w) => effect[w] = "none"
    BY <1>2 DEF Traced, Waiting
  <2>2. effect'[w] # "none" => j.outcome # "not_started"
    BY <1>2, <2>1 DEF Traced, Takes, Moves, Ends
  <2> QED
    BY <1>2, <1>4, <2>2 DEF Traced
<1>7. Waiting(w)'
  BY <1>2, <1>3, <1>4 DEF Waiting
<1>8. OwnerTrue(w)'
  <2> SUFFICES ASSUME Owner(w) PROVE OwnerTrue(w)'
    BY DEF OwnerTrue
  <2>1. Moves(k, j)
    BY <1>2 DEF Waiting, Takes
  <2> QED
    BY <1>1, <1>2, <2>1, OwnerMoves DEF OwnerTrue
<1>9. JoinerTrue(w)'
  <2> SUFFICES ASSUME w \in Controls, j.task # "stepped", Successful(j) PROVE Succeeded'
    BY DEF JoinerTrue
  <2>1. CASE j.answer = "ok"
    BY <1>2, <1>3, <1>4, <2>1 DEF JoinerTrue, Successful, Evolves
  <2>2. CASE j.phase = "finishing" /\ j.err = "none"
    BY <1>2, <1>4, <2>2 DEF JoinerTrue, Successful, Takes, Moves, Steady, Errs
  <2> QED
    BY <2>1, <2>2 DEF Successful
<1> QED
  BY <1>6, <1>7, <1>8, <1>9 DEF WorkOf

\* A step that leaves the gates alone, and fills no slot.
LEMMA SlotsKept ==
  ASSUME TypeInv, SlotsDecided, active' \in {active, None}, lifecycle' \in {lifecycle, None},
         UNCHANGED <<stopping, mode>>, unavailable' = unavailable \/ ~Undecided(active)',
         \A w \in Requests \cap {active, lifecycle} : Steady(work[w], work'[w])
  PROVE  SlotsDecided'
PROOF
<1>1. active \in Requests \cup {None} /\ lifecycle \in Requests \cup {None}
  BY DEF TypeInv, TypeOK, Requests
<1>2. Undecided(active)' => Undecided(active)
  BY <1>1 DEF Undecided, Steady, Evolves, Errs
<1>3. Undecided(lifecycle)' => Undecided(lifecycle)
  BY <1>1 DEF Undecided, Steady, Evolves, Errs
<1> QED
  BY <1>2, <1>3 DEF SlotsDecided

\* The desktop stays with its owner while that one lives.
LEMMA OwningKept ==
  ASSUME TypeInv, OwningInv, FreeSlot(work') \/ active' = active,
         lifecycle' = lifecycle \/ (lifecycle' = None /\ work[lifecycle].phase # "live"),
         unavailable => unavailable',
         \A w \in Requests : effect'[w] = "dirty" /\ ~unavailable' =>
           effect[w] = "dirty" /\ (work[w].phase = "live" => work'[w].phase = "live")
  PROVE  OwningInv'
PROOF
<1> SUFFICES ASSUME NEW w \in Requests, effect'[w] = "dirty", ~unavailable'
             PROVE  /\ work'[w].phase = "live"
                    /\ w \in Ordinary => active' = w
                    /\ w \in Controls => lifecycle' = w /\ active' = None
  BY DEF OwningInv, Owning
<1>1. /\ work[w].phase = "live" /\ work'[w].phase = "live"
      /\ w \in Ordinary => active = w
      /\ w \in Controls => lifecycle = w /\ active = None
  BY DEF OwningInv, Owning
<1>2. w # None
  BY RequestsAssumption
<1> QED
  BY <1>1, <1>2 DEF FreeSlot

-----------------------------------------------------------------------------
(* Each step keeps the invariant, and decides no success too late.             *)

OnTime == \A w \in Requests :
  work[w].answer = "none" /\ work'[w].answer = "ok" => ~Late(work[w])

LEMMA WorkMoves ==
  ASSUME TypeInv, TypeInv', KeptAll, WorkInv,
         \A w \in Requests : (Waits(w)' => Waits(w)) /\ (Owner(w)' => Owner(w)),
         \A w \in Requests : effect'[w] # "none" => effect[w] # "none",
         \A w \in Requests : Moves(work[w], work'[w]) \/ Takes(w)
  PROVE  WorkInv' /\ OnTime
PROOF
<1>1. \A w \in Requests : Evolves(work[w], work'[w])
  BY DEF Moves, Steady, Takes
<1>2. Succeeded => Succeeded'
  BY <1>1, SucceededKept DEF Requests
<1>3. ASSUME NEW w \in Requests PROVE WorkOf(w)'
  BY <1>2, WorkKept
<1>4. OnTime
  BY DEF OnTime, Moves, Ends, Takes
<1> QED
  BY <1>3, <1>4 DEF WorkInv

\* The owners of the slots wait for nobody.
LEMMA SlotsSteady ==
  ASSUME TypeInv, WorkInv, \A w \in Requests : Moves(work[w], work'[w]) \/ Takes(w)
  PROVE  \A w \in Requests \cap {active, lifecycle} : Steady(work[w], work'[w])
PROOF
<1> SUFFICES ASSUME NEW w \in Requests, w \in {active, lifecycle} PROVE ~Waits(w)
  BY DEF Takes, Moves
<1>1. WorkOf(w)
  BY DEF WorkInv
<1> QED
  BY <1>1, RequestsAssumption DEF WorkOf, Waiting, Waits, Owner, Requests, TypeInv, TypeOK

\* A step that leaves the gates alone, fills no slot, and ends no owner of the desktop.
LEMMA MovesStep ==
  ASSUME TypeInv, TypeInv', RecordsInv, OwnershipInv,
         UNCHANGED <<stopping, unavailable, mode, effect>>,
         FreeSlot(work') \/ active' = active,
         lifecycle' = lifecycle \/ (lifecycle' = None /\ work[lifecycle].phase # "live"),
         \A w \in Requests : (Waits(w)' => Waits(w)) /\ (Owner(w)' => Owner(w)),
         \A w \in Requests : Moves(work[w], work'[w]) \/ Takes(w),
         \A w \in Requests : unavailable \/ Stays(work[w], work'[w])
  PROVE  SlotsDecided' /\ OwningInv' /\ WorkInv' /\ OnTime
PROOF
<1>1. WorkInv' /\ OnTime
  BY WorkMoves DEF RecordsInv, OwnershipInv
<1>2. active' \in {active, None} /\ lifecycle' \in {lifecycle, None}
  BY DEF FreeSlot
<1>3. SlotsDecided'
  BY <1>2, SlotsKept, SlotsSteady DEF OwnershipInv
<1>4. ASSUME NEW w \in Requests, effect'[w] = "dirty", ~unavailable', work[w].phase = "live"
      PROVE  work'[w].phase = "live"
  <2>1. Traced(w) /\ effect[w] = "dirty"
    BY <1>4 DEF OwnershipInv, WorkInv, WorkOf
  <2> QED
    BY <1>4, <2>1 DEF Traced, Stays
<1>5. OwningInv'
  BY <1>4, OwningKept DEF OwnershipInv
<1> QED
  BY <1>1, <1>3, <1>5

\* Whose turn it is does not wait for anybody.
LEMMA AdvOwns ==
  ASSUME TypeInv, OwnershipInv, Advancing
  PROVE  /\ adv \in Requests /\ work[adv] \in WorkType /\ ~Waits(adv)
         /\ adv \in Ordinary => active = adv
         /\ adv \in Controls => lifecycle = adv
         /\ WorkOf(adv) /\ Owning(adv)
PROOF
<1>1. adv \in Requests /\ work[adv] \in WorkType
  BY DEF TypeInv, TypeOK, StageOK, Advancing
<1>2. (adv \in Ordinary => active = adv) /\ (adv \in Controls => lifecycle = adv)
  BY DEF OwnershipInv, StageSlots
<1>3. WorkOf(adv) /\ Owning(adv)
  BY <1>1 DEF OwnershipInv, WorkInv, OwningInv
<1>4. ~Waits(adv)
  BY <1>2, <1>3, RequestsAssumption DEF WorkOf, Waiting, Waits, Owner, Requests
<1> QED
  BY <1>1, <1>2, <1>3, <1>4

\* A step of _advance on a live work: the others do not move.
LEMMA WorkAdv ==
  ASSUME TypeInv, TypeInv', KeptAll, OwnershipInv, Advancing,
         UNCHANGED <<lifecycle, waiters, joined>>, work[adv].phase = "live",
         NEW j \in WorkType, work' = [work EXCEPT ![adv] = j],
         \A w \in Requests : w # adv => effect'[w] = effect[w],
         effect'[adv] # "none" => j.task # "none" /\ j.outcome # "not_started",
         j.phase # "new", j.answer # "ok",
         j.phase # "live" /\ j.err = "none" => j.phase = "finishing" /\ j.task = "stepped"
  PROVE  WorkInv' /\ OnTime
PROOF
<1>1. adv \in Requests /\ ~Waits(adv) /\ work'[adv] = j /\ work[adv].answer # "ok"
  BY AdvOwns DEF TypeInv, TypeOK, KeptAll, Kept, SucceededOf
<1>2. \A w \in Requests : w # adv => work'[w] = work[w]
  BY DEF TypeInv, TypeOK
<1>3. \A w \in Requests : work[w] \in WorkType
  BY DEF TypeInv, TypeOK
<1>4. \A v \in Controls : work[v].answer = "ok" => Evolves(work[v], work'[v])
  <2> SUFFICES ASSUME NEW v \in Controls, work[v].answer = "ok" PROVE Evolves(work[v], work'[v])
    OBVIOUS
  <2>1. v \in Requests /\ work'[v] = work[v]
    BY <1>1, <1>2 DEF Requests
  <2> QED
    BY <1>3, <2>1, QuietRefl DEF Quiet, Moves, Steady
<1>5. Succeeded => Succeeded'
  BY <1>4, SucceededKept
<1>6. \A w \in Requests : Waits(w)' = Waits(w) /\ Owner(w)' = Owner(w)
  BY DEF Waits, Owner
<1>7. ASSUME NEW w \in Requests, w # adv PROVE WorkOf(w)'
  <2>1. work'[w] = work[w] /\ Moves(work[w], work'[w]) /\ effect'[w] = effect[w]
    BY <1>2, <1>3, <1>7, QuietRefl DEF Quiet
  <2> QED
    BY <1>5, <1>6, <2>1, WorkKept DEF OwnershipInv
<1>8. ASSUME NEW w \in Requests, w = adv PROVE WorkOf(w)'
  <2>0. work'[w] = j /\ ~Waits(w)
    BY <1>1, <1>8
  <2>1. Traced(w)' /\ Waiting(w)'
    BY <1>6, <1>8, <2>0 DEF Traced, Waiting
  <2>2. OwnerTrue(w)'
    BY <2>0 DEF OwnerTrue
  <2>3. JoinerTrue(w)'
    BY <2>0 DEF JoinerTrue, Successful
  <2> QED
    BY <2>1, <2>2, <2>3 DEF WorkOf
<1>9. OnTime
  BY <1>1, <1>2 DEF OnTime
<1> QED
  BY <1>7, <1>8, <1>9 DEF WorkInv

\* After the step no turn is in _advance.
LEMMA StageIdle ==
  ASSUME pc' \notin {"advance", "gate", "returned"},
         pc' \in Drains \/ ret' \in Drains => mode' # "run"
  PROVE  StageSlots'
BY DEF StageSlots, Advancing

LEMMA InitOwnership == ASSUME Init PROVE OwnershipInv
PROOF
<1>1. \A w \in Requests : /\ work[w].phase = "new" /\ work[w].task = "none" /\ work[w].answer = "none"
                          /\ effect[w] = "none"
  BY DEF Init, Idle
<1>2. \A w \in Requests : ~Waits(w) /\ ~Owner(w)
  <2>1. \A v \in Controls : joined[v] = None
    BY DEF Init
  <2> QED
    BY <2>1, RequestsAssumption DEF Init, Waits, Owner, Requests
<1>3. WorkInv /\ OwningInv
  BY <1>1, <1>2 DEF WorkInv, WorkOf, Traced, Waiting, OwnerTrue, JoinerTrue, Successful,
       OwningInv, Owning
<1>4. SlotsDecided /\ StageSlots
  BY DEF Init, SlotsDecided, StageSlots, Undecided, Drains, Advancing
<1> QED
  BY <1>3, <1>4 DEF OwnershipInv

\* Where nothing but the works and their records moves.
LEMMA SlotsSame ==
  ASSUME UNCHANGED <<lifecycle, waiters, joined>>
  PROVE  \A w \in Requests : Waits(w)' = Waits(w) /\ Owner(w)' = Owner(w)
BY DEF Waits, Owner

LEMMA RefuseOwnership ==
  ASSUME TypeInv, TypeInv', RecordsInv, OwnershipInv, NEW w \in Requests, NEW code \in Codes,
         pc = "idle", work[w].phase = "new",
         work' = [work EXCEPT ![w].phase = "terminal", ![w].answer = code],
         UNCHANGED <<slots, gates, world, pc, adv, ret>>
  PROVE  OwnershipInv' /\ OnTime
PROOF
<1>1. ASSUME NEW v \in Requests PROVE Moves(work[v], work'[v]) /\ Stays(work[v], work'[v])
  <2>1. work[v] \in WorkType /\ work'[v] \in WorkType
    BY DEF TypeInv, TypeOK
  <2>2. CASE v # w
    <3>1. work'[v] = work[v]
      BY <2>2 DEF TypeInv, TypeOK
    <3> QED
      BY <2>1, <3>1, QuietRefl DEF Quiet
  <2>3. CASE v = w
    <3>1. /\ work'[w].phase = "terminal" /\ work'[w].answer = code
          /\ work'[w].failed = work[w].failed /\ work'[w].pending = work[w].pending
          /\ work'[w].task = work[w].task /\ work'[w].err = work[w].err
          /\ work'[w].outcome = work[w].outcome
      BY <2>1, <2>3 DEF TypeInv, TypeOK, WorkType
    <3> QED
      BY <2>3, <3>1 DEF Moves, Ends, Stays, Steady, Evolves, Errs, Codes
  <2> QED
    BY <2>2, <2>3
<1>2. SlotsDecided' /\ OwningInv' /\ WorkInv' /\ OnTime
  BY <1>1, MovesStep, SlotsSame DEF slots, gates, world
<1>3. StageSlots'
  BY StageIdle DEF OwnershipInv, StageSlots, gates, slots
<1> QED
  BY <1>2, <1>3 DEF OwnershipInv

LEMMA CancelOwnership ==
  ASSUME TypeInv, TypeInv', RecordsInv, OwnershipInv, NEW w \in Ordinary, NEW raised \in BOOLEAN,
         NEW lost \in Losses, Cancel(w, raised, lost)
  PROVE  OwnershipInv' /\ OnTime
PROOF
<1>1. ASSUME NEW v \in Requests PROVE Quiet(work[v], work'[v])
  <2>1. work[v] \in WorkType /\ work'[v] \in WorkType /\ (w \in lost) \in BOOLEAN
    BY DEF TypeInv, TypeOK
  <2>2. CASE v # w
    <3>1. work'[v] = work[v]
      BY <2>2 DEF Cancel, TypeInv, TypeOK
    <3> QED
      BY <2>1, <3>1, QuietRefl
  <2>3. CASE v = w
    <3>1. work'[w] = Cancelled(work[w], w, "cancelled", raised, w \in lost)
      BY <2>3 DEF Cancel, TypeInv, TypeOK
    <3> QED
      BY ZenonT(60), <2>1, <2>3, <3>1, CancelledQuiet, InvAnswering
         DEF Answering, Codes, RecordsInv
  <2> QED
    BY <2>2, <2>3
<1>2. SlotsDecided' /\ OwningInv' /\ WorkInv' /\ OnTime
  BY <1>1, MovesStep, SlotsSame DEF Cancel, gates, world, Quiet
<1>3. StageSlots'
  BY StageIdle DEF OwnershipInv, StageSlots, gates, Cancel
<1> QED
  BY <1>2, <1>3 DEF OwnershipInv

\* A request that is submitted has no effect yet, owns nothing and awaits nothing.
LEMMA NewWork ==
  ASSUME TypeInv, RecordsInv, OwnershipInv, NEW w \in Requests, work[w].phase = "new"
  PROVE  effect[w] = "none" /\ ~Waits(w) /\ ~Owner(w) /\ work[w].answer # "ok"
PROOF
<1>1. Kept(w, work[w], durable[w], effect[w]) /\ WorkOf(w)
  BY DEF RecordsInv, KeptAll, OwnershipInv, WorkInv
<1> QED
  BY <1>1 DEF Kept, Fresh, SucceededOf, WorkOf, Waiting, OwnerTrue

LEMMA FreshWork ==
  ASSUME NEW d \in Int, NEW ev \in Events, NEW lost \in BOOLEAN
  PROVE  /\ Observe([Idle(d) EXCEPT !.phase = "live"], ev, lost) \in WorkType
         /\ Observe([Idle(d) EXCEPT !.phase = "live"], ev, lost).phase = "live"
         /\ Observe([Idle(d) EXCEPT !.phase = "live"], ev, lost).task = "none"
         /\ Observe([Idle(d) EXCEPT !.phase = "live"], ev, lost).answer = "none"
PROOF
<1> DEFINE idle == [Idle(d) EXCEPT !.phase = "live"]
<1>1. /\ idle.phase = "live" /\ idle.task = "none" /\ idle.answer = "none"
  BY DEF Idle
<1>2. idle \in WorkType
  BY IdleType
<1> HIDE DEF idle
<1>3. /\ Observe(idle, ev, lost) \in WorkType /\ Observe(idle, ev, lost).phase = "live"
      /\ Observe(idle, ev, lost).task = "none" /\ Observe(idle, ev, lost).answer = "none"
  BY <1>1, <1>2, ObserveType DEF Observe, WorkType
<1> QED
  BY <1>3 DEF idle

LEMMA AdmitOwnership ==
  ASSUME TypeInv, TypeInv', RecordsInv, OwnershipInv, NEW w \in Ordinary, NEW d \in Budgets,
         NEW lost \in Losses, Admit(w, d, lost)
  PROVE  OwnershipInv' /\ OnTime
PROOF
<1> DEFINE k == Observe([Idle(d) EXCEPT !.phase = "live"], "admitted", w \in lost)
<1>1. d \in Int /\ (w \in lost) \in BOOLEAN /\ w \in Requests /\ "admitted" \in Events /\ w \notin Controls
  BY NumbersType, RequestsAssumption DEF Requests, Events
<1>2. /\ work' = [work EXCEPT ![w] = k] /\ work[w].phase = "new" /\ pc = "idle"
      /\ UNCHANGED <<active, lifecycle, waiters, joined, stopping, unavailable, mode, pc, adv, ret, effect>>
  BY DEF Admit, gates, world
<1>3. /\ effect[w] = "none" /\ ~Waits(w) /\ ~Owner(w) /\ work[w].answer # "ok"
      /\ k \in WorkType /\ k.phase = "live" /\ k.task = "none" /\ k.answer = "none"
  <2>1. effect[w] = "none" /\ ~Waits(w) /\ ~Owner(w) /\ work[w].answer # "ok"
    BY <1>1, <1>2, NewWork
  <2> QED
    BY <1>1, <2>1, FreshWork
<1> HIDE DEF k
<1>4. work'[w] = k /\ \A v \in Requests : v # w => work'[v] = work[v]
  BY <1>1, <1>2 DEF TypeInv, TypeOK
<1>5. \A v \in Requests : Waits(v)' = Waits(v) /\ Owner(v)' = Owner(v)
  BY <1>2, SlotsSame
<1>6. Succeeded => Succeeded'
  <2>1. \A v \in Controls : v # w
    BY <1>1
  <2> QED
    BY <1>4, <2>1 DEF Succeeded, Requests
<1>7. ASSUME NEW v \in Requests PROVE WorkOf(v)' /\ Owning(v)'
  <2>1. CASE v = w
    BY <1>1, <1>2, <1>3, <1>4, <1>5, <2>1
    DEF WorkOf, Traced, Waiting, OwnerTrue, JoinerTrue, Owning
  <2>2. CASE v # w
    <3>1. work'[v] = work[v] /\ work[v] \in WorkType /\ WorkOf(v) /\ Owning(v)
      BY <1>4, <2>2 DEF OwnershipInv, WorkInv, OwningInv, TypeInv, TypeOK
    <3>2. WorkOf(v)'
      BY <1>2, <1>5, <1>6, <3>1, WorkKept, QuietRefl DEF Quiet, OwnershipInv, RecordsInv
    <3> QED
      BY <1>2, <3>1, <3>2 DEF Owning
  <2> QED
    BY <2>1, <2>2
<1>8. SlotsDecided'
  <2>1. (w # active /\ w # lifecycle) \/ (stopping = FALSE /\ unavailable = FALSE)
    BY DEF Admit
  <2> QED
    BY <1>1, <1>2, <1>4, <2>1
       DEF OwnershipInv, SlotsDecided, Undecided, Admit, TypeInv, TypeOK, Requests
<1>9. OnTime
  BY <1>3, <1>4 DEF OnTime
<1>10. StageSlots'
  BY <1>2, StageIdle DEF OwnershipInv, StageSlots
<1> QED
  BY <1>7, <1>8, <1>9, <1>10 DEF OwnershipInv, WorkInv, OwningInv

LEMMA AdmitControlOwnership ==
  ASSUME TypeInv, TypeInv', RecordsInv, OwnershipInv, NEW w \in Controls, NEW d \in Budgets,
         NEW raised \in BOOLEAN, NEW lost \in Losses, AdmitControl(w, d, raised, lost)
  PROVE  OwnershipInv' /\ OnTime
PROOF
<1> DEFINE by == IF lifecycle = None THEN d ELSE work[lifecycle].deadline
           stop(v, r) == Cancelled(work[v], v, "cancelled", r, v \in lost)
           fresh == Observe([Idle(d) EXCEPT !.phase = "live"], "control_admitted", w \in lost)
<1>1. /\ d \in Int /\ by \in Int /\ w \in Requests /\ w \notin Ordinary /\ w # None
      /\ (w \in lost) \in BOOLEAN /\ "control_admitted" \in Events
  BY NumbersType, RequestsAssumption DEF TypeInv, TypeOK, WorkType, Requests, Events
<1>2. /\ work[w].phase = "new" /\ pc = "idle" /\ mode = "run" /\ FreeSlot(work') /\ stopping'
      /\ UNCHANGED <<joined, unavailable, mode, pc, adv, ret, effect>>
      /\ \/ lifecycle = None /\ lifecycle' = w /\ waiters' = waiters
         \/ lifecycle # None /\ lifecycle' = lifecycle /\ waiters' = waiters \cup {w}
  BY DEF AdmitControl, world
<1>3. ASSUME NEW v \in Requests, NEW r \in BOOLEAN
      PROVE  /\ Quiet(work[v], stop(v, r)) /\ Quiet(work[v], ClampCleanup(stop(v, r), by))
             /\ stop(v, r).phase = "live" => stop(v, r).err # "none"
             /\ ClampCleanup(stop(v, r), by).phase = "live"
                  => ClampCleanup(stop(v, r), by).err # "none"
  <2>1. work[v] \in WorkType /\ "cancelled" \in Codes
    BY DEF TypeInv, TypeOK, Codes
  <2>2. (v \in lost) \in BOOLEAN
    OBVIOUS
  <2>3. /\ stop(v, r) \in WorkType /\ Quiet(work[v], stop(v, r))
        /\ stop(v, r).phase = "live" => stop(v, r).err # "none"
    BY <2>1, <2>2, CancelledType, CancelledQuiet, InvAnswering DEF Answering, RecordsInv
  <2> HIDE DEF stop
  <2> QED
    BY <1>1, <2>1, <2>3, ClampType, ClampQuiet, QuietTrans
<1>4. work' = [v \in Requests |->
          CASE v = w -> fresh
            [] Queued(v) -> stop(v, FALSE)
            [] v = active /\ ~Queued(v) -> ClampCleanup(stop(v, raised), by)
            [] OTHER -> work[v]]
  BY Zenon DEF AdmitControl
<1>5. ~Queued(w) /\ w # active
  BY RequestsAssumption DEF Queued, TypeInv, TypeOK, Requests
<1>6. /\ effect[w] = "none" /\ ~Waits(w) /\ ~Owner(w) /\ work[w].answer # "ok"
      /\ fresh \in WorkType /\ fresh.phase = "live" /\ fresh.task = "none" /\ fresh.answer = "none"
  <2>1. effect[w] = "none" /\ ~Waits(w) /\ ~Owner(w) /\ work[w].answer # "ok"
    BY <1>1, <1>2, NewWork
  <2>2. fresh \in WorkType /\ fresh.phase = "live" /\ fresh.task = "none" /\ fresh.answer = "none"
    <3>1. d \in Int /\ "control_admitted" \in Events /\ (w \in lost) \in BOOLEAN
      BY <1>1
    <3> HIDE DEF by, stop
    <3> QED
      BY ZenonT(60), <3>1, FreshWork
  <2> HIDE DEF fresh
  <2> QED
    BY <2>1, <2>2
<1> HIDE DEF stop, by, fresh
<1>7. work'[w] = fresh
  BY <1>1, <1>4, <1>5
<1>8. ASSUME NEW v \in Requests, v # w
      PROVE  /\ Quiet(work[v], work'[v])
             /\ v = active /\ work'[v].phase = "live" => work'[v].err # "none"
  <2>1. \/ work'[v] = stop(v, FALSE)
        \/ work'[v] = ClampCleanup(stop(v, raised), by)
        \/ work'[v] = work[v] /\ v # active
    BY <1>4, <1>8
  <2>2. work[v] \in WorkType
    BY DEF TypeInv, TypeOK
  <2> QED
    BY <1>3, <2>1, <2>2, QuietRefl
<1>9. SlotsDecided'
  <2>1. active' = None \/ (active' = active /\ active # None /\ work'[active].phase = "live")
    BY <1>2 DEF FreeSlot
  <2>2. active # None => active \in Requests
    BY DEF TypeInv, TypeOK, Requests
  <2>3. ~Undecided(active)'
    BY <1>5, <1>8, <2>1, <2>2 DEF Undecided
  <2> QED
    BY <1>2, <2>3 DEF SlotsDecided
<1>10. Succeeded => Succeeded'
  <2> SUFFICES ASSUME NEW v \in Controls, work[v].answer = "ok" PROVE Evolves(work[v], work'[v])
    BY SucceededKept DEF RecordsInv
  <2> QED
    BY <1>6, <1>8 DEF Requests, Quiet, Moves, Steady
<1>11. \A v \in Requests : v # w => (Waits(v)' = Waits(v) /\ Owner(v)' = Owner(v))
  BY <1>2, RequestsAssumption DEF Waits, Owner, Requests
<1>12. ASSUME NEW v \in Requests PROVE WorkOf(v)' /\ Owning(v)'
  <2>1. CASE v = w
    <3>1. Waits(v)' => ~Owner(v)'
      BY <1>2, <1>6, <2>1 DEF Waits, Owner, Requests
    <3> QED
      BY <1>1, <1>2, <1>6, <1>7, <2>1, <3>1
      DEF WorkOf, Traced, Waiting, OwnerTrue, JoinerTrue, Successful, Owning
  <2>2. CASE v # w
    <3>1. WorkOf(v) /\ Owning(v) /\ Quiet(work[v], work'[v])
      BY <1>8, <2>2 DEF OwnershipInv, WorkInv, OwningInv
    <3>2. WorkOf(v)'
      BY <1>2, <1>10, <1>11, <2>2, <3>1, WorkKept DEF Quiet, OwnershipInv, RecordsInv
    <3>3. SUFFICES ASSUME effect[v] = "dirty", ~unavailable
                   PROVE  /\ work'[v].phase = "live"
                          /\ v \in Ordinary => active' = v
                          /\ v \in Controls => lifecycle' = v /\ active' = None
      BY <1>2, <3>2 DEF Owning
    <3>4. /\ work[v].phase = "live"
          /\ v \in Ordinary => active = v
          /\ v \in Controls => lifecycle = v /\ active = None
      BY <3>1, <3>3 DEF Owning
    <3>5. work'[v].phase = "live"
      BY <3>1, <3>3, <3>4 DEF Quiet, Stays, WorkOf, Traced
    <3>6. v # None
      BY RequestsAssumption
    <3> QED
      BY <1>2, <3>4, <3>5, <3>6 DEF FreeSlot
  <2> QED
    BY <2>1, <2>2
<1>13. OnTime
  BY <1>6, <1>7, <1>8 DEF OnTime, Quiet, Moves, Ends
<1>14. StageSlots'
  BY <1>2, StageIdle DEF OwnershipInv, StageSlots
<1> QED
  BY <1>9, <1>12, <1>13, <1>14 DEF OwnershipInv, WorkInv, OwningInv

LEMMA BeginShutdownOwnership ==
  ASSUME TypeInv, TypeInv', RecordsInv, OwnershipInv, NEW failure \in BOOLEAN, NEW raised \in BOOLEAN,
         NEW lost \in Losses, BeginShutdown(failure, raised, lost)
  PROVE  OwnershipInv' /\ OnTime
PROOF
<1>1. \A w \in Requests :
        /\ Quiet(work[w], work'[w])
        /\ w \in {active, lifecycle} /\ work'[w].phase = "live" => work'[w].err # "none"
  BY ShutdownQuiet, InvAnswering DEF BeginShutdown, TypeInv, TypeOK, RecordsInv
<1>2. /\ FreeSlot(work') /\ stopping' /\ mode' = "cancel" /\ pc = "idle"
      /\ UNCHANGED <<lifecycle, waiters, joined, unavailable, effect, pc, adv, ret>>
  BY DEF BeginShutdown, world
<1>3. WorkInv' /\ OnTime
  BY <1>1, <1>2, WorkMoves, SlotsSame DEF Quiet, OwnershipInv, RecordsInv
<1>4. SlotsDecided'
  <2>1. active \in Requests \cup {None} /\ lifecycle \in Requests \cup {None}
    BY DEF TypeInv, TypeOK, Requests
  <2> QED
    BY <1>1, <1>2, <2>1 DEF SlotsDecided, Undecided, FreeSlot
<1>5. OwningInv'
  <2>1. ASSUME NEW w \in Requests, effect[w] = "dirty", work[w].phase = "live"
        PROVE  work'[w].phase = "live"
    <3>1. Traced(w)
      BY DEF OwnershipInv, WorkInv, WorkOf
    <3> QED
      BY <1>1, <2>1, <3>1 DEF Quiet, Stays, Traced
  <2> QED
    BY <1>2, <2>1, OwningKept DEF OwnershipInv
<1>6. StageSlots'
  BY <1>2, StageIdle DEF OwnershipInv
<1> QED
  BY <1>3, <1>4, <1>5, <1>6 DEF OwnershipInv

\* A step that changes only what a work records, or how long it has.
LEMMA AlikeStep ==
  ASSUME TypeInv, OwnershipInv,
         UNCHANGED <<active, lifecycle, waiters, joined, stopping, unavailable, mode, effect>>,
         \A w \in Requests : /\ work'[w].phase = work[w].phase /\ work'[w].err = work[w].err
                             /\ work'[w].task = work[w].task /\ work'[w].answer = work[w].answer
                             /\ work'[w].outcome = work[w].outcome
  PROVE  SlotsDecided' /\ OwningInv' /\ WorkInv' /\ OnTime
PROOF
<1>1. active \in Requests \cup {None} /\ lifecycle \in Requests \cup {None}
  BY DEF TypeInv, TypeOK, Requests
<1>2. SlotsDecided'
  BY <1>1 DEF OwnershipInv, SlotsDecided, Undecided
<1>3. Succeeded => Succeeded'
  BY DEF Succeeded, Requests
<1>4. ASSUME NEW w \in Requests PROVE WorkOf(w)' /\ Owning(w)'
  <2>1. Waits(w)' = Waits(w) /\ Owner(w)' = Owner(w)
    BY SlotsSame
  <2>2. WorkOf(w) /\ Owning(w)
    BY DEF OwnershipInv, WorkInv, OwningInv
  <2>3. Owning(w)'
    BY <2>2 DEF Owning
  <2>4. WorkOf(w)'
    BY <1>3, <2>1, <2>2 DEF WorkOf, Traced, Waiting, OwnerTrue, JoinerTrue, Successful
  <2> QED
    BY <2>3, <2>4
<1>5. OnTime
  BY DEF OnTime
<1> QED
  BY <1>2, <1>4, <1>5 DEF WorkInv, OwningInv

LEMMA ReportOwnership ==
  ASSUME TypeInv, OwnershipInv, NEW w \in Requests, NEW ev \in Events,
         NEW ok \in BOOLEAN, Report(w, ev, ok)
  PROVE  OwnershipInv' /\ OnTime
PROOF
<1>1. \A v \in Requests : /\ work'[v].phase = work[v].phase /\ work'[v].err = work[v].err
                          /\ work'[v].task = work[v].task /\ work'[v].answer = work[v].answer
                          /\ work'[v].outcome = work[v].outcome
  BY DEF Report, TypeInv, TypeOK, WorkType
<1>2. SlotsDecided' /\ OwningInv' /\ WorkInv' /\ OnTime
  BY <1>1, AlikeStep DEF Report, slots, gates
<1>3. StageSlots'
  BY StageIdle DEF Report, OwnershipInv, StageSlots, gates
<1> QED
  BY <1>2, <1>3 DEF OwnershipInv

LEMMA TickOwnership == ASSUME TypeInv, OwnershipInv, Tick PROVE OwnershipInv' /\ OnTime
PROOF
<1>1. ASSUME NEW w \in Requests
      PROVE  /\ work'[w].phase = work[w].phase /\ work'[w].err = work[w].err
             /\ work'[w].task = work[w].task /\ work'[w].answer = work[w].answer
             /\ work'[w].outcome = work[w].outcome
  <2>1. work[w] \in WorkType
    BY DEF TypeInv, TypeOK
  <2>2. work'[w] = IF Live(w) THEN TickedWork(work[w]) ELSE work[w]
    BY DEF Tick
  <2> QED
    BY <2>1, <2>2 DEF TickedWork, WorkType
<1>2. SlotsDecided' /\ OwningInv' /\ WorkInv' /\ OnTime
  BY <1>1, AlikeStep DEF Tick, slots, world
<1>3. StageSlots'
  BY DEF Tick, OwnershipInv, StageSlots, Advancing, slots, world
<1> QED
  BY <1>2, <1>3 DEF OwnershipInv

LEMMA SettleOwnership ==
  ASSUME TypeInv, TypeInv', RecordsInv, OwnershipInv, NEW fate \in [Requests -> Codes \cup {"ok"}],
         NEW lost \in Losses, Settle(fate, lost)
  PROVE  OwnershipInv' /\ OnTime
PROOF
<1> DEFINE first == [w \in Requests |-> IF Settleable(Settling(w))
                                        THEN Settled(Settling(w), fate[w]) ELSE Settling(w)]
           answerable(w) == w \in Controls /\ joined[w] # None /\ first[w].phase = "live"
<1>1. \A w \in Requests : work[w] \in WorkType
  BY DEF TypeInv, TypeOK
<1>2. ASSUME NEW w \in Requests
      PROVE  /\ first[w] \in WorkType /\ Quiet(work[w], first[w])
             /\ first[w].answer = "ok" => first[w].phase = "terminal"
  <2>1. Settling(w) \in WorkType /\ Quiet(work[w], Settling(w))
    BY <1>1, ClampType, ClampQuiet, QuietRefl DEF Settling, TypeInv, TypeOK
  <2>2. CASE Settleable(Settling(w))
    <3>1. Settling(w).phase = "finishing" /\ Settling(w).answer # "ok"
      BY <1>1, <2>1, <2>2, InvAnswering
      DEF Settleable, Quiet, Moves, Steady, Evolves, Answering, RecordsInv, WorkType
    <3>2. Settled(Settling(w), fate[w]) \in WorkType
      BY <2>1, SettledType
    <3>3. Quiet(Settling(w), Settled(Settling(w), fate[w]))
          /\ Settled(Settling(w), fate[w]).phase = "terminal"
      BY <2>1, <3>1, SettledMoves
    <3> QED
      BY <1>1, <2>1, <2>2, <3>2, <3>3, QuietTrans
  <2>3. CASE ~Settleable(Settling(w))
    <3>1. Settling(w).answer = "ok" => Settling(w).phase = "terminal"
      BY <1>1, <2>1, InvAnswering
         DEF Quiet, Moves, Steady, Evolves, Answering, RecordsInv, WorkType
    <3> QED
      BY <2>1, <2>3, <3>1
  <2> QED
    BY <2>2, <2>3
<1> HIDE DEF first
<1>3. /\ work' = [w \in Requests |->
             IF ~answerable(w) THEN first[w]
             ELSE IF Final(first[joined[w]])
                  THEN Joined(first[w], first[joined[w]], w \in lost)
             ELSE IF Late(first[w])
                  THEN Finished([first[w] EXCEPT !.err = "timeout"], FALSE, w \in lost)
             ELSE first[w]]
      /\ joined' = [w \in Controls |-> IF work'[w].phase = "live" THEN joined[w] ELSE None]
  BY Zenon DEF Settle, first
<1>4. UNCHANGED <<active, lifecycle, waiters, stopping, unavailable, mode, effect, ret>>
      /\ pc = "idle" /\ pc' = AfterSettle
  BY DEF Settle, gates, world
<1>5. \A w \in Requests : (Waits(w)' => Waits(w)) /\ (Owner(w)' => Owner(w))
  BY <1>3, <1>4, RequestsAssumption DEF Waits, Owner, Requests
<1>6. ASSUME NEW w \in Requests, answerable(w), Final(first[joined[w]]),
             work'[w] = Joined(first[w], first[joined[w]], w \in lost)
      PROVE  Takes(w)
  <2>1. Waits(w) /\ joined[w] \in Controls /\ joined[w] \in Requests /\ Owner(joined[w])
    BY <1>6 DEF Waits, Owner, TypeInv, TypeOK, Requests
  <2>2. PICK o \in Controls : o = joined[w]
    BY <2>1
  <2>3. o \in Requests /\ Owner(o) /\ WorkOf(o)
    BY <2>1, <2>2 DEF OwnershipInv, WorkInv
  <2>4. ~answerable(o) /\ work'[o] = first[o]
    BY <1>3, <2>3 DEF WorkOf, Waiting, Waits
  <2>5. first[o].err = "none" => first[o].task = "stepped" /\ first[o].answer = "ok"
    <3>1. first[o].phase = "terminal"
      BY <1>6, <2>2 DEF Final
    <3> QED
      BY <1>2, <2>3, <3>1, OwnerMoves DEF Quiet, WorkOf, RecordsInv
  <2>6. first[o].err = "none" => Succeeded'
    BY <2>4, <2>5 DEF Succeeded
  <2>7. (w \in lost) \in BOOLEAN /\ first[w] \in WorkType /\ first[o] \in WorkType
    BY <1>2, <2>3
  <2>8. /\ Evolves(first[w], work'[w]) /\ (work'[w].answer = "ok" => first[w].answer = "ok")
        /\ work'[w].err = "none" => first[o].err = "none"
    <3>1. work'[w] = Joined(first[w], first[o], w \in lost)
      BY <1>6, <2>2
    <3>2. first[w].answer = "ok" => first[w].phase = "terminal"
      BY <1>2
    <3>3. /\ Evolves(first[w], Joined(first[w], first[o], w \in lost))
          /\ Joined(first[w], first[o], w \in lost).answer = "ok" => first[w].answer = "ok"
          /\ Joined(first[w], first[o], w \in lost).err = "none" => first[o].err = "none"
      BY ZenonT(60), <2>7, <3>2, JoinedEnds
    <3> QED
      BY <3>1, <3>3
  <2>9. first[w].phase = "live" /\ first[w].answer # "ok" /\ Evolves(work[w], first[w])
    BY <1>2, <1>6 DEF Quiet, Moves, Steady
  <2>10. Evolves(work[w], work'[w]) /\ work'[w].answer # "ok"
    BY <1>1, <2>8, <2>9 DEF Evolves
  <2> QED
    BY <2>1, <2>6, <2>8, <2>10 DEF Takes
<1>7. ASSUME NEW w \in Requests, answerable(w),
             work'[w] = Finished([first[w] EXCEPT !.err = "timeout"], FALSE, w \in lost)
      PROVE  Moves(work[w], work'[w])
  <2>1. (w \in lost) \in BOOLEAN /\ first[w] \in WorkType /\ "timeout" \in Codes /\ work[w] \in WorkType
    BY <1>1, <1>2 DEF Codes
  <2>2. work'[w] \in WorkType /\ Moves(first[w], work'[w])
    BY <1>2, <1>7, <2>1, ForcedMoves
  <2> QED
    BY <1>2, <2>1, <2>2, MovesTrans DEF Quiet
<1>8. ASSUME NEW w \in Requests
      PROVE  /\ Moves(work[w], work'[w]) \/ Takes(w)
             /\ Stays(work[w], work'[w])
  <2>1. CASE work'[w] = first[w]
    BY <1>2, <2>1 DEF Quiet
  <2>2. CASE answerable(w) /\ work'[w] # first[w]
    <3>1. Moves(work[w], work'[w]) \/ Takes(w)
      BY <1>3, <1>6, <1>7, <2>2
    <3>2. Waits(w) /\ WorkOf(w)
      BY <2>2 DEF Waits, OwnershipInv, WorkInv
    <3> QED
      BY <3>1, <3>2 DEF WorkOf, Waiting, Stays
  <2> QED
    BY <1>3, <2>1, <2>2
<1>9. SlotsDecided' /\ OwningInv' /\ WorkInv' /\ OnTime
  BY <1>4, <1>5, <1>8, MovesStep
<1>10. StageSlots'
  BY <1>4, StageIdle DEF AfterSettle, OwnershipInv, StageSlots, Drains
<1> QED
  BY <1>9, <1>10 DEF OwnershipInv

LEMMA ExpireOwnership ==
  ASSUME TypeInv, TypeInv', RecordsInv, OwnershipInv, NEW lost \in Losses, Expire(lost)
  PROVE  OwnershipInv' /\ OnTime
PROOF
<1>1. ASSUME NEW w \in Requests PROVE Moves(work[w], work'[w]) /\ Stays(work[w], work'[w])
  <2>1. work[w] \in WorkType /\ "timeout" \in Codes /\ (work[w].answer = "ok" => work[w].phase = "terminal")
    BY InvAnswering DEF TypeInv, TypeOK, Codes, Answering, RecordsInv
  <2>2. (w \in lost) \in BOOLEAN
    OBVIOUS
  <2>3. \/ work'[w] = Cancelled(work[w], w, "timeout", FALSE, w \in lost)
        \/ w \in waiters /\ work'[w] = Finished([work[w] EXCEPT !.err = "timeout"], FALSE, w \in lost)
        \/ work'[w] = work[w]
    <3>1. work' = [v \in Requests |->
            CASE Queued(v) /\ Late(work[v]) -> Cancelled(work[v], v, "timeout", FALSE, v \in lost)
              [] v \in waiters /\ Late(work[v]) ->
                   Finished([work[v] EXCEPT !.err = "timeout"], FALSE, v \in lost)
              [] OTHER -> work[v]]
      BY Zenon DEF Expire
    <3>2. CASE Queued(w) /\ Late(work[w])
      <4>1. ~(w \in waiters)
        BY <3>2, RequestsAssumption DEF Queued, TypeInv, TypeOK
      <4> QED
        BY <3>1, <3>2, <4>1
    <3>3. CASE ~(Queued(w) /\ Late(work[w])) /\ w \in waiters /\ Late(work[w])
      BY <3>1, <3>3
    <3>4. CASE ~(Queued(w) /\ Late(work[w])) /\ ~(w \in waiters /\ Late(work[w]))
      BY <3>1, <3>4
    <3> QED
      BY <3>2, <3>3, <3>4
  <2>4. CASE work'[w] = Cancelled(work[w], w, "timeout", FALSE, w \in lost)
    BY <2>1, <2>2, <2>4, CancelledQuiet DEF Quiet
  <2>5. CASE w \in waiters /\ work'[w] = Finished([work[w] EXCEPT !.err = "timeout"], FALSE, w \in lost)
    <3>1. Moves(work[w], work'[w])
      BY <2>1, <2>2, <2>5, ForcedMoves
    <3>2. work[w].task = "none"
      BY <2>5 DEF OwnershipInv, WorkInv, WorkOf, Waiting, Waits, TypeInv, TypeOK
    <3> QED
      BY <3>1, <3>2 DEF Stays
  <2>6. CASE work'[w] = work[w]
    BY <2>1, <2>6, QuietRefl DEF Quiet
  <2> QED
    BY <2>3, <2>4, <2>5, <2>6
<1>2. /\ UNCHANGED <<active, lifecycle, joined, stopping, unavailable, mode, effect>>
      /\ waiters' \subseteq waiters /\ pc = "expire"
      /\ \/ active = None /\ pc' = AfterActive /\ UNCHANGED <<adv, ret>>
         \/ active # None /\ pc' = "advance" /\ adv' = active /\ ret' = AfterActive
  BY DEF Expire, gates, world
<1>3. \A w \in Requests : (Waits(w)' => Waits(w)) /\ (Owner(w)' => Owner(w))
  BY <1>2 DEF Waits, Owner
<1>4. SlotsDecided' /\ OwningInv' /\ WorkInv' /\ OnTime
  BY <1>1, <1>2, <1>3, MovesStep
<1>5. StageSlots'
  BY <1>2, RequestsAssumption
  DEF StageSlots, AfterActive, Advancing, Drains, OwnershipInv, TypeInv, TypeOK
<1> QED
  BY <1>4, <1>5 DEF OwnershipInv

\* _fail_closed, of the owner c of a slot: the session is unavailable, and its end
\* begins, or had begun.
LEMMA ClosedStep ==
  ASSUME TypeInv, TypeInv', RecordsInv, OwnershipInv, NEW c \in Requests, c \in {active, lifecycle},
         NEW wk \in [Requests -> WorkType], \A w \in Requests : Quiet(work[w], wk[w]),
         wk[c].err # "none", wk[c].phase # "new", NEW raised \in BOOLEAN, NEW lost,
         work' = FailedClosed(wk, c, raised, lost),
         Escalate, FreeSlot(work'), UNCHANGED <<lifecycle, waiters, joined>>,
         \A w \in Requests : effect'[w] # "none" => effect[w] # "none"
  PROVE  SlotsDecided' /\ OwningInv' /\ WorkInv' /\ OnTime
PROOF
<1>1. Answering(wk)
  <2>1. \A w \in Requests : work[w] \in WorkType /\ (work[w].answer = "ok" => work[w].phase = "terminal")
    BY InvAnswering DEF TypeInv, TypeOK, Answering, RecordsInv
  <2> QED
    BY <2>1 DEF Answering, Quiet, Moves, Steady, Evolves, WorkType
<1>2. ASSUME NEW w \in Requests
      PROVE  /\ Moves(work[w], work'[w])
             /\ w = c => work'[w].phase # "live"
             /\ Escalating /\ w \in {active, lifecycle} /\ work'[w].phase = "live"
                  => work'[w].err # "none"
  <2>1. /\ Moves(wk[w], work'[w])
        /\ w = c => work'[w].phase # "live"
        /\ Escalating /\ w \in {active, lifecycle} /\ work'[w].phase = "live"
             => work'[w].err # "none"
    BY <1>1, FailedClosedMoves
  <2>2. work[w] \in WorkType /\ wk[w] \in WorkType /\ work'[w] \in WorkType
    BY DEF TypeInv, TypeOK
  <2>3. Moves(work[w], wk[w])
    BY DEF Quiet
  <2> QED
    BY <2>1, <2>2, <2>3, MovesTrans
<1>3. WorkInv' /\ OnTime
  BY <1>2, WorkMoves, SlotsSame DEF OwnershipInv, RecordsInv
<1>4. active' \in {active, None} /\ unavailable'
  BY DEF FreeSlot, Escalate
<1>5. active \in Requests \cup {None} /\ lifecycle \in Requests \cup {None} /\ c # None
  BY RequestsAssumption DEF TypeInv, TypeOK, Requests
<1>6. SlotsDecided'
  <2>1. CASE Escalating
    <3>1. stopping' /\ mode' = "cancel"
      BY <2>1 DEF Escalate
    <3>2. ~Undecided(active)' /\ ~Undecided(lifecycle)'
      BY <1>2, <1>4, <1>5, <2>1 DEF Undecided
    <3> QED
      BY <3>1, <3>2 DEF SlotsDecided
  <2>2. CASE ~Escalating
    <3>1. UNCHANGED <<stopping, mode>>
      BY <2>2 DEF Escalate
    <3>2. \A w \in Requests \cap {active, lifecycle} : Steady(work[w], work'[w])
      BY <1>2 DEF Moves
    <3>3. ~Undecided(active)'
      <4>1. CASE c = active
        BY <1>2, <1>5, <4>1 DEF Undecided, FreeSlot
      <4>2. CASE c = lifecycle
        <5>1. ~Undecided(active)
          BY <1>5, <4>2 DEF OwnershipInv, SlotsDecided
        <5> QED
          BY <1>4, <1>5, <3>2, <5>1 DEF Undecided, Steady, Evolves, Errs
      <4> QED
        BY <4>1, <4>2
    <3> QED
      BY <1>4, <3>1, <3>2, <3>3, SlotsKept DEF OwnershipInv
  <2> QED
    BY <2>1, <2>2
<1>7. OwningInv'
  BY <1>4 DEF OwningInv, Owning
<1> QED
  BY <1>3, <1>6, <1>7

LEMMA LifecycleOwnership ==
  ASSUME TypeInv, TypeInv', RecordsInv, OwnershipInv, NEW raised \in BOOLEAN, NEW lost \in Losses,
         Lifecycle(raised, lost)
  PROVE  OwnershipInv' /\ OnTime
PROOF
<1> DEFINE late == [work EXCEPT ![lifecycle].err = "timeout"]
<1>1. lifecycle \in Requests /\ lifecycle \in Controls /\ \A w \in Requests : work[w] \in WorkType
  BY DEF Lifecycle, TypeInv, TypeOK, StageOK, Requests
<1>2. UNCHANGED <<lifecycle, waiters, joined, effect>> /\ pc = "lifecycle"
  BY DEF Lifecycle, world
<1>3. CASE UNCHANGED <<work, active, gates>>
  <2>1. SlotsDecided' /\ OwningInv' /\ WorkInv' /\ OnTime
    BY <1>2, <1>3, AlikeStep DEF gates
  <2>2. StageSlots'
    <3>1. \/ active = None /\ pc' = "advance" /\ adv' = lifecycle /\ ret' = "release"
          \/ pc' = "release" /\ UNCHANGED ret
      BY DEF Lifecycle
    <3> QED
      BY <1>1, <1>2, <1>3, <3>1, RequestsAssumption
      DEF StageSlots, OwnershipInv, Advancing, Drains, gates
  <2> QED
    BY <2>1, <2>2 DEF OwnershipInv
<1>4. CASE work' = FailedClosed(late, lifecycle, raised, lost) /\ FreeSlot(work') /\ Escalate
           /\ pc' = "release" /\ UNCHANGED <<adv, ret>>
  <2>1. late \in [Requests -> WorkType]
    <3>1. [work[lifecycle] EXCEPT !.err = "timeout"] \in WorkType
      BY <1>1, ZenonT(40) DEF WorkType, Codes
    <3> QED
      BY <3>1, WorkUpdate DEF TypeInv, TypeOK
  <2>2. ASSUME NEW w \in Requests
        PROVE  /\ late[w].phase = work[w].phase /\ late[w].failed = work[w].failed
               /\ late[w].pending = work[w].pending /\ late[w].task = work[w].task
               /\ late[w].answer = work[w].answer /\ late[w].outcome = work[w].outcome
               /\ late[w].deadline = work[w].deadline
               /\ late[w].err = IF w = lifecycle THEN "timeout" ELSE work[w].err
    BY <1>1 DEF TypeInv, TypeOK, WorkType
  <2>3. late[lifecycle].err # "none" /\ late[lifecycle].phase # "new"
    <3>1. Owner(lifecycle) /\ OwnerTrue(lifecycle)
      BY <1>1 DEF Owner, OwnershipInv, WorkInv, WorkOf
    <3> QED
      BY <1>1, <2>2, <3>1 DEF OwnerTrue
  <2>4. ASSUME NEW w \in Requests PROVE Quiet(work[w], late[w])
    <3>1. work[w] \in WorkType /\ late[w] \in WorkType
      BY <1>1, <2>1
    <3>2. work[w].err # "none" => late[w].err # "none"
      BY <2>2
    <3> HIDE DEF late
    <3> QED
      BY <2>2, <3>1, <3>2, QuietSame
  <2> HIDE DEF late
  <2>5. SlotsDecided' /\ OwningInv' /\ WorkInv' /\ OnTime
    BY <1>1, <1>2, <1>4, <2>1, <2>3, <2>4, ClosedStep
  <2>6. StageSlots'
    BY <1>2, <1>4, StageIdle DEF OwnershipInv, StageSlots, Escalate, Drains
  <2> QED
    BY <2>5, <2>6 DEF OwnershipInv
<1> QED
  BY <1>3, <1>4 DEF Lifecycle

LEMMA ReleaseOwnership ==
  ASSUME TypeInv, TypeInv', RecordsInv, OwnershipInv, NEW lost \in Losses, Release(lost)
  PROVE  OwnershipInv' /\ OnTime
PROOF
<1>1. lifecycle \in Requests /\ lifecycle \in Controls /\ work[lifecycle] \in WorkType
  BY DEF Release, TypeInv, TypeOK, StageOK, Requests
<1>2. /\ UNCHANGED <<active, stopping, unavailable, mode, effect, ret>> /\ pc' = "idle"
  BY DEF Release, gates, world
<1>3. StageSlots'
  BY <1>2, StageIdle DEF Drains, OwnershipInv, StageSlots
<1>4. CASE work[lifecycle].phase = "live"
  <2>1. SlotsDecided' /\ OwningInv' /\ WorkInv' /\ OnTime
    BY <1>2, <1>4, AlikeStep DEF Release
  <2> QED
    BY <1>3, <2>1 DEF OwnershipInv
<1>5. CASE work[lifecycle].phase # "live"
  <2>1. /\ work' = [w \in Requests |-> IF w \in waiters /\ Final(work[lifecycle])
                      THEN Joined(work[w], work[lifecycle], w \in lost) ELSE work[w]]
        /\ joined' = [w \in Controls |-> IF w \in waiters /\ ~Final(work[lifecycle])
                                         THEN lifecycle ELSE joined[w]]
        /\ lifecycle' = None /\ waiters' = {}
    BY <1>5 DEF Release
  <2>2. \A w \in Requests : (Waits(w)' => Waits(w)) /\ (Owner(w)' => Owner(w))
    BY <2>1, RequestsAssumption DEF Waits, Owner, Requests
  <2>3. WorkOf(lifecycle) /\ Owner(lifecycle)
    BY <1>1 DEF Owner, OwnershipInv, WorkInv
  <2>4. ASSUME NEW w \in Requests
        PROVE  /\ Moves(work[w], work'[w]) \/ Takes(w)
               /\ Stays(work[w], work'[w])
    <3>1. work[w] \in WorkType /\ (work[w].answer = "ok" => work[w].phase = "terminal")
      BY InvAnswering DEF TypeInv, TypeOK, Answering, RecordsInv
    <3>2. (w \in lost) \in BOOLEAN
      OBVIOUS
    <3>3. CASE work'[w] = work[w]
      BY <3>1, <3>3, QuietRefl DEF Quiet
    <3>4. CASE w \in waiters /\ Final(work[lifecycle])
               /\ work'[w] = Joined(work[w], work[lifecycle], w \in lost)
      <4>1. Waits(w) /\ WorkOf(w)
        BY <3>4 DEF Waits, OwnershipInv, WorkInv, TypeInv, TypeOK
      <4>2. /\ Evolves(work[w], Joined(work[w], work[lifecycle], w \in lost))
            /\ Joined(work[w], work[lifecycle], w \in lost).answer = "ok" => work[w].answer = "ok"
            /\ Joined(work[w], work[lifecycle], w \in lost).err = "none"
                 => work[lifecycle].err = "none"
        BY <1>1, <3>1, <3>2, JoinedEnds
      <4>3. work'[w].err = "none" => Succeeded'
        <5> SUFFICES ASSUME work'[w].err = "none" PROVE Succeeded'
          OBVIOUS
        <5>1. work[lifecycle].task = "stepped" /\ work[lifecycle].answer = "ok"
          BY <2>3, <3>4, <4>2 DEF WorkOf, OwnerTrue, Final
        <5>2. lifecycle \notin waiters
          BY <1>1, <2>3 DEF WorkOf, Waiting, Waits
        <5>3. work'[lifecycle] = work[lifecycle]
          BY <1>1, <2>1, <5>2
        <5>4. \A v \in Controls : v = lifecycle => work'[v].task = "stepped" /\ work'[v].answer = "ok"
          BY <5>1, <5>3
        <5> QED
          BY <1>1, <5>4 DEF Succeeded
      <4>4. Takes(w)
        BY <3>4, <4>1, <4>2, <4>3 DEF Takes
      <4> QED
        BY <4>1, <4>4 DEF WorkOf, Waiting, Stays
    <3> QED
      BY <2>1, <3>3, <3>4
  <2>5. SlotsDecided' /\ OwningInv' /\ WorkInv' /\ OnTime
    BY <1>2, <1>5, <2>1, <2>2, <2>4, MovesStep
  <2> QED
    BY <1>3, <2>5 DEF OwnershipInv
<1> QED
  BY <1>4, <1>5

LEMMA StartOwnership == ASSUME TypeInv, TypeInv', OwnershipInv, Start PROVE OwnershipInv' /\ OnTime
PROOF
<1>1. UNCHANGED <<work, lifecycle, waiters, joined, stopping, unavailable, mode, effect>> /\ pc = "start"
  BY DEF Start, gates, world
<1>2. CASE UNCHANGED <<active, ret>> /\ pc' = AfterStart
  <2>1. SlotsDecided' /\ OwningInv' /\ WorkInv' /\ OnTime
    BY <1>1, <1>2, AlikeStep
  <2>2. StageSlots'
    BY <1>1, <1>2, StageIdle DEF AfterStart, Drains, OwnershipInv, StageSlots
  <2> QED
    BY <2>1, <2>2 DEF OwnershipInv
<1>3. CASE active = None /\ ~stopping /\ ~unavailable
           /\ \E w \in Ordinary : active' = w /\ pc' = "advance" /\ adv' = w /\ ret' = "refuse"
  <2>1. PICK w \in Ordinary : active' = w /\ pc' = "advance" /\ adv' = w /\ ret' = "refuse"
    BY <1>3
  <2>2. SlotsDecided' /\ StageSlots'
    BY <1>1, <1>3, <2>1, RequestsAssumption
    DEF OwnershipInv, SlotsDecided, StageSlots, Advancing, Drains, Undecided
  <2>3. OwningInv'
    <3>1. lifecycle = None
      BY <1>3 DEF OwnershipInv, SlotsDecided
    <3>2. \A v \in Requests : v # None /\ (v \in Ordinary \/ v \in Controls)
      BY RequestsAssumption DEF Requests
    <3> QED
      BY <1>1, <1>3, <3>1, <3>2 DEF OwnershipInv, OwningInv, Owning
  <2>4. WorkInv' /\ OnTime
    <3>1. Succeeded' = Succeeded
      BY <1>1 DEF Succeeded
    <3> QED
      BY <1>1, <3>1, SlotsSame DEF OnTime, OwnershipInv, WorkInv, WorkOf, Traced, Waiting,
         OwnerTrue, JoinerTrue
  <2> QED
    BY <2>2, <2>3, <2>4 DEF OwnershipInv
<1> QED
  BY <1>2, <1>3 DEF Start

LEMMA UnavailableOwnership ==
  ASSUME TypeInv, TypeInv', RecordsInv, OwnershipInv, NEW lost \in Losses, Unavailable(lost)
  PROVE  OwnershipInv' /\ OnTime
PROOF
<1>1. ASSUME NEW w \in Requests
      PROVE  Moves(work[w], work'[w]) /\ (unavailable \/ Stays(work[w], work'[w]))
  <2>1. work[w] \in WorkType /\ "session_unavailable" \in Codes
        /\ (work[w].answer = "ok" => work[w].phase = "terminal")
    BY InvAnswering DEF TypeInv, TypeOK, Codes, Answering, RecordsInv
  <2>2. (w \in lost) \in BOOLEAN
    OBVIOUS
  <2>3. CASE work'[w] = work[w]
    BY <2>1, <2>3, QuietRefl DEF Quiet
  <2>4. CASE unavailable /\
             work'[w] = Finished([work[w] EXCEPT !.err = "session_unavailable"], FALSE, w \in lost)
    BY <2>1, <2>2, <2>4, ForcedMoves
  <2> QED
    BY <2>3, <2>4 DEF Unavailable
<1>2. UNCHANGED <<active, lifecycle, waiters, joined, stopping, unavailable, mode, effect, ret>>
      /\ pc' = "idle"
  BY DEF Unavailable, gates, world
<1>3. SlotsDecided' /\ OwningInv' /\ WorkInv' /\ OnTime
  BY <1>1, <1>2, SlotsSame, MovesStep
<1>4. StageSlots'
  BY <1>2, StageIdle DEF Drains, OwnershipInv, StageSlots
<1> QED
  BY <1>3, <1>4 DEF OwnershipInv

LEMMA DrainOwnership ==
  ASSUME TypeInv, TypeInv', RecordsInv, OwnershipInv, NEW slot \in {active, lifecycle},
         NEW here \in {"drain", "drainLifecycle"}, NEW next \in {"drainLifecycle", "drained"},
         Drain(slot, here, next)
  PROVE  OwnershipInv' /\ OnTime
PROOF
<1>1. slot \in Requests \cup {None} /\ active \in Ordinary \cup {None}
      /\ lifecycle \in Controls \cup {None} /\ shutBy \in Int
  BY DEF TypeInv, TypeOK, Requests
<1>2. ASSUME NEW w \in Requests PROVE Quiet(work[w], work'[w])
  <2>1. work[w] \in WorkType
    BY DEF TypeInv, TypeOK
  <2>2. work'[w] \in {ClampCleanup(work[w], shutBy), work[w]}
    BY <1>1 DEF Drain, TypeInv, TypeOK
  <2> QED
    BY <1>1, <2>1, <2>2, ClampQuiet, QuietRefl
<1>3. UNCHANGED <<active, lifecycle, waiters, joined, stopping, unavailable, mode, effect>>
  BY DEF Drain, slots, gates, world
<1>4. SlotsDecided' /\ OwningInv' /\ WorkInv' /\ OnTime
  BY <1>2, <1>3, SlotsSame, MovesStep DEF Quiet
<1>5. StageSlots'
  <2>1. mode # "run" /\ pc' \in {"advance"} \cup Drains
    BY DEF Drain, OwnershipInv, StageSlots, Drains
  <2>2. pc' = "advance" => adv' = slot /\ slot # None
    BY DEF Drain
  <2>3. /\ pc' = "advance" /\ adv' \in Ordinary => active = adv'
        /\ pc' = "advance" /\ adv' \in Controls => lifecycle = adv'
    BY <1>1, <2>2, RequestsAssumption DEF Requests
  <2> QED
    BY <1>3, <2>1, <2>3 DEF StageSlots, Advancing, Drains
<1> QED
  BY <1>4, <1>5 DEF OwnershipInv

LEMMA DrainedOwnership == ASSUME TypeInv, OwnershipInv, Drained PROVE OwnershipInv' /\ OnTime
PROOF
<1>1. /\ UNCHANGED <<work, active, lifecycle, waiters, joined, stopping, unavailable, effect, ret>>
      /\ pc' = "idle" /\ mode # "run" /\ mode' # "run"
  BY DEF Drained, slots, world, OwnershipInv, StageSlots, Drains
<1>2. SlotsDecided' /\ StageSlots'
  BY <1>1 DEF OwnershipInv, SlotsDecided, StageSlots, Undecided, Advancing
<1>3. WorkInv' /\ OwningInv' /\ OnTime
  <2>1. Succeeded' = Succeeded
    BY <1>1 DEF Succeeded
  <2> QED
    BY <1>1, <2>1, SlotsSame DEF OnTime, OwnershipInv, WorkInv, WorkOf, Traced, Waiting,
       OwnerTrue, JoinerTrue, OwningInv, Owning
<1> QED
  BY <1>2, <1>3 DEF OwnershipInv

(* _advance, on one work.                                                  *)

LEMMA StageBack ==
  ASSUME TypeInv, OwnershipInv, Advancing, Back, mode' = mode \/ mode' # "run"
  PROVE  StageSlots'
<1>1. pc' = ret /\ ret' = "idle" /\ ret \notin {"advance", "gate", "returned"}
  BY DEF Back, TypeInv, StageOK
<1> QED
  BY <1>1, StageIdle DEF OwnershipInv, StageSlots, Drains

\* A step of a work that is live and undecided.
LEMMA AdvStep ==
  ASSUME TypeInv, TypeInv', RecordsInv, OwnershipInv, Advancing,
         work[adv].phase = "live", work[adv].err = "none",
         NEW j \in WorkType, work' = [work EXCEPT ![adv] = j],
         UNCHANGED <<lifecycle, waiters, joined, stopping, unavailable, mode>>,
         FreeSlot(work') \/ active' = active,
         \A w \in Requests : w # adv => effect'[w] = effect[w],
         effect'[adv] # "none" => j.task # "none" /\ j.outcome # "not_started",
         effect'[adv] = "dirty" => j.phase = "live",
         j.phase # "new", j.answer # "ok",
         j.phase # "live" /\ j.err = "none" => j.phase = "finishing" /\ j.task = "stepped"
  PROVE  SlotsDecided' /\ OwningInv' /\ WorkInv' /\ OnTime
PROOF
<1>1. WorkInv' /\ OnTime
  BY WorkAdv DEF RecordsInv
<1>2. /\ adv \in Requests /\ work'[adv] = j
      /\ \A w \in Requests : w # adv => work'[w] = work[w]
  BY AdvOwns DEF TypeInv, TypeOK
<1>3. /\ adv \in Ordinary => active = adv
      /\ adv \in Controls => lifecycle = adv /\ active = None
  <2>1. (adv \in Ordinary => active = adv) /\ (adv \in Controls => lifecycle = adv)
    BY AdvOwns
  <2>2. adv \in Controls => mode = "run"
    BY <1>2, <2>1, RequestsAssumption DEF OwnershipInv, SlotsDecided, Undecided
  <2> QED
    BY <2>1, <2>2 DEF OwnershipInv, StageSlots
<1>4. /\ active \in Requests \cup {None} /\ lifecycle \in Requests \cup {None}
      /\ active' \in {active, None} /\ None \notin Requests
      /\ \A w \in Requests : w \in Ordinary \/ w \in Controls
  BY RequestsAssumption DEF TypeInv, TypeOK, Requests, FreeSlot
<1>5. SlotsDecided'
  <2>1. Undecided(active)' => Undecided(active)
    BY <1>2, <1>4 DEF Undecided
  <2>2. Undecided(lifecycle)' => Undecided(lifecycle)
    BY <1>2, <1>4 DEF Undecided
  <2> QED
    BY <2>1, <2>2 DEF OwnershipInv, SlotsDecided
<1>6. ASSUME NEW w \in Requests, effect'[w] = "dirty", ~unavailable
      PROVE  /\ work'[w].phase = "live"
             /\ w \in Ordinary => active' = w
             /\ w \in Controls => lifecycle' = w /\ active' = None
  <2>1. /\ work'[w].phase = "live"
        /\ w \in Ordinary => active = w
        /\ w \in Controls => lifecycle = w /\ active = None
    <3>1. CASE w = adv
      BY <1>2, <1>3, <1>6, <3>1
    <3>2. CASE w # adv
      BY <1>2, <1>6, <3>2 DEF OwnershipInv, OwningInv, Owning
    <3> QED
      BY <3>1, <3>2
  <2> QED
    BY <1>4, <2>1 DEF FreeSlot
<1>7. OwningInv'
  BY <1>6 DEF OwningInv, Owning
<1> QED
  BY <1>1, <1>5, <1>7

\* What _cancel leaves of a live work k.
Decides(k, j) ==
  /\ j \in WorkType /\ j.phase # "new" /\ j.answer # "ok" /\ j.task = k.task /\ j.err # "none"
  /\ k.outcome # "not_started" => j.outcome # "not_started"
  /\ k.task # "none" => j.phase = "live"

LEMMA CancelledLive ==
  ASSUME NEW k \in WorkType, k.phase = "live", k.answer # "ok", NEW w, NEW code \in Codes,
         NEW raised \in BOOLEAN, NEW lost \in BOOLEAN
  PROVE  Decides(k, Cancelled(k, w, code, raised, lost))
PROOF
<1> DEFINE j == Cancelled(k, w, code, raised, lost)
<1>1. j \in WorkType /\ Quiet(k, j) /\ (j.phase = "live" => j.err # "none")
  BY CancelledType, CancelledQuiet
<1> HIDE DEF j
<1>2. /\ j.phase # "new" /\ j.answer # "ok" /\ j.task = k.task
      /\ k.outcome # "not_started" => j.outcome # "not_started"
      /\ k.task # "none" => j.phase = "live"
  BY <1>1 DEF Quiet, Moves, Steady, Evolves, Ends, Stays
<1>3. j.err # "none"
  BY <1>1, <1>2 DEF Quiet, Moves, Steady, Errs, Ends, WorkType
<1>4. Decides(k, j)
  BY <1>1, <1>2, <1>3 DEF Decides
<1> QED
  BY <1>4 DEF j

LEMMA AdvanceOverOwnership ==
  ASSUME TypeInv, TypeInv', RecordsInv, OwnershipInv, AdvanceOver PROVE OwnershipInv' /\ OnTime
PROOF
<1> DEFINE k == work[adv]
<1>1. Advancing
  BY DEF Advancing, AdvanceOver
<1>2. k \in WorkType /\ adv \in Requests /\ k.phase # "live"
  BY <1>1, AdvTyped DEF AdvanceOver
<1>3. Settleable(k) => Quiet(k, Settled(k, "ok"))
  BY <1>1, <1>2, AdvKept, SettledMoves DEF Settleable
<1>4. ASSUME NEW w \in Requests PROVE Quiet(work[w], work'[w])
  <2>1. CASE w = adv
    BY <1>2, <1>3, <2>1, QuietRefl DEF AdvanceOver, TypeInv, TypeOK
  <2>2. CASE w # adv
    <3>1. work'[w] = work[w] /\ work[w] \in WorkType
      BY <2>2 DEF AdvanceOver, TypeInv, TypeOK
    <3> QED
      BY <3>1, QuietRefl
  <2> QED
    BY <2>1, <2>2
<1>5. UNCHANGED <<active, lifecycle, waiters, joined, stopping, unavailable, mode, effect>>
  BY DEF AdvanceOver, slots, gates, world
<1>6. SlotsDecided' /\ OwningInv' /\ WorkInv' /\ OnTime
  BY <1>4, <1>5, SlotsSame, MovesStep DEF Quiet
<1>7. StageSlots'
  BY <1>1, <1>5, StageBack DEF AdvanceOver
<1> QED
  BY <1>6, <1>7 DEF OwnershipInv

\* A work in trouble frees the desktop only once its cleanup is confirmed, or makes
\* the session unavailable.
LEMMA AdvanceTroubledOwnership ==
  ASSUME TypeInv, TypeInv', RecordsInv, OwnershipInv, NEW confirmed \in BOOLEAN,
         NEW raised \in BOOLEAN, NEW lost \in Losses, AdvanceTroubled(confirmed, raised, lost)
  PROVE  OwnershipInv' /\ OnTime
PROOF
<1> DEFINE code == Trouble(work[adv], adv)
           k == Cancelled(work[adv], adv, code, raised, adv \in lost)
           tried == [work EXCEPT ![adv] = k]
           late == [work EXCEPT ![adv].err = "timeout"]
           none == work[adv].task = "none"
           stranded == \/ none /\ adv \in Controls
                       \/ ~(confirmed \/ none) /\ Exhausted(k)
<1>1. Advancing
  BY DEF Advancing, AdvanceTroubled
<1>2. /\ adv \in Requests /\ work[adv] \in WorkType /\ code \in Codes /\ (adv \in lost) \in BOOLEAN
      /\ work[adv].phase = "live" /\ work[adv].answer # "ok" /\ adv \in {active, lifecycle}
  BY <1>1, AdvTyped, AdvOwns, AdvKept, TroubleType DEF AdvanceTroubled, Requests
<1>3. k \in WorkType /\ Quiet(work[adv], k) /\ k.err # "none" /\ k.phase # "new" /\ k.answer # "ok"
  <2> HIDE DEF code
  <2>1. Decides(work[adv], k)
    BY <1>2, CancelledLive
  <2>2. Quiet(work[adv], k)
    BY <1>2, CancelledQuiet
  <2> HIDE DEF k
  <2> QED
    BY <2>1, <2>2 DEF Decides
<1>4. /\ work' = CASE stranded /\ none -> FailedClosed(late, adv, raised, lost)
                   [] stranded /\ ~none -> FailedClosed(tried, adv, raised, lost)
                   [] ~stranded /\ (confirmed \/ none) /\ k.phase = "live" ->
                        [work EXCEPT ![adv] = Finished(k, FALSE, adv \in lost)]
                   [] OTHER -> tried
      /\ effect' = [effect EXCEPT ![adv] = IF ~confirmed \/ none THEN @
                                           ELSE IF @ = "dirty" THEN "clean"
                                           ELSE IF @ = "intent" THEN "none" ELSE @]
      /\ IF stranded THEN Escalate ELSE UNCHANGED gates
      /\ FreeSlot(work') /\ Back
      /\ UNCHANGED <<lifecycle, waiters, joined>>
  BY Zenon DEF AdvanceTroubled
<1> HIDE DEF k, code
<1>5. \A w \in Requests : (effect'[w] # "none" => effect[w] # "none")
                          /\ (effect'[w] = "dirty" => effect[w] = "dirty")
                          /\ (w # adv => effect'[w] = effect[w])
  BY <1>4 DEF TypeInv, TypeOK
<1>6. StageSlots'
  BY <1>1, <1>4, StageBack DEF Escalate, gates
<1>7. \A w \in Requests : w # adv => Quiet(work[w], work[w])
  BY QuietRefl DEF TypeInv, TypeOK
<1>8. tried \in [Requests -> WorkType] /\ \A w \in Requests : Quiet(work[w], tried[w])
  BY <1>2, <1>3, <1>7 DEF TypeInv, TypeOK
<1>9. CASE stranded
  <2>1. /\ late \in [Requests -> WorkType] /\ late[adv].err = "timeout" /\ late[adv].phase = "live"
        /\ \A w \in Requests : Quiet(work[w], late[w])
    <3> DEFINE c == [work[adv] EXCEPT !.err = "timeout"]
    <3>1. c \in WorkType
      BY <1>2, Zenon DEF WorkType, Codes
    <3>2. late = [work EXCEPT ![adv] = c]
      BY <1>2 DEF TypeInv, TypeOK
    <3>3. /\ c.phase = "live" /\ c.failed = work[adv].failed /\ c.task = work[adv].task
          /\ c.pending = work[adv].pending /\ c.answer = work[adv].answer /\ c.err = "timeout"
          /\ c.outcome = work[adv].outcome
      BY <1>2 DEF WorkType
    <3> HIDE DEF c, late
    <3>4. Quiet(work[adv], c)
      BY <1>2, <3>1, <3>3, QuietSame
    <3> QED
      BY <1>2, <1>7, <3>1, <3>2, <3>3, <3>4, WorkUpdate DEF TypeInv, TypeOK
  <2>2. tried[adv].err # "none" /\ tried[adv].phase # "new"
    BY <1>2, <1>3 DEF TypeInv, TypeOK
  <2>3. \/ work' = FailedClosed(late, adv, raised, lost)
        \/ work' = FailedClosed(tried, adv, raised, lost)
    BY <1>4, <1>9, Zenon
  <2> HIDE DEF tried, late
  <2>4. Escalate
    BY <1>4, <1>9
  <2>5. CASE work' = FailedClosed(late, adv, raised, lost)
    BY ZenonT(60), <1>2, <1>4, <1>5, <1>6, <2>1, <2>4, <2>5, ClosedStep DEF OwnershipInv
  <2>6. CASE work' = FailedClosed(tried, adv, raised, lost)
    BY ZenonT(60), <1>2, <1>4, <1>5, <1>6, <1>8, <2>2, <2>4, <2>6, ClosedStep
       DEF OwnershipInv
  <2> QED
    BY <2>3, <2>5, <2>6
<1>10. CASE ~stranded
  <2>1. UNCHANGED <<stopping, unavailable, mode>>
    BY <1>4, <1>10 DEF gates
  <2>2. \/ (confirmed \/ none) /\ work' = [work EXCEPT ![adv] = Finished(k, FALSE, adv \in lost)]
        \/ work' = tried
    BY <1>4, <1>10, Zenon
  <2>3. ASSUME NEW w \in Requests PROVE Moves(work[w], work'[w])
    <3>1. CASE work' = tried
      BY <1>8, <3>1 DEF Quiet
    <3>2. CASE work' = [work EXCEPT ![adv] = Finished(k, FALSE, adv \in lost)]
      <4>1. Finished(k, FALSE, adv \in lost) \in WorkType /\ Moves(k, Finished(k, FALSE, adv \in lost))
        BY <1>2, <1>3, FinishedType, FinishedEnds
      <4>2. Moves(work[adv], Finished(k, FALSE, adv \in lost))
        BY <1>2, <1>3, <4>1, MovesTrans DEF Quiet
      <4> QED
        BY <1>2, <1>7, <3>2, <4>2 DEF TypeInv, TypeOK, Quiet
    <3> QED
      BY <2>2, <3>1, <3>2
  <2>4. WorkInv' /\ OnTime
    BY <1>4, <1>5, <2>3, WorkMoves, SlotsSame DEF RecordsInv, OwnershipInv
  <2>5. SlotsDecided'
    <3>1. active' \in {active, None}
      BY <1>4 DEF FreeSlot
    <3> QED
      BY <1>4, <2>1, <2>3, <3>1, SlotsKept DEF Moves, OwnershipInv
  <2>6. ASSUME NEW w \in Requests, effect'[w] = "dirty", work[w].phase = "live"
        PROVE  work'[w].phase = "live"
    <3>1. effect[w] = "dirty" /\ work[w].task # "none"
      BY <1>5, <2>6 DEF OwnershipInv, WorkInv, WorkOf, Traced
    <3>2. CASE work' = tried
      BY <1>8, <2>6, <3>1, <3>2 DEF Quiet, Stays
    <3>3. CASE (confirmed \/ none) /\ work' = [work EXCEPT ![adv] = Finished(k, FALSE, adv \in lost)]
      <4>1. w # adv
        BY <1>4, <2>6, <3>1, <3>3 DEF TypeInv, TypeOK
      <4> QED
        BY <2>6, <3>3, <4>1 DEF TypeInv, TypeOK
    <3> QED
      BY <2>2, <3>2, <3>3
  <2>7. OwningInv'
    BY <1>4, <1>5, <2>1, <2>6, OwningKept DEF OwnershipInv
  <2> QED
    BY <1>6, <2>4, <2>5, <2>7 DEF OwnershipInv
<1> QED
  BY <1>9, <1>10

\* The work whose turn it is is cancelled, after a step k of it.
LEMMA CancelAdvStep ==
  ASSUME TypeInv, TypeInv', RecordsInv, OwnershipInv, Advancing,
         work[adv].phase = "live", work[adv].err = "none",
         NEW k \in WorkType, k.phase = "live", k.answer # "ok", NEW code \in Codes,
         NEW raised \in BOOLEAN, NEW lost \in BOOLEAN,
         work' = [work EXCEPT ![adv] = Cancelled(k, adv, code, raised, lost)],
         UNCHANGED <<lifecycle, waiters, joined, stopping, unavailable, mode, effect>>,
         FreeSlot(work') \/ active' = active,
         effect[adv] # "none" => k.task # "none" /\ k.outcome # "not_started"
  PROVE  SlotsDecided' /\ OwningInv' /\ WorkInv' /\ OnTime
PROOF
<1> DEFINE j == Cancelled(k, adv, code, raised, lost)
<1>1. Decides(k, j)
  BY CancelledLive
<1>2. work' = [work EXCEPT ![adv] = j]
  OBVIOUS
<1> HIDE DEF j
<1>3. /\ j \in WorkType /\ j.phase # "new" /\ j.answer # "ok" /\ j.err # "none"
      /\ effect'[adv] # "none" => j.task # "none" /\ j.outcome # "not_started"
      /\ effect'[adv] = "dirty" => j.phase = "live"
  BY <1>1 DEF Decides
<1> QED
  BY <1>2, <1>3, AdvStep

LEMMA BuildOwnership ==
  ASSUME TypeInv, TypeInv', RecordsInv, OwnershipInv, NEW made \in {"built", "timeout", "task_error"},
         NEW lost \in Losses, Build(made, lost)
  PROVE  OwnershipInv' /\ OnTime
PROOF
<1> DEFINE k == IF adv \in Ordinary \ lost THEN Observe(work[adv], "started", FALSE) ELSE work[adv]
           refused == adv \in Ordinary \cap lost
           code == IF refused THEN "artifact_failed" ELSE made
           built == [k EXCEPT !.task = "built"]
<1>1. Advancing
  BY DEF Advancing, Build
<1>2. /\ adv \in Requests /\ work[adv] \in WorkType
      /\ work[adv].phase = "live" /\ work[adv].err = "none" /\ work[adv].task = "none"
      /\ work[adv].answer # "ok" /\ effect[adv] = "none"
  <2>1. WorkOf(adv)
    BY <1>1, AdvOwns
  <2> QED
    BY <1>1, <2>1, AdvTyped, AdvKept DEF Build, Trouble, Codes, WorkType, WorkOf, Traced
<1>3. k \in WorkType /\ k.phase = "live" /\ k.err = "none" /\ k.answer # "ok" /\ k.task = "none"
  <2>1. k \in WorkType
    BY <1>2, ObserveType DEF Events
  <2> QED
    BY <1>2, <2>1 DEF Observe, WorkType
<1> HIDE DEF k
<1>4. /\ UNCHANGED <<lifecycle, waiters, joined, stopping, unavailable, mode, effect>>
      /\ FreeSlot(work')
  BY DEF Build, gates, world
<1>5. \/ /\ code = "built" /\ work' = [work EXCEPT ![adv] = built]
         /\ pc' = "gate" /\ UNCHANGED <<adv, ret>>
      \/ /\ code # "built" /\ work' = [work EXCEPT ![adv] = Cancelled(k, adv, code, FALSE, refused)]
         /\ Back
  BY Zenon DEF Build, k
<1>6. CASE code # "built" /\ Back
  <2>1. code \in Codes /\ refused \in BOOLEAN
    BY <1>6 DEF Codes
  <2> HIDE DEF code, refused
  <2>2. SlotsDecided' /\ OwningInv' /\ WorkInv' /\ OnTime
    BY <1>1, <1>2, <1>3, <1>4, <1>5, <1>6, <2>1, CancelAdvStep
  <2>3. StageSlots'
    BY <1>1, <1>4, <1>6, StageBack
  <2> QED
    BY <2>2, <2>3 DEF OwnershipInv
<1>7. CASE code = "built"
  <2>1. /\ built \in WorkType /\ built.phase = "live" /\ built.answer # "ok"
        /\ work' = [work EXCEPT ![adv] = built] /\ pc' = "gate" /\ UNCHANGED <<adv, ret>>
    <3>1. built \in WorkType
      BY <1>3, Zenon DEF WorkType
    <3> QED
      BY <1>3, <1>5, <1>7, <3>1 DEF WorkType
  <2> HIDE DEF built
  <2>2. SlotsDecided' /\ OwningInv' /\ WorkInv' /\ OnTime
    BY <1>1, <1>2, <1>4, <2>1, AdvStep
  <2>3. work'[adv].phase = "live"
    BY <1>2, <2>1 DEF TypeInv, TypeOK
  <2>4. StageSlots'
    <3>1. /\ adv \in Ordinary => active = adv
          /\ adv \in Controls => lifecycle = adv /\ (mode = "run" => active = None)
          /\ ret \in Drains => mode # "run"
      BY <1>1 DEF OwnershipInv, StageSlots
    <3>2. adv # None
      BY <1>2, RequestsAssumption
    <3> QED
      BY <1>4, <2>1, <2>3, <3>1, <3>2 DEF StageSlots, Advancing, Drains, FreeSlot
  <2> QED
    BY <2>2, <2>4 DEF OwnershipInv
<1> QED
  BY <1>5, <1>6, <1>7

LEMMA ResumeOwnership == ASSUME TypeInv, OwnershipInv, Resume PROVE OwnershipInv' /\ OnTime
PROOF
<1>1. /\ UNCHANGED <<work, active, lifecycle, waiters, joined, stopping, unavailable, mode, effect, adv, ret>>
      /\ pc = "advance" /\ pc' = "gate"
  BY DEF Resume, slots, gates, world
<1>2. SlotsDecided' /\ OwningInv' /\ WorkInv' /\ OnTime
  BY <1>1, AlikeStep
<1>3. StageSlots'
  BY <1>1 DEF OwnershipInv, StageSlots, Advancing, Drains
<1> QED
  BY <1>2, <1>3 DEF OwnershipInv

LEMMA GateHoldOwnership == ASSUME TypeInv, OwnershipInv, GateHold PROVE OwnershipInv' /\ OnTime
PROOF
<1>1. /\ UNCHANGED <<work, active, lifecycle, waiters, joined, stopping, unavailable, mode, effect>>
      /\ Advancing /\ Back
  BY DEF GateHold, slots, gates, world, Advancing
<1>2. SlotsDecided' /\ OwningInv' /\ WorkInv' /\ OnTime
  BY <1>1, AlikeStep
<1>3. StageSlots'
  BY <1>1, StageBack
<1> QED
  BY <1>2, <1>3 DEF OwnershipInv

\* The work at the gate, when it is stepped.
LEMMA GateWork ==
  ASSUME TypeInv, RecordsInv, OwnershipInv, pc = "gate", ~Holding(work[adv], adv)
  PROVE  LET k == Stepped(work[adv])
         IN /\ Advancing /\ adv \in Requests /\ k \in WorkType
            /\ work[adv].phase = "live" /\ work[adv].err = "none"
            /\ k.phase = "live" /\ k.err = "none" /\ k.task = "stepped" /\ k.answer # "ok"
            /\ effect[adv] # "none" => k.outcome # "not_started"
PROOF
<1> DEFINE k == Stepped(work[adv])
<1>1. /\ Advancing /\ adv \in Requests /\ k \in WorkType
      /\ k.phase = "live" /\ k.err = "none" /\ k.task = "stepped" /\ k.answer # "ok"
  BY GateStepped
<1>2. work[adv].phase = "live" /\ work[adv].err = "none"
  BY DEF RecordsInv, AtGate
<1>3. effect[adv] # "none" => work[adv].outcome # "not_started"
  BY <1>1 DEF OwnershipInv, WorkInv, WorkOf, Traced
<1>4. k.outcome = work[adv].outcome
  BY <1>1 DEF Stepped, TypeInv, TypeOK, WorkType
<1> QED
  BY <1>1, <1>2, <1>3, <1>4

LEMMA GateLateOwnership ==
  ASSUME TypeInv, TypeInv', RecordsInv, OwnershipInv, NEW raised \in BOOLEAN,
         NEW lost \in Losses, GateLate(raised, lost)
  PROVE  OwnershipInv' /\ OnTime
PROOF
<1> DEFINE k == Stepped(work[adv])
<1>1. /\ Advancing /\ k \in WorkType /\ work[adv].phase = "live" /\ work[adv].err = "none"
      /\ k.phase = "live" /\ k.task = "stepped" /\ k.answer # "ok"
      /\ effect[adv] # "none" => k.outcome # "not_started"
  BY GateWork DEF GateLate
<1>2. /\ work' = [work EXCEPT ![adv] = Cancelled(k, adv, "timeout", raised, adv \in lost)]
      /\ UNCHANGED <<active, lifecycle, waiters, joined, stopping, unavailable, mode, effect>> /\ Back
  BY DEF GateLate, Stepped, slots, gates, world
<1>3. "timeout" \in Codes /\ (adv \in lost) \in BOOLEAN
  BY DEF Codes
<1> HIDE DEF k
<1>4. SlotsDecided' /\ OwningInv' /\ WorkInv' /\ OnTime
  BY <1>1, <1>2, <1>3, CancelAdvStep
<1>5. StageSlots'
  BY <1>1, <1>2, StageBack
<1> QED
  BY <1>4, <1>5 DEF OwnershipInv

LEMMA StepWaitOwnership ==
  ASSUME TypeInv, TypeInv', RecordsInv, OwnershipInv, StepWait PROVE OwnershipInv' /\ OnTime
PROOF
<1> DEFINE k == Stepped(work[adv])
<1>1. /\ Advancing /\ k \in WorkType /\ work[adv].phase = "live" /\ work[adv].err = "none"
      /\ k.phase = "live" /\ k.task = "stepped" /\ k.answer # "ok"
      /\ effect[adv] # "none" => k.outcome # "not_started"
  BY GateWork DEF StepWait, MayStep
<1>2. /\ work' = [work EXCEPT ![adv] = k] /\ Back
      /\ UNCHANGED <<active, lifecycle, waiters, joined, stopping, unavailable, mode, effect>>
  BY DEF StepWait, slots, gates, world
<1> HIDE DEF k
<1>3. SlotsDecided' /\ OwningInv' /\ WorkInv' /\ OnTime
  BY <1>1, <1>2, AdvStep
<1>4. StageSlots'
  BY <1>1, <1>2, StageBack
<1> QED
  BY <1>3, <1>4 DEF OwnershipInv

\* Context.effects makes the outcome doubtful before the effect begins.
LEMMA StepEffectsOwnership ==
  ASSUME TypeInv, TypeInv', RecordsInv, OwnershipInv, NEW raised \in BOOLEAN,
         NEW lost \in Losses, StepEffects(raised, lost)
  PROVE  OwnershipInv' /\ OnTime
PROOF
<1> DEFINE s == Stepped(work[adv])
           partial == [s EXCEPT !.outcome = "partial"]
           k == Observe(partial, "effects", adv \in lost)
<1>1. /\ Advancing /\ s \in WorkType /\ work[adv].phase = "live" /\ work[adv].err = "none"
      /\ s.phase = "live" /\ s.task = "stepped" /\ s.answer # "ok" /\ adv \in Requests
  BY GateWork DEF StepEffects, MayStep
<1>2. effect[adv] = "none" /\ Back
      /\ UNCHANGED <<active, lifecycle, waiters, joined, stopping, unavailable, mode>>
  BY DEF StepEffects, slots, gates
<1>3. "artifact_failed" \in Codes /\ (adv \in lost) \in BOOLEAN /\ "effects" \in Events
  BY DEF Codes, Events
<1>4. \/ /\ work' = [work EXCEPT ![adv] = Cancelled(k, adv, "artifact_failed", raised, adv \in lost)]
         /\ UNCHANGED effect
      \/ /\ work' = [work EXCEPT ![adv] = k]
         /\ \E e : effect' = [effect EXCEPT ![adv] = e]
  BY DEF StepEffects
<1> HIDE DEF s
<1>5. /\ partial \in WorkType /\ partial.phase = "live" /\ partial.task = "stepped"
      /\ partial.answer # "ok" /\ partial.outcome = "partial"
  <2>1. \A o \in {"partial"} : [s EXCEPT !.outcome = o] \in WorkType
    BY <1>1, Zenon DEF WorkType
  <2> QED
    BY <1>1, <2>1 DEF WorkType
<1> HIDE DEF partial
<1>6. k \in WorkType /\ k.phase = "live" /\ k.task = "stepped" /\ k.answer # "ok" /\ k.outcome = "partial"
  <2>1. k \in WorkType
    BY <1>3, <1>5, ObserveType
  <2> QED
    BY <1>5, <2>1 DEF Observe, WorkType
<1> HIDE DEF k
<1>7. SlotsDecided' /\ OwningInv' /\ WorkInv' /\ OnTime
  <2>1. CASE /\ work' = [work EXCEPT ![adv] = Cancelled(k, adv, "artifact_failed", raised, adv \in lost)]
             /\ UNCHANGED effect
    BY <1>1, <1>2, <1>3, <1>6, <2>1, CancelAdvStep
  <2>2. CASE /\ work' = [work EXCEPT ![adv] = k]
             /\ \E e : effect' = [effect EXCEPT ![adv] = e]
    <3>1. \A w \in Requests : w # adv => effect'[w] = effect[w]
      BY <2>2 DEF TypeInv, TypeOK
    <3> QED
      BY <1>1, <1>2, <1>6, <2>2, <3>1, AdvStep
  <2> QED
    BY <1>4, <2>1, <2>2
<1>8. StageSlots'
  BY <1>1, <1>2, StageBack
<1> QED
  BY <1>7, <1>8 DEF OwnershipInv

LEMMA StepEmitOwnership ==
  ASSUME TypeInv, TypeInv', RecordsInv, OwnershipInv, StepEmit PROVE OwnershipInv' /\ OnTime
PROOF
<1> DEFINE k == Stepped(work[adv])
<1>1. /\ Advancing /\ k \in WorkType /\ work[adv].phase = "live" /\ work[adv].err = "none"
      /\ k.phase = "live" /\ k.task = "stepped" /\ k.answer # "ok"
      /\ effect[adv] # "none" => k.outcome # "not_started"
  BY GateWork DEF StepEmit, MayStep
<1>2. /\ work' = [work EXCEPT ![adv] = k] /\ Back /\ effect[adv] = "intent"
      /\ UNCHANGED <<active, lifecycle, waiters, joined, stopping, unavailable, mode>>
  BY DEF StepEmit, slots, gates
<1>3. \A w \in Requests : w # adv => effect'[w] = effect[w]
  BY DEF StepEmit, TypeInv, TypeOK
<1> HIDE DEF k
<1>4. SlotsDecided' /\ OwningInv' /\ WorkInv' /\ OnTime
  BY <1>1, <1>2, <1>3, AdvStep
<1>5. StageSlots'
  BY <1>1, <1>2, StageBack
<1> QED
  BY <1>4, <1>5 DEF OwnershipInv

LEMMA StepResultOwnership ==
  ASSUME TypeInv, TypeInv', RecordsInv, OwnershipInv, StepResult PROVE OwnershipInv' /\ OnTime
PROOF
<1> DEFINE k == Stepped(work[adv])
<1>1. /\ Advancing /\ k \in WorkType /\ work[adv].phase = "live" /\ work[adv].err = "none"
      /\ k.phase = "live" /\ k.task = "stepped" /\ k.answer # "ok" /\ adv \in Requests
      /\ effect[adv] # "none" => k.outcome # "not_started"
  BY GateWork DEF StepResult, MayStep
<1>2. /\ work' = [work EXCEPT ![adv] = k] /\ pc' = "returned" /\ effect[adv] \in {"none", "dirty"}
      /\ UNCHANGED <<active, lifecycle, waiters, joined, stopping, unavailable, mode, adv, ret>>
      /\ effect' = [effect EXCEPT ![adv] = IF @ = "dirty" THEN "clean" ELSE @]
  BY DEF StepResult, slots, gates
<1>3. /\ \A w \in Requests : w # adv => effect'[w] = effect[w]
      /\ effect'[adv] # "dirty" /\ (effect'[adv] # "none" => effect[adv] # "none")
  BY <1>1, <1>2 DEF TypeInv, TypeOK
<1> HIDE DEF k
<1>4. SlotsDecided' /\ OwningInv' /\ WorkInv' /\ OnTime
  BY <1>1, <1>2, <1>3, AdvStep
<1>5. StageSlots'
  BY <1>1, <1>2, <1>3 DEF OwnershipInv, StageSlots, Advancing, Drains
<1> QED
  BY <1>4, <1>5 DEF OwnershipInv

LEMMA StepRaiseOwnership ==
  ASSUME TypeInv, TypeInv', RecordsInv, OwnershipInv, NEW outcome \in {"not_started", "unknown"},
         NEW raised \in BOOLEAN, NEW lost \in Losses, StepRaise(outcome, raised, lost)
  PROVE  OwnershipInv' /\ OnTime
PROOF
<1> DEFINE s == Stepped(work[adv])
           k == IF outcome = "not_started" THEN s ELSE [s EXCEPT !.outcome = outcome]
<1>1. /\ Advancing /\ s \in WorkType /\ work[adv].phase = "live" /\ work[adv].err = "none"
      /\ s.phase = "live" /\ s.task = "stepped" /\ s.answer # "ok"
      /\ effect[adv] # "none" => s.outcome # "not_started"
  BY GateWork DEF StepRaise, MayStep
<1>2. /\ work' = [work EXCEPT ![adv] = Cancelled(k, adv, "task_error", raised, adv \in lost)] /\ Back
      /\ UNCHANGED <<active, lifecycle, waiters, joined, stopping, unavailable, mode, effect>>
  BY DEF StepRaise, slots, gates, world
<1>3. "task_error" \in Codes /\ (adv \in lost) \in BOOLEAN
  BY DEF Codes
<1> HIDE DEF s
<1>4. /\ k \in WorkType /\ k.phase = "live" /\ k.task = "stepped" /\ k.answer # "ok"
      /\ effect[adv] # "none" => k.outcome # "not_started"
  <2>1. \A o \in {"unknown"} : [s EXCEPT !.outcome = o] \in WorkType
    BY <1>1, Zenon DEF WorkType
  <2> QED
    BY <1>1, <2>1 DEF WorkType
<1> HIDE DEF k
<1>5. SlotsDecided' /\ OwningInv' /\ WorkInv' /\ OnTime
  BY <1>1, <1>2, <1>3, <1>4, CancelAdvStep
<1>6. StageSlots'
  BY <1>1, <1>2, StageBack
<1> QED
  BY <1>5, <1>6 DEF OwnershipInv

LEMMA ReturnOwnership ==
  ASSUME TypeInv, TypeInv', RecordsInv, OwnershipInv, NEW raised \in BOOLEAN,
         NEW lost \in Losses, Return(raised, lost)
  PROVE  OwnershipInv' /\ OnTime
PROOF
<1> DEFINE k == work[adv]
           d == Doubt(k)
           f == Finished(k, TRUE, adv \in lost)
<1>1. Advancing
  BY DEF Advancing, Return
<1>2. /\ adv \in Requests /\ k \in WorkType /\ k.phase = "live" /\ k.err = "none" /\ k.task = "stepped"
      /\ k.answer # "ok" /\ effect[adv] # "dirty"
      /\ effect[adv] # "none" => k.outcome # "not_started"
  <2>1. k.phase = "live" /\ k.err = "none" /\ k.task = "stepped" /\ effect[adv] # "dirty"
    BY DEF Return, RecordsInv, AtGate, OwnershipInv, StageSlots
  <2>2. WorkOf(adv)
    BY <1>1, AdvOwns
  <2> QED
    BY <1>1, <2>1, <2>2, AdvTyped, AdvKept DEF WorkOf, Traced
<1>3. "timeout" \in Codes /\ (adv \in lost) \in BOOLEAN
  BY DEF Codes
<1>4. \/ work' = [work EXCEPT ![adv] = Cancelled(d, adv, "timeout", raised, adv \in lost)]
      \/ work' = [work EXCEPT ![adv] = f]
  BY DEF Return
<1>5. /\ Back /\ FreeSlot(work')
      /\ UNCHANGED <<lifecycle, waiters, joined, stopping, unavailable, mode, effect>>
  BY DEF Return, gates, world
<1> HIDE DEF k
<1>6. /\ f \in WorkType /\ f.answer # "ok" /\ f.phase \in {"finishing", "terminal"}
      /\ f.task = "stepped" /\ (k.outcome # "not_started" => f.outcome # "not_started")
      /\ f.err = "none" => f.phase = "finishing"
  <2>1. /\ f \in WorkType /\ Evolves(k, f) /\ Ends(k, f) /\ f.answer # "ok"
        /\ f.phase \in {"finishing", "terminal"}
    BY <1>2, <1>3, FinishedType, FinishedEvolves, FinishedEnds
  <2> HIDE DEF f
  <2> QED
    BY <1>2, <2>1 DEF Evolves, Ends
<1>7. /\ d \in WorkType /\ d.phase = "live" /\ d.answer # "ok" /\ d.task = "stepped"
      /\ k.outcome # "not_started" => d.outcome # "not_started"
  <2>1. \A o \in {"not_started", "partial", "unknown"} : [k EXCEPT !.outcome = o] \in WorkType
    BY <1>2, Zenon DEF WorkType
  <2>2. k.outcome \in {"not_started", "partial", "unknown"}
    BY <1>2 DEF WorkType
  <2>3. d \in WorkType
    BY <2>1, <2>2 DEF Doubt
  <2> QED
    BY <1>2, <2>3 DEF Doubt, WorkType
<1> HIDE DEF d, f
<1>8. SlotsDecided' /\ OwningInv' /\ WorkInv' /\ OnTime
  <2>0. work[adv].phase = "live" /\ work[adv].err = "none"
    BY <1>2 DEF k
  <2>1. CASE work' = [work EXCEPT ![adv] = Cancelled(d, adv, "timeout", raised, adv \in lost)]
    BY <1>1, <1>2, <1>3, <1>5, <1>7, <2>0, <2>1, CancelAdvStep
  <2>2. CASE work' = [work EXCEPT ![adv] = f]
    BY <1>1, <1>2, <1>5, <1>6, <2>0, <2>2, AdvStep
  <2> QED
    BY <1>4, <2>1, <2>2
<1>9. StageSlots'
  BY <1>1, <1>5, StageBack
<1> QED
  BY <1>8, <1>9 DEF OwnershipInv

-----------------------------------------------------------------------------
(* All of them together.                                                     *)

LEMMA AdvanceOwnership ==
  ASSUME TypeInv, TypeInv', RecordsInv, OwnershipInv, Advance PROVE OwnershipInv' /\ OnTime
BY AdvanceOverOwnership, AdvanceTroubledOwnership, BuildOwnership, ResumeOwnership,
   GateHoldOwnership, GateLateOwnership, StepWaitOwnership, StepEffectsOwnership,
   StepEmitOwnership, StepResultOwnership, StepRaiseOwnership, ReturnOwnership DEF Advance

LEMMA TurnOwnership ==
  ASSUME TypeInv, TypeInv', RecordsInv, OwnershipInv, Turn PROVE OwnershipInv' /\ OnTime
PROOF
<1>1. ASSUME NEW fate \in Fated, NEW lost \in Losses, Settle(fate, lost)
      PROVE  OwnershipInv' /\ OnTime
  <2>1. fate \in [Requests -> Codes \cup {"ok"}]
    BY FatedType
  <2> QED
    BY <1>1, <2>1, SettleOwnership
<1>2. CASE Drain(active, "drain", "drainLifecycle")
  BY <1>2, DrainOwnership
<1>3. CASE Drain(lifecycle, "drainLifecycle", "drained")
  BY <1>3, DrainOwnership
<1> QED
  BY <1>1, <1>2, <1>3, ExpireOwnership, LifecycleOwnership, ReleaseOwnership,
       StartOwnership,
     UnavailableOwnership, DrainedOwnership, AdvanceOwnership DEF Turn

LEMMA DispatchOwnership ==
  ASSUME TypeInv, TypeInv', RecordsInv, OwnershipInv, Dispatch PROVE OwnershipInv' /\ OnTime
PROOF
<1>1. ASSUME NEW w \in Ordinary, Refuse(w) PROVE OwnershipInv' /\ OnTime
  BY <1>1, RefuseOwnership DEF Refuse, Requests, Codes
<1>2. ASSUME NEW w \in Controls, NEW expired \in BOOLEAN, RefuseControl(w, expired)
      PROVE  OwnershipInv' /\ OnTime
  BY <1>2, RefuseOwnership DEF RefuseControl, Requests, Codes
<1> QED
  BY <1>1, <1>2, AdmitOwnership, CancelOwnership, AdmitControlOwnership,
     BeginShutdownOwnership DEF Dispatch

LEMMA OwnershipStep ==
  ASSUME TypeInv, TypeInv', RecordsInv, OwnershipInv, [Next]_vars PROVE OwnershipInv' /\ OnTime
PROOF
<1>1. CASE Next
  BY <1>1, DispatchOwnership, TurnOwnership, ReportOwnership, TickOwnership DEF Next
<1>2. CASE UNCHANGED vars
  <2>1. \A w \in Requests :
          /\ work'[w].phase = work[w].phase /\ work'[w].err = work[w].err
          /\ work'[w].task = work[w].task /\ work'[w].answer = work[w].answer
          /\ work'[w].outcome = work[w].outcome
    BY <1>2 DEF vars
  <2>2. SlotsDecided' /\ OwningInv' /\ WorkInv' /\ OnTime
    BY <1>2, <2>1, AlikeStep DEF vars
  <2>3. StageSlots'
    BY <1>2 DEF vars, OwnershipInv, StageSlots, Advancing
  <2> QED
    BY <2>2, <2>3 DEF OwnershipInv
<1> QED
  BY <1>1, <1>2

ControlInv == TypeInv /\ RecordsInv /\ OwnershipInv

LEMMA ControlCorrect == Spec => []ControlInv
PROOF
<1>1. Init => ControlInv
  BY InitType, InitRecords, InitOwnership DEF ControlInv
<1>2. ControlInv /\ [Next]_vars => ControlInv'
  BY TypeStep, RecordsStep, OwnershipStep DEF ControlInv
<1> QED
  BY <1>1, <1>2, PTL DEF Spec

\* The desktop has one owner, and one that was left in doubt is handed to nobody:
\* the session is unavailable from the step that gives the cleanup up.
THEOREM OneOwner == Spec => []OwnedOnce
PROOF
<1>1. ASSUME ControlInv PROVE OwnedOnce
  <2> DEFINE D == {w \in Requests : effect[w] = "dirty"}
  <2>1. FailClosed
    BY <1>1 DEF ControlInv, OwnershipInv, OwningInv, Owning, FailClosed
  <2>2. CASE ~unavailable
    <3>1. ASSUME NEW v \in D, NEW w \in D PROVE v = w
      BY <1>1, <2>2, RequestsAssumption
      DEF ControlInv, OwnershipInv, OwningInv, Owning, Requests
    <3>2. SUFFICES Cardinality(D) <= 1
      BY <2>1, Zenon DEF OwnedOnce, SingleOwner
    <3> HIDE DEF D
    <3>3. CASE D = {}
      BY <3>3, FS_EmptySet
    <3>4. CASE D # {}
      <4>1. PICK w \in D : D = {w}
        BY <3>1, <3>4
      <4>2. Cardinality({w}) = 1
        BY FS_Singleton
      <4> QED
        BY <4>1, <4>2
    <3> QED
      BY <3>3, <3>4
  <2> QED
    BY <2>1, <2>2 DEF OwnedOnce, SingleOwner
<1> QED
  BY <1>1, ControlCorrect, PTL

\* A caller that reads "not_started" in its answer may send the request again:
\* its task never acted on the desktop.
THEOREM NotStartedIsTrue == Spec => []NotStartedMeansNoEffect
PROOF
<1>1. ControlInv => NotStartedMeansNoEffect
  BY DEF ControlInv, OwnershipInv, WorkInv, WorkOf, Traced, NotStartedMeansNoEffect, Emitted
<1> QED
  BY <1>1, ControlCorrect, PTL

\* A stop that joined another is told of a success only if that one's task returned
\* it and was answered so.
THEOREM JoinerSuccess == Spec => []JoinerSuccessNeedsOwner
PROOF
<1>1. ControlInv => JoinerSuccessNeedsOwner
  BY DEF ControlInv, OwnershipInv, WorkInv, WorkOf, JoinerTrue, Successful, Succeeded,
         JoinerSuccessNeedsOwner, Requests
<1> QED
  BY <1>1, ControlCorrect, PTL

\* What a step on the desktop needs of its work and of the session.
Emits(w) ==
  /\ work[w].phase = "live" /\ work[w].err = "none" /\ ~Late(work[w])
  /\ mode = "run"
  /\ w \in Ordinary => ~stopping /\ ~unavailable /\ ~work[w].failed

LEMMA StepEmits ==
  ASSUME ControlInv, pc = "gate", ~Late(work[adv]) PROVE adv \in Requests /\ Emits(adv)
PROOF
<1>1. /\ adv \in Requests /\ work[adv].phase = "live" /\ work[adv].err = "none"
      /\ adv \in Ordinary => active = adv /\ ~work[adv].failed
      /\ adv \in Controls => lifecycle = adv
  BY AdvOwns DEF ControlInv, Advancing, RecordsInv, AtGate
<1>2. adv # None /\ (adv \in Ordinary \/ adv \in Controls)
  BY <1>1, RequestsAssumption DEF Requests
<1>3. SlotsDecided
  BY DEF ControlInv, OwnershipInv
<1>4. adv \in Ordinary => ~stopping /\ ~unavailable
  BY <1>1, <1>2, <1>3 DEF SlotsDecided, Undecided
<1>5. mode = "run"
  BY <1>1, <1>2, <1>3, <1>4 DEF SlotsDecided, Undecided
<1> QED
  BY <1>1, <1>4, <1>5 DEF Emits

LEMMA EmitsStep ==
  ASSUME ControlInv, [Next]_vars, NEW w \in Requests, ~Emitted(w), Emitted(w)' PROVE Emits(w)
PROOF
<1> USE DEF ControlInv
<1>1. effect' # effect
  BY DEF Emitted
<1>2. Next
  BY <1>1 DEF vars
<1>3. ~Dispatch
  BY <1>1 DEF Dispatch, Refuse, Admit, Cancel, RefuseControl, AdmitControl,
       BeginShutdown, world
<1>4. ~Tick /\ ~\E v \in Requests, ev \in Events, ok \in BOOLEAN : Report(v, ev, ok)
  BY <1>1 DEF Tick, Report, world
<1>5. Advance
  BY <1>1, <1>2, <1>3, <1>4
     DEF Next, Turn, Settle, Expire, Lifecycle, Release, Start, Unavailable,
                                Drain, Drained, world
<1>6. effect \in [Requests -> {"none", "intent", "dirty", "clean"}]
  BY DEF TypeInv, TypeOK
<1>7. \/ \E confirmed, raised \in BOOLEAN, lost \in Losses : AdvanceTroubled(confirmed, raised, lost)
      \/ \E raised \in BOOLEAN, lost \in Losses : StepEffects(raised, lost)
      \/ StepEmit
      \/ StepResult
  BY <1>1, <1>5 DEF Advance, AdvanceOver, Build, Resume, GateHold, GateLate, StepWait,
       StepRaise,
                    Return, world
<1>8. ASSUME NEW confirmed \in BOOLEAN, NEW raised \in BOOLEAN, NEW lost \in Losses,
             AdvanceTroubled(confirmed, raised, lost)
      PROVE  FALSE
  <2> DEFINE e == IF ~confirmed \/ work[adv].task = "none" THEN effect[adv]
                  ELSE IF effect[adv] = "dirty" THEN "clean"
                  ELSE IF effect[adv] = "intent" THEN "none" ELSE effect[adv]
  <2>1. effect' = [effect EXCEPT ![adv] = e]
    BY <1>8, Zenon DEF AdvanceTroubled
  <2> QED
    BY <1>6, <2>1 DEF Emitted
<1>9. ~StepResult
  BY <1>6 DEF StepResult, Emitted
<1>10. CASE \E raised \in BOOLEAN, lost \in Losses : StepEffects(raised, lost)
  <2>1. MayStep /\ \E e : effect' = [effect EXCEPT ![adv] = e]
    BY <1>1, <1>10 DEF StepEffects
  <2>2. w = adv
    BY <1>6, <2>1 DEF Emitted
  <2> QED
    BY <2>1, <2>2, StepEmits DEF MayStep
<1>11. CASE StepEmit
  <2>1. MayStep /\ w = adv
    BY <1>6, <1>11 DEF StepEmit, Emitted
  <2> QED
    BY <2>1, StepEmits DEF MayStep
<1> QED
  BY <1>7, <1>8, <1>9, <1>10, <1>11

\* Once a request is cancelled, timed out or refused by a stop, or its record is
\* lost, its task does no more to the desktop, and no success is answered late.
THEOREM DecisionsHeld == Spec => DecisionsHold
PROOF
<1>1. ControlInv /\ [Next]_vars =>
        [\A w \in Requests : ~Emitted(w) /\ Emitted(w)' =>
           /\ work[w].phase = "live" /\ work[w].err = "none" /\ ~Late(work[w])
           /\ mode = "run"
           /\ w \in Ordinary => ~stopping /\ ~unavailable /\ ~work[w].failed]_vars
  BY EmitsStep DEF Emits
<1>2. ControlInv /\ ControlInv' /\ [Next]_vars =>
        [\A w \in Requests : work[w].answer = "none" /\ work'[w].answer = "ok"
           => ~Late(work[w])]_vars
  BY OwnershipStep DEF ControlInv, OnTime
<1>3. Spec => EmitsOnlyUndecided
  BY <1>1, ControlCorrect, PTL DEF EmitsOnlyUndecided, Spec
<1>4. Spec => OnTimeSuccess
  BY <1>2, ControlCorrect, PTL DEF OnTimeSuccess, Spec
<1> QED
  BY <1>3, <1>4 DEF DecisionsHold
=============================================================================
