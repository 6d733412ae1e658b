---------------------------- MODULE MCScheduler ----------------------------
(* Small instances of Scheduler for TLC. *)
EXTENDS Scheduler, TLC

CONSTANTS a, b, s, t

NoRequests == {}
Plain == {a}
Gated == {b}
Both == {a, b}
Stop == {s}
Stops == {s, t}
GatedAndStop == {b, s}

\* Bound: one behaviour submits two of the requests.
Two == Cardinality({w \in Requests : work[w].phase # "new"}) <= 2

\* What the steps and the properties of the run read: that there is an error and not which
\* one; how many records are pending; of a request that is over, what may still be its
\* answer and whether it left its effect behind.  durable and outcome are other runs'.
Read(k) ==
  LET decided == k.err # "none" IN
  CASE k.phase = "terminal" -> <<k.phase, k.answer = "ok", k.task>>
    [] k.phase = "finishing" -> <<k.phase, decided, ~decided /\ k.failed, Cardinality(k.pending), k.task, k.deadline, k.settleBy>>
    [] OTHER -> <<k.phase, decided, ~decided /\ k.failed, Cardinality(k.pending), k.task, k.deadline, k.settleBy, k.cleanupBy>>
Left(w) == IF work[w].phase = "live" THEN effect[w] ELSE IF effect[w] = "dirty" THEN "dirty" ELSE "none"
Unread == <<[w \in Requests |-> <<Read(work[w]), Left(w)>>], slots, stopping, unavailable,
            mode, IF mode = "cancel" THEN shutBy ELSE 0, pc, adv, ret>>
=============================================================================
