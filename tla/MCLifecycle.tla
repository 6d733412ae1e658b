----------------------------- MODULE MCLifecycle -----------------------------
(* Lifecycle, for TLC: managers and tokens are interchangeable. *)
EXTENDS Lifecycle, TLC

Symmetry == Permutations(Manager) \cup Permutations(Generation)

\* What a manager, the hook and the properties of the run still read.  Of an inspection:
\* what the decision to come tells apart.
Answered(k) ==
  <<Loaded(k.info), Settled(k.info), Active(k.info), k.info.unit = "failed", Deactivating(k.info),
    k.mode \in {"stop", "abort"} /\ ~k.submitted /\ ~k.failed /\ ~k.info.good>>

\* Of a manager: its place, and of the record it remembers what it will write or compare.
Remembers(k) ==
  CASE k.pc \in {"idle", "publish", "mark", "submit", "ack"} -> <<k.gen, k.data>>
    [] k.pc \in {"inspect", "stop"} -> <<k.gen, k.data.submission = "acknowledged", k.failed, k.submitted>>
    [] k.pc = "decide" -> <<k.gen, k.data.submission = "acknowledged", k.failed, k.submitted, Answered(k)>>
    [] k.pc \in {"ping", "ready", "write"} -> <<k.gen, k.data.submission, k.failed>>
    [] k.pc = "retire" -> <<k.gen, k.data.submission = "acknowledged", k.failed \/ k.data.state = "failed">>
    [] k.pc = "retiring" -> <<k.gen>>
    [] k.pc = "reserve" -> <<>>
    [] k.pc = "intent" -> <<k.gen, k.data, k.failed>>

\* Of a generation that is on record as failed: no cause of it any more.
Causes(g) ==
  IF meta[g].state = "failed" THEN <<result[g] = "success">>
  ELSE <<intent[g], failure[g], IF unit[g] \in {"failed", "gone"} THEN result[g] = "success" ELSE result[g]>>

Unread == <<[m \in Manager |-> <<mgr[m].pc, mgr[m].mode, Remembers(mgr[m])>>],
            [g \in Generation |-> Causes(g)],
            name, guard, current, meta, files, unit, populated, calls, told, overtaken>>
=============================================================================
