----------------------------- MODULE DurableLog -----------------------------
(***************************************************************************)
(* What the journal of a session store promises the thread that submits    *)
(* writes to it (src/agent_desktop/writer.py): the writes take effect one  *)
(* at a time and in the order they were submitted, each is answered once   *)
(* and in that order, a success only for a write that is in the log, and   *)
(* once it is cut off no further write is taken up.                        *)
(***************************************************************************)
EXTENDS Naturals, Sequences

CONSTANT MaxSubmits   \* how many writes are submitted

Writes == 1 .. MaxSubmits

VARIABLES
  state,  \* write -> where it is
  log,    \* the writes that took effect, in the order they did
  cut     \* no write is taken up any more

logVars == <<state, log, cut>>

States == {"new", "waiting", "running", "written", "lost", "ok", "failed"}

LogInit ==
  /\ state = [w \in Writes |-> "new"]
  /\ log = <<>>
  /\ cut = FALSE

\* w is the oldest write in one of the states from.
Oldest(w, from) == state[w] \in from /\ \A v \in Writes : v < w => state[v] \notin from

Move(w, to) == state' = [state EXCEPT ![w] = to]

Accept(w) == Oldest(w, {"new"}) /\ Move(w, "waiting") /\ UNCHANGED <<log, cut>>

Refuse(w) == Oldest(w, {"new"}) /\ Move(w, "failed") /\ UNCHANGED <<log, cut>>

\* Without a thread the write is made before it is answered.
Immediate(w) ==
  /\ Oldest(w, {"new"})
  /\ \A v \in Writes : state[v] \in {"new", "ok", "failed"}
  /\ \/ Move(w, "ok") /\ log' = Append(log, w)
     \/ Move(w, "failed") /\ log' = Append(log, w)
  /\ UNCHANGED cut

\* One write at a time is taken up, the oldest, unless the log is cut.
TakeUp(w) ==
  /\ Oldest(w, {"waiting", "running"}) /\ state[w] = "waiting" /\ ~cut
  /\ Move(w, "running")
  /\ UNCHANGED <<log, cut>>

Skip(w) ==
  /\ Oldest(w, {"waiting", "running"}) /\ state[w] = "waiting" /\ cut
  /\ Move(w, "lost")
  /\ UNCHANGED <<log, cut>>

\* A write that fails may have taken effect.
Return(w) ==
  /\ state[w] = "running"
  /\ \/ Move(w, "written") /\ log' = Append(log, w)
     \/ Move(w, "lost") /\ log' \in {log, Append(log, w)}
  /\ UNCHANGED cut

Answer(w) ==
  /\ Oldest(w, {"waiting", "running", "written", "lost"})
  /\ \/ state[w] = "written" /\ Move(w, "ok")
     \/ state[w] = "lost" /\ Move(w, "failed")
  /\ UNCHANGED <<log, cut>>

Cut == cut' = TRUE /\ UNCHANGED <<state, log>>

LogNext ==
  \/ \E w \in Writes :
       Accept(w) \/ Refuse(w) \/ Immediate(w) \/ TakeUp(w) \/ Skip(w) \/ Return(w) \/ Answer(w)
  \/ Cut

LogSpec == LogInit /\ [][LogNext]_logVars
=============================================================================
