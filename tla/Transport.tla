----------------------------- MODULE Transport -----------------------------
(***************************************************************************)
(* The one-shot client of transport.py (exchange) and the worker's side of *)
(* its two sockets: Server, Connection and Admission.  A request is one    *)
(* client, one connection and at most one admission.                       *)
(*                                                                         *)
(* Time is not counted: wherever the code compares a deadline with the     *)
(* clock, either answer is possible, and where it waits for a deadline     *)
(* fairness makes it pass.  Only the accept pause, whose start is kept, is *)
(* a variable.  What the handler does with an admitted request is the      *)
(* worker's part (Worker.tla).                                             *)
(***************************************************************************)
EXTENDS Naturals, FiniteSets

CONSTANTS
  Ordinary,    \* requests to the ordinary socket
  Stops,       \* session.stop requests: the priority socket
  Crowds,      \* the sets of requests that may come together
  Connections, \* MAX_CONNECTIONS, of the ordinary socket
  Behind       \* the journal's queue is long throughout (Journal.paused)

ASSUME TransportAssumption ==
  /\ Ordinary \cap Stops = {}
  /\ Crowds \subseteq SUBSET (Ordinary \cup Stops)
  /\ Connections \in Nat \ {0}
  /\ Behind \in BOOLEAN

VARIABLES
  client,   \* what exchange() is doing for the request, and what it reports
  conn,     \* the connection as the server holds it, with its receive buffer
  adm,      \* its Admission, with the tickets of its terminal records
  control,  \* the request.cancel of an interrupted client is on its way
  pause,    \* Server.paused_since: off, on, or on for MAX_PAUSE already
  serving   \* the endpoint is open

transport == <<client, conn, adm, control, pause, serving>>

Requests == Ordinary \cup Stops
None     == "none"

\* The outcomes a response carries.
Outcome  == {"success", "not_started", "unknown"}

ClientType == [at : {"new", "sent", "cancelling", "done"},
               answer : Outcome \cup {None}]
ConnType   == [state : {None, "backlog", "open", "answered", "closed"},
               frame : BOOLEAN,                \* a whole frame is there to read
               out : Outcome \cup {None},      \* Connection.output
               held : BOOLEAN]                 \* held_since is set
AdmType    == [state : {None, "live", "finishing", "final"},
               cancel : BOOLEAN,               \* the handler was told to stop
               result : Outcome \cup {None},   \* decided, while records settle
               record : Outcome \cup {None},   \* outcome in the terminal record,
                                               \* while the reply may still leave
               tickets : {None, "queued", "done"}]

TransportInit ==
  /\ \E crowd \in Crowds :
       client = [c \in Requests |-> [at |-> IF c \in crowd THEN "new" ELSE "done", answer |-> None]]
  /\ conn = [c \in Requests |->
               [state |-> None, frame |-> FALSE, out |-> None, held |-> FALSE]]
  /\ adm = [c \in Requests |->
              [state |-> None, cancel |-> FALSE, result |-> None, record |-> None, tickets |-> None]]
  /\ control = {}
  /\ pause = "off"
  /\ serving = TRUE

(***************************************************************************)
(* The client: one connect, one send, one response, never a second try.    *)
(***************************************************************************)
Gone(c) == client[c].at = "done"
Done(answer) == [at |-> "done", answer |-> answer]
\* A bound: a client fails or is interrupted only when it is the only one.
Alone(c) == \A d \in Requests \ {c} : client[d] = Done(None)
ClientOnly == UNCHANGED <<conn, adm, control, pause, serving>>

\* Connect, and send the frame or a part of it.
Connect(c) ==
  /\ client[c].at = "new" /\ serving
  /\ client' = [client EXCEPT ![c].at = "sent"]
  /\ \E whole \in BOOLEAN :
       /\ whole \/ Alone(c)
       /\ conn' = [conn EXCEPT ![c].state = "backlog", ![c].frame = whole]
  /\ UNCHANGED <<adm, control, pause, serving>>

\* Discovery or connect failed; or send or receive did, or a bound passed.  From
\* the first send on the answer is unknown.
Fail(c) ==
  /\ Alone(c)
  /\ \/ client[c].at = "new"  /\ client' = [client EXCEPT ![c] = Done("not_started")]
     \/ client[c].at = "sent" /\ client' = [client EXCEPT ![c] = Done("unknown")]
  /\ ClientOnly

Receive(c) ==
  /\ client[c].at = "sent" /\ conn[c].state = "answered"
  /\ client' = [client EXCEPT ![c] = Done(conn[c].out)]
  /\ ClientOnly

\* KeyboardInterrupt after a send: the cancel goes out while the socket is open.
\* For a stop there is nothing in the scheduler to cancel, and it is as if it failed.
Interrupt(c) ==
  /\ client[c].at = "sent" /\ c \in Ordinary /\ Alone(c)
  /\ client' = [client EXCEPT ![c].at = "cancelling"]
  /\ ClientOnly

\* One attempt, no acknowledgement; then the request's own socket closes.
SendCancel(c) ==
  /\ client[c].at = "cancelling"
  /\ client' = [client EXCEPT ![c] = Done("unknown")]
  /\ control' \in {control, IF serving THEN control \cup {c} ELSE control}
  /\ UNCHANGED <<conn, adm, pause, serving>>

(***************************************************************************)
(* Values the server's handlers give to a connection and its admission.    *)
(***************************************************************************)
Open(c) == conn[c].state = "open"

\* A closed connection tells its admission; only ordinary work has a hook.
Cancelled(c, a) ==
  IF c \in Ordinary /\ a.state = "live" THEN [a EXCEPT !.cancel = TRUE] ELSE a

Unrecorded(a) == [a EXCEPT !.record = None]

CloseAll(S) ==
  /\ conn' = [c \in Requests |-> IF c \in S THEN [conn[c] EXCEPT !.state = "closed", !.out = None, !.held = FALSE]
                               ELSE conn[c]]
  /\ adm' = [c \in Requests |-> IF c \in S THEN Unrecorded(Cancelled(c, adm[c])) ELSE adm[c]]

\* The outcome that leaves: the deadline is read again once the reply is encoded,
\* and a payload that cannot be encoded becomes completion_unknown.
FinalOf(result, slips) == IF slips THEN "unknown" ELSE result

\* on_terminal is given what left, and queues the records the reply waits for.
Completed(c, result, slips) ==
  [adm[c] EXCEPT !.state = "final", !.cancel = FALSE, !.result = None, !.tickets = "queued",
                 !.record = IF Open(c) THEN FinalOf(result, slips) ELSE None]

\* The writes in Admission.holds are not all finished.
Writing(c) == adm[c].tickets = "queued"
Holding(c) == conn[c].out # None /\ conn[c].held

(***************************************************************************)
(* The server's service turn.  free says the owner is between callbacks.   *)
(***************************************************************************)
Waiting(S) == {c \in S : conn[c].state = "backlog"}
Room       == Connections - Cardinality({c \in Ordinary : Open(c)})

\* Above the cap an accepted socket is closed at once.  The pause matters, and is
\* kept, only while someone waits.
Accept(free) ==
  /\ free /\ Waiting(Ordinary) # {}
  /\ IF Behind /\ pause # "over"
     THEN pause' = "on" /\ UNCHANGED conn
     ELSE /\ pause' = "off"
          /\ \E S \in SUBSET Waiting(Ordinary) :
               /\ Cardinality(S) = Room \/ (S = Waiting(Ordinary) /\ Cardinality(S) < Room)
               /\ conn' = [c \in Requests |->
                             IF c \in S THEN [conn[c] EXCEPT !.state = "open"]
                             ELSE IF c \in Waiting(Ordinary) THEN [conn[c] EXCEPT !.state = "closed"]
                             ELSE conn[c]]
  /\ UNCHANGED <<client, adm, control, serving>>

\* Mutant: the accept that pauses takes the time anew.
PauseRestarted ==
  /\ pause = "on" /\ pause' = "on"
  /\ UNCHANGED <<client, conn, adm, control, serving>>

PauseElapses ==
  /\ pause = "on" /\ pause' = "over"
  /\ UNCHANGED <<client, conn, adm, control, serving>>

\* Never paused.
AcceptPriority(free) ==
  /\ free /\ Waiting(Stops) # {}
  /\ conn' = [c \in Requests |-> IF c \in Waiting(Stops) THEN [conn[c] EXCEPT !.state = "open"] ELSE conn[c]]
  /\ UNCHANGED <<client, adm, control, pause, serving>>

\* A request.cancel is accepted and served though its sender has closed, unless
\* its frame is late.
ServeCancel(c, free) ==
  /\ free /\ c \in control
  /\ control' = control \ {c}
  /\ adm' \in {adm, [adm EXCEPT ![c] = Cancelled(c, @)]}
  /\ UNCHANGED <<client, conn, pause, serving>>

\* The client has closed, and there is nothing to read but a whole frame.  An
\* ordinary frame is dropped undispatched.
ReadEof(c, free) ==
  /\ free /\ Open(c) /\ Gone(c) /\ conn[c].out = None
  /\ conn[c].frame => c \in Ordinary
  /\ CloseAll({c})
  /\ UNCHANGED <<client, control, pause, serving>>

\* A frame to dispatch, from a client that is there or that sent a control.
Readable(c) ==
  /\ Open(c) /\ conn[c].frame /\ conn[c].out = None
  /\ Gone(c) => c \in Stops

\* releasable(): the records of this reply are still being written.  A hold that
\* lasts HOLD_SECONDS ends with the connection.
Hold(c, free) ==
  /\ free /\ Open(c) /\ conn[c].out # None /\ Writing(c) /\ ~conn[c].held
  /\ conn' = [conn EXCEPT ![c].held = TRUE]
  /\ UNCHANGED <<client, adm, control, pause, serving>>

HoldOver(c, free) ==
  /\ free /\ Open(c) /\ Writing(c) /\ Holding(c)
  /\ CloseAll({c})
  /\ UNCHANGED <<client, control, pause, serving>>

\* releasable(): they are done; the frame's bound starts at the release.
Release(c, free) ==
  /\ free /\ Open(c) /\ Holding(c) /\ ~Writing(c)
  /\ conn' = [conn EXCEPT ![c].held = FALSE]
  /\ UNCHANGED <<client, adm, control, pause, serving>>

\* The last bytes leave, and the connection closes; to nobody, it only closes.
Transmit(c, free) ==
  /\ free /\ Open(c) /\ conn[c].out # None /\ ~Writing(c) /\ ~conn[c].held
  /\ conn' = [conn EXCEPT ![c].state = IF Gone(c) THEN "closed" ELSE "answered"]
  /\ adm' = [adm EXCEPT ![c] = Unrecorded(@)]
  /\ UNCHANGED <<client, control, pause, serving>>

\* expire(), and ready() for a reply whose time is over.  A held reply has its own
\* bound.
Expire(c, free) ==
  /\ free /\ Open(c) /\ ~Holding(c)
  /\ CloseAll({c})
  /\ UNCHANGED <<client, control, pause, serving>>

Clients == \E c \in Requests :
  Connect(c) \/ Fail(c) \/ Receive(c) \/ Interrupt(c) \/ SendCancel(c)
Service(free) ==
  \/ Accept(free) \/ PauseElapses \/ AcceptPriority(free)
  \/ \E c \in Requests :
       \/ ServeCancel(c, free) \/ ReadEof(c, free) \/ Hold(c, free) \/ HoldOver(c, free)
       \/ Release(c, free) \/ Transmit(c, free) \/ Expire(c, free)
============================================================================
