-------------------------------- MODULE Mcp --------------------------------
(***************************************************************************)
(* The MCP server: the thread that reads the client's messages, a thread   *)
(* and a process for every tool call, the thread that writes the answers,  *)
(* and the main thread that ends it all when the client is gone.           *)
(*                                                                         *)
(* A message is its id and what it asks for; JSON, schemas, versions and   *)
(* images are left out.  The clocks are the steps that may be taken any    *)
(* time: a call's deadline, the grace before its process is killed, the    *)
(* bounds of the shutdown.                                                 *)
(***************************************************************************)
EXTENDS Naturals, Sequences, FiniteSets

CONSTANTS
  Ids,       \* the ids the client gives its requests
  Slots,     \* MAX_CONCURRENT
  MaxCalls,  \* MAX_CALLS
  Outbound,  \* MAX_OUTBOUND, in answers
  Unread     \* requests with one id the client has not had answered

ASSUME McpAssumption ==
  /\ IsFiniteSet(Ids)
  /\ Slots \in Nat \ {0} /\ MaxCalls \in Nat \ {0} /\ Outbound \in Nat \ {0} /\ Unread \in Nat

VARIABLES
  call,      \* Server.calls, with each call's thread and process
  permits,   \* Server.slots
  outbox,    \* Outbox
  gone,      \* Server.gone
  phase,     \* of the main thread
  closing,   \* the calls shutdown has still to look at
  asked      \* ghost: answers the client may expect, by id

vars == <<call, permits, outbox, gone, phase, closing, asked>>

\* A process that was not killed and has not ended.
Unended == {"starting", "running", "cancelling", "aborted"}
Children == Unended \cup {"none", "killed", "ended"}
CallType == [state : {"idle", "waiting", "holding", "working", "replying", "answering", "finishing"},
             stop : BOOLEAN,          \* session.stop
             cancelled : BOOLEAN, interrupted : BOOLEAN, expired : BOOLEAN,
             child : Children,
             handler : {"default", "once", "ignoring"}]   \* of SIGINT, in the process
OutboxType == [queue : Seq(Ids), writing : BOOLEAN, broken : BOOLEAN]

Holders == {i \in Ids : call[i].state \in {"holding", "working"}}

\* Every variable holds a value of its kind, and a slot is held exactly by the
\* calls that run (Call.run's finally).
TypeOK ==
  /\ call \in [Ids -> CallType]
  /\ permits = Slots - Cardinality(Holders)
  /\ outbox \in OutboxType /\ Len(outbox.queue) <= Outbound
  /\ gone \in BOOLEAN
  /\ phase \in {"serving", "stopping", "joining", "flushing", "exited"}
  /\ closing \subseteq Ids
  /\ asked \in [Ids -> 0..Unread]

NoCall == [state |-> "idle", stop |-> FALSE, cancelled |-> FALSE, interrupted |-> FALSE,
           expired |-> FALSE, child |-> "none", handler |-> "default"]

EmptyOutbox == [queue |-> <<>>, writing |-> FALSE, broken |-> FALSE]

Init ==
  /\ call = [i \in Ids |-> NoCall]
  /\ permits = Slots
  /\ outbox = EmptyOutbox
  /\ gone = FALSE /\ phase = "serving" /\ closing = {}
  /\ asked = [i \in Ids |-> 0]

Alive == phase # "exited"
InCalls(i) == call[i].state # "idle"

(***************************************************************************)
(* Outbox.                                                                 *)
(***************************************************************************)
\* fail: the client counts as gone, and what it was to read is dropped.
Failed(o) == [o EXCEPT !.queue = <<>>, !.broken = TRUE]

Queued(o, i) ==
  IF o.broken THEN o
  ELSE IF Len(o.queue) = Outbound THEN Failed(o)
  ELSE [o EXCEPT !.queue = Append(@, i)]

Put(i) ==
  /\ outbox' = Queued(outbox, i)
  /\ gone' = (gone \/ outbox'.broken)

WriterTakes ==
  /\ Alive /\ ~outbox.writing /\ ~outbox.broken /\ outbox.queue # <<>>
  /\ outbox' = [outbox EXCEPT !.writing = TRUE]
  /\ UNCHANGED <<call, permits, gone, phase, closing, asked>>

\* The client reads the answer.
WriterWrites ==
  /\ Alive /\ outbox.writing
  /\ IF outbox.queue # <<>>
     THEN /\ asked' = [asked EXCEPT ![Head(outbox.queue)] = @ - 1]
          /\ outbox' = [outbox EXCEPT !.writing = FALSE, !.queue = Tail(@)]
     ELSE outbox' = [outbox EXCEPT !.writing = FALSE] /\ UNCHANGED asked
  /\ UNCHANGED <<call, permits, gone, phase, closing>>

\* The write fails, or has been blocked for STALL_SECONDS (check).
WriterFails ==
  /\ Alive /\ outbox.writing /\ ~outbox.broken
  /\ outbox' = Failed(outbox) /\ gone' = TRUE
  /\ UNCHANGED <<call, permits, phase, closing, asked>>

(***************************************************************************)
(* The process of a call (mcp_call).                                       *)
(***************************************************************************)
\* SIGINT.  Before its handler is there the process ends without a request.  Then
\* KeyboardInterrupt is raised where it is: the request is cancelled, or, a second
\* time, the cancelling itself is aborted; but interrupt_once has put a handler in
\* place that ignores it.
Raised(child) ==
  CASE child = "running"    -> "cancelling"
    [] child = "cancelling" -> "aborted"
    [] OTHER                -> child

Signalled(c) ==
  CASE c.handler = "default"  -> [c EXCEPT !.child = IF @ \in Unended THEN "ended" ELSE @]
    [] c.handler = "once"     -> [c EXCEPT !.handler = "ignoring", !.child = Raised(@)]
    [] c.handler = "ignoring" -> c

ChildStarts(i) ==
  /\ call[i].child = "starting"
  /\ call' = [call EXCEPT ![i].child = "running", ![i].handler = "once"]
  /\ UNCHANGED <<permits, outbox, gone, phase, closing, asked>>

ChildEnds(i) ==
  /\ call[i].child \in Unended \ {"starting"}
  /\ call' = [call EXCEPT ![i].child = "ended"]
  /\ UNCHANGED <<permits, outbox, gone, phase, closing, asked>>

(***************************************************************************)
(* Call.                                                                   *)
(***************************************************************************)
\* interrupt: one SIGINT, and only while the call's thread has not reaped.
Interrupt(c) ==
  IF c.state = "working" /\ ~c.interrupted
  THEN Signalled([c EXCEPT !.interrupted = TRUE])
  ELSE c

\* cancel; past the last look at it the mark has no effect, and is left out.
Cancel(c) ==
  IF c.state \in {"answering", "finishing"} THEN c ELSE Interrupt([c EXCEPT !.cancelled = TRUE])

Thread(i, s) == Alive /\ call[i].state = s
Moves(i, s)  == call' = [call EXCEPT ![i].state = s]
Finishes(i)  == call' = [call EXCEPT ![i] = [NoCall EXCEPT !.state = "finishing"]]

Acquire(i) ==
  /\ Thread(i, "waiting") /\ permits > 0
  /\ permits' = permits - 1
  /\ Moves(i, "holding")
  /\ UNCHANGED <<outbox, gone, phase, closing, asked>>

\* Cancelled before it started: no process, no answer.
GivesUp(i) ==
  /\ \/ Thread(i, "waiting") /\ permits' = permits
     \/ Thread(i, "holding") /\ permits' = permits + 1
  /\ call[i].cancelled
  /\ Finishes(i)
  /\ asked' = [asked EXCEPT ![i] = @ - 1]
  /\ UNCHANGED <<outbox, gone, phase, closing>>

\* Mutant: the process is started without another look at the cancellation.
ExecuteUnchecked(i) ==
  /\ Thread(i, "holding")
  /\ \/ /\ call' = [call EXCEPT ![i].state = "working", ![i].child = "starting"]
        /\ UNCHANGED permits
     \/ Moves(i, "replying") /\ permits' = permits + 1
  /\ UNCHANGED <<outbox, gone, phase, closing, asked>>

\* execute: the process is started, or cannot be.
Execute(i) ==
  /\ Thread(i, "holding") /\ ~call[i].cancelled
  /\ \/ /\ call' = [call EXCEPT ![i].state = "working", ![i].child = "starting"]
        /\ UNCHANGED permits
     \/ Moves(i, "replying") /\ permits' = permits + 1
  /\ UNCHANGED <<outbox, gone, phase, closing, asked>>

\* Mutant: the timeout is answered as soon as it is noticed.
ExpiresAnswering(i) ==
  /\ Thread(i, "working") /\ ~call[i].cancelled /\ ~call[i].expired
  /\ call[i].child \in Unended
  /\ call' = [call EXCEPT ![i] = Interrupt([@ EXCEPT !.expired = TRUE])]
  /\ Put(i)
  /\ UNCHANGED <<permits, phase, closing, asked>>

\* The deadline of the call itself.
Expires(i) ==
  /\ Thread(i, "working") /\ ~call[i].cancelled /\ ~call[i].expired
  /\ call[i].child \in Unended
  /\ call' = [call EXCEPT ![i] = Interrupt([@ EXCEPT !.expired = TRUE])]
  /\ UNCHANGED <<permits, outbox, gone, phase, closing, asked>>

\* Mutant: only a call out of time is killed.
KillsExpired(i) ==
  /\ Thread(i, "working") /\ call[i].expired
  /\ call[i].child \in Unended
  /\ call' = [call EXCEPT ![i].child = "killed"]
  /\ UNCHANGED <<permits, outbox, gone, phase, closing, asked>>

\* The grace after a cancellation or the deadline is over.
Kills(i) ==
  /\ Thread(i, "working") /\ (call[i].cancelled \/ call[i].expired)
  /\ call[i].child \in Unended
  /\ call' = [call EXCEPT ![i].child = "killed"]
  /\ UNCHANGED <<permits, outbox, gone, phase, closing, asked>>

\* The process is reaped; the slot is given back.
Reaped(i) ==
  /\ call' = [call EXCEPT ![i] = [NoCall EXCEPT !.state = "replying", !.cancelled = call[i].cancelled]]
  /\ permits' = permits + 1
  /\ UNCHANGED <<outbox, gone, phase, closing, asked>>

Reaps(i) == Thread(i, "working") /\ call[i].child \in {"ended", "killed"} /\ Reaped(i)

\* run, except: an internal error while the process works.  It is killed at once.
Breaks(i) == Thread(i, "working") /\ call[i].child \in Unended /\ Reaped(i)

\* Whether the call is cancelled is looked at once, before the answer is built.
Answers(i) ==
  /\ Thread(i, "replying")
  /\ IF call[i].cancelled
     THEN Finishes(i) /\ asked' = [asked EXCEPT ![i] = @ - 1]
     ELSE Moves(i, "answering") /\ UNCHANGED asked
  /\ UNCHANGED <<permits, outbox, gone, phase, closing>>

Replies(i) ==
  /\ Thread(i, "answering")
  /\ Put(i) /\ Finishes(i)
  /\ UNCHANGED <<permits, phase, closing, asked>>

Finished(i) ==
  /\ Thread(i, "finishing")
  /\ call' = [call EXCEPT ![i] = NoCall]
  /\ UNCHANGED <<permits, outbox, gone, phase, closing, asked>>

(***************************************************************************)
(* Server: the reader's messages.                                          *)
(***************************************************************************)
Reading == Alive /\ ~gone
InFlight == Cardinality({i \in Ids : InCalls(i)})

\* A request that is answered at once: another method, bad arguments, an id in
\* progress, too many calls.
AnswersAtOnce(i) ==
  /\ Put(i)
  /\ asked' = [asked EXCEPT ![i] = @ + 1]
  /\ UNCHANGED <<call, permits, phase, closing>>

HandleRequest(i) ==
  /\ Reading /\ asked[i] < Unread
  /\ \/ AnswersAtOnce(i)
     \/ /\ ~InCalls(i) /\ phase = "serving" /\ InFlight < MaxCalls
        /\ \E stop \in BOOLEAN :
             call' = [call EXCEPT ![i] = [NoCall EXCEPT !.state = "waiting", !.stop = stop]]
        /\ asked' = [asked EXCEPT ![i] = @ + 1]
        /\ UNCHANGED <<permits, outbox, gone, phase, closing>>

\* notifications/cancelled; once the call's answer is on its way it is ignored.
HandleCancel(i) ==
  /\ Reading /\ InCalls(i)
  /\ call' = [call EXCEPT ![i] = Cancel(@)]
  /\ UNCHANGED <<permits, outbox, gone, phase, closing, asked>>

\* stdin ends.
HandleEnd ==
  /\ Reading
  /\ gone' = TRUE
  /\ UNCHANGED <<call, permits, outbox, phase, closing, asked>>

(***************************************************************************)
(* Server: the main thread.                                                *)
(***************************************************************************)
\* The client is gone, or a signal came: no call is accepted from here on.
Shutdown ==
  /\ phase = "serving"
  /\ phase' = "stopping"
  /\ closing' = {i \in Ids : InCalls(i)}
  /\ UNCHANGED <<call, permits, outbox, gone, asked>>

Spared(c) == c.stop

\* A call that has ended in the meantime is none the worse for it.
ShutdownCancels(i) ==
  /\ phase = "stopping" /\ i \in closing
  /\ closing' = closing \ {i}
  /\ call' = [call EXCEPT ![i] = IF ~InCalls(i) \/ Spared(@) THEN @ ELSE Cancel(@)]
  /\ UNCHANGED <<permits, outbox, gone, phase, asked>>

\* Every call's thread has ended, or SHUTDOWN_SECONDS are over.
Joined == \A i \in Ids : ~InCalls(i)
Joins ==
  /\ phase = "stopping" /\ closing = {}
  /\ phase' = IF Joined THEN "flushing" ELSE "joining"
  /\ UNCHANGED <<call, permits, outbox, gone, closing, asked>>
JoinEnds ==
  /\ phase = "joining"
  /\ phase' = "flushing"
  /\ UNCHANGED <<call, permits, outbox, gone, closing, asked>>

\* Mutant: a process does not learn that the server died.
DeadSilently(c) == [NoCall EXCEPT !.child = c.child, !.handler = c.handler]

\* The process ends: its threads end with it, and the processes of the calls
\* that are left get SIGINT from the kernel.
Dead(c) == Signalled([NoCall EXCEPT !.child = c.child, !.handler = c.handler])
Dies ==
  /\ Alive
  /\ phase' = "exited"
  /\ call' = [i \in Ids |-> Dead(call[i])]
  /\ permits' = Slots /\ outbox' = EmptyOutbox /\ closing' = {}
  /\ asked' = [i \in Ids |-> 0]
  /\ UNCHANGED gone

\* The kernel may send it again as the process is handed on from thread to thread.
DiesAgain(i) ==
  /\ ~Alive /\ call[i].child \in Unended
  /\ call' = [call EXCEPT ![i] = Dead(@)]
  /\ UNCHANGED <<permits, outbox, gone, phase, closing, asked>>

\* flush: everything is written, the client is gone, or FLUSH_SECONDS are over.
Exits == phase = "flushing" /\ Dies

(***************************************************************************)
(* Specification.                                                          *)
(***************************************************************************)
CallSteps(i) ==
  \/ Acquire(i) \/ GivesUp(i) \/ Execute(i) \/ Expires(i) \/ Kills(i) \/ Reaps(i) \/ Breaks(i)
  \/ Answers(i) \/ Replies(i) \/ Finished(i)

Next ==
  \/ WriterTakes \/ WriterWrites \/ WriterFails
  \/ HandleEnd \/ Shutdown \/ Joins \/ JoinEnds \/ Exits \/ Dies
  \/ \E i \in Ids : \/ ChildStarts(i) \/ ChildEnds(i) \/ DiesAgain(i)
                    \/ CallSteps(i)
                    \/ HandleRequest(i) \/ HandleCancel(i) \/ ShutdownCancels(i)

Spec == Init /\ [][Next]_vars

\* Every thread runs, deadlines pass, a process starts but need not end unless it
\* is killed, and the main thread notices that the client is gone.  A slot that is
\* free again and again goes in the end to every call that asks for it, each .05 s.
FairSpec ==
  /\ Spec
  /\ \A i \in Ids :
       /\ WF_vars(ChildStarts(i))
       /\ SF_vars(Acquire(i))
       /\ WF_vars(GivesUp(i)) /\ WF_vars(Execute(i)) /\ WF_vars(Expires(i)) /\ WF_vars(Kills(i))
       /\ WF_vars(Reaps(i)) /\ WF_vars(Answers(i)) /\ WF_vars(Replies(i)) /\ WF_vars(Finished(i))
       /\ WF_vars(ShutdownCancels(i))
  /\ WF_vars(gone /\ Shutdown) /\ WF_vars(Joins) /\ WF_vars(JoinEnds) /\ WF_vars(Exits)

(***************************************************************************)
(* Properties.                                                             *)
(***************************************************************************)
InQueue(i) == Cardinality({k \in 1..Len(outbox.queue) : outbox.queue[k] = i})
Owed(i)    == IF InCalls(i) /\ call[i].state # "finishing" THEN 1 ELSE 0

\* While the client reads, every request it may expect an answer to has exactly
\* one: in the outbox, or with the call in progress.  Cancellations, deadlines,
\* refused and repeated ids lose none and add none (Call.run, handle_message).
OneAnswer ==
  Alive /\ ~outbox.broken => \A i \in Ids : asked[i] = InQueue(i) + Owed(i)

\* The same, and every slot taken is one a call in progress holds.
CallsCounted == TypeOK /\ OneAnswer

\* A process whose grace is over was told to cancel what it did and was doing so: a
\* cancellation that comes before the process is there is seen before it is started,
\* and no other interrupt, of the client, the deadline, the shutdown or the kernel, has
\* cut the cancelling short (Call.execute and interrupt, mcp_call.interrupt_once).
CancelledBeforeKilled ==
  [][\A i \in Ids :
       /\ call[i].child # "killed" /\ call'[i].child = "killed" => call[i].child = "cancelling"
       /\ call[i].child = "cancelling" => call'[i].child # "aborted"]_vars

\* No call is held for ever, and no slot: a process that does not end is
\* interrupted, then killed.
CallsEnd == \A i \in Ids : InCalls(i) ~> (~InCalls(i) \/ ~Alive)

\* When the client is gone every process ends or cancels what it does, a
\* session.stop that outlasts the shutdown too.
NothingLeftRunning ==
  gone ~> \A i \in Ids : call[i].child \notin {"starting", "running"}
=============================================================================
