------------------------------ MODULE Journal ------------------------------
(***************************************************************************)
(* The journal of a session store (src/agent_desktop/writer.py): the owner *)
(* submits Store calls and gets tickets, one writer thread runs the calls  *)
(* from a FIFO, and the owner collects what is finished; with the end of   *)
(* worker.run, which closes the journal and then the store.                *)
(*                                                                         *)
(* The owner's and the writer's steps interleave.  A ticket is its         *)
(* sequence number.  The store may keep a call for ever, and a call that   *)
(* raises may have taken effect.                                           *)
(***************************************************************************)
EXTENDS Integers, FiniteSets, SequencesExt

CONSTANTS
  MaxSubmits,   \* bound: submissions of a run
  MaxOps,       \* MAX_OPS
  MaxBytes,     \* MAX_BYTES
  Sizes,        \* estimated sizes of the calls
  Modes         \* whether a writer thread runs the calls (threaded)

ASSUME JournalAssumption ==
  /\ MaxSubmits \in Nat /\ MaxOps \in Nat /\ MaxBytes \in Nat
  /\ Sizes \subseteq Nat
  /\ Modes \subseteq BOOLEAN

VARIABLES
  tickets,      \* the tickets, by sequence number: owner's fields, size and argument
  outstanding, reserved,
  requests,     \* the FIFO: sequence numbers, and Stop
  completions,  \* finished calls, not yet drained
  valued,       \* tickets whose call returned a value (_value)
  applied,      \* calls that took effect in the store, in that order
  writer,       \* the writer thread's place in _run
  hand,         \* the call it took from the FIFO, 0 for none
  owner,        \* the owner's place: serving, draining or closing
  cutoff,       \* "none", or the bound of close(): "ahead" or "past"
  store,        \* the Store's directory fd
  overrun       \* history: calls the writer began after the bound

vars == <<tickets, outstanding, reserved, requests, completions, valued, applied,
          writer, hand, owner, cutoff, store, overrun>>

ownerVars == <<outstanding, reserved, owner, cutoff, store>>
writerVars == <<valued, applied, writer, hand, overrun>>

Stop == 0
Errors == {"queue_full", "closed", "copy", "dependency", "write"}

Seqs == 1 .. Len(tickets)

TypeOK ==
  /\ tickets \in Seq([size : Sizes, arg : Nat, done : BOOLEAN, error : Errors \cup {"none"}])
  /\ Len(tickets) <= MaxSubmits
  /\ outstanding \in 0 .. MaxOps /\ reserved \in 0 .. MaxBytes
  /\ requests \in Seq(Nat)
  /\ completions \in Seq([seq : Nat, error : Errors \cup {"none"}])
  /\ valued \subseteq Seqs
  /\ applied \in Seq(Nat)
  /\ writer \in {"get", "check", "begin", "inside", "exited", "absent"}
  /\ hand \in 0 .. Len(tickets)
  /\ owner \in {"serve", "drain", "join", "lastDrain", "alive", "closed"}
  /\ cutoff \in {"none", "ahead", "past"}
  /\ store \in {"open", "closed"}
  /\ overrun \in Nat

Init ==
  /\ tickets = <<>> /\ outstanding = 0 /\ reserved = 0
  /\ requests = <<>> /\ completions = <<>>
  /\ valued = {} /\ applied = <<>>
  /\ writer \in {IF threaded THEN "get" ELSE "absent" : threaded \in Modes}
  /\ hand = 0 /\ owner = "serve" /\ cutoff = "none" /\ store = "open" /\ overrun = 0

-----------------------------------------------------------------------------
(* The owner.                                                              *)

Threaded == writer # "absent"

Closed == owner \notin {"serve", "drain"}

Ticket(size, arg, done, error) == [size |-> size, arg |-> arg, done |-> done, error |-> error]

Refusal(size) ==
  IF Closed THEN "closed"
  ELSE IF outstanding >= MaxOps \/ reserved + size > MaxBytes THEN "queue_full"
  ELSE "none"

\* Mutant: a ticket whose call raised counts as a value.
ResolvesAny(arg) == TRUE

\* _resolve: an argument that is an earlier ticket stands for its value.  A ticket
\* that was refused or cut off has none, and a Store call given none raises.
Resolves(arg) == arg = 0 \/ arg \in valued

MaySubmit == owner \in {"serve", "closed"} /\ Len(tickets) < MaxSubmits

\* submit, with a writer thread.
SubmitRefused(size, arg) ==
  /\ Threaded /\ MaySubmit
  /\ Refusal(size) # "none"
  /\ tickets' = Append(tickets, Ticket(size, arg, TRUE, Refusal(size)))
  /\ UNCHANGED <<requests, completions, ownerVars, writerVars>>

\* The arguments cannot be copied.
SubmitUncopied(size, arg) ==
  /\ Threaded /\ MaySubmit
  /\ Refusal(size) = "none"
  /\ tickets' = Append(tickets, Ticket(size, arg, TRUE, "copy"))
  /\ UNCHANGED <<requests, completions, ownerVars, writerVars>>

SubmitQueued(size, arg) ==
  /\ Threaded /\ MaySubmit
  /\ Refusal(size) = "none"
  /\ tickets' = Append(tickets, Ticket(size, arg, FALSE, "none"))
  /\ outstanding' = outstanding + 1
  /\ reserved' = reserved + size
  /\ requests' = Append(requests, Len(tickets) + 1)
  /\ UNCHANGED <<completions, owner, cutoff, store, writerVars>>

\* submit, inline: the call runs before submit returns.
SubmitInline(size, arg, error, effect) ==
  /\ ~Threaded /\ MaySubmit /\ store = "open"
  /\ LET s == Len(tickets) + 1
         verdict == IF ~Resolves(arg) THEN "dependency" ELSE error
     IN /\ tickets' = Append(tickets, Ticket(size, arg, TRUE, verdict))
        /\ valued' = IF verdict = "none" THEN valued \cup {s} ELSE valued
        /\ applied' = IF verdict = "none" \/ (verdict = "write" /\ effect)
                      THEN Append(applied, s) ELSE applied
  /\ UNCHANGED <<requests, completions, ownerVars, writer, hand, overrun>>

\* drain: hand finished calls back, one at a time, while there are any.
DrainBegin ==
  /\ owner = "serve" /\ completions # <<>> /\ owner' = "drain"
  /\ UNCHANGED <<tickets, outstanding, reserved, requests, completions, cutoff, store, writerVars>>

\* Mutant: the bytes of a failed call stay reserved.
ReleasedWritten(ticket) == IF Head(completions).error = "none" THEN ticket.size ELSE 0

Released(ticket) == ticket.size

\* Mutant: the newest finished call first (pop for popleft).
DrainNewest ==
  /\ owner \in {"drain", "lastDrain"} /\ completions # <<>>
  /\ LET c == Last(completions)
     IN /\ tickets' = [tickets EXCEPT ![c.seq].done = TRUE, ![c.seq].error = c.error]
        /\ reserved' = reserved - Released(tickets[c.seq])
  /\ outstanding' = outstanding - 1
  /\ completions' = Front(completions)
  /\ UNCHANGED <<requests, owner, cutoff, store, writerVars>>

DrainOne ==
  /\ owner \in {"drain", "lastDrain"} /\ completions # <<>>
  /\ LET c == Head(completions)
     IN /\ tickets' = [tickets EXCEPT ![c.seq].done = TRUE, ![c.seq].error = c.error]
        /\ reserved' = reserved - Released(tickets[c.seq])
  /\ outstanding' = outstanding - 1
  /\ completions' = Tail(completions)
  /\ UNCHANGED <<requests, owner, cutoff, store, writerVars>>

DrainEnd ==
  /\ owner \in {"drain", "lastDrain"} /\ completions = <<>>
  /\ owner' = IF owner = "drain" THEN "serve" ELSE "alive"
  /\ UNCHANGED <<tickets, outstanding, reserved, requests, completions, cutoff, store, writerVars>>

\* close: refuse from now on, set the bound (which may have passed), queue the stop.
CloseBegin(bound) ==
  /\ owner = "serve"
  /\ IF Threaded
     THEN owner' = "join" /\ cutoff' = bound /\ requests' = Append(requests, Stop)
     ELSE owner' = "alive" /\ UNCHANGED <<cutoff, requests>>
  /\ UNCHANGED <<tickets, outstanding, reserved, completions, store, writerVars>>

\* The join ends with the thread, or at the bound.
Joined ==
  /\ owner = "join" /\ (writer = "exited" \/ cutoff = "past")
  /\ owner' = "lastDrain"
  /\ UNCHANGED <<tickets, outstanding, reserved, requests, completions, cutoff, store, writerVars>>

\* close returns whether the thread has exited: only then is the fd closed.
FdFree == writer \in {"exited", "absent"}

CloseEnd ==
  /\ owner = "alive" /\ owner' = "closed"
  /\ store' = IF FdFree THEN "closed" ELSE "open"
  /\ UNCHANGED <<tickets, outstanding, reserved, requests, completions, cutoff, writerVars>>

BoundPasses ==
  /\ cutoff = "ahead" /\ cutoff' = "past"
  /\ UNCHANGED <<tickets, outstanding, reserved, requests, completions, owner, store, writerVars>>

-----------------------------------------------------------------------------
(* The writer thread.                                                      *)

Take ==
  /\ writer = "get" /\ requests # <<>>
  /\ requests' = Tail(requests)
  /\ IF Head(requests) = Stop
     THEN writer' = "exited" /\ UNCHANGED hand
     ELSE writer' = "check" /\ hand' = Head(requests)
  /\ UNCHANGED <<tickets, completions, valued, applied, overrun, ownerVars>>

Completed(error) == completions' = Append(completions, [seq |-> hand, error |-> error])

CutOff == cutoff = "past"

\* The bound is read before a call; time may pass before the call is made.
CheckCutoff ==
  /\ writer = "check"
  /\ IF CutOff
     THEN writer' = "get" /\ hand' = 0 /\ Completed("closed")
     ELSE writer' = "begin" /\ UNCHANGED <<hand, completions>>
  /\ UNCHANGED <<tickets, requests, valued, applied, overrun, ownerVars>>

\* Mutant: a call that cannot be made is dropped.
BeginDropped ==
  /\ writer = "begin"
  /\ IF Resolves(tickets[hand].arg)
     THEN /\ writer' = "inside"
          /\ overrun' = overrun + (IF cutoff = "past" THEN 1 ELSE 0)
          /\ UNCHANGED hand
     ELSE writer' = "get" /\ hand' = 0 /\ UNCHANGED overrun
  /\ UNCHANGED <<tickets, requests, completions, valued, applied, ownerVars>>

Begin ==
  /\ writer = "begin"
  /\ IF Resolves(tickets[hand].arg)
     THEN /\ writer' = "inside"
          /\ overrun' = overrun + (IF cutoff = "past" THEN 1 ELSE 0)
          /\ UNCHANGED <<hand, completions>>
     ELSE writer' = "get" /\ hand' = 0 /\ Completed("dependency") /\ UNCHANGED overrun
  /\ UNCHANGED <<tickets, requests, valued, applied, ownerVars>>

\* The Store call returns, or raises before or after its effect.
CallReturns(error, effect) ==
  /\ writer = "inside"
  /\ valued' = IF error = "none" THEN valued \cup {hand} ELSE valued
  /\ applied' = IF error = "none" \/ effect THEN Append(applied, hand) ELSE applied
  /\ writer' = "get" /\ hand' = 0 /\ Completed(error)
  /\ UNCHANGED <<tickets, requests, overrun, ownerVars>>

-----------------------------------------------------------------------------
Args == 0 .. Len(tickets)

Submit ==
  \E size \in Sizes, arg \in Args :
    \/ SubmitRefused(size, arg)
    \/ SubmitUncopied(size, arg)
    \/ SubmitQueued(size, arg)
    \/ \E error \in {"none", "write"}, effect \in BOOLEAN : SubmitInline(size, arg, error, effect)

Owner == DrainBegin \/ DrainOne \/ DrainEnd \/ Joined \/ CloseEnd

Returns == \E error \in {"none", "write"}, effect \in BOOLEAN : CallReturns(error, effect)

Writer == Take \/ CheckCutoff \/ Begin

Next ==
  \/ Submit
  \/ Owner
  \/ \E bound \in {"ahead", "past"} : CloseBegin(bound)
  \/ BoundPasses
  \/ Writer
  \/ Returns

Spec == Init /\ [][Next]_vars

\* Threads are scheduled and time passes; the store may keep a call for ever.
FairSpec == Spec /\ WF_vars(Owner) /\ WF_vars(Writer) /\ WF_vars(BoundPasses)

\* What only a healthy store does: each call returns.
StoreReturns == WF_vars(Returns)

-----------------------------------------------------------------------------
(* Safety.                                                                 *)

Queued == ToSet(requests) \ {Stop}
Held == IF hand = 0 THEN {} ELSE {hand}
Finished == {completions[i].seq : i \in DOMAIN completions}
Undrained == {s \in Seqs : ~tickets[s].done}

\* The bytes of some calls, each byte the call's own.
Bytes(calls) == UNION {{s} \X (1 .. tickets[s].size) : s \in calls}

\* The owner's counters are what is in the FIFO, in the writer's hand and waiting to
\* be drained, each once: a slot or a byte that leaks would refuse every later record
\* of the session, and one given back early would let the queue grow past its bound.
Accounted ==
  /\ Undrained = Queued \cup Held \cup Finished
  /\ outstanding = Cardinality(Undrained)
  /\ reserved = Cardinality(Bytes(Undrained))

\* A call that used an earlier result found that result: it never runs on a token or a
\* path whose own write failed, was refused or was cut off.
ArgumentsWritten == \A s \in ToSet(applied) \ {Stop} : tickets[s].arg = 0 \/ tickets[s].arg \in valued

\* The store's directory fd is closed only when no call is or can ever be inside it.
StoreClosedUnused == store = "closed" => writer \in {"exited", "absent"}

\* After the bound of close() at most the one call that was already past its check
\* begins, however many are queued behind a stuck one.
OneOverrunAtMost == overrun <= 1

\* When the writer has exited, nothing accepted is left behind: each call was made or
\* failed, and only the hand-over to the owner may be missing.
ExitedMeansEmpty == writer = "exited" => Queued \cup Held = {}

\* Every accepted write is somewhere, and counted, until the owner has its answer.
NothingMislaid == TypeOK /\ Accounted /\ ExitedMeansEmpty

\* What the writer runs is sound: on results that exist, in a store that is open, and
\* after the bound at most the one call it had already passed its check for.
CallsSound == ArgumentsWritten /\ StoreClosedUnused /\ OneOverrunAtMost

(* The journal keeps what DurableLog promises.                             *)

StateOf(s) ==
  IF s > Len(tickets) THEN "new"
  ELSE IF tickets[s].done THEN (IF tickets[s].error = "none" THEN "ok" ELSE "failed")
  ELSE IF s \in Finished
       THEN (IF \E i \in DOMAIN completions : completions[i] = [seq |-> s, error |-> "none"]
             THEN "written" ELSE "lost")
  ELSE IF s = hand /\ writer \in {"begin", "inside"} THEN "running"
  ELSE "waiting"

Log == INSTANCE DurableLog WITH
         state <- [s \in 1 .. MaxSubmits |-> StateOf(s)],
         log <- applied,
         cut <- cutoff = "past"

\* Writes take effect one at a time and in submission order, are answered in that
\* order, and none is taken up after the bound.
KeepsLog == Log!LogSpec

(* Liveness.                                                               *)

\* close() returns, even when the writer never leaves the store.
CloseReturns == owner = "join" ~> owner = "closed"

\* While the journal is open every ticket is answered, if the store returns.
TicketsAnswered ==
  StoreReturns => \A s \in 1 .. MaxSubmits : s \in Undrained ~> s \notin Undrained \/ Closed

\* Neither close() nor a ticket waits for ever, each against the store it may have.
NobodyWaits == CloseReturns /\ TicketsAnswered

=============================================================================
